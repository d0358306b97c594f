SPECIFICATION Spec
CONSTANTS
    worker = worker
    other = other
    m1 = m1
    m2 = m2
    lease1 = lease1
    lease2 = lease2
    Processes = {worker}
    LeaseColumns = {lease1}
    MaxBreaks = 0
    Mails = {}
    MaxSends = 0
    Main = worker
    Kinds = {"control", "ixc"}
    Together = {}
    CacheTTL = 1
    MaxNow = 2
    MaxFailures = 0
INVARIANTS
    ReadyWhenRunning
CHECK_DEADLOCK FALSE
