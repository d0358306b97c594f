SPECIFICATION FairSpec
CONSTANTS
    worker = worker
    other = other
    m1 = m1
    m2 = m2
    lease1 = lease1
    lease2 = lease2
    Processes = {worker, other}
    LeaseColumns = {lease1, lease2}
    MaxBreaks = 1
    Mails = {m1, m2}
    MaxSends = 2
    Main = worker
    Kinds = {"control", "ixc", "smtp", "erp-read", "opa", "api"}
    Together = {"control"}
    CacheTTL = 1
    MaxNow = 2
    MaxFailures = 1
INVARIANTS
    SchemaReady
    DuplicatesRefused
    EndedIsClosed
    ExitCodeIsTrue
    
    OpenIsCached
    NeighboursAreRetried
    CopiesNeedDoubt
PROPERTIES
    SignalEnds
    EveryoneMigrates
CHECK_DEADLOCK FALSE
