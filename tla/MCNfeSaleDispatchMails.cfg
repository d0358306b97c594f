SPECIFICATION Spec
CONSTANTS
    r1 = r1
    r2 = r2
    Child = Child
    Requests = {}
    SendLimits = {2}
    AllowRerun = FALSE
    Faulty = {"smtp"}
    MaxFaults = 1
    MaxCount = 3
INVARIANTS
    MailedOnceWithoutRequests
CHECK_DEADLOCK FALSE
