SPECIFICATION Spec
CONSTANTS
    r1 = r1
    r2 = r2
    Child = Child
    Requests = {r1}
    SendLimits = {2}
    AllowRerun = FALSE
    Faulty = {}
    MaxFaults = 0
    MaxCount = 3
INVARIANTS
    InProgressIsAttempted
CHECK_DEADLOCK FALSE
