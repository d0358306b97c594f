SPECIFICATION Spec
CONSTANTS
    r1 = r1
    r2 = r2
    Child = Child
    Requests = {r1}
    SendLimits = {2}
    AllowRerun = FALSE
    Faulty = {"start"}
    MaxFaults = 1
    MaxCount = 3
INVARIANTS
    EligibleIsStartable
CHECK_DEADLOCK FALSE
