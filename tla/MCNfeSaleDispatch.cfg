SPECIFICATION Spec
CONSTANTS
    r1 = r1
    r2 = r2
    Child = Child
    Requests = {r1, r2}
    SendLimits = {2}
    AllowRerun = FALSE
    Faulty = {"lock", "claim", "load", "smtp", "finalize", "start", "client"}
    MaxFaults = 2
    MaxCount = 3
SYMMETRY RequestSymmetry
INVARIANTS
    
    RepeatedMailsNeedFaults
    SentWasMailed
    PendingMeansUntried

    
CHECK_DEADLOCK FALSE
