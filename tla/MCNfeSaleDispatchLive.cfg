SPECIFICATION FairSpec
CONSTANTS
    r1 = r1
    r2 = r2
    Child = Child
    Requests = {r1}
    SendLimits = {1, 2}
    AllowRerun = FALSE
    Faulty = {"claim", "load", "smtp", "finalize", "client"}
    MaxFaults = 3
    MaxCount = 4
INVARIANTS
    AutomaticMailsBounded
PROPERTIES
    EligibleIsTaken
CHECK_DEADLOCK FALSE
