SPECIFICATION PipelineSpec
CONSTANTS
    Customers = {1, 2}
    Sales = {1}
    Buyer <- FirstBuys
    Clients = {r1}
    WindowDays = 1
    MaxConcurrentChildren = 1
    MaxSendAttempts = 2
    AllowRerun = FALSE
    MaxDay = 2
    MaxNow = 5
    MaxIds = 2
    MaxRuns = 4
    MaxFaults = 1
CHECK_DEADLOCK FALSE
INVARIANTS PipelineTypeOK SuccessIsComplete   ParentsNeverStall
