\* Two scheduled triggers with their recoveries, two items, up to two faults.
SPECIFICATION FairSpec
CONSTANTS
    Triggers = {1, 2}
    Items = {1, 2}
    MaxTries = 3
    MaxFaults = 2
INVARIANTS
    DefeatLeavesRecovery
    RecoveryIsReplaced
    FailuresAreRegistered
    OrdersNeedDoubt
    ClosedForAReason
PROPERTIES
    RunsEnd
