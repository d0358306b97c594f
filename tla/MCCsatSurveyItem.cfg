SPECIFICATION FairSpec
CONSTANTS
    k1 = k1
    k2 = k2
    s1 = s1
    s2 = s2
    Contacts = {k1}
    Slots = {s1, s2}
    None = None
    LeaseLife = 3
    ActivityTimeout = 4
    RetryDelay = 1
    MaxAttempts = 6
    Faulty = {"reserve", "transient", "lost", "store", "crash", "stall"}
    MaxFaults = 2
INVARIANTS
    OutcomeIsTrue
    RepeatsNeedFaults
PROPERTIES
    RowsImplementLease
    EventuallySettled
CHECK_DEADLOCK FALSE
