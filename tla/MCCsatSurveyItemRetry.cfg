SPECIFICATION Spec
CONSTANTS
    k1 = k1
    k2 = k2
    s1 = s1
    s2 = s2
    Contacts = {k1}
    Slots = {s1, s2}
    None = None
    LeaseLife = 3
    ActivityTimeout = 4
    RetryDelay = 1
    MaxAttempts = 6
    Faulty = {"transient"}
    MaxFaults = 1
INVARIANTS
    TransientSendIsRetried
CHECK_DEADLOCK FALSE
