SPECIFICATION FairSpec
CONSTANTS
    c1 = c1
    c2 = c2
    c3 = c3
    h1 = h1
    h2 = h2
    Callers = {c1, c2, c3}
    NoCaller = NoCaller
    Hashes = {h1, h2}
    NoHash = NoHash
    PayloadHash <- MCPayloadHash
    Skew <- MCSkew
    TTL = 1
    MaxReloads = 2
    MaxTime = 3
INVARIANTS
    AtMostOneLiveHolder
    AnswersAgree
    ResultFromLatestLease
    NeverNotFinalized
PROPERTIES
    VerdictIsFinal
    PayloadNeverChanges
    ImplementsLease
    ExecutionsEnd
CHECK_DEADLOCK FALSE
