SPECIFICATION Spec
CONSTANTS
    s1 = s1
    s2 = s2
    s3 = s3
    a1 = a1
    Sessions = {s1, s2, s3}
    NoSession = NoSession
    Addresses = {a1}
    NoAddress = NoAddress
    MaxMatchPlayer = 2
    TimeoutTicks = 3
    MaxRetry = 1
    MatchIdMod = 3
    RequestQueueCap = 1
    SendQueueCap = 4
    Horizon = 4
    MaxPending = 3
SYMMETRY SessionSymmetry
INVARIANTS
    TypeOK
    FullRoster
    AcksAreReported
    NobodyForgotten
    LiveRequestsQueued
PROPERTIES
    StartsOnlyReportedMatches
    PriorityServed
