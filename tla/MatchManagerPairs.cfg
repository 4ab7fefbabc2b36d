SPECIFICATION Spec
CONSTANTS
    s1 = s1
    s2 = s2
    s3 = s3
    a1 = a1
    Sessions = {s1, s2}
    NoSession = NoSession
    Addresses = {a1}
    NoAddress = NoAddress
    MaxMatchPlayer = 2
    TimeoutTicks = 5
    MaxRetry = 1
    MatchIdMod = 5
    RequestQueueCap = 1
    SendQueueCap = 4
    Horizon = 6
    MaxPending = 2
SYMMETRY SessionSymmetry
INVARIANTS
    FullRoster
    NobodyForgotten
    LiveRequestsQueued
PROPERTIES
    PriorityServed
    StartsOnlyReportedMatches
    ImplementsService
