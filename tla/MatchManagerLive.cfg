SPECIFICATION FairSpec
CONSTANTS
    s1 = s1
    s2 = s2
    s3 = s3
    a1 = a1
    Sessions = {s1}
    NoSession = NoSession
    Addresses = {a1}
    NoAddress = NoAddress
    MaxMatchPlayer = 1
    TimeoutTicks = 4
    MaxRetry = 1
    MatchIdMod = 4
    RequestQueueCap = 1
    SendQueueCap = 2
    Horizon = 0
    MaxPending = 2
INVARIANTS
    NoIdCollision
    IntroReachesPlayers
PROPERTIES
    MatchesResolve
