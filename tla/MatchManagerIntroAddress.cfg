SPECIFICATION Spec
CONSTANTS
    s1 = s1
    s2 = s2
    s3 = s3
    a1 = a1
    Sessions = {s1, s2}
    NoSession = NoSession
    Addresses = {a1}
    NoAddress = NoAddress
    MaxMatchPlayer = 2
    TimeoutTicks = 3
    MaxRetry = 1
    MatchIdMod = 3
    RequestQueueCap = 2
    SendQueueCap = 6
    Horizon = 0
    MaxPending = 2
INVARIANTS
    IntroCarriesPeerAddress
