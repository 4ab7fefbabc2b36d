SPECIFICATION Spec
CONSTANTS
    c1 = c1
    c2 = c2
    c3 = c3
    Clients = {c1, c2}
    NoAddress = NoAddress
    MatchSize = 2
    MaxRetry = 1
    MaxMatches = 1
    MaxRequests = 1
    MaxInFlight = 3
PROPERTY
    PlayingIsKept
CHECK_DEADLOCK FALSE
