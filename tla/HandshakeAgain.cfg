SPECIFICATION Spec
CONSTANTS
    c1 = c1
    c2 = c2
    c3 = c3
    Clients = {c1, c2}
    NoAddress = NoAddress
    MatchSize = 2
    MaxRetry = 0
    MaxMatches = 2
    MaxRequests = 2
    MaxInFlight = 1
SYMMETRY ClientSymmetry
INVARIANTS
    StartsAreAwaited
    OffsetIsFresh
CHECK_DEADLOCK FALSE
