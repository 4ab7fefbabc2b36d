SPECIFICATION Spec
CONSTANTS
    c1 = c1
    c2 = c2
    c3 = c3
    Clients = {c1, c2, c3}
    NoAddress = NoAddress
    MatchSize = 2
    MaxRetry = 1
    MaxMatches = 2
    MaxRequests = 1
    MaxInFlight = 2
SYMMETRY ClientSymmetry
INVARIANTS
    TypeOK
    WelcomesAreExpected
    StartsAreAwaited
    OffsetIsFresh
CHECK_DEADLOCK FALSE
