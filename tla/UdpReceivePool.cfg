SPECIFICATION Spec
CONSTANTS
    c1 = c1
    c2 = c2
    c3 = c3
    c4 = c4
    d1 = d1
    d2 = d2
    Chunks = {c1, c2, c3, c4}
    Datagrams = {d1, d2}
    Link = Link
    NullPtr = NullPtr
    QueueCap = 4
SYMMETRY ReceiveSymmetry
INVARIANTS
    PoolConsistent
    OneOwner
    PacketsIntact
PROPERTIES
    NothingDropped
CHECK_DEADLOCK FALSE
