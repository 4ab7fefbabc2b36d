SPECIFICATION RingFairSpec
CONSTANTS
    v1 = v1
    v2 = v2
    Values = {v1, v2}
    Raw = Raw
    SizeT = 4
    IndexMod = 8
INVARIANTS
    CellAccessSafe
PROPERTIES
    ImplementsFifo
    PublishedIsTaken
CHECK_DEADLOCK FALSE
