SPECIFICATION FairSpec
CONSTANTS
    walker = walker
    jumper = jumper
    box = box
    ghost = ghost
    Entities = {walker, jumper, box, ghost}
    Players = {walker, jumper}
    Colliders <- MCColliders
    Quarter = {walker}
    Layers = {"Default", "None"}
    Default = "Default"
    Starts <- MCStarts
    Lowest <- MCLowest
    Records <- MCRecords
    Straight = 2
    Diagonal = 1
    JumpSpeed = 2
    Gravity = 1
    JUMP_COUNT_MAX = 2
    ROLLBACK_WINDOW = 2
    Arena <- MCArena
INVARIANTS
    FindsTouchingPairs
    AirborneMeansJumping
    DrawsWhatWasSimulated
PROPERTIES
    ImplementsCollision
    EveryJumpLands
