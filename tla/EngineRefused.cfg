SPECIFICATION Spec
CONSTANTS
    Players = {1, 2}
    Me = 1
    Intents = {"JUMP"}
    Codes = {"GLFW_KEY_SPACE"}
    Keys = {"SpaceBar", "E"}
    UNKNOWN = "UNKNOWN"
    KeyOfCode <- MCKeyOfCode
    KeyIntents <- MCKeyIntents
    PeerInputs <- MCPeerInputs
    ROLLBACK_WINDOW = 2
    MAX_SIMULATION_NUM = 3
    MaxLate = 1
    MaxAhead = 0
    MaxTick = 3
    MaxStates = 2
    MaxChangeTick = 2
    MaxEvents = 2
INVARIANTS TypeOK SnapshotsCoverWindow WorldFollowsTimelines HeardIsApplied
PROPERTY PressesReachWorld
CHECK_DEADLOCK FALSE
