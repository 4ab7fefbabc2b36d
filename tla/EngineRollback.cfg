SPECIFICATION Spec
CONSTANTS
    Players = {1, 2}
    Me = 1
    Intents = {"JUMP"}
    Codes = {"GLFW_KEY_SPACE"}
    Keys = {"SpaceBar", "E"}
    UNKNOWN = "UNKNOWN"
    KeyOfCode <- MCKeyOfCode
    KeyIntents <- MCKeyIntents
    PeerInputs <- MCPeerInputs
    ROLLBACK_WINDOW = 4
    MAX_SIMULATION_NUM = 3
    MaxLate = 2
    MaxAhead = 1
    MaxTick = 3
    MaxStates = 2
    MaxChangeTick = 2
    MaxEvents = 2
INVARIANTS
    SnapshotsCoverWindow
    WorldFollowsTimelines
    HeardIsApplied
PROPERTIES
    PressesReachWorld
CHECK_DEADLOCK FALSE
