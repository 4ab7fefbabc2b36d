SPECIFICATION PacketsSpec
CONSTANTS
    Word = 256
    ByteBits = 2
    MAX_PACKET_SIZE = 28
    U8 = 3
    U16 = 15
    U32 = 255
    TcpCount = 8
    UdpCount = 3
    IntentCount = 5
    MaxMatchPlayer = 2
    Parts = {"size", "type", "nameSize", "char", "port", "matchId", "playerId", "addr", "playerNum", "myId", "time", "tick", "down", "held"}
    Names <- MCNames
    Ports <- MCPorts
    MatchIds <- MCMatchIds
    Times <- MCTimes
    Intents <- MCIntents
    Conns <- MCConns
    Messages <- Built
INVARIANTS
    ReaderInStep
    ValuesSurvive
    ReadsStayInside
    HandlersReadTheirParts
PROPERTIES
    ImplementsCodec
CHECK_DEADLOCK FALSE
