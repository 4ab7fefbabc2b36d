SPECIFICATION Spec
CONSTANTS
    PacketSizes = {3, 5}
    SegmentSize = 6
    QueueCap = 2
    MaxPackets = 4
    Beyond = Beyond
INVARIANTS
    StreamAligned
    PacketsInOrder
CHECK_DEADLOCK FALSE
