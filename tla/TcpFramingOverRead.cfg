SPECIFICATION Spec
CONSTANTS
    PacketSizes = {3, 5}
    SegmentSize = 6
    QueueCap = 2
    MaxPackets = 2
    Beyond = Beyond
INVARIANTS
    CopyStaysInBuffer
CHECK_DEADLOCK FALSE
