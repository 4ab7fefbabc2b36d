SPECIFICATION Spec
CONSTANTS
    PacketSizes = {3, 5}
    SegmentSize = 6
    QueueCap = 2
    MaxPackets = 2
    Beyond = Beyond
INVARIANTS
    CompletePacketsExtracted
CHECK_DEADLOCK FALSE
