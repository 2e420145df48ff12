SPECIFICATION Spec
CONSTANTS
    Protocols = {"http"}
    Count = 3
    Malformed <- AllGood
    CutBodies = {"http"}
    QueueCap = 1
    Byte = 4
    agentPacketMagic = 154
INVARIANT MessagesInOrder
CHECK_DEADLOCK FALSE
