SPECIFICATION Spec
CONSTANTS
    Protocols <- AllProtocols
    Count = 5
    Malformed <- FourthBad
    CutBodies = {"dubbo"}
    QueueCap = 1
    Byte = 4
    agentPacketMagic = 154
INVARIANT TypeOK
INVARIANT MessagesInOrder
INVARIANT ParamIntact
INVARIANT CutsAreCells
INVARIANT FieldsReturn
 
CHECK_DEADLOCK FALSE
