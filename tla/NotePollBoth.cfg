SPECIFICATION Spec
CONSTANTS
    p1 = p1
    p2 = p2
    Producers <- TwoProducers
    MaxCalls = 2
    WfdMax = 2
    Backends <- Both
INVARIANT NoStrandedNote
PROPERTY HandledIfWoken
PROPERTY ImplementsMailbox
CHECK_DEADLOCK FALSE
