SPECIFICATION Spec
CONSTANTS
    p1 = p1
    p2 = p2
    Producers <- TwoProducers
    MaxCalls = 2
    WfdMax = 2
    Backends <- Epoll
PROPERTY EveryNoteHandled
CHECK_DEADLOCK FALSE
