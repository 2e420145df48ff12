SPECIFICATION AcceptSpec
CONSTANTS
    d1 = d1
    d2 = d2
    Kinds <- AllKinds
    NumListeners = 2
    NumLoops = 2
    HasTick = TRUE
    TickShutdown = TRUE
    Balances <- AllBalances
    MaxClients = 2
    Dialers <- OneDialer
INVARIANT AcceptTypeOK
INVARIANT ClosedAfterJoin
INVARIANT TurnsRotate
INVARIANT CountsLevel
CHECK_DEADLOCK FALSE
 
 
PROPERTY ClientsTaken
 
