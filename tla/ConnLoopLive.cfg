SPECIFICATION DrainSpec
CONSTANTS
    c1 = c1
    c2 = c2
    Conns <- TwoConns
    Modes <- Dialing
    UserActions <- DetachActions
    HasDetached = FALSE
    MaxIn = 1
    Space = 1
PROPERTY PeerGoneCloses
PROPERTY OutputFlushed
 
CHECK_DEADLOCK FALSE
