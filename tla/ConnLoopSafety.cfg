SPECIFICATION Spec
CONSTANTS
    c1 = c1
    c2 = c2
    Conns <- TwoConns
    Modes <- BothModes
    UserActions <- AllActions
    HasDetached = TRUE
    MaxIn = 1
    Space = 1
SYMMETRY Symmetry
INVARIANT TypeOK
INVARIANT CallbackOrder
INVARIANT BufferedIsWatched
 
CHECK_DEADLOCK FALSE
