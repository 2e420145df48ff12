SPECIFICATION Spec
CONSTANTS
    c1 = c1
    c2 = c2
    c3 = c3
    c4 = c4
    g1 = g1
    g2 = g2
    Kinds <- BothKinds
    Conns <- FourConns
    Callers <- TwoCallers
    MaxCalls = 1
    Default = 2
SYMMETRY Symmetry
INVARIANT TypeOK
INVARIANT OpenIsPooled
CHECK_DEADLOCK FALSE
