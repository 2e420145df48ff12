SPECIFICATION Spec
CONSTANTS
    c1 = c1
    c2 = c2
    c3 = c3
    Conns <- ThreeConns
    Weights <- SomeWeights
    Uses <- BothUses
    W = 16
INVARIANT InStep
INVARIANT WeightsAligned
PROPERTY EveryMemberServed
