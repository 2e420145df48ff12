SPECIFICATION Spec
CONSTANTS
    c1 = c1
    c2 = c2
    p1 = p1
    p2 = p2
    r1 = r1
    r2 = r2
    r3 = r3
    Consumers <- OneConsumer
    Providers <- TwoProviders
    Requests <- ThreeRequests
    At <- AtOne
    Lossy = TRUE
INVARIANT TypeOK
 
INVARIANT MapsDrain
 
PROPERTY RequestsDecided
CHECK_DEADLOCK FALSE
