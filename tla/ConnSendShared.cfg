SPECIFICATION Spec
CONSTANTS
    s1 = s1
    s2 = s2
    Senders <- TwoSenders
    MaxSends <- TwoAndOne
    Room = 2
    CanReset = TRUE
INVARIANT TypeOK
 
PROPERTY SendReturns
CHECK_DEADLOCK FALSE
