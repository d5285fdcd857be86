SPECIFICATION Spec
CONSTANTS
    w1 = w1
    w2 = w2
    r1 = r1
    a = a
    b = b
    Request <- MCRequest
    Writing <- MCWriting
    Server <- MCServer
    Skew <- MCSkew
    Second = 2
    TTL = 2
    Lag = 2
    Horizon = 5
INVARIANT SeesOwnWrites
PROPERTY PromotionEnds
