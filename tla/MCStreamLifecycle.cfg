CONSTANTS
    Keys = {k1}
    Workers = {w1, w2}
    None = None
    MAX_RECV_ZERO = 1
SPECIFICATION FairSpec
INVARIANTS MapsAgree MainUnwrapsState OpenIsRegistered AtMostOneLateCall
PROPERTY TickerEnds
CHECK_DEADLOCK FALSE
