CONSTANTS
    U32_MAX = 60
    MAX_U32_WINDOW_SIZE = 20
    Capacity = 3
    ISN = 7
    StreamLen = 4
    MaxAppend = 3
    MAX_TICKS = 3
    None = None
    INITIAL_RTO = 1000
    MIN_RTO = 1000
    MAX_RTO = 3000
    U64_MAX = 100000
    TICK_INTERVAL = 1500
    Rtts = {300, 2400}
SPECIFICATION Spec
INVARIANTS ClocksInside RetransAhead RtoCoversSample
PROPERTY ImplementsByteQueue
