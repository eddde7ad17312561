CONSTANTS
    U32_MAX = 60
    MAX_U32_WINDOW_SIZE = 20
    Capacity = 7
    ISN = 7
    StreamLen = 10
    MaxSegment = 4
    OverflowChecks = TRUE
SPECIFICATION Spec
INVARIANTS TypeOK FilledIsHeld SizeSpansArrived
PROPERTY ImplementsReassembly
CHECK_DEADLOCK FALSE
