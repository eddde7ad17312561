CONSTANTS
    U32_MAX = 60
    MAX_U32_WINDOW_SIZE = 20
    Capacity = 5
    ISN = 7
    StreamLen = 7
    MaxSegment = 3
    OverflowChecks = TRUE
SPECIFICATION Spec
INVARIANT NeverPanics
CHECK_DEADLOCK FALSE
