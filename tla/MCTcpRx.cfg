CONSTANTS
    StreamLen = 6
    MaxSegment = 3
    RECV_WINDOW = 2
    Wscale = 1
    MAX_RECV_WSCALE = 1
    LOCAL_MTU = 1
SPECIFICATION FairSpec
INVARIANTS AckedIsWritten CountersAgree ShutdownAfterAll OfferedIsAccepted
PROPERTY StreamGetsThrough
CHECK_DEADLOCK FALSE
