CONSTANTS
    StreamLen = 2
    MaxRead = 2
    MSSes = {1}
    Capacity = 2
    Windows = {1, 2}
    U16_MAX = 2
    RemoteCloses = TRUE
    ReorderAcks = FALSE
    MaxLoss = 1
    MaxErrors = 1
    U32_MAX = 60
    MAX_U32_WINDOW_SIZE = 20
    MAX_TICKS = 2
    None = None
SPECIFICATION FairSpec
INVARIANT WithinGrant
PROPERTY ReceivedUnlessSpread
CHECK_DEADLOCK FALSE
