CONSTANTS
    StreamLen = 3
    MaxRead = 3
    MSSes = {1, 2}
    Capacity = 2
    Windows = {0, 1, 2}
    U16_MAX = 2
    RemoteCloses = TRUE
    ReorderAcks = TRUE
    MaxLoss = 0
    MaxErrors = 1
SPECIFICATION Spec
INVARIANTS TypeOK NothingLost PlacedRight SequenceAfterCache FinEndsStream
PROPERTY NeverBack
CHECK_DEADLOCK FALSE
