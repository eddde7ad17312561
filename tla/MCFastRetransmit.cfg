CONSTANTS
    U32_MAX = 60
    MAX_U32_WINDOW_SIZE = 20
    First = 7
    Count = 5
    DUPLICATES_THRESHOLD = 3
    RETRANS_COOL_DOWN = 1
    MaxAcks = 2
    MaxLoss = 1
    MaxOdd = 1
SPECIFICATION FastFairSpec
INVARIANT ResendsMissing
PROPERTY LossRepaired
CHECK_DEADLOCK FALSE
