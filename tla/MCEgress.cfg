CONSTANTS
    Datagrams = {8, 48, 49, 55, 56, 57, 63, 96, 97, 103, 104, 105, 110, 112, 144}
    Payloads = {1, 27, 28, 29, 36, 37, 56, 57, 84}
    LOCAL_MTU = 76
    Mtus = {68, 69, 71, 80}
    MaxSacks = 5
    U16_MAX = 7
    MAX_MSS = 65535
    MaxCalls = 3
    MaxErrors = 1
SPECIFICATION FairSpec
INVARIANTS Reassemblable FitsSource LastFragmentFilled FreshIdentification HeaderReads
PROPERTIES LoopEnds
CHECK_DEADLOCK FALSE
