CONSTANTS
    Keys = {k1}
    Workers = {w1, w2}
    None = None
    MAX_RECV_ZERO = 1
SPECIFICATION Spec
INVARIANT TasksUnwrapState
CHECK_DEADLOCK FALSE
