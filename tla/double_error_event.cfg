CONSTANTS
    Workers = {w1}
    Msgs = {m1}
    Invalid = {}
    Parallel = FALSE
    ParallelTxs = 2
    ChannelCloseHasError = FALSE
    MaxDrops = 1
    UserAwaitsStart = TRUE
    Supervised = FALSE
SPECIFICATION Spec
INVARIANT EmitAtMostOnce
CHECK_DEADLOCK FALSE
