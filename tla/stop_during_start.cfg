CONSTANTS
    Workers = {w1, w2}
    Msgs = {m1}
    Invalid = {}
    Parallel = FALSE
    ParallelTxs = 2
    ChannelCloseHasError = FALSE
    MaxDrops = 1
    UserAwaitsStart = TRUE
    Supervised = TRUE
SPECIFICATION Spec
INVARIANT SupervisorStopLeavesNoWorker
CHECK_DEADLOCK FALSE
