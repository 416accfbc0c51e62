CONSTANTS
    Workers = {w1, w2}
    Msgs = {m1}
    Invalid = {}
    Parallel = TRUE
    ParallelTxs = 2
    ChannelCloseHasError = FALSE
    MaxDrops = 1
    UserAwaitsStart = TRUE
    Supervised = FALSE
SPECIFICATION Spec
INVARIANT AcceptedNeverReportedFailed
CHECK_DEADLOCK FALSE
