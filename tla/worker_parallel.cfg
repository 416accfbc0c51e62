CONSTANTS
    Workers = {w1, w2}
    Msgs = {m1, m2, m3}
    Invalid = {m3}
    Parallel = TRUE
    ParallelTxs = 2
    ChannelCloseHasError = FALSE
    MaxDrops = 1
    UserAwaitsStart = TRUE
    Supervised = FALSE
SPECIFICATION Spec
INVARIANT TypeOK StopDrainsHandlers
CHECK_DEADLOCK FALSE
PROPERTY TxSubmissionSpec
