CONSTANTS
    Workers = {w1, w2}
    Msgs = {m1, m2}
    Invalid = {m2}
    Parallel = FALSE
    ParallelTxs = 2
    ChannelCloseHasError = FALSE
    MaxDrops = 1
    UserAwaitsStart = TRUE
    Supervised = TRUE
SPECIFICATION FairSpec
INVARIANT OneActiveWorker
PROPERTY ErrorLeadsToIdle DeliveredIsSettled FailedWorkerIsReplaced
CHECK_DEADLOCK FALSE
