CONSTANTS
    Workers = {w1, w2}
    Msgs = {m1, m2}
    Invalid = {m2}
    Parallel = FALSE
    ParallelTxs = 2
    ChannelCloseHasError = FALSE
    MaxDrops = 1
    UserAwaitsStart = TRUE
    Supervised = FALSE
SPECIFICATION Spec
INVARIANT RepliesMatchUpstream NoMessageLost
CHECK_DEADLOCK FALSE
