CONSTANTS
    a1 = a1
    k2 = k2
    Accounts = {a1}
    ForeignKeys = {k2}
    WalletAddr = WalletAddr
    OtherAddr = OtherAddr
    Pool = Pool
    CertLists <- MCCertLists
    Hashes <- MCHashes
    Amounts = {1}
    EpochLength = 1
    FirstEpoch = 6
    MaxSlot = 11
    MaxBlocks = 1
    MaxEmits = 1
    RewardDelay = 3
    None = None
SPECIFICATION Spec
INVARIANT LastRewardIsLatest
CHECK_DEADLOCK FALSE
