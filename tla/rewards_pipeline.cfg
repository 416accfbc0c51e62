CONSTANTS
    a1 = a1
    k2 = k2
    Accounts = {a1}
    ForeignKeys = {k2}
    WalletAddr = WalletAddr
    OtherAddr = OtherAddr
    Pool = Pool
    CertLists <- MCCertLists
    Hashes <- MCHashes
    Amounts = {1}
    EpochLength = 1
    FirstEpoch = 0
    MaxSlot = 5
    MaxBlocks = 3
    MaxEmits = 1
    RewardDelay = 3
    None = None
SPECIFICATION FairSpec
PROPERTY FetchShowsEveryEarnedReward DelegationIsFetched
INVARIANT TypeOK
CHECK_DEADLOCK FALSE
