\* keyAgentById hands a test the key agent of another account index.
CONSTANTS
    Wallets = {w1}
    WalletIdx <- MCWalletIdx
    EnvProvider <- MCEnvProvider
    EnvKeyProvider = "inMemory"
    EnvParams = envParams
    HasBaseUrl = TRUE
    HasApiKey = TRUE
    Indices = {0, 1}
    KeyProviders = {"inMemory", "ledger"}
    ParamObjs = {testParams}
    MaxCalls = 3
    None = None
SPECIFICATION Spec
INVARIANT KeyAgentByIdMatches
