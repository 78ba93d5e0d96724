SPECIFICATION FairSpec
CONSTANTS
    k1 = k1
    k2 = k2
    k3 = k3
    ccm = ccm
    proxy = proxy
    other = other
    Keys <- MCThreeKeys
    Contracts <- MCContracts
    CrossChainManager = ccm
    NeoChainID = 4
    RtonContract = proxy
    AnyContract = AnyContract
    NoKey = NoKey
    NoRecord = NoRecord
    Poly <- Rush
    MaxHeight = 3
    GenesisHeight = 2
    PolyStartHeight = 1
    ChangeBookkeeper = FALSE
    Coins <- TwoCoins
    Fee = 3
    MaxTxs = 5
    MaxNum = 1
    MaxFaults = 3
    Faults = {"count", "events", "synced", "proof", "rpc", "send", "resend", "evict", "otherExec"}
INVARIANTS
    SentOnce
PROPERTIES
    AllRelayed
    RetryDrains
