SPECIFICATION FairSpec
CONSTANTS
    k1 = k1
    k2 = k2
    k3 = k3
    ccm = ccm
    proxy = proxy
    other = other
    Keys <- MCThreeKeys
    Contracts <- MCContracts
    CrossChainManager = ccm
    NeoChainID = 4
    RtonContract = proxy
    AnyContract = AnyContract
    NoKey = NoKey
    NoRecord = NoRecord
    Poly <- TwoEpochs
    MaxHeight = 4
    GenesisHeight = 2
    PolyStartHeight = 1
    ChangeBookkeeper = TRUE
    Coins <- EightCoins
    Fee = 3
    MaxTxs = 7
    MaxNum = 5
    MaxFaults = 2
    Faults = {"events", "synced", "proof", "rpc", "otherExec", "block"}
INVARIANTS
    NothingForgotten
    KeepersSynced
    ProofsVerify
PROPERTIES
    AllRelayed
