SPECIFICATION Spec
CONSTANTS
    k1 = k1
    k2 = k2
    k3 = k3
    ccm = ccm
    proxy = proxy
    other = other
    Keys <- MCKeys
    Contracts <- MCContracts
    CrossChainManager = ccm
    NeoChainID = 4
    RtonContract = proxy
    AnyContract = AnyContract
    NoKey = NoKey
    NoRecord = NoRecord
    Poly <- BusyHandover
    MaxHeight = 3
    GenesisHeight = 3
    PolyStartHeight = 1
    ChangeBookkeeper = TRUE
    Coins <- OneCoin
    Fee = 3
    MaxTxs = 4
    MaxNum = 5
    MaxFaults = 0
    Faults = {}
INVARIANTS
    KeepersSynced
