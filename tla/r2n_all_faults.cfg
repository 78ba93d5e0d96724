SPECIFICATION Spec
CONSTANTS
    k1 = k1
    k2 = k2
    k3 = k3
    ccm = ccm
    proxy = proxy
    other = other
    Keys <- MCKeys
    Contracts <- MCContracts
    CrossChainManager = ccm
    NeoChainID = 4
    RtonContract = proxy
    AnyContract = AnyContract
    NoKey = NoKey
    NoRecord = NoRecord
    Poly <- Handover
    MaxHeight = 2
    GenesisHeight = 2
    PolyStartHeight = 1
    ChangeBookkeeper = TRUE
    Coins <- Purse
    Fee = 3
    MaxTxs = 4
    MaxNum = 1
    MaxFaults = 2
    Faults = {"count", "events", "block", "synced", "proof", "rpc", "db", "send", "resend", "keepers", "late", "evict", "otherExec", "crash"}
INVARIANTS
    TypeOK
    ProofsCover
    MarksJustified
