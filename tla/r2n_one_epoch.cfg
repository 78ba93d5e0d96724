SPECIFICATION Spec
CONSTANTS
    k1 = k1
    k2 = k2
    k3 = k3
    ccm = ccm
    proxy = proxy
    other = other
    Keys <- MCKeys
    Contracts <- MCContracts
    CrossChainManager = ccm
    NeoChainID = 4
    RtonContract = proxy
    AnyContract = AnyContract
    NoKey = NoKey
    NoRecord = NoRecord
    Poly <- OneEpoch
    MaxHeight = 2
    GenesisHeight = 2
    PolyStartHeight = 1
    ChangeBookkeeper = TRUE
    Coins <- Savings
    Fee = 3
    MaxTxs = 5
    MaxNum = 1
    MaxFaults = 2
    Faults = {"count", "events", "synced", "proof", "rpc", "db", "send", "resend", "late", "evict", "otherExec", "block", "crash"}
INVARIANTS
    NothingForgotten
    SentPerFailure
PROPERTIES
    LedgerKept
