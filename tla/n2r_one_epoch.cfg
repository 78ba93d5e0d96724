SPECIFICATION Spec
CONSTANTS
    k1 = k1
    k2 = k2
    k3 = k3
    ccmc = ccmc
    dapp = dapp
    other = other
    v1 = v1
    v2 = v2
    v3 = v3
    Keys <- MCKeys
    Consensus <- MCConsensus
    Contracts <- MCContracts
    NeoCCMC = ccmc
    NtorContract = dapp
    AnyContract = AnyContract
    NoConsensus = NoConsensus
    NoKey = NoKey
    NoRecord = NoRecord
    Neo <- OneEpoch
    MaxHeight = 5
    GenesisPeer = 1
    GenesisHeight = 4
    NeoStartHeight = 1
    QuickRestart = TRUE
    MaxTxs = 5
    MaxNum = 1
    MaxFaults = 2
    Faults = {"lastBlock", "count", "block", "appLog", "peer", "stateRoot", "proof", "import", "utxo", "exec", "stored", "header", "late", "reorder", "event", "evict", "db", "crash", "otherImport"}
INVARIANTS
    TypeOK
    NothingForgotten
    ProofCoversTransfer
    CheckMatchesTx
PROPERTIES
    LedgerKept
