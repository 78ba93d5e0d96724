SPECIFICATION FairSpec
CONSTANTS
    k1 = k1
    k2 = k2
    k3 = k3
    ccmc = ccmc
    dapp = dapp
    other = other
    v1 = v1
    v2 = v2
    v3 = v3
    Keys <- MCKeys
    Consensus <- MCConsensus
    Contracts <- MCContracts
    NeoCCMC = ccmc
    NtorContract = dapp
    AnyContract = AnyContract
    NoConsensus = NoConsensus
    NoKey = NoKey
    NoRecord = NoRecord
    Neo <- OneBlock
    MaxHeight = 2
    GenesisPeer = 0
    GenesisHeight = 2
    NeoStartHeight = 1
    QuickRestart = TRUE
    MaxTxs = 6
    MaxNum = 2
    MaxFaults = 3
    Faults = {"empty", "stateRoot", "proof", "import", "utxo", "exec", "event", "evict", "db", "otherImport"}
PROPERTIES
    DebtsPaid
    BucketsDrain
