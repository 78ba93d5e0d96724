SPECIFICATION FairSpec
CONSTANTS
    k1 = k1
    k2 = k2
    k3 = k3
    ccmc = ccmc
    dapp = dapp
    other = other
    v1 = v1
    v2 = v2
    v3 = v3
    Keys <- MCThreeKeys
    Consensus <- MCConsensus
    Contracts <- MCContracts
    NeoCCMC = ccmc
    NtorContract = AnyContract
    AnyContract = AnyContract
    NoConsensus = NoConsensus
    NoKey = NoKey
    NoRecord = NoRecord
    Neo <- ThreeEpochs
    MaxHeight = 4
    GenesisPeer = 0
    GenesisHeight = 2
    NeoStartHeight = 1
    QuickRestart = FALSE
    MaxTxs = 7
    MaxNum = 5
    MaxFaults = 2
    Faults = {"lastBlock", "count", "block", "appLog", "peer", "proof", "import", "stored", "event", "crash", "otherImport"}
INVARIANTS
    NothingForgotten
    CursorInStep
    KeyHeadersSynced
    ImportsVerify
PROPERTIES
    AllRelayed
