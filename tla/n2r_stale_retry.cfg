SPECIFICATION Spec
CONSTANTS
    k1 = k1
    k2 = k2
    k3 = k3
    ccmc = ccmc
    dapp = dapp
    other = other
    v1 = v1
    v2 = v2
    v3 = v3
    Keys <- MCKeys
    Consensus <- MCConsensus
    Contracts <- MCContracts
    NeoCCMC = ccmc
    NtorContract = AnyContract
    AnyContract = AnyContract
    NoConsensus = NoConsensus
    NoKey = NoKey
    NoRecord = NoRecord
    Neo <- TwoEpochs
    MaxHeight = 3
    GenesisPeer = 0
    GenesisHeight = 3
    NeoStartHeight = 1
    QuickRestart = FALSE
    MaxTxs = 4
    MaxNum = 5
    MaxFaults = 1
    Faults = {"utxo"}
INVARIANTS
    NothingForgotten
