SPECIFICATION Spec
CONSTANTS
    Base = 4
    HashSize = 3
    NoContract = NoContract
    MaxTransfers = 9
    Answers <- MCAnswers
    Blocks <- MCBlocks
    Contracts <- MCContracts
    Unlock <- MCUnlock
INVARIANTS
    EveryNodeHashed
    RefusedForCause
    RightVerdict
    FieldsFaithful
CHECK_DEADLOCK FALSE
