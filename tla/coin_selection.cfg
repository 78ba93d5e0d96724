SPECIFICATION Spec
CONSTANTS
    Unit = 10
    MaxLength = 4
    MaxValue = 5
    Lists <- MCLists
    Upto <- MCUpto
    Amounts <- MCAmounts
    Errors <- MCErrors
INVARIANTS
    CoversAmount
    NoCoinTwice
    EveryInputNeeded
    TakesChosen
CHECK_DEADLOCK FALSE
