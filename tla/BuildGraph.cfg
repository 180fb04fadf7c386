SPECIFICATION FairSpec
CONSTANTS
    a = a
    b = b
    c = c
    unknown = unknown
    Specs <- MCSpecs
    Declared <- MCDeclared
    Hash <- MCHash
    Receipts <- MCReceipts
INVARIANTS
    TypeOK
    PropagationExact
    CyclesReported
    ResultSorted
PROPERTIES
    MakesChoice
    EveryStepAdvances
    Termination
CHECK_DEADLOCK FALSE
