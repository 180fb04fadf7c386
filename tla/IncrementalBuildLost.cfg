SPECIFICATION Spec
CONSTANTS
    base = base
    middle = middle
    top = top
    unknown = unknown
    base1 = base1
    base2 = base2
    baseCyclic = baseCyclic
    middle1 = middle1
    middle2 = middle2
    top1 = top1
    top2 = top2
    topAlone = topAlone
    middleUnknown = middleUnknown
    baseGreedy = baseGreedy
    broken = broken
    fileA = fileA
    fileB = fileB
    fileC = fileC
    Specs <- MCSpecs
    Texts <- MCTexts
    Variants <- MCVariants
    Parses <- MCParses
    Imports <- MCImports
    Owned <- MCOwned
    Strays <- MCNone
    InitText <- MCInitText
    Commands = {"all", "one"}
    Faults = {}
    MaxEdits = 2
    MaxReceipts = 6
INVARIANT
    IdentifiesStaleSpecs
CHECK_DEADLOCK FALSE
