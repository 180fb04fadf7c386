SPECIFICATION Spec
CONSTANTS
    base = base
    middle = middle
    top = top
    unknown = unknown
    base1 = base1
    base2 = base2
    baseCyclic = baseCyclic
    middle1 = middle1
    middle2 = middle2
    top1 = top1
    top2 = top2
    topAlone = topAlone
    middleUnknown = middleUnknown
    baseGreedy = baseGreedy
    broken = broken
    fileA = fileA
    fileB = fileB
    fileC = fileC
    Specs <- MCPair
    Texts <- MCTexts
    Variants <- MCVariants
    Parses <- MCParses
    Imports <- MCImports
    Owned <- MCOwned
    Strays <- MCStrays
    InitText <- MCPairText
    Commands = {"all", "one"}
    Faults = {"fail", "hook", "torn", "crash"}
    MaxEdits = 3
    MaxReceipts = 4
VIEW HashesShown
INVARIANTS
    TypeOK
    UpToDateMeansBuilt
    ImportsBuiltFirst
    CompletedLeavesNothingDirty
    NothingDirtyMeansFresh
    OneWriterPerRun
CHECK_DEADLOCK FALSE
