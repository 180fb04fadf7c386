SPECIFICATION Spec
CONSTANTS
    fileA = fileA
    fileB = fileB
    code = code
    generated = generated
    NoPath = NoPath
    NoFile = NoFile
    Cut = Cut
    Paths <- MCPaths
    Texts <- MCTexts
    Answers <- MCAnswers
    MockPatch <- MCMockPatch
    Faults = {"read", "remove"}
    MaxCalls = 2
INVARIANTS
    TypeOK
    BlocksExact
    AnswerIsFresh
PROPERTIES KeepsContract
CHECK_DEADLOCK FALSE
