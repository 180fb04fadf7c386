SPECIFICATION Spec
CONSTANTS
    mine = mine
    fresh = fresh
    lib = lib
    theirs = theirs
    free = free
    old = old
    new = new
    spec = spec
    other = other
    Absent = Absent
    Torn = Torn
    Paths <- MCPaths
    Contents <- MCContents
    Self = spec
    Owned <- MCOwned
    Shared = {}
    Readonly <- MCReadonly
    Ownership <- MCOwnership
    InitFiles <- MCInitFiles
    Options <- MCOptions
    CoverageTarget = 2
    CoverageLevels = {0, 1, 2}
    PatchSets <- MCPatchSets
    InPlace = {mine}
    Hooks = {"post_apply", "post_test"}
    Faults = {"capture", "apply", "artifacts", "receipt", "restore", "crash"}
CONSTRAINT OneAttemptOnDamage
INVARIANTS
    TypeOK
    FailedAttemptUndone
    SuccessIsVerified
    RepairContextIsFresh
    RetriesAccounted
    ResultMatchesReceipt
    ProtectedFilesKept
    NoStaleOwnedFiles
    ChangedFilesComplete
    ReceiptImpliesArtifacts
    EvidenceFromOneAttempt
CHECK_DEADLOCK FALSE
