SPECIFICATION Spec
CONSTANTS
    mine = mine
    fresh = fresh
    lib = lib
    theirs = theirs
    free = free
    old = old
    new = new
    spec = spec
    other = other
    Absent = Absent
    Torn = Torn
    Paths <- MCPaths
    Contents <- MCContents
    Self = spec
    Owned <- MCOwned
    Shared = {}
    Readonly <- MCReadonly
    Ownership <- MCOwnership
    InitFiles <- MCInitFiles
    Options <- MCOneRetry
    CoverageTarget = 2
    CoverageLevels = {0, 1, 2}
    PatchSets <- MCFewPatches
    InPlace = {mine}
    Hooks = {}
    Faults = {}
INVARIANT
    FailedBuildLeavesWorkspace
CHECK_DEADLOCK FALSE
