SPECIFICATION TestSpec
CONSTANTS
    pid1 = pid1
    NoPid = NoPid
    NoState = NoState
    Torn = Torn
    Clients = {test, user}
    Testers = {test}
    KeepRunning = FALSE
    Plans <- MCPlans
    Pids = {pid1, pid2}
    Requests <- MCRequests
    Commands = {"start", "stop", "status"}
    InitFile <- MCRunning
    InitProcs <- MCOneProcess
    Faults = {"spawn", "save", "crash"}
VIEW MCView
INVARIANTS
    TestTypeOK
    TestCleansUp
    TestStopsItsOwn
PROPERTIES
    VerdictRight
CHECK_DEADLOCK FALSE
