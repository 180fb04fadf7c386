SPECIFICATION TestSpec
CONSTANTS
    pid1 = pid1
    NoPid = NoPid
    NoState = NoState
    Torn = Torn
    Clients = {test}
    Testers = {test}
    KeepRunning = FALSE
    Plans <- MCEnglish
    Pids = {pid1, pid2}
    Requests <- MCRequests
    Commands = {"start", "stop", "status"}
    InitFile <- MCRunning
    InitProcs <- MCOneProcess
    Faults = {}
PROPERTIES
    DocumentedLinesPass
CHECK_DEADLOCK FALSE
