SPECIFICATION Spec
CONSTANTS
    NoPid = NoPid
    NoState = NoState
    Torn = Torn
    Clients = {c1, c2}
    Pids = {pid1, pid2}
    Requests <- MCRequests
    Commands = {"start", "stop", "status"}
    InitFile = NoState
    InitProcs <- MCNothing
    Faults = {"spawn", "docker", "save", "stuck", "child", "reuse", "crash"}
SYMMETRY MCSymmetry
VIEW MCView
INVARIANTS
    TypeOK
    OneService
    ServiceTracked
PROPERTIES
    StoppedMeansGone
CHECK_DEADLOCK FALSE
