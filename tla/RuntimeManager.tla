--------------------------- MODULE RuntimeManager ---------------------------
(***************************************************************************)
(* The managed runtime of one specification (internal/runtime): Start,     *)
(* Stop and Status of manager.go over the state file of store.go, called   *)
(* by CLI processes that share nothing but that file, the operating        *)
(* system's processes and the Docker daemon.                               *)
(*                                                                         *)
(* A call is cut wherever it waits or touches something shared; to save    *)
(* its record it empties the state file in one step and writes it in       *)
(* another (os.WriteFile).  Nothing locks the file, so the steps of two    *)
(* calls interleave freely.  A deadline is a step that may always be       *)
(* taken.  One read or write of the file, a command of `docker', and the   *)
(* signal to a process group are single steps.                             *)
(*                                                                         *)
(* Not represented: logs, events, timestamps and the health recorded with  *)
(* the status.  A health check is a verdict that may be wrong, because any *)
(* server on the port can answer it.                                       *)
(***************************************************************************)
EXTENDS Naturals, FiniteSets

CONSTANTS
    Clients,   \* CLI processes
    Pids,      \* process ids
    NoPid,     \* PID 0, the state of a container or of a failed start
    NoState,   \* the state file is missing or empty
    Torn,      \* it holds something that cannot be parsed
    Requests,  \* what `run' may find: the mode of --mode and of the specification,
               \* "" for none; whether the specification says anything about a
               \* container, about a process, and gives the URL that may be for
               \* either; whether the project has a Dockerfile; and whether a command
               \* can be inferred from the language
    Commands,  \* the calls clients make: "start", "stop", "status"
    InitFile,  \* the state file at the start
    InitProcs, \* the processes at the start
    Faults     \* "spawn", "docker", "save", "stuck", "child", "reuse", "crash"

States ==
    [mode: {"process", "docker"}, status: {"running", "stopped", "unknown"},
     pid: Pids \cup {NoPid}]

State(mode, status, pid) == [mode |-> mode, status |-> status, pid |-> pid]
NotLoaded == State("process", "stopped", NoPid)

ASSUME RuntimeManagerAssumption ==
    /\ NoPid \notin Pids /\ {NoState, Torn} \cap States = {} /\ Torn # NoState
    /\ Requests \subseteq
          [asked: STRING, mode: STRING, docker: BOOLEAN, process: BOOLEAN, healthURL: BOOLEAN,
           dockerfile: BOOLEAN, inferred: BOOLEAN]
    /\ InitFile \in States \cup {NoState}
    /\ InitProcs \in [Pids -> SUBSET {"leader", "child", "stranger"}]

\* What runs at the start was left by a call that saved it.
ASSUME InitTrackedAssumption ==
    \A p \in Pids :
        /\ "child" \notin InitProcs[p]
        /\ "leader" \in InitProcs[p] => InitFile = State("process", "running", p)

VARIABLES
    file,       \* the state file
    procs,      \* who is alive under a process id: the leader and the child of
                \* a service's process group, or a stranger that reuses the id
    container,  \* the container under the service's name
    op,         \* the call a client is in
    pc,         \* its next step
    local,      \* its *State
    want,       \* the mode its Start resolved
    ret,        \* what its last call returned
    mishap      \* history: "overlap", a start overlapped another call; "clash", a
                \* call emptied the state file that another was about to write;
                \* "fault", a call died, a save, an inspection of the container or
                \* the stop in a failing start failed, or a service had a child

worldVars == <<procs, container>>
vars == <<file, mishap, worldVars, op, pc, local, want, ret>>

Init ==
    /\ file = InitFile /\ procs = InitProcs
    /\ container = IF InitFile = State("docker", "running", NoPid) THEN "running" ELSE "absent"
    /\ op = [c \in Clients |-> "none"] /\ pc = [c \in Clients |-> "idle"]
    /\ local = [c \in Clients |-> NotLoaded] /\ want = [c \in Clients |-> "process"]
    /\ ret = [c \in Clients |-> "none"]
    /\ mishap = {}

Goto(c, label) == pc' = [pc EXCEPT ![c] = label]
Hold(c, state) == local' = [local EXCEPT ![c] = state]
Return(c, value) ==
    /\ op' = [op EXCEPT ![c] = "none"] /\ pc' = [pc EXCEPT ![c] = "idle"]
    /\ ret' = [ret EXCEPT ![c] = value]

\* processExists: a zombie does not count, a stranger does.
ProcessExists(pid) == pid # NoPid /\ procs[pid] \cap {"leader", "stranger"} # {}

Alive(state) ==
    IF state.mode = "process" THEN ProcessExists(state.pid) ELSE container = "running"

(***************************************************************************)
(* Store.                                                                  *)
(***************************************************************************)

\* Load returns the record, or an error when there is none that parses.
LoadFails == file \notin States
Loaded(c) == file \in States /\ Hold(c, file)

\* The steps at which a call saves, and those at which it has the file open.
Opened ==
    [save_refresh |-> "write_refresh", save_started |-> "write_started",
     save_stopped |-> "write_stopped"]
Writing == {"write_refresh", "write_started", "write_stopped"}

\* What it saves.  The process id stays in the record of a stopped service.
Record(c) ==
    IF pc[c] = "write_stopped" THEN [local[c] EXCEPT !.status = "stopped"] ELSE local[c]

Fault == mishap' = mishap \cup {"fault"}

(***************************************************************************)
(* The calls: Load, then the rest of Start, Stop or Status.                *)
(***************************************************************************)

\* Bookkeeping of the history variable only.
Overlaps(c, call) ==
    \E d \in Clients \ {c} : op[d] # "none" /\ "start" \in {call, op[d]}

Enter(c, call, label) ==
    /\ mishap' = mishap \cup (IF Overlaps(c, call) THEN {"overlap"} ELSE {})
    /\ op' = [op EXCEPT ![c] = call] /\ pc' = [pc EXCEPT ![c] = label]
    /\ UNCHANGED ret

CallStatus(c) ==
    /\ op[c] = "none"
    /\ \/ LoadFails /\ Return(c, "error") /\ UNCHANGED <<local, mishap>>
       \/ Loaded(c) /\ Enter(c, "status", "probe")
    /\ UNCHANGED <<file, worldVars, want>>

\* resolveMode: a URL that may be for either counts for a container first.
AutoMode(request) ==
    IF request.docker \/ request.healthURL THEN "docker"
    ELSE IF request.process THEN "process"
    ELSE IF request.dockerfile THEN "docker"
    ELSE IF request.inferred THEN "process"
    ELSE "auto"

ResolveMode(request) ==
    LET wanted == IF request.asked # "" THEN request.asked ELSE request.mode
    IN  IF wanted \in {"", "auto"} THEN AutoMode(request) ELSE wanted

CannotStart(c, request) ==
    /\ op[c] = "none" /\ ResolveMode(request) \notin {"process", "docker"}
    /\ Return(c, "error")
    /\ UNCHANGED <<file, mishap, worldVars, local, want>>

CallStart(c, request) ==
    /\ op[c] = "none" /\ ResolveMode(request) \in {"process", "docker"}
    /\ want' = [want EXCEPT ![c] = ResolveMode(request)]
    /\ \/ LoadFails /\ Enter(c, "start", "launch") /\ UNCHANGED local
       \/ Loaded(c) /\ Enter(c, "start", "probe")
    /\ UNCHANGED <<file, worldVars>>

\* Mutant: the error of Load is dropped.
StopUnloaded(c) ==
    /\ op[c] = "none"
    /\ Hold(c, file) /\ Enter(c, "stop", "term")
    /\ UNCHANGED <<file, worldVars, want>>

CallStop(c) ==
    /\ op[c] = "none"
    /\ \/ LoadFails /\ Return(c, "error") /\ UNCHANGED <<local, mishap>>
       \/ Loaded(c) /\ Enter(c, "stop", "term")
    /\ UNCHANGED <<file, worldVars, want>>

(***************************************************************************)
(* refreshWithContext, in Status and at the beginning of Start.            *)
(***************************************************************************)

\* Mutant: Start does not look at the refreshed status.
LaunchAnyway(c, status) ==
    IF op[c] = "start"
    THEN Goto(c, "launch") /\ UNCHANGED <<op, ret>>
    ELSE Return(c, status)

\* Status returns; Start rejects a running service and goes on otherwise,
\* also when the refresh failed.
Refreshed(c, status) ==
    IF op[c] = "start" /\ status # "running"
    THEN Goto(c, "launch") /\ UNCHANGED <<op, ret>>
    ELSE Return(c, IF op[c] = "start" THEN "rejected" ELSE status)

\* A service recorded as stopped is not looked at again.
Probe(c) ==
    /\ pc[c] = "probe"
    /\ \/ /\ local[c].status = "stopped"
          /\ Refreshed(c, "stopped") /\ UNCHANGED <<mishap, local>>
       \/ /\ local[c].status # "stopped"
          /\ Hold(c, [local[c] EXCEPT !.status = IF Alive(local[c]) THEN "running" ELSE "stopped"])
          /\ Goto(c, "save_refresh") /\ UNCHANGED <<mishap, op, ret>>
       \/ /\ local[c].status # "stopped" /\ local[c].mode = "docker" /\ "docker" \in Faults
          /\ Hold(c, [local[c] EXCEPT !.status = "unknown"]) /\ Fault
          /\ Goto(c, "save_refresh") /\ UNCHANGED <<op, ret>>
    /\ UNCHANGED <<file, worldVars, want>>

(***************************************************************************)
(* Save, at the end of a refresh, a start or a stop.                       *)
(***************************************************************************)

Saved(c) ==
    CASE pc[c] = "write_refresh" -> Refreshed(c, local[c].status)
      [] pc[c] = "write_started" -> Return(c, "started")
      [] pc[c] = "write_stopped" -> Return(c, IF op[c] = "stop" THEN "stopped" ELSE "error")

\* A refresh that could not inspect the container drops this error, and a
\* start that failed returns its own.  When the state of a service that has
\* become ready cannot be saved the service stays up.
SaveFailed(c) ==
    IF pc[c] \in {"save_refresh", "write_refresh"}
    THEN Refreshed(c, IF local[c].status = "unknown" THEN "unknown" ELSE "error")
    ELSE Return(c, "error")

\* The health check comes before a refresh saves, and may take seconds.
Open(c) ==
    /\ pc[c] \in DOMAIN Opened
    /\ \/ /\ file' = NoState /\ Goto(c, Opened[pc[c]]) /\ UNCHANGED <<op, ret>>
          /\ mishap' = mishap \cup
                (IF \E d \in Clients \ {c} : pc[d] \in Writing THEN {"clash"} ELSE {})
       \/ "save" \in Faults /\ UNCHANGED file /\ Fault /\ SaveFailed(c)
    /\ UNCHANGED <<worldVars, local, want>>

\* What another call has written meanwhile is overwritten from the start: a
\* longer record leaves its end behind.
Write(c) ==
    /\ pc[c] \in Writing
    /\ \/ /\ file' \in {Record(c)} \cup (IF file = NoState THEN {} ELSE {Torn})
          /\ Saved(c) /\ UNCHANGED mishap
       \/ "save" \in Faults /\ file' \in {file, Torn} /\ Fault /\ SaveFailed(c)
    /\ UNCHANGED <<worldVars, local, want>>

(***************************************************************************)
(* startProcess and startDocker.                                           *)
(***************************************************************************)

\* The command may not start, which is saved as a stopped service; that there
\* is no command, or that the log does not open, is not.
Spawn(c) ==
    /\ pc[c] = "launch" /\ want[c] = "process"
    /\ \/ \E p \in Pids : \E group \in {{"leader"}, {"leader", "child"}} :
            /\ procs[p] = {} /\ ("child" \in group => "child" \in Faults)
            /\ procs' = [procs EXCEPT ![p] = group]
            /\ Hold(c, State("process", "running", p))
            /\ Goto(c, "wait") /\ UNCHANGED <<file, op, ret>>
            /\ IF "child" \in group THEN Fault ELSE UNCHANGED mishap
       \/ /\ "spawn" \in Faults
          /\ \/ Hold(c, State("process", "stopped", NoPid))
                /\ Goto(c, "save_stopped") /\ UNCHANGED <<op, ret>>
             \/ Return(c, "error") /\ UNCHANGED local
          /\ UNCHANGED <<file, mishap, procs>>
    /\ UNCHANGED <<container, want>>

\* `docker rm -f' removes whatever has the name; its error is dropped.
RemoveContainer(c) ==
    /\ pc[c] = "launch" /\ want[c] = "docker"
    /\ container' = "absent" \/ ("docker" \in Faults /\ UNCHANGED container)
    /\ Goto(c, "docker_run")
    /\ UNCHANGED <<file, mishap, procs, op, local, want, ret>>

\* `docker build' and `docker run'.  A run that fails may leave a container
\* that was created and not started.
RunContainer(c) ==
    /\ pc[c] = "docker_run"
    /\ \/ /\ container = "absent" /\ container' = "running"
          /\ Hold(c, State("docker", "running", NoPid))
          /\ Goto(c, "wait") /\ UNCHANGED <<op, ret>>
       \/ /\ container # "absent" \/ "docker" \in Faults
          /\ container' \in {container} \cup (IF container = "absent" THEN {"exited"} ELSE {})
          /\ Return(c, "error") /\ UNCHANGED local
    /\ UNCHANGED <<file, mishap, procs, want>>

\* waitForProcessReady and waitForDockerReady: ready only when the service is
\* seen alive, not ready when it is gone or the deadline has passed.
Ready(c) ==
    /\ pc[c] = "wait" /\ Alive(local[c])
    /\ Goto(c, "save_started")
    /\ UNCHANGED <<file, mishap, worldVars, op, local, want, ret>>

\* Mutant: a service that does not become ready is left running.
NotReadyLeft(c) ==
    /\ pc[c] = "wait"
    /\ Goto(c, "save_stopped")
    /\ UNCHANGED <<file, mishap, worldVars, op, local, want, ret>>

NotReady(c) ==
    /\ pc[c] = "wait"
    /\ Goto(c, "term")
    /\ UNCHANGED <<file, mishap, worldVars, op, local, want, ret>>

(***************************************************************************)
(* stopProcess and stopDocker, in Stop and in a Start that failed.         *)
(***************************************************************************)

Stopping(c) == local[c].pid

\* Stop reports the error and leaves the file; Start drops it.
StopFailed(c) ==
    IF op[c] = "stop" THEN Return(c, "error") /\ UNCHANGED mishap
    ELSE Goto(c, "save_stopped") /\ Fault /\ UNCHANGED <<op, ret>>

\* SIGTERM to the process group: anyone in it may exit now, later or never.
TerminateProcess(c) ==
    /\ pc[c] = "term" /\ local[c].mode = "process"
    /\ IF Stopping(c) = NoPid
       THEN Goto(c, "save_stopped") /\ UNCHANGED procs
       ELSE /\ \E survivors \in SUBSET procs[Stopping(c)] :
                   procs' = [procs EXCEPT ![Stopping(c)] = survivors]
                    /\ Goto(c, "await")
    /\ UNCHANGED <<file, mishap, container, op, local, want, ret>>

\* The leader is gone, which is all that is waited for.
Exited(c) ==
    /\ pc[c] = "await" /\ ~ProcessExists(Stopping(c))
    /\ Goto(c, "save_stopped")
    /\ UNCHANGED <<file, mishap, worldVars, op, local, want, ret>>

\* Mutant: giving up after SIGTERM.
KillNobody(c) ==
    /\ pc[c] = "await" /\ ProcessExists(Stopping(c))
    /\ Goto(c, "save_stopped")
    /\ UNCHANGED <<file, mishap, worldVars, op, local, want, ret>>

\* SIGKILL after five seconds.  Within two more the process is gone, or it
\* is an error.
Kill(c) ==
    /\ pc[c] = "await" /\ ProcessExists(Stopping(c))
    /\ \/ /\ procs' = [procs EXCEPT ![Stopping(c)] = {}]
          /\ Goto(c, "save_stopped") /\ UNCHANGED <<mishap, op, ret>>
       \/ "stuck" \in Faults /\ UNCHANGED procs /\ StopFailed(c)
    /\ UNCHANGED <<file, container, local, want>>

\* `docker stop': a container that does not exist is no error.
StopContainer(c) ==
    /\ pc[c] = "term" /\ local[c].mode = "docker"
    /\ \/ /\ container' = IF container = "running" THEN "exited" ELSE container
          /\ Goto(c, "save_stopped") /\ UNCHANGED <<mishap, op, ret>>
       \/ "docker" \in Faults /\ UNCHANGED container /\ StopFailed(c)
    /\ UNCHANGED <<file, procs, local, want>>

(***************************************************************************)
(* The environment.                                                        *)
(***************************************************************************)

\* A CLI process dies in the middle of a call: it may have emptied the file.
Crash(c) ==
    /\ "crash" \in Faults /\ op[c] # "none"
    /\ Return(c, "crashed") /\ Fault
    /\ UNCHANGED <<file, worldVars, local, want>>

Exits(p, member) ==
    /\ member \in procs[p]
    /\ procs' = [procs EXCEPT ![p] = @ \ {member}]
    /\ UNCHANGED <<file, mishap, container, op, pc, local, want, ret>>

\* The system gives a free process id to an unrelated process.
Reuse(p) ==
    /\ "reuse" \in Faults /\ procs[p] = {}
    /\ procs' = [procs EXCEPT ![p] = {"stranger"}]
    /\ UNCHANGED <<file, mishap, container, op, pc, local, want, ret>>

ContainerExits ==
    /\ container = "running" /\ container' = "exited"
    /\ UNCHANGED <<file, mishap, procs, op, pc, local, want, ret>>

Call(c) ==
    \/ "status" \in Commands /\ CallStatus(c)
    \/ "stop" \in Commands /\ CallStop(c)
    \/ /\ "start" \in Commands
       /\ \E request \in Requests : CallStart(c, request) \/ CannotStart(c, request)

Continue(c) ==
    \/ Probe(c) \/ Open(c) \/ Write(c)
    \/ Spawn(c) \/ RemoveContainer(c) \/ RunContainer(c)
    \/ Ready(c) \/ NotReady(c)
    \/ TerminateProcess(c) \/ Exited(c) \/ Kill(c) \/ StopContainer(c)

Environment ==
    \/ ContainerExits
    \/ \E p \in Pids : Reuse(p) \/ \E member \in procs[p] : Exits(p, member)

Next ==
    \/ Environment
    \/ \E c \in Clients : Call(c) \/ Continue(c) \/ Crash(c)

Spec == Init /\ [][Next]_vars

-----------------------------------------------------------------------------
(***************************************************************************)
(* Properties.                                                             *)
(***************************************************************************)

\* The type invariant.
TypeOK ==
    /\ file \in States \cup {NoState, Torn}
    /\ procs \in [Pids -> SUBSET {"leader", "child", "stranger"}]
    /\ container \in {"absent", "running", "exited"}
    /\ op \in [Clients -> {"none", "start", "stop", "status"}]
    /\ pc \in [Clients -> {"idle", "probe", "save_refresh", "launch", "docker_run", "wait",
                           "save_started", "term", "await", "save_stopped"} \cup Writing]
    /\ local \in [Clients -> States]
    /\ want \in [Clients -> {"process", "docker"}]
    /\ ret \in [Clients -> {"none", "error", "rejected", "started", "stopped", "running",
                            "unknown", "crashed"}]
    /\ mishap \subseteq {"overlap", "clash", "fault"}

Services == {p \in Pids : procs[p] \cap {"leader", "child"} # {}}
Quiet == \A c \in Clients : op[c] = "none"

\* There is never more than one instance of the service, in either mode and
\* at any moment of a start, a restart or a change of mode, as long as no
\* start overlaps another call, no two calls have the state file open at once
\* and nothing else of the list at `mishap' happens.
OneService ==
    mishap = {} =>
        /\ Cardinality(Services) <= 1
        /\ container = "running" => Services = {}

\* Under the same proviso every living service is, between calls, the one
\* the state file calls running, so that the next stop, status or run finds
\* it: stops and status calls that overlap, and overwrite each other's record
\* with what they have read or seen before, do not lose it.
ServiceTracked ==
    Quiet /\ mishap = {} =>
        /\ \A p \in Services : file = State("process", "running", p)
        /\ container = "running" => file = State("docker", "running", NoPid)

\* A stop that reports success has ended what its record names, whatever
\* failed on the way and whoever else called stop or status: the leader of
\* the process group is gone, or the container is not running.  (A start that
\* overlaps it may have put another service under the same id or name.)
StoppedMeansGone ==
    [][\A c \in Clients :
          op[c] = "stop" /\ ret'[c] = "stopped" /\ op'[c] = "none" /\ "overlap" \notin mishap =>
              IF local[c].mode = "docker" THEN container # "running"
              ELSE local[c].pid # NoPid => "leader" \notin procs[local[c].pid]]_vars
=============================================================================
