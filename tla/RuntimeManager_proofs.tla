------------------------ MODULE RuntimeManager_proofs -----------------------
(***************************************************************************)
(* The managed runtime, for any number of clients, process ids and         *)
(* requests, and every set of faults.                                      *)
(***************************************************************************)
EXTENDS RuntimeManager, FiniteSetTheorems, TLAPS

-----------------------------------------------------------------------------
(***************************************************************************)
(* Types.                                                                  *)
(***************************************************************************)

\* The states that the calls make up.
LEMMA StateType ==
    ASSUME NEW mode \in {"process", "docker"}, NEW status \in {"running", "stopped", "unknown"},
           NEW pid \in Pids \cup {NoPid}
    PROVE  State(mode, status, pid) \in States
BY DEF State, States

\* The initial values have their types.
LEMMA InitType == Init => TypeOK
<1> SUFFICES ASSUME Init PROVE TypeOK
  OBVIOUS
<1>1. NotLoaded \in States
  BY StateType DEF NotLoaded
<1>2. QED
  BY <1>1, RuntimeManagerAssumption DEF Init, TypeOK

Calls == {"none", "start", "stop", "status"}
Labels == {"idle", "probe", "save_refresh", "launch", "docker_run", "wait",
           "save_started", "term", "await", "save_stopped"} \cup Writing
Returns == {"none", "error", "rejected", "started", "stopped", "running", "unknown", "crashed"}

\* Where a client is and what its last call returned.
ControlOK == op \in [Clients -> Calls] /\ pc \in [Clients -> Labels] /\ ret \in [Clients -> Returns]

\* What is shared, and what a call holds.
DataOK ==
    /\ file \in States \cup {NoState, Torn}
    /\ procs \in [Pids -> SUBSET {"leader", "child", "stranger"}]
    /\ container \in {"absent", "running", "exited"}
    /\ local \in [Clients -> States]
    /\ want \in [Clients -> {"process", "docker"}]
    /\ mishap \subseteq {"overlap", "clash", "fault"}

LEMMA TypeSplit == TypeOK <=> ControlOK /\ DataOK
BY DEF TypeOK, ControlOK, DataOK, Calls, Labels, Returns

\* The ways a client moves on.
LEMMA MoveType ==
    ASSUME ControlOK, NEW c \in Clients
    PROVE  /\ \A label \in Labels : Goto(c, label) /\ UNCHANGED <<op, ret>> => ControlOK'
           /\ \A value \in Returns : Return(c, value) => ControlOK'
           /\ \A call \in Calls, label \in Labels : Enter(c, call, label) => ControlOK'
<1>1. ASSUME NEW label \in Labels, Goto(c, label), UNCHANGED <<op, ret>> PROVE ControlOK'
  BY <1>1 DEF Goto, ControlOK
<1>2. ASSUME NEW value \in Returns, Return(c, value) PROVE ControlOK'
  <2>1. "none" \in Calls /\ "idle" \in Labels
    BY DEF Calls, Labels
  <2>2. QED
    BY <1>2, <2>1 DEF Return, ControlOK
<1>3. ASSUME NEW call \in Calls, NEW label \in Labels, Enter(c, call, label) PROVE ControlOK'
  BY <1>3 DEF Enter, ControlOK
<1>4. QED
  BY <1>1, <1>2, <1>3

\* The record of a service with another status is a record of a service.
LEMMA StatusType ==
    ASSUME NEW state \in States, NEW status \in {"running", "stopped", "unknown"}
    PROVE  [state EXCEPT !.status = status] \in States
BY DEF States

\* Where a call that saves goes on when it has emptied the file.
LEMMA OpenGoes ==
    /\ DOMAIN Opened = {"save_refresh", "save_started", "save_stopped"}
    /\ Opened["save_refresh"] = "write_refresh"
    /\ Opened["save_started"] = "write_started"
    /\ Opened["save_stopped"] = "write_stopped"
BY DEF Opened

\* Every step keeps where the clients are in its type.
LEMMA ControlType ==
    ASSUME TypeOK, NEW c \in Clients, Call(c) \/ Continue(c) \/ Crash(c)
    PROVE  ControlOK'
<1> USE DEF Calls, Labels, Returns, Writing
<1>1. ControlOK /\ local[c].status \in Returns
  BY TypeSplit DEF TypeOK, States
<1>2. CASE Call(c)
  BY <1>1, <1>2, MoveType DEF Call, CallStatus, CallStop, CallStart, CannotStart
<1>3. CASE Probe(c) \/ Open(c) \/ Write(c)
  <2>1. ASSUME NEW status \in Returns, Refreshed(c, status) PROVE ControlOK'
    BY <1>1, <2>1, MoveType DEF Refreshed
  <2>2. CASE Probe(c)
    BY <1>1, <2>1, <2>2, MoveType DEF Probe
  <2>3. ASSUME SaveFailed(c) PROVE ControlOK'
    BY <1>1, <2>1, <2>3, MoveType DEF SaveFailed
  <2>4. CASE Open(c)
    BY <1>1, <2>3, <2>4, MoveType, OpenGoes DEF Open
  <2>5. CASE Write(c)
    BY <1>1, <2>1, <2>3, <2>5, MoveType DEF Write, Saved
  <2>6. QED
    BY <1>3, <2>2, <2>4, <2>5
<1>4. CASE Spawn(c) \/ RemoveContainer(c) \/ RunContainer(c)
           \/ Ready(c) \/ NotReady(c)
  BY <1>1, <1>4, MoveType DEF Spawn, RemoveContainer, RunContainer, Ready, NotReady
<1>5. CASE TerminateProcess(c) \/ Exited(c) \/ Kill(c) \/ StopContainer(c)
  BY <1>1, <1>5, MoveType DEF TerminateProcess, Exited, Kill, StopContainer, StopFailed
<1>6. CASE Crash(c)
  BY <1>1, <1>6, MoveType DEF Crash
<1>7. QED
  BY <1>2, <1>3, <1>4, <1>5, <1>6 DEF Continue

\* A call keeps the types of what is shared and held.
LEMMA CallType == ASSUME DataOK, NEW c \in Clients, Call(c) PROVE DataOK'
<1>1. /\ UNCHANGED <<file, procs, container>> /\ mishap' \subseteq mishap \cup {"overlap"}
      /\ local' = local \/ (file \in States /\ local' = [local EXCEPT ![c] = file])
      /\ want' = want \/ \E mode \in {"process", "docker"} : want' = [want EXCEPT ![c] = mode]
  BY DEF Call, CallStatus, CallStop, CallStart, CannotStart, Enter, Loaded, Hold, worldVars
<1>2. QED
  BY <1>1 DEF DataOK

\* Looking at a service keeps the types of what is shared and held.
LEMMA ProbeType == ASSUME DataOK, NEW c \in Clients, Probe(c) PROVE DataOK'
<1>1. /\ UNCHANGED <<file, procs, container, want>> /\ mishap' \subseteq mishap \cup {"fault"}
      /\ \/ local' = local
         \/ \E status \in {"running", "stopped", "unknown"} :
               local' = [local EXCEPT ![c] = [local[c] EXCEPT !.status = status]]
  BY DEF Probe, Hold, Fault, worldVars
<1>2. local' \in [Clients -> States]
  <2>1. \A status \in {"running", "stopped", "unknown"} :
          [local[c] EXCEPT !.status = status] \in States
    BY StatusType DEF DataOK
  <2>2. QED
    BY <1>1, <2>1 DEF DataOK
<1>3. QED
  BY <1>1, <1>2 DEF DataOK

\* Saving a record keeps the types of what is shared and held.
LEMMA SaveType == ASSUME DataOK, NEW c \in Clients, Open(c) \/ Write(c) PROVE DataOK'
<1>1. Record(c) \in States
  <2>1. [local[c] EXCEPT !.status = "stopped"] \in States /\ local[c] \in States
    BY StatusType DEF DataOK
  <2>2. QED
    BY <2>1 DEF Record
<1>2. /\ UNCHANGED <<procs, container, local, want>>
      /\ mishap' \subseteq mishap \cup {"clash", "fault"}
      /\ file' \in {file, Record(c), NoState, Torn}
  BY DEF Open, Write, Fault, worldVars
<1>3. QED
  BY <1>1, <1>2 DEF DataOK

\* Starting a service keeps the types of what is shared and held.
LEMMA LaunchType ==
    ASSUME DataOK, NEW c \in Clients,
           Spawn(c) \/ RemoveContainer(c) \/ RunContainer(c)
             \/ Ready(c) \/ NotReady(c)
    PROVE  DataOK'
<1>1. /\ local[c] \in States
      /\ State("docker", "running", NoPid) \in States /\ State("process", "stopped", NoPid) \in States
      /\ \A p \in Pids : State("process", "running", p) \in States
  BY StateType DEF DataOK
<1>2. CASE Spawn(c)
  <2>1. /\ UNCHANGED <<container, want>> /\ mishap' \subseteq mishap \cup {"fault"}
        /\ file' = file
        /\ \/ UNCHANGED procs /\ local' \in {local, [local EXCEPT ![c] = State("process", "stopped", NoPid)]}
           \/ \E p \in Pids, group \in {{"leader"}, {"leader", "child"}} :
                 /\ procs' = [procs EXCEPT ![p] = group]
                 /\ local' = [local EXCEPT ![c] = State("process", "running", p)]
    BY <1>2 DEF Spawn, Hold, Fault
  <2>2. procs' \in [Pids -> SUBSET {"leader", "child", "stranger"}] /\ local' \in [Clients -> States]
    BY <1>1, <2>1 DEF DataOK
  <2>3. QED
    BY <1>1, <2>1, <2>2 DEF DataOK
<1>3. CASE RemoveContainer(c) \/ RunContainer(c) \/ Ready(c) \/ NotReady(c)
  BY <1>1, <1>3 DEF RemoveContainer, RunContainer, Ready, NotReady, Hold, worldVars, DataOK
<1>4. QED
  BY <1>2, <1>3

\* Stopping a service keeps the types of what is shared and held.
LEMMA StopType ==
    ASSUME DataOK, NEW c \in Clients,
           TerminateProcess(c) \/ Exited(c) \/ Kill(c) \/ StopContainer(c)
    PROVE  DataOK'
<1>1. CASE TerminateProcess(c)
  <2>1. /\ UNCHANGED <<file, mishap, container, local, want>>
        /\ \/ procs' = procs
           \/ \E survivors \in SUBSET procs[Stopping(c)] :
                 procs' = [procs EXCEPT ![Stopping(c)] = survivors]
    BY <1>1 DEF TerminateProcess
  <2>2. procs' \in [Pids -> SUBSET {"leader", "child", "stranger"}]
    BY <2>1 DEF DataOK
  <2>3. QED
    BY <2>1, <2>2 DEF DataOK
<1>2. CASE Exited(c)
  BY <1>2 DEF Exited, worldVars, DataOK
<1>3. CASE Kill(c)
  BY <1>3 DEF Kill, Stopping, StopFailed, Fault, DataOK
<1>4. CASE StopContainer(c)
  BY <1>4 DEF StopContainer, StopFailed, Fault, DataOK
<1>5. QED
  BY <1>1, <1>2, <1>3, <1>4

\* The environment and a crash keep the types.
LEMMA EnvironmentType == ASSUME TypeOK, Environment PROVE TypeOK'
<1>1. CASE ContainerExits
  BY <1>1 DEF ContainerExits, TypeOK
<1>2. CASE \E p \in Pids : Reuse(p)
  BY <1>2 DEF Reuse, TypeOK
<1>3. CASE \E p \in Pids : \E member \in procs[p] : Exits(p, member)
  BY <1>3 DEF Exits, TypeOK
<1>4. QED
  BY <1>1, <1>2, <1>3 DEF Environment

\* Every step keeps the types.
LEMMA NextType == TypeOK /\ [Next]_vars => TypeOK'
<1> SUFFICES ASSUME TypeOK, [Next]_vars PROVE TypeOK'
  OBVIOUS
<1>1. CASE UNCHANGED vars
  BY <1>1 DEF vars, worldVars, TypeOK
<1>2. ASSUME NEW c \in Clients, Crash(c) PROVE DataOK'
  BY <1>2, TypeSplit DEF Crash, Fault, worldVars, DataOK
<1>3. ASSUME NEW c \in Clients, Call(c) \/ Continue(c) \/ Crash(c) PROVE TypeOK'
  <2>1. ControlOK'
    BY <1>3, ControlType
  <2>2. DataOK'
    BY <1>2, <1>3, TypeSplit, CallType, ProbeType, SaveType, LaunchType, StopType DEF Continue
  <2>3. (ControlOK /\ DataOK)' => TypeOK'
    BY DEF TypeOK, ControlOK, DataOK, Calls, Labels, Returns
  <2>4. QED
    BY <2>1, <2>2, <2>3
<1>4. QED
  BY <1>1, <1>3, EnvironmentType DEF Next

\* Every variable of the runtime keeps its type, whatever calls overlap and
\* whatever fails.
THEOREM TypeCorrect == Spec => []TypeOK
BY InitType, NextType, PTL DEF Spec

-----------------------------------------------------------------------------
(***************************************************************************)
(* What a successful stop means.                                           *)
(***************************************************************************)

\* What a record names is gone.
Gone(state) ==
    IF state.mode = "docker" THEN container # "running"
    ELSE state.pid # NoPid => "leader" \notin procs[state.pid]

\* The steps of the calls; a start that has not overlapped another call runs
\* alone; and a stop is about to report success only when its service is gone.
InCall(c) ==
    /\ op[c] = "none" <=> pc[c] = "idle"
    /\ op[c] = "stop" => pc[c] \in {"term", "await", "save_stopped", "write_stopped"}
    /\ op[c] = "status" => pc[c] \in {"probe", "save_refresh", "write_refresh"}

StartsAlone ==
    "overlap" \notin mishap =>
        \A c, d \in Clients : op[c] = "start" /\ c # d => op[d] = "none"

StopsGone ==
    "overlap" \notin mishap =>
        \A c \in Clients : op[c] = "stop" /\ pc[c] \in {"save_stopped", "write_stopped"} => Gone(local[c])

Orderly == (\A c \in Clients : InCall(c)) /\ StartsAlone

\* A client's step leaves the place of the others alone, and says where it is.
LEMMA StepInCall ==
    ASSUME TypeOK, Orderly, NEW c \in Clients, Call(c) \/ Continue(c) \/ Crash(c)
    PROVE  \A d \in Clients : InCall(d)'
<1>1. ASSUME NEW label, Goto(c, label), UNCHANGED op,
             \/ op[c] = "stop" /\ label \in {"term", "await", "save_stopped", "write_stopped"}
             \/ op[c] = "status" /\ label \in {"probe", "save_refresh", "write_refresh"}
             \/ op[c] = "start" /\ label # "idle"
      PROVE  \A d \in Clients : InCall(d)'
  BY <1>1 DEF Goto, InCall, Orderly, TypeOK
<1>2. ASSUME NEW value, Return(c, value) PROVE \A d \in Clients : InCall(d)'
  BY <1>2 DEF Return, InCall, Orderly, TypeOK
<1>3. ASSUME NEW call, NEW label, Enter(c, call, label),
             \/ call = "stop" /\ label = "term"
             \/ call = "status" /\ label = "probe"
             \/ call = "start" /\ label \in {"probe", "launch"}
      PROVE  \A d \in Clients : InCall(d)'
  BY <1>3 DEF Enter, InCall, Orderly, TypeOK
<1>4. CASE Call(c) \/ Crash(c)
  BY <1>2, <1>3, <1>4 DEF Call, CallStatus, CallStop, CallStart, CannotStart, Crash
<1>5. InCall(c) /\ op[c] \in Calls
  BY TypeSplit DEF Orderly, ControlOK
<1>6. CASE Probe(c) \/ Open(c) \/ Write(c)
  <2>1. ASSUME op[c] \in {"start", "status"}, NEW status, Refreshed(c, status)
        PROVE  \A d \in Clients : InCall(d)'
    BY <1>1, <1>2, <2>1 DEF Refreshed
  <2>2. CASE Probe(c)
    BY <1>1, <1>5, <2>1, <2>2 DEF Probe, InCall, Calls
  <2>3. ASSUME SaveFailed(c), Open(c) \/ Write(c) PROVE \A d \in Clients : InCall(d)'
    BY <1>2, <1>5, <2>1, <2>3 DEF SaveFailed, InCall, Calls
  <2>4. CASE Open(c)
    BY <1>1, <1>5, <2>3, <2>4, OpenGoes DEF Open, InCall, Calls
  <2>5. CASE Write(c)
    BY <1>2, <1>5, <2>1, <2>3, <2>5 DEF Write, Writing, Saved, InCall, Calls
  <2>6. QED
    BY <1>6, <2>2, <2>4, <2>5
<1>7. CASE Spawn(c) \/ RemoveContainer(c) \/ RunContainer(c)
           \/ Ready(c) \/ NotReady(c)
  BY <1>1, <1>2, <1>5, <1>7 DEF Spawn, RemoveContainer, RunContainer, Ready, NotReady, InCall, Calls
<1>8. CASE TerminateProcess(c) \/ Exited(c) \/ Kill(c) \/ StopContainer(c)
  BY <1>1, <1>2, <1>5, <1>8 DEF TerminateProcess, Exited, Kill, StopContainer, StopFailed, InCall, Calls
<1>9. QED
  BY <1>4, <1>6, <1>7, <1>8 DEF Continue

\* Only the beginning of a call changes what call a client is in, but for its
\* end.
LEMMA StepOp ==
    ASSUME TypeOK, NEW c \in Clients, Call(c) \/ Continue(c) \/ Crash(c)
    PROVE  /\ mishap \subseteq mishap'
           /\ \/ op' = op \/ op' = [op EXCEPT ![c] = "none"]
              \/ /\ op[c] = "none"
                 /\ \E call \in Calls :
                       /\ op' = [op EXCEPT ![c] = call]
                       /\ Overlaps(c, call) => "overlap" \in mishap'
<1> USE DEF Calls, Return
<1>1. CASE Call(c)
  BY <1>1 DEF Call, CallStatus, CallStop, CallStart, CannotStart, Enter
<1>2. CASE Probe(c) \/ Open(c) \/ Write(c)
  BY <1>2 DEF Probe, Open, Write, Writing, Saved, SaveFailed, Refreshed, Fault
<1>3. CASE Spawn(c) \/ RemoveContainer(c) \/ RunContainer(c)
           \/ Ready(c) \/ NotReady(c)
  BY <1>3 DEF Spawn, RemoveContainer, RunContainer, Ready, NotReady, Fault
<1>4. CASE TerminateProcess(c) \/ Exited(c) \/ Kill(c) \/ StopContainer(c)
  BY <1>4 DEF TerminateProcess, Exited, Kill, StopContainer, StopFailed, Fault
<1>5. CASE Crash(c)
  BY <1>5 DEF Crash, Fault
<1>6. QED
  BY <1>1, <1>2, <1>3, <1>4, <1>5 DEF Continue

\* Every step keeps the order of the calls.
LEMMA NextOrderly == TypeOK /\ Orderly /\ [Next]_vars => Orderly'
<1> SUFFICES ASSUME TypeOK, Orderly, [Next]_vars PROVE Orderly'
  OBVIOUS
<1>1. CASE UNCHANGED vars \/ Environment
  BY <1>1 DEF vars, Environment, ContainerExits, Reuse, Exits, Orderly, InCall, StartsAlone
<1>2. ASSUME NEW c \in Clients, Call(c) \/ Continue(c) \/ Crash(c) PROVE Orderly'
  <2>1. \A d \in Clients : InCall(d)'
    BY <1>2, StepInCall
  <2>2. op \in [Clients -> Calls]
    BY TypeSplit DEF ControlOK
  <2>3. StartsAlone'
    <3> SUFFICES ASSUME "overlap" \notin mishap', NEW a \in Clients, NEW b \in Clients,
                        op'[a] = "start", a # b
                 PROVE  op'[b] = "none"
      BY DEF StartsAlone
    <3>1. "overlap" \notin mishap
      BY <1>2, StepOp
    <3>2. \A e, d \in Clients : op[e] = "start" /\ e # d => op[d] = "none"
      BY <3>1 DEF Orderly, StartsAlone
    <3>3. CASE op' = op \/ op' = [op EXCEPT ![c] = "none"]
      BY <2>2, <3>2, <3>3
    <3>4. CASE \E call \in Calls : op' = [op EXCEPT ![c] = call] /\ ~Overlaps(c, call)
      BY <2>2, <3>2, <3>4 DEF Overlaps
    <3>5. QED
      BY <1>2, <3>3, <3>4, StepOp
  <2>4. QED
    BY <2>1, <2>3 DEF Orderly
<1>3. QED
  BY <1>1, <1>2 DEF Next

\* The calls are in order in every reachable state.
LEMMA OrderlyInvariant == Spec => []Orderly
<1>1. Init => Orderly
  BY DEF Init, Orderly, InCall, StartsAlone
<1>2. QED
  BY <1>1, NextOrderly, TypeCorrect, PTL DEF Spec

\* Only a start brings a leader or a container to life.
LEMMA OnlyStartsLaunch ==
    ASSUME TypeOK, Orderly, NEW c \in Clients, Call(c) \/ Continue(c) \/ Crash(c),
           op[c] # "start"
    PROVE  /\ \A p \in Pids : "leader" \in procs'[p] => "leader" \in procs[p]
           /\ container' = "running" => container = "running"
<1>1. pc[c] \notin {"launch", "docker_run"}
  BY TypeSplit DEF Orderly, InCall, ControlOK, Calls
<1>2. CASE Call(c) \/ Crash(c) \/ Probe(c) \/ Open(c) \/ Write(c) \/ RemoveContainer(c)
           \/ Ready(c) \/ NotReady(c) \/ Exited(c)
  <2>1. UNCHANGED <<procs, container>>
    BY <1>1, <1>2 DEF Call, CallStatus, CallStop, CallStart, CannotStart, Crash, Probe, Open, Write,
       RemoveContainer, Ready, NotReady, Exited, worldVars
  <2>2. QED
    BY <2>1
<1>3. CASE Spawn(c) \/ RunContainer(c)
  BY <1>1, <1>3 DEF Spawn, RunContainer
<1>4. CASE TerminateProcess(c)
  <2>1. container' = container
        /\ (procs' = procs \/ \E survivors \in SUBSET procs[Stopping(c)] :
                 procs' = [procs EXCEPT ![Stopping(c)] = survivors])
    BY <1>4 DEF TerminateProcess
  <2>2. QED
    BY <2>1 DEF TypeOK
<1>5. CASE Kill(c)
  <2>1. container' = container
        /\ (procs' = procs \/ procs' = [procs EXCEPT ![Stopping(c)] = {}])
    BY <1>5 DEF Kill
  <2>2. QED
    BY <2>1 DEF TypeOK
<1>6. CASE StopContainer(c)
  BY <1>6 DEF StopContainer
<1>7. QED
  BY <1>2, <1>3, <1>4, <1>5, <1>6 DEF Continue

\* A step of one client leaves what others are at alone.
LEMMA OthersStay ==
    ASSUME TypeOK, NEW c \in Clients, Call(c) \/ Continue(c) \/ Crash(c),
           NEW d \in Clients, d # c
    PROVE  op'[d] = op[d] /\ pc'[d] = pc[d] /\ local'[d] = local[d]
<1> USE DEF TypeOK, Return, Goto, Hold
<1>1. CASE Call(c)
  BY <1>1 DEF Call, CallStatus, CallStop, CallStart, CannotStart, Enter, Loaded
<1>2. CASE Probe(c) \/ Open(c) \/ Write(c)
  BY <1>2 DEF Probe, Open, Write, Writing, Saved, SaveFailed, Refreshed
<1>3. CASE Spawn(c) \/ RemoveContainer(c) \/ RunContainer(c)
           \/ Ready(c) \/ NotReady(c)
  BY <1>3 DEF Spawn, RemoveContainer, RunContainer, Ready, NotReady
<1>4. CASE TerminateProcess(c) \/ Exited(c) \/ Kill(c) \/ StopContainer(c)
  BY <1>4 DEF TerminateProcess, Exited, Kill, StopContainer, StopFailed
<1>5. CASE Crash(c)
  BY <1>5 DEF Crash
<1>6. QED
  BY <1>1, <1>2, <1>3, <1>4, <1>5 DEF Continue

\* Only a process is waited for.
Awaits == \A c \in Clients : pc[c] = "await" => local[c].mode = "process"

LEMMA NextAwaits == TypeOK /\ Awaits /\ [Next]_vars => Awaits'
<1> SUFFICES ASSUME TypeOK, Awaits, [Next]_vars PROVE Awaits'
  OBVIOUS
<1>1. CASE UNCHANGED vars \/ Environment
  BY <1>1 DEF vars, Environment, ContainerExits, Reuse, Exits, Awaits
<1>2. ASSUME NEW c \in Clients, Call(c) \/ Continue(c) \/ Crash(c) PROVE Awaits'
  <2>1. pc'[c] = "await" => local[c].mode = "process" /\ local' = local
    <3> USE DEF TypeOK, Return, Goto
    <3>1. CASE Call(c)
      BY <3>1 DEF Call, CallStatus, CallStop, CallStart, CannotStart, Enter
    <3>2. CASE Probe(c) \/ Open(c) \/ Write(c)
      <4>1. ASSUME NEW status, Refreshed(c, status) PROVE pc'[c] # "await"
        BY <4>1 DEF Refreshed
      <4>2. ASSUME SaveFailed(c) PROVE pc'[c] # "await"
        BY <4>1, <4>2 DEF SaveFailed
      <4>3. CASE Probe(c)
        BY <4>1, <4>3 DEF Probe
      <4>4. CASE Open(c)
        BY <4>2, <4>4, OpenGoes DEF Open
      <4>5. CASE Write(c)
        BY <4>1, <4>2, <4>5 DEF Write, Writing, Saved
      <4>6. QED
        BY <3>2, <4>3, <4>4, <4>5
    <3>3. CASE Spawn(c) \/ RemoveContainer(c) \/ RunContainer(c)
               \/ Ready(c) \/ NotReady(c)
      BY <3>3 DEF Spawn, RemoveContainer, RunContainer, Ready, NotReady
    <3>4. CASE TerminateProcess(c) \/ Exited(c) \/ Kill(c) \/ StopContainer(c)
      BY <3>4 DEF TerminateProcess, Exited, Kill, StopContainer, StopFailed
    <3>5. CASE Crash(c)
      BY <3>5 DEF Crash
    <3>6. QED
      BY <1>2, <3>1, <3>2, <3>3, <3>4, <3>5 DEF Continue
  <2>2. QED
    BY <1>2, <2>1, OthersStay DEF Awaits
<1>3. QED
  BY <1>1, <1>2 DEF Next

LEMMA AwaitsInvariant == Spec => []Awaits
<1>1. Init => Awaits
  BY DEF Init, Awaits
<1>2. QED
  BY <1>1, NextAwaits, TypeCorrect, PTL DEF Spec

\* Signals end processes and Docker answers.
CanStop == "stuck" \notin Faults /\ "docker" \notin Faults

\* Reaching the last step of a stop means that its service is gone; and so it
\* does in a start that has failed, when there is nothing that cannot be stopped.
LEMMA ReachesGone ==
    ASSUME TypeOK, Awaits, NEW c \in Clients, op[c] = "stop" \/ CanStop, pc[c] # "save_stopped",
           TerminateProcess(c) \/ Exited(c) \/ Kill(c) \/ StopContainer(c),
           pc'[c] = "save_stopped"
    PROVE  Gone(local[c])' /\ local' = local
<1>1. local[c] \in States
  BY DEF TypeOK
<1>2. CASE TerminateProcess(c)
  <2>1. pc'[c] # "await"
    OBVIOUS
  <2>2. Stopping(c) = NoPid /\ local[c].mode = "process" /\ local' = local
    BY <1>2, <2>1 DEF TerminateProcess, Goto, TypeOK
  <2>3. QED
    BY <2>2 DEF Gone, Stopping
<1>3. CASE Exited(c)
  <2>1. local[c].mode = "process" /\ local' = local /\ procs' = procs /\ ~ProcessExists(Stopping(c))
    BY <1>3 DEF Exited, Awaits, worldVars
  <2>2. QED
    BY <2>1 DEF Gone, ProcessExists, Stopping
<1>4. CASE Kill(c)
  <2>1. StopFailed(c) /\ op[c] = "stop" => pc'[c] = "idle"
    BY DEF StopFailed, Return, TypeOK
  <2>2. /\ local[c].mode = "process" /\ local' = local
        /\ procs' = [procs EXCEPT ![Stopping(c)] = {}]
    BY <1>4, <2>1 DEF Kill, Awaits, CanStop
  <2>3. QED
    BY <1>1, <2>2 DEF Gone, Stopping, States, TypeOK
<1>5. CASE StopContainer(c)
  <2>1. StopFailed(c) /\ op[c] = "stop" => pc'[c] = "idle"
    BY DEF StopFailed, Return, TypeOK
  <2>2. local[c].mode = "docker" /\ local' = local /\ container' # "running"
    BY <1>5, <2>1 DEF StopContainer, CanStop
  <2>3. QED
    BY <2>2 DEF Gone
<1>6. QED
  BY <1>2, <1>3, <1>4, <1>5

\* Every step keeps what the stops rely on.
LEMMA NextGone == TypeOK /\ Orderly /\ Awaits /\ StopsGone /\ [Next]_vars => StopsGone'
<1> SUFFICES ASSUME TypeOK, Orderly, Awaits, StopsGone, [Next]_vars,
                    "overlap" \notin mishap', NEW c \in Clients,
                    op'[c] = "stop", pc'[c] \in {"save_stopped", "write_stopped"}
             PROVE  Gone(local[c])'
  BY DEF StopsGone
<1>0. local[c] \in States /\ TypeOK'
  BY NextType DEF TypeOK
<1>1. CASE UNCHANGED vars
  BY <1>1 DEF vars, worldVars, StopsGone, Gone
<1>2. CASE Environment
  <2>1. UNCHANGED <<op, pc, local, mishap>>
        /\ (container' = "running" => container = "running")
    BY <1>2 DEF Environment, ContainerExits, Reuse, Exits
  <2>2. \A p \in Pids : "leader" \in procs'[p] => "leader" \in procs[p]
    BY <1>2 DEF Environment, ContainerExits, Reuse, Exits, TypeOK
  <2>3. Gone(local[c])
    BY <2>1 DEF StopsGone
  <2>4. QED
    BY <1>0, <2>1, <2>2, <2>3 DEF Gone, States
<1>3. ASSUME NEW d \in Clients, Call(d) \/ Continue(d) \/ Crash(d), d # c PROVE Gone(local[c])'
  <2>1. /\ op[c] = "stop" /\ pc[c] \in {"save_stopped", "write_stopped"}
        /\ local'[c] = local[c] /\ "overlap" \notin mishap
    BY <1>3, OthersStay, StepOp
  <2>2. op[d] # "start"
    BY <1>3, <2>1 DEF Orderly, StartsAlone
  <2>3. Gone(local[c])
    BY <2>1 DEF StopsGone
  <2>4. /\ \A p \in Pids : "leader" \in procs'[p] => "leader" \in procs[p]
        /\ container' = "running" => container = "running"
    BY <1>3, <2>2, OnlyStartsLaunch
  <2>5. QED
    BY <1>0, <2>1, <2>3, <2>4 DEF Gone, States
<1>4. CASE Call(c) \/ Crash(c) \/ Probe(c) \/ Spawn(c) \/ RemoveContainer(c)
           \/ RunContainer(c) \/ Ready(c) \/ NotReady(c)
  <2>1. op[c] \in Calls /\ InCall(c)
    BY TypeSplit DEF ControlOK, Orderly
  <2>2. CASE Call(c) \/ Crash(c)
    BY <2>2 DEF Call, CallStatus, CallStop, CallStart, CannotStart, Crash, Enter, Return, TypeOK
  <2>3. CASE Probe(c) \/ Spawn(c) \/ RemoveContainer(c)
             \/ RunContainer(c) \/ Ready(c) \/ NotReady(c)
    <3>1. op[c] # "stop"
      BY <2>1, <2>3 DEF Probe, Spawn, RemoveContainer, RunContainer, Ready, NotReady, InCall
    <3>2. op'[c] \in {op[c], "none"} \/ op[c] = "none"
      <4>1. Call(c) \/ Continue(c) \/ Crash(c)
        BY <2>3 DEF Continue
      <4>2. QED
        BY <4>1, StepOp DEF TypeOK
    <3>3. op[c] # "none"
      BY <2>1, <2>3 DEF Probe, Spawn, RemoveContainer, RunContainer, Ready, NotReady, InCall
    <3>4. QED
      BY <3>1, <3>2, <3>3
  <2>4. QED
    BY <1>4, <2>2, <2>3
<1>5. ASSUME TerminateProcess(c) \/ Exited(c) \/ Kill(c) \/ StopContainer(c) \/ Open(c) \/ Write(c)
      PROVE  op[c] = "stop" /\ "overlap" \notin mishap /\ InCall(c)
  <2>1. Continue(c)
    BY <1>5 DEF Continue
  <2>2. op[c] # "none"
    BY <1>5 DEF TerminateProcess, Exited, Kill, StopContainer, Open, Opened, Write, Writing,
       Orderly, InCall
  <2>3. QED
    BY <2>1, <2>2, StepOp DEF TypeOK, Orderly
<1>6. CASE TerminateProcess(c) \/ Exited(c) \/ Kill(c) \/ StopContainer(c)
  <2>1. pc[c] # "save_stopped" /\ pc'[c] # "write_stopped"
    BY <1>6 DEF TerminateProcess, Exited, Kill, StopContainer, StopFailed, Goto, Return, TypeOK
  <2>2. QED
    BY <1>5, <1>6, <2>1, ReachesGone
<1>7. CASE Open(c)
  <2>1. pc[c] = "save_stopped" /\ UNCHANGED <<procs, container, local>>
    BY <1>5, <1>7 DEF Open, Opened, InCall, worldVars
  <2>2. Gone(local[c])
    BY <1>5, <1>7, <2>1 DEF StopsGone
  <2>3. QED
    BY <2>1, <2>2 DEF Gone
<1>8. CASE Write(c)
  <2>1. pc[c] = "write_stopped"
    BY <1>5, <1>8 DEF Write, Writing, InCall
  <2>2. \E value : Return(c, value)
    BY <1>8, <2>1 DEF Write, Saved, SaveFailed
  <2>3. QED
    BY <2>2 DEF Return, TypeOK
<1>9. QED
  BY <1>1, <1>2, <1>3, <1>4, <1>6, <1>7, <1>8 DEF Next, Continue

\* A stop that reports success has ended what its record names, whatever has
\* failed and whoever else calls stop or status, unless a start overlaps it.
THEOREM StopMeansIt == Spec => StoppedMeansGone
<1>1. Init => StopsGone
  BY DEF Init, StopsGone
<1>2. TypeOK /\ Orderly /\ StopsGone /\ [Next]_vars =>
        \A c \in Clients :
          op[c] = "stop" /\ ret'[c] = "stopped" /\ op'[c] = "none" /\ "overlap" \notin mishap =>
              IF local[c].mode = "docker" THEN container # "running"
              ELSE local[c].pid # NoPid => "leader" \notin procs[local[c].pid]
  <2> SUFFICES ASSUME TypeOK, Orderly, StopsGone, [Next]_vars, NEW c \in Clients,
                      op[c] = "stop", ret'[c] = "stopped", op'[c] = "none",
                      "overlap" \notin mishap
               PROVE  pc[c] \in {"save_stopped", "write_stopped"}
    BY DEF StopsGone, Gone
  <2>1. CASE UNCHANGED vars \/ Environment
    BY <2>1 DEF vars, Environment, ContainerExits, Reuse, Exits
  <2>2. ASSUME NEW d \in Clients, Call(d) \/ Continue(d) \/ Crash(d), d # c PROVE FALSE
    BY <2>2, OthersStay
  <2>3. CASE Call(c) \/ Crash(c)
    BY <2>3 DEF Call, CallStatus, CallStop, CallStart, CannotStart, Crash, Return, TypeOK
  <2>4. CASE Continue(c)
    <3>1. pc[c] \in {"term", "await", "save_stopped", "write_stopped"}
      BY DEF Orderly, InCall
    <3>2. CASE TerminateProcess(c) \/ Exited(c)
      BY <3>2 DEF TerminateProcess, Exited
    <3>3. CASE Kill(c) \/ StopContainer(c)
      BY <3>3 DEF Kill, StopContainer, StopFailed, Return, TypeOK
    <3>4. QED
      BY <2>4, <3>1, <3>2, <3>3 DEF Continue, Probe, Open, Opened, Write, Writing, Spawn,
         RemoveContainer, RunContainer, Ready, NotReady
  <2>5. QED
    BY <2>1, <2>2, <2>3, <2>4 DEF Next
<1>3. QED
  BY <1>1, <1>2, NextGone, TypeCorrect, OrderlyInvariant, AwaitsInvariant, PTL DEF Spec, StoppedMeansGone

-----------------------------------------------------------------------------
(***************************************************************************)
(* One service, and its record.                                            *)
(***************************************************************************)

\* What lives is what a record calls running; nothing lives.
Tracks(state) ==
    /\ \A p \in Services : state = State("process", "running", p)
    /\ container = "running" => state = State("docker", "running", NoPid)

Nothing == Services = {} /\ container # "running"

\* A start has gone on to its launch, or a call has the state file open: what
\* lives need not be on record.
Unsettled(c) ==
    \/ op[c] = "start" /\ pc[c] \notin {"probe", "save_refresh"}
    \/ pc[c] \in Writing

\* What a call knows of what lives: until it has stopped it, its own record
\* names it; when it is about to launch a service, or has stopped one, nothing
\* lives.
Knows(c) ==
    /\ pc[c] \in {"probe", "save_refresh", "write_refresh", "wait", "save_started", "write_started",
                  "term", "await"} => Tracks(local[c])
    /\ pc[c] \in {"launch", "docker_run", "save_stopped", "write_stopped"} => Nothing

\* While a call has the state file open it is empty, and no other call has.
WritesAlone ==
    mishap = {} =>
        \A c \in Clients :
            pc[c] \in Writing => file = NoState /\ \A d \in Clients \ {c} : pc[d] \notin Writing

\* The inductive strengthening of OneService and ServiceTracked.
Serving ==
    mishap = {} =>
        /\ \A p \in Pids : "child" \notin procs[p]
        /\ (\A c \in Clients : ~Unsettled(c)) => Tracks(file)
        /\ \A c \in Clients : Knows(c)

\* Only a save touches the state file and has it open.
LEMMA KeepsFile ==
    ASSUME TypeOK, NEW c \in Clients, Call(c) \/ Continue(c) \/ Crash(c), ~Open(c), ~Write(c)
    PROVE  file' = file /\ pc'[c] \notin Writing
<1> USE DEF Writing, Return, Goto, TypeOK
<1>1. CASE Call(c) \/ Crash(c)
  BY <1>1 DEF Call, CallStatus, CallStop, CallStart, CannotStart, Enter, Crash
<1>2. CASE Probe(c)
  BY <1>2 DEF Probe, Refreshed
<1>3. CASE Spawn(c) \/ RemoveContainer(c) \/ RunContainer(c) \/ Ready(c) \/ NotReady(c)
  BY <1>3 DEF Spawn, RemoveContainer, RunContainer, Ready, NotReady
<1>4. CASE TerminateProcess(c) \/ Exited(c) \/ Kill(c) \/ StopContainer(c)
  BY <1>4 DEF TerminateProcess, Exited, Kill, StopContainer, StopFailed
<1>5. QED
  BY <1>1, <1>2, <1>3, <1>4 DEF Continue

\* Without a mishap the calls save one after the other.
LEMMA NextWritesAlone == TypeOK /\ WritesAlone /\ [Next]_vars => WritesAlone'
<1> SUFFICES ASSUME TypeOK, WritesAlone, [Next]_vars PROVE WritesAlone'
  OBVIOUS
<1>1. CASE UNCHANGED vars \/ Environment
  BY <1>1 DEF vars, Environment, ContainerExits, Reuse, Exits, WritesAlone
<1>2. ASSUME NEW c \in Clients, Call(c) \/ Continue(c) \/ Crash(c) PROVE WritesAlone'
  <2> SUFFICES ASSUME mishap' = {}, NEW d \in Clients, pc'[d] \in Writing
               PROVE  file' = NoState /\ \A e \in Clients \ {d} : pc'[e] \notin Writing
    BY DEF WritesAlone
  <2>1. mishap = {}
    BY <1>2, StepOp
  <2>2. \A e \in Clients \ {c} : pc'[e] = pc[e]
    BY <1>2, OthersStay
  <2>3. CASE Open(c)
    <3>1. file' = NoState /\ \A e \in Clients \ {c} : pc[e] \notin Writing
      BY <2>3 DEF Open, Fault
    <3>2. QED
      BY <2>2, <3>1
  <2>4. CASE Write(c)
    <3>1. pc[c] \in Writing /\ pc'[c] \notin Writing
      BY <2>4 DEF Write, Writing, Saved, SaveFailed, Refreshed, Return, Goto, TypeOK
    <3>2. \A e \in Clients : pc'[e] \notin Writing
      BY <2>1, <2>2, <3>1 DEF WritesAlone
    <3>3. QED
      BY <3>2
  <2>5. CASE ~Open(c) /\ ~Write(c)
    <3>1. file' = file /\ pc'[c] \notin Writing
      BY <1>2, <2>5, KeepsFile
    <3>2. QED
      BY <2>1, <2>2, <3>1 DEF WritesAlone
  <2>6. QED
    BY <2>3, <2>4, <2>5
<1>3. QED
  BY <1>1, <1>2 DEF Next

LEMMA WritesAloneInvariant == Spec => []WritesAlone
<1>1. Init => WritesAlone
  BY DEF Init, Writing, WritesAlone
<1>2. QED
  BY <1>1, NextWritesAlone, TypeCorrect, PTL DEF Spec

\* A record that is not of a running service tracks only nothing.
LEMMA TracksNothing ==
    ASSUME NEW state, Tracks(state),
           state.status # "running" \/ state \notin States
    PROVE  Nothing
<1>1. \A p \in Pids : State("process", "running", p) \in States
  BY StateType
<1>2. State("docker", "running", NoPid) \in States
  BY StateType
<1>3. QED
  BY <1>1, <1>2 DEF Tracks, Nothing, Services, State

\* What a record of a process, or of a container, says of what lives.
LEMMA TracksMode ==
    ASSUME NEW state, Tracks(state)
    PROVE  /\ state.mode = "process" => container # "running" /\ \A p \in Services : state.pid = p
           /\ state.mode = "docker" => Services = {}
<1>1. /\ State("docker", "running", NoPid).mode = "docker"
      /\ \A p : State("process", "running", p).mode = "process" /\ State("process", "running", p).pid = p
  BY DEF State
<1>2. ASSUME state.mode = "process", container = "running" PROVE FALSE
  BY <1>1, <1>2 DEF Tracks
<1>3. ASSUME NEW p \in Services PROVE state.mode = "process" /\ state.pid = p
  BY <1>1, <1>3 DEF Tracks
<1>4. QED
  BY <1>2, <1>3

\* What knows still knows when services end or stay.
LEMMA KnowsLess ==
    ASSUME NEW c, Knows(c), pc'[c] = pc[c], local'[c] = local[c],
           Services' \subseteq Services, container' = "running" => container = "running"
    PROVE  Knows(c)'
BY DEF Knows, Tracks, Nothing

\* A step that ends services or leaves them keeps what all the other clients
\* know.
LEMMA OthersKnow ==
    ASSUME TypeOK, NEW c \in Clients, Call(c) \/ Continue(c) \/ Crash(c),
           \A d \in Clients : Knows(d),
           Services' \subseteq Services, container' = "running" => container = "running"
    PROVE  \A d \in Clients \ {c} : Knows(d)'
BY OthersStay, KnowsLess

\* A step that launches nothing, after which the file is as before or
\* the record of its client, or nothing lives.
LEMMA StepServing ==
    ASSUME TypeOK, Serving, NEW c \in Clients, Call(c) \/ Continue(c) \/ Crash(c),
           mishap' = {}, mishap = {},
           \A p \in Pids : "child" \notin procs'[p],
           Services' \subseteq Services, container' = "running" => container = "running",
           \/ file' = file /\ (Unsettled(c) => Unsettled(c)')
           \/ Tracks(file)'
           \/ Nothing',
           Knows(c)'
    PROVE  Serving'
<1>1. \A d \in Clients : Knows(d)'
  BY OthersKnow DEF Serving
<1>2. (\A d \in Clients : ~Unsettled(d)') => Tracks(file)'
  <2> SUFFICES ASSUME \A d \in Clients : ~Unsettled(d)' PROVE Tracks(file)'
    OBVIOUS
  <2>1. CASE file' = file /\ (Unsettled(c) => Unsettled(c)')
    <3>1. \A d \in Clients \ {c} : Unsettled(d)' = Unsettled(d)
      BY OthersStay DEF Unsettled
    <3>2. \A d \in Clients : ~Unsettled(d)
      BY <2>1, <3>1
    <3>3. Tracks(file)
      BY <3>2 DEF Serving
    <3>4. QED
      BY <2>1, <3>3 DEF Tracks
  <2>2. CASE Tracks(file)'
    BY <2>2
  <2>3. CASE Nothing'
    BY <2>3 DEF Nothing, Tracks
  <2>4. QED
    BY <2>1, <2>2, <2>3
<1>3. QED
  BY <1>1, <1>2 DEF Serving

\* The call of a client begins knowing what lives.
LEMMA CallServing ==
    ASSUME TypeOK, Orderly, WritesAlone, Serving, NEW c \in Clients, Call(c), mishap' = {}
    PROVE  Serving'
<1>1. /\ UNCHANGED <<file, procs, container>> /\ op[c] = "none" /\ mishap = {}
      /\ \/ pc'[c] = "idle"
         \/ \E call \in {"start", "stop", "status"} :
               /\ ~Overlaps(c, call)
               /\ \/ pc'[c] \in {"probe", "term"} /\ file \in States /\ local'[c] = file
                  \/ pc'[c] = "launch" /\ file \notin States /\ call = "start"
  BY DEF Call, CallStatus, CallStop, CallStart, CannotStart, Enter, Return, Loaded, LoadFails,
         Hold, worldVars, TypeOK
<1>2. Knows(c)'
  <2>1. CASE pc'[c] = "idle"
    BY <2>1 DEF Knows
  <2>2. CASE \E call \in {"start", "stop", "status"} :
               /\ ~Overlaps(c, call)
               /\ \/ pc'[c] \in {"probe", "term"} /\ file \in States /\ local'[c] = file
                  \/ pc'[c] = "launch" /\ file \notin States /\ call = "start"
    <3>1. \A d \in Clients : op[d] # "start"
      BY <1>1, <2>2 DEF Overlaps
    <3>2. \A d \in Clients : pc[d] \notin Writing
      <4>1. CASE file \in States
        BY <1>1, <4>1, RuntimeManagerAssumption DEF WritesAlone
      <4>2. CASE file \notin States
        <5>1. \A d \in Clients : op[d] = "none"
          BY <1>1, <2>2, <4>2 DEF Overlaps
        <5>2. QED
          BY <5>1 DEF Orderly, InCall, Writing
      <4>3. QED
        BY <4>1, <4>2
    <3>3. Tracks(file)
      BY <1>1, <3>1, <3>2 DEF Serving, Unsettled
    <3>4. file \notin States => Nothing
      BY <3>3, TracksNothing
    <3>5. QED
      BY <1>1, <2>2, <3>3, <3>4 DEF Knows, Tracks, Nothing, Services
  <2>3. QED
    BY <1>1, <2>1, <2>2
<1>3. Services' = Services
  BY <1>1 DEF Services
<1>4. ~Unsettled(c)
  BY <1>1 DEF Orderly, InCall, Unsettled, Writing
<1>5. QED
  BY <1>1, <1>2, <1>3, <1>4, StepServing DEF Serving

\* In a world without children a tracked service of a record is alive just
\* when something lives.
LEMMA AliveWhenTracked ==
    ASSUME TypeOK, NEW state \in States, Tracks(state), ~Nothing,
           \A p \in Pids : "child" \notin procs[p]
    PROVE  Alive(state) /\ state.status = "running"
<1>1. CASE container = "running"
  BY <1>1 DEF Tracks, Alive, State
<1>2. CASE Services # {}
  <2>1. PICK p \in Services : state = State("process", "running", p)
    BY <1>2 DEF Tracks
  <2>2. p \in Pids /\ "leader" \in procs[p] /\ p # NoPid
    BY <2>1, RuntimeManagerAssumption DEF Services
  <2>3. QED
    BY <2>1, <2>2 DEF Alive, ProcessExists, State
<1>3. QED
  BY <1>1, <1>2 DEF Nothing

\* Looking at the service keeps its record right.
LEMMA ProbeServing ==
    ASSUME TypeOK, Serving, NEW c \in Clients, Probe(c), mishap' = {}
    PROVE  Serving'
<1>1. /\ UNCHANGED <<file, procs, container>> /\ mishap = {} /\ ~Unsettled(c)
      /\ Tracks(local[c]) /\ local[c] \in States
      /\ \A p \in Pids : "child" \notin procs[p]
  BY DEF Probe, Fault, worldVars, Unsettled, Writing, Serving, Knows, TypeOK
<1>2. Services' = Services /\ (Nothing => Nothing')
  BY <1>1 DEF Services, Nothing
<1>3. CASE local[c].status = "stopped" /\ Refreshed(c, "stopped")
  <2>1. Nothing
    BY <1>1, <1>3, TracksNothing
  <2>2. Knows(c)'
    BY <1>2, <1>3, <2>1 DEF Refreshed, Return, Goto, Knows, TypeOK
  <2>3. QED
    BY <1>1, <1>2, <2>2, StepServing DEF Continue
<1>4. CASE /\ local' = [local EXCEPT ![c] = [local[c] EXCEPT !.status =
                            IF Alive(local[c]) THEN "running" ELSE "stopped"]]
           /\ pc' = [pc EXCEPT ![c] = "save_refresh"]
  <2>1. Nothing \/ (Alive(local[c]) /\ local[c].status = "running")
    BY <1>1, AliveWhenTracked
  <2>2. Nothing \/ local'[c] = local[c]
    BY <1>1, <1>4, <2>1 DEF States, TypeOK
  <2>3. Tracks(local'[c])
    BY <1>1, <2>2 DEF Nothing, Tracks
  <2>4. Knows(c)'
    BY <1>1, <1>4, <2>3 DEF Knows, Tracks, Services, TypeOK
  <2>5. QED
    BY <1>1, <1>2, <2>4, StepServing DEF Continue
<1>5. QED
  BY <1>3, <1>4 DEF Probe, Hold, Goto, Fault

\* A save puts on record what its call knows.
LEMMA SaveServing ==
    ASSUME TypeOK, WritesAlone, Serving, NEW c \in Clients, Open(c) \/ Write(c), mishap' = {}
    PROVE  Serving'
<1>1. /\ UNCHANGED <<procs, container, local>> /\ mishap = {} /\ Knows(c)
      /\ \A p \in Pids : "child" \notin procs[p]
  <2>1. mishap = {}
    BY StepOp DEF Continue
  <2>2. QED
    BY <2>1 DEF Open, Write, worldVars, Serving
<1>2. Services' = Services /\ (Nothing => Nothing') /\ (Tracks(local[c]) => Tracks(local[c])')
  BY <1>1 DEF Services, Nothing, Tracks
<1>3. CASE Open(c)
  <2>1. Goto(c, Opened[pc[c]]) /\ pc[c] \in DOMAIN Opened
    BY <1>3 DEF Open, Fault
  <2>2. \/ pc[c] = "save_refresh" /\ pc'[c] = "write_refresh"
        \/ pc[c] = "save_started" /\ pc'[c] = "write_started"
        \/ pc[c] = "save_stopped" /\ pc'[c] = "write_stopped"
    BY <2>1, OpenGoes DEF Goto, TypeOK
  <2>3. Knows(c)' /\ Unsettled(c)'
    BY <1>1, <1>2, <2>2 DEF Knows, Unsettled, Writing
  <2>4. QED
    BY <1>1, <1>2, <1>3, <2>3, OthersKnow DEF Serving, Continue
<1>4. CASE Write(c)
  <2>1. pc[c] \in Writing /\ file' = Record(c) /\ Saved(c)
    BY <1>1, <1>4 DEF Write, Fault, WritesAlone
  <2>2. CASE pc[c] = "write_refresh"
    <3>1. file' = local[c] /\ Refreshed(c, local[c].status) /\ Tracks(local[c])
      BY <1>1, <2>1, <2>2 DEF Record, Saved, Knows
    <3>2. local[c].status # "running" => Nothing
      BY <3>1, TracksNothing
    <3>3. Knows(c)'
      BY <1>2, <3>1, <3>2 DEF Refreshed, Return, Goto, Knows, TypeOK
    <3>4. Tracks(file)'
      BY <1>1, <1>2, <3>1 DEF Tracks
    <3>5. QED
      BY <1>1, <1>2, <1>4, <3>3, <3>4, StepServing DEF Continue
  <2>3. CASE pc[c] = "write_started"
    <3>1. file' = local[c] /\ Tracks(local[c]) /\ pc'[c] = "idle"
      BY <1>1, <2>1, <2>3 DEF Record, Saved, Return, Knows, TypeOK
    <3>2. Tracks(file)' /\ Knows(c)'
      BY <1>1, <1>2, <3>1 DEF Tracks, Knows
    <3>3. QED
      BY <1>1, <1>2, <1>4, <3>2, StepServing DEF Continue
  <2>4. CASE pc[c] = "write_stopped"
    <3>1. Nothing /\ pc'[c] = "idle"
      BY <1>1, <2>1, <2>4 DEF Saved, Return, Knows, TypeOK
    <3>2. Nothing' /\ Knows(c)'
      BY <1>2, <3>1 DEF Knows
    <3>3. QED
      BY <1>1, <1>2, <1>4, <3>2, StepServing DEF Continue
  <2>5. QED
    BY <2>1, <2>2, <2>3, <2>4 DEF Writing
<1>5. QED
  BY <1>3, <1>4

\* A start that overlaps no other call launches the only service.
LEMMA AloneServing ==
    ASSUME TypeOK, Orderly, Serving, mishap = {}, NEW c \in Clients, Continue(c), pc[c] \in {"launch", "docker_run"},
           \A p \in Pids : "child" \notin procs'[p],
           pc'[c] = "wait", op' = op, Tracks(local[c])'
    PROVE  Serving'
<1>1. op[c] = "start"
  BY TypeSplit DEF Orderly, InCall, ControlOK, Calls
<1>2. \A d \in Clients \ {c} : op[d] = "none" /\ pc[d] = "idle"
  BY <1>1 DEF Orderly, StartsAlone, InCall
<1>3. \A d \in Clients \ {c} : Knows(d)'
  <2>1. \A d \in Clients \ {c} : pc'[d] = "idle"
    BY <1>2, OthersStay
  <2>2. QED
    BY <2>1 DEF Knows
<1>4. Knows(c)' /\ Unsettled(c)'
  BY <1>1 DEF Knows, Unsettled
<1>5. QED
  BY <1>3, <1>4 DEF Serving

\* Launching a service, and the wait for it.
LEMMA LaunchServing ==
    ASSUME TypeOK, Orderly, Serving, NEW c \in Clients, mishap' = {},
           Spawn(c) \/ RemoveContainer(c) \/ RunContainer(c)
             \/ Ready(c) \/ NotReady(c)
    PROVE  Serving'
<1> USE DEF Continue
<1>1. /\ mishap = {} /\ Knows(c) /\ \A p \in Pids : "child" \notin procs[p]
      /\ local[c] \in States
  BY DEF Spawn, RemoveContainer, RunContainer, Ready, NotReady, Fault, Serving, TypeOK
<1>2. CASE Spawn(c)
  <2>1. Nothing /\ container' = container /\ pc[c] = "launch"
    BY <1>1, <1>2 DEF Spawn, Knows
  <2>2. CASE \E p \in Pids :
               /\ procs' = [procs EXCEPT ![p] = {"leader"}]
               /\ Hold(c, State("process", "running", p))
               /\ Goto(c, "wait") /\ UNCHANGED <<file, op, ret>>
    <3>1. PICK p \in Pids :
               /\ procs' = [procs EXCEPT ![p] = {"leader"}]
               /\ local' = [local EXCEPT ![c] = State("process", "running", p)]
               /\ pc' = [pc EXCEPT ![c] = "wait"] /\ UNCHANGED op
      BY <2>2 DEF Hold, Goto
    <3>2. Services' = {p} /\ \A q \in Pids : "child" \notin procs'[q]
      BY <1>1, <2>1, <3>1 DEF Services, Nothing, TypeOK
    <3>3. Tracks(local[c])'
      BY <2>1, <3>1, <3>2 DEF Tracks, Nothing, TypeOK
    <3>4. QED
      BY <1>1, <1>2, <2>1, <3>1, <3>2, <3>3, AloneServing DEF TypeOK
  <2>3. CASE Return(c, "error") /\ UNCHANGED <<procs, local>>
    <3>1. Nothing' /\ Services' \subseteq Services
      BY <2>1, <2>3 DEF Nothing, Services
    <3>2. Knows(c)'
      BY <2>3 DEF Return, Knows, TypeOK
    <3>3. QED
      BY <1>1, <1>2, <2>1, <2>3, <3>1, <3>2, StepServing
  <2>4. CASE Goto(c, "save_stopped") /\ UNCHANGED <<procs, op>>
    <3>1. Nothing' /\ Services' \subseteq Services
      BY <2>1, <2>4 DEF Nothing, Services
    <3>2. Knows(c)'
      BY <2>4, <3>1 DEF Goto, Knows, TypeOK
    <3>3. QED
      BY <1>1, <1>2, <2>1, <2>4, <3>1, <3>2, StepServing
  <2>5. QED
    BY <1>2, <2>2, <2>3, <2>4 DEF Spawn, Fault
<1>3. CASE RemoveContainer(c)
  <2>1. Nothing /\ Nothing' /\ Services' = Services /\ UNCHANGED procs
    BY <1>1, <1>3 DEF RemoveContainer, Knows, Nothing, Services
  <2>2. Knows(c)'
    BY <1>3, <2>1 DEF RemoveContainer, Goto, Knows, TypeOK
  <2>3. QED
    BY <1>1, <1>3, <2>1, <2>2, StepServing DEF Nothing
<1>4. CASE RunContainer(c)
  <2>1. Nothing /\ Services' = Services /\ UNCHANGED procs /\ pc[c] = "docker_run"
    BY <1>1, <1>4 DEF RunContainer, Knows, Services
  <2>2. CASE container' = "running" /\ Hold(c, State("docker", "running", NoPid))
             /\ Goto(c, "wait") /\ UNCHANGED <<op, ret>>
    <3>1. Tracks(local[c])'
      BY <2>1, <2>2 DEF Tracks, Nothing, Hold, TypeOK
    <3>2. QED
      BY <1>1, <1>4, <2>1, <2>2, <3>1, AloneServing DEF Goto, TypeOK
  <2>3. CASE container' \in {container, "exited"} /\ Return(c, "error") /\ UNCHANGED local
    <3>1. Nothing' /\ Knows(c)'
      BY <2>1, <2>3 DEF Nothing, Return, Knows, TypeOK
    <3>2. QED
      BY <1>1, <1>4, <2>1, <3>1, StepServing DEF Nothing
  <2>4. QED
    BY <1>4, <2>2, <2>3 DEF RunContainer
<1>5. CASE Ready(c) \/ NotReady(c)
  <2>1. /\ UNCHANGED <<file, procs, container, op, local>> /\ Tracks(local[c]) /\ op[c] = "start"
        /\ pc'[c] \in {"save_started", "term"}
    BY <1>1, <1>5, TypeSplit DEF Ready, NotReady, Goto, worldVars, Knows, Orderly, InCall,
       ControlOK, Calls, TypeOK
  <2>2. Services' = Services /\ Tracks(local[c])'
    BY <2>1 DEF Services, Tracks
  <2>3. Knows(c)' /\ Unsettled(c)'
    BY <2>1, <2>2 DEF Knows, Unsettled
  <2>4. QED
    BY <1>1, <1>5, <2>1, <2>2, <2>3, StepServing
<1>6. QED
  BY <1>2, <1>3, <1>4, <1>5

\* Stopping a service, in a stop and in a start that has failed.
LEMMA StopServing ==
    ASSUME TypeOK, Orderly, Awaits, Serving, NEW c \in Clients, mishap' = {},
           TerminateProcess(c) \/ Exited(c) \/ Kill(c) \/ StopContainer(c)
    PROVE  Serving'
<1> USE DEF Continue
<1>1. /\ mishap = {} /\ Knows(c) /\ \A p \in Pids : "child" \notin procs[p]
      /\ local[c] \in States /\ op[c] \in {"start", "stop"}
  BY TypeSplit DEF TerminateProcess, Exited, Kill, StopContainer, StopFailed,
     Fault, Serving, TypeOK, Orderly, InCall, ControlOK, Calls
\* What is held by then is the only thing that can live.
<1>2. ASSUME Tracks(local[c]), local[c].mode = "process"
      PROVE  Services \subseteq {Stopping(c)} /\ container # "running"
  BY <1>2, TracksMode DEF Stopping
<1>3. CASE TerminateProcess(c)
  <2>1. Tracks(local[c]) /\ local[c].mode = "process" /\ UNCHANGED <<file, container, op, local>>
    BY <1>1, <1>3 DEF TerminateProcess, Knows
  <2>2. CASE Stopping(c) = NoPid /\ Goto(c, "save_stopped") /\ UNCHANGED procs
    <3>1. Nothing
      BY <1>2, <2>1, <2>2, RuntimeManagerAssumption DEF Nothing, Services
    <3>2. Services' = Services /\ Nothing' /\ pc'[c] = "save_stopped"
      BY <2>1, <2>2, <3>1 DEF Services, Nothing, Goto, TypeOK
    <3>3. Knows(c)'
      BY <3>2 DEF Knows
    <3>4. QED
      BY <1>1, <1>3, <2>1, <2>2, <3>2, <3>3, StepServing
  <2>3. CASE Stopping(c) # NoPid
    <3>1. PICK survivors \in SUBSET procs[Stopping(c)] :
               procs' = [procs EXCEPT ![Stopping(c)] = survivors]
               /\ pc' = [pc EXCEPT ![c] = "await"]
      BY <1>3, <2>3 DEF TerminateProcess, Goto
    <3>2. Services' \subseteq Services /\ \A p \in Pids : "child" \notin procs'[p]
      BY <1>1, <3>1 DEF Services, TypeOK
    <3>3. Knows(c)' /\ (Unsettled(c) => Unsettled(c)')
      BY <1>3, <2>1, <3>1, <3>2 DEF TerminateProcess, Knows, Tracks, Unsettled, Writing, TypeOK
    <3>4. QED
      BY <1>1, <1>3, <2>1, <3>2, <3>3, StepServing
  <2>4. QED
    BY <1>3, <2>2, <2>3 DEF TerminateProcess
<1>4. CASE Exited(c)
  <2>1. /\ Tracks(local[c]) /\ local[c].mode = "process" /\ UNCHANGED <<file, procs, container, op>>
        /\ ~ProcessExists(Stopping(c)) /\ pc'[c] = "save_stopped"
    BY <1>1, <1>4 DEF Exited, Awaits, Knows, Goto, worldVars, TypeOK
  <2>2. Nothing
    BY <1>1, <1>2, <2>1, RuntimeManagerAssumption DEF Nothing, Services, ProcessExists
  <2>3. Services' = Services /\ Nothing' /\ Knows(c)'
    BY <2>1, <2>2 DEF Services, Nothing, Knows
  <2>4. QED
    BY <1>1, <1>4, <2>1, <2>3, StepServing
<1>5. CASE Kill(c)
  <2>1. /\ Tracks(local[c]) /\ local[c].mode = "process" /\ UNCHANGED <<file, container>>
    BY <1>1, <1>5 DEF Kill, Awaits, Knows
  <2>2. CASE procs' = [procs EXCEPT ![Stopping(c)] = {}] /\ Goto(c, "save_stopped")
    <3>1. Nothing' /\ Services' \subseteq Services /\ \A p \in Pids : "child" \notin procs'[p]
      BY <1>1, <1>2, <2>1, <2>2 DEF Nothing, Services, TypeOK
    <3>2. Knows(c)'
      BY <2>2, <3>1 DEF Knows, Goto, TypeOK
    <3>3. QED
      BY <1>1, <1>5, <2>1, <3>1, <3>2, StepServing
  <2>3. CASE UNCHANGED procs /\ Return(c, "error") /\ op[c] = "stop"
    <3>1. Services' = Services /\ Knows(c)' /\ ~Unsettled(c)
      BY <1>5, <2>3 DEF Kill, Services, Return, Knows, Unsettled, Writing, TypeOK
    <3>2. QED
      BY <1>1, <1>5, <2>1, <2>3, <3>1, StepServing
  <2>4. QED
    BY <1>5, <2>2, <2>3 DEF Kill, StopFailed, Fault
<1>6. CASE StopContainer(c)
  <2>1. /\ Tracks(local[c]) /\ local[c].mode = "docker" /\ UNCHANGED <<file, procs>>
    BY <1>1, <1>6 DEF StopContainer, Knows
  <2>2. Services = {} /\ Services' = Services
    BY <2>1, TracksMode DEF Services
  <2>3. CASE container' # "running" /\ Goto(c, "save_stopped")
    <3>1. Nothing' /\ Knows(c)'
      BY <2>2, <2>3 DEF Nothing, Knows, Goto, TypeOK
    <3>2. QED
      BY <1>1, <1>6, <2>1, <2>2, <2>3, <3>1, StepServing
  <2>4. CASE UNCHANGED container /\ Return(c, "error") /\ op[c] = "stop"
    <3>1. Knows(c)' /\ ~Unsettled(c)
      BY <1>6, <2>4 DEF StopContainer, Return, Knows, Unsettled, Writing, TypeOK
    <3>2. QED
      BY <1>1, <1>6, <2>1, <2>2, <2>4, <3>1, StepServing
  <2>5. QED
    BY <1>6, <2>3, <2>4 DEF StopContainer, StopFailed, Fault
<1>7. QED
  BY <1>3, <1>4, <1>5, <1>6

\* Services and containers end by themselves, and process ids are used again.
LEMMA EnvironmentServing ==
    ASSUME TypeOK, Serving, Environment \/ UNCHANGED vars PROVE Serving'
<1>1. /\ UNCHANGED <<file, op, pc, local, mishap>>
      /\ container' = "running" => container = "running"
  BY DEF Environment, ContainerExits, Reuse, Exits, vars, worldVars
<1>2. /\ Services' \subseteq Services
      /\ (\A p \in Pids : "child" \notin procs[p]) => \A p \in Pids : "child" \notin procs'[p]
  BY DEF Environment, ContainerExits, Reuse, Exits, vars, worldVars, Services, TypeOK
<1>3. (Tracks(file) => Tracks(file)') /\ \A c \in Clients : Knows(c) => Knows(c)'
  BY <1>1, <1>2, KnowsLess DEF Tracks
<1>4. QED
  BY <1>1, <1>2, <1>3 DEF Serving, Unsettled

\* Every step keeps the record of what lives right.
LEMMA NextServing ==
    TypeOK /\ Orderly /\ Awaits /\ WritesAlone /\ Serving /\ [Next]_vars => Serving'
<1> SUFFICES ASSUME TypeOK, Orderly, Awaits, WritesAlone, Serving, [Next]_vars, mishap' = {} PROVE Serving'
  BY DEF Serving
<1>1. ASSUME NEW c \in Clients, Crash(c) PROVE FALSE
  BY <1>1 DEF Crash, Fault
<1>2. QED
  BY <1>1, CallServing, ProbeServing, SaveServing, LaunchServing, StopServing, EnvironmentServing
     DEF Next, Continue

\* The record is right in every reachable state.
LEMMA ServingInvariant == Spec => []Serving
<1>1. Init => Serving
  <2> SUFFICES ASSUME Init PROVE Serving
    OBVIOUS
  <2>1. Tracks(file) /\ \A p \in Pids : "child" \notin procs[p]
    BY InitTrackedAssumption, RuntimeManagerAssumption DEF Init, Tracks, Services
  <2>2. \A c \in Clients : Knows(c)
    BY DEF Init, Knows
  <2>3. QED
    BY <2>1, <2>2 DEF Serving
<1>2. QED
  BY <1>1, NextServing, TypeCorrect, OrderlyInvariant, AwaitsInvariant, WritesAloneInvariant, PTL DEF Spec

\* A set in which any two are the same has one element at most.
LEMMA OneInstance ==
    ASSUME NEW S, \A p, q \in S : p = q
    PROVE  Cardinality(S) <= 1
<1>1. CASE S = {}
  BY <1>1, FS_EmptySet
<1>2. CASE S # {}
  <2>1. PICK p \in S : S = {p}
    BY <1>2
  <2>2. Cardinality({p}) = 1
    BY FS_Singleton, Zenon
  <2>3. Cardinality(S) = 1
    BY <2>1, <2>2, Zenon
  <2>4. QED
    BY <2>3
<1>3. QED
  BY <1>1, <1>2

\* There is never more than one instance of the service, as long as no start
\* overlaps another call, no two calls have the state file open at once
\* (store.go:90) and nothing fails.
THEOREM OnlyOneService == Spec => []OneService
<1>1. Orderly /\ TypeOK /\ Serving => OneService
  <2> SUFFICES ASSUME Orderly, TypeOK, Serving, mishap = {}
               PROVE  Cardinality(Services) <= 1 /\ (container = "running" => Services = {})
    BY DEF OneService
  <2>1. \E state : Tracks(state)
    <3>1. CASE \A c \in Clients : ~Unsettled(c)
      BY <3>1 DEF Serving
    <3>2. CASE \E c \in Clients : Unsettled(c)
      <4>1. PICK c \in Clients : Unsettled(c)
        BY <3>2
      <4>2. Nothing \/ Tracks(local[c])
        BY <4>1, TypeSplit DEF Unsettled, Orderly, InCall, ControlOK, Labels, Writing, Serving, Knows
      <4>3. QED
        BY <4>2 DEF Nothing, Tracks
    <3>3. QED
      BY <3>1, <3>2
  <2>2. PICK state : Tracks(state)
    BY <2>1
  <2>3. \A p, q \in Services : p = q
    BY <2>2 DEF Tracks, State
  <2>4. container = "running" => Services = {}
    BY <2>2 DEF Tracks, State
  <2>5. QED
    BY <2>3, <2>4, OneInstance
<1>2. QED
  BY <1>1, ServingInvariant, OrderlyInvariant, TypeCorrect, PTL

\* Under the same proviso the state file names, between calls, the service
\* that lives, whatever stops and status calls have overlapped.
THEOREM ServiceOnRecord == Spec => []ServiceTracked
<1>1. Orderly /\ Serving => ServiceTracked
  BY DEF Orderly, InCall, Serving, ServiceTracked, Quiet, Unsettled, Writing, Tracks
<1>2. QED
  BY <1>1, ServingInvariant, OrderlyInvariant, PTL
=============================================================================
