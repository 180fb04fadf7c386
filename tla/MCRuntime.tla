----------------------------- MODULE MCRuntime -----------------------------
(***************************************************************************)
(* RuntimeManager with nothing running at the start and two CLI processes, *)
(* which may call Start, Stop and Status at any time.                      *)
(***************************************************************************)
EXTENDS RuntimeManager, TLC

MCNothing == [p \in Pids |-> {}]

Request(asked, mode, docker, process, healthURL) ==
    [asked |-> asked, mode |-> mode, docker |-> docker, process |-> process,
     healthURL |-> healthURL, dockerfile |-> FALSE, inferred |-> FALSE]

\* `run --mode process', a specification that declares a container, and one
\* that declares nothing.
MCRequests ==
    {Request("process", "auto", TRUE, TRUE, FALSE), Request("", "auto", TRUE, FALSE, FALSE),
     Request("", "", FALSE, FALSE, FALSE)}

MCSymmetry == Permutations(Clients) \cup Permutations(Pids)

\* What later steps and the properties depend on: nobody reads what a call
\* has returned, what it has held once it launches or is over, or what it has
\* resolved once it has launched; of mishaps it matters whether there was any
\* and whether a start overlapped.
Held(c) ==
    IF pc[c] \in {"idle", "launch", "docker_run"} THEN <<>> ELSE <<local[c]>>

Resolved(c) ==
    IF op[c] = "start" /\ pc[c] \in {"probe", "save_refresh", "write_refresh", "launch"}
    THEN want[c] ELSE "none"

MCView ==
    <<file, worldVars, pc, op, mishap = {}, "overlap" \in mishap,
      [c \in Clients |-> <<Held(c), Resolved(c)>>]>>
=============================================================================
