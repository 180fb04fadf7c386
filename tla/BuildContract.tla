--------------------------- MODULE BuildContract ---------------------------
(***************************************************************************)
(* What one build of one specification promises, without attempts, prompts *)
(* and rollbacks: whatever the backend's own process does to its part of   *)
(* the workspace, the operations it returns take effect all at once        *)
(* together with a success receipt that names every file they changed, or  *)
(* they take no effect at all.                                             *)
(***************************************************************************)
CONSTANTS Paths, States,
          InitFiles,    \* the workspace at the start
          InPlace,      \* the paths the backend's process may touch
          LateFailure   \* a build may be reported failed after its commit

VARIABLES ws,        \* the workspace
          receipt,   \* the status on the receipt, "none" before there is one
          audit,     \* the changed files the receipt names
          reported,  \* what the caller of the build was told
          dry        \* a dry run

vars == <<ws, receipt, audit, reported, dry>>

Running == receipt = "none" /\ reported = "none"

DiffersOnlyOn(S) ==
    /\ ws' \in [Paths -> States]
    /\ \A p \in Paths \ S : ws'[p] = ws[p]

Init ==
    /\ ws = InitFiles /\ audit = {}
    /\ receipt = "none" /\ reported = "none"
    /\ dry \in BOOLEAN

BackendWrites ==
    /\ Running /\ DiffersOnlyOn(InPlace)
    /\ UNCHANGED <<receipt, audit, reported, dry>>

Commit ==
    /\ Running /\ ~dry
    /\ receipt' = "success"
    /\ audit' \subseteq Paths
    /\ DiffersOnlyOn(audit')
    /\ UNCHANGED <<reported, dry>>

Abort ==
    /\ Running /\ ~dry
    /\ receipt' \in {"none", "failed"}
    /\ reported' = "failed"
    /\ UNCHANGED <<ws, audit, dry>>

Report ==
    /\ reported = "none"
    /\ \/ reported' = "success" /\ (dry \/ receipt = "success")
       \/ reported' = "failed" /\ receipt = "success" /\ LateFailure
    /\ UNCHANGED <<ws, receipt, audit, dry>>

Next == BackendWrites \/ Commit \/ Abort \/ Report

Spec == Init /\ [][Next]_vars
=============================================================================
