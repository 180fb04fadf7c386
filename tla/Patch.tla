------------------------------- MODULE Patch -------------------------------
(***************************************************************************)
(* Patch operations (internal/backend/core/patch.go), their application    *)
(* (internal/workspace/patch) and the snapshot that undoes them            *)
(* (internal/app/workspace_state.go).                                      *)
(*                                                                         *)
(* A workspace is a function from paths to what the file holds: a content, *)
(* Absent, or Torn when a write failed half way.  Directories and file     *)
(* modes are left out.                                                     *)
(***************************************************************************)
EXTENDS Naturals, Sequences, SequencesExt

CONSTANTS Paths,     \* cleaned paths, relative to the project directory
          Contents,  \* what a complete file can hold
          Absent,    \* the file does not exist
          Torn       \* the file was truncated by a write that failed

FileStates == Contents \cup {Absent, Torn}
Workspaces == [Paths -> FileStates]

WriteFile(p, c)  == [kind |-> "write", path |-> p, content |-> c]
DeleteFile(p)    == [kind |-> "delete", path |-> p]
RenameFile(p, q) == [kind |-> "rename", path |-> p, to |-> q]
ApplyDiff(p)     == [kind |-> "diff", path |-> p]

PatchOps ==
    [kind: {"write"}, path: Paths, content: Contents]
      \cup [kind: {"delete", "diff"}, path: Paths]
      \cup [kind: {"rename"}, path: Paths, to: Paths]

\* op.Path(), the only path of an operation the ownership check sees: of a
\* rename it is the source.
OpPath(op) == op.path

\* The paths an operation can change, which is also what
\* patchPathsForSnapshot and changedFilesFromOps collect.
TouchedPaths(op) == IF op.kind = "rename" THEN {op.path, op.to} ELSE {op.path}
AllTouched(ops) == UNION {TouchedPaths(ops[i]) : i \in DOMAIN ops}

\* Mutant: the target of a rename is forgotten, as in OpPath.
AllTouchedBySource(ops) == {OpPath(ops[i]) : i \in DOMAIN ops}

ChangedFilesBySource(ops) == AllTouchedBySource(ops)
ChangedFilesFromOps(ops) == AllTouched(ops)
PatchPathsBySource(ops) == AllTouchedBySource(ops)
PatchPathsForSnapshot(ops) == AllTouched(ops)

\* staleOwnedDeleteOps: the owned paths no operation produces, as deletes.
\* The order of the spec's list is some fixed order of the set.
Desired(ops) ==
    {ops[i].path : i \in {j \in DOMAIN ops : ops[j].kind \in {"write", "diff"}}}
      \cup {ops[i].to : i \in {j \in DOMAIN ops : ops[j].kind = "rename"}}

\* Mutant: nothing is appended.
StaleNothing(owned, ops) == <<>>

StaleOwnedDeleteOps(owned, ops) ==
    LET stale == SetToSeq(owned \ Desired(ops))
    IN  [i \in 1..Len(stale) |-> DeleteFile(stale[i])]

\* Applier.Apply succeeds: a rename needs its source, a diff is not
\* implemented, a delete of a missing file is fine.
CanApply(ws, op) ==
    /\ op.kind # "diff"
    /\ op.kind = "rename" => ws[op.path] # Absent

\* The workspace after an operation that can be applied.
Apply(ws, op) ==
    IF op.kind = "write" THEN [ws EXCEPT ![op.path] = op.content]
    ELSE IF op.kind = "delete" THEN [ws EXCEPT ![op.path] = Absent]
    ELSE [ws EXCEPT ![op.path] = Absent, ![op.to] = ws[op.path]]

\* What an operation that failed leaves: a write may have truncated its file.
FailedApply(ws, op) ==
    {ws} \cup (IF op.kind = "write" THEN {[ws EXCEPT ![op.path] = Torn]} ELSE {})

\* captureWorkspaceState and Restore.
Capture(ws, paths) == [p \in paths |-> ws[p]]

RestoredOn(ws, snap, done) ==
    [p \in Paths |-> IF p \in done THEN snap[p] ELSE ws[p]]

Restore(ws, snap) == RestoredOn(ws, snap, DOMAIN snap)

\* Restore stops at the first path it cannot remove or write.  The paths
\* before it are restored, and the one it failed on may be truncated.
TruncatedAt(ws, snap, bad) ==
    IF snap[bad] = Absent THEN ws ELSE [ws EXCEPT ![bad] = Torn]

FailedRestore(ws, snap) ==
    UNION {{RestoredOn(ws, snap, done), TruncatedAt(RestoredOn(ws, snap, done), snap, bad)} :
              done \in SUBSET DOMAIN snap, bad \in DOMAIN snap}
=============================================================================
