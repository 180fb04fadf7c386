---------------------------- MODULE MCBuildSpec ----------------------------
(***************************************************************************)
(* A small workspace for BuildSpec: one owned file that exists (mine), one *)
(* that does not (fresh), a readonly file (lib), a file of another         *)
(* specification (theirs) and an unmanaged name (free).                    *)
(***************************************************************************)
EXTENDS BuildSpec

CONSTANTS mine, fresh, lib, theirs, free, old, new, spec, other

MCPaths == {mine, fresh, lib, theirs, free}
MCContents == {old, new}
MCOwned == {mine, fresh}
MCReadonly == {lib}

\* The declarations of both specifications, registered one after the other.
MCOwnership ==
    RegisterSpec(
        RegisterSpec(NewOwnershipMap, spec,
            [owned |-> MCOwned, shared |-> {}, readonly |-> MCReadonly]),
        other, [owned |-> {theirs}, shared |-> {}, readonly |-> {}])

MCInitFiles ==
    [p \in MCPaths |-> IF p \in {mine, lib, theirs} THEN old ELSE Absent]

MCOptions ==
    [dryRun: {FALSE}, tests: BOOLEAN, coverage: BOOLEAN, maxRetries: {-1, 0, 2}]
      \cup [dryRun: {TRUE}, tests: {TRUE}, coverage: {TRUE}, maxRetries: {0}]

\* Answers a backend can give: nothing; a new version of an owned file; one
\* that also writes a readonly or a foreign file; a rename that moves an owned
\* file out, one over a foreign file, one whose source is missing; a delete
\* after a write; a diff after a write.
MCPatchSets ==
    {<<>>,
     <<WriteFile(mine, new)>>,
     <<WriteFile(fresh, new), WriteFile(lib, new)>>,
     <<WriteFile(mine, new), DeleteFile(theirs)>>,
     <<RenameFile(mine, free)>>,
     <<WriteFile(mine, new), RenameFile(mine, theirs)>>,
     <<WriteFile(mine, new), RenameFile(free, fresh)>>,
     <<WriteFile(free, new), DeleteFile(mine), WriteFile(fresh, old)>>,
     <<WriteFile(free, new), ApplyDiff(mine)>>}

\* Bound: after a Restore that failed, at most one more attempt.
OneAttemptOnDamage == restoreErr => attempt <= 1

\* For the runs about what the documents say.
MCOneRetry == [dryRun: {FALSE}, tests: {TRUE}, coverage: {FALSE}, maxRetries: {1}]
MCFewPatches ==
    {<<WriteFile(mine, new)>>,
     <<WriteFile(fresh, new)>>,
     <<WriteFile(mine, new), RenameFile(mine, theirs)>>,
     <<WriteFile(mine, new), RenameFile(free, fresh)>>}

(***************************************************************************)
(* What the documents say and the code does not do.                        *)
(***************************************************************************)

\* README.md:472, workspace safety: a build whose attempts all failed leaves
\* the workspace it found.  The snapshot is taken after the backend has run in
\* the project directory.
FailedBuildLeavesWorkspace ==
    pc = "done" /\ receipt.status = "failed" => files = InitFiles

\* docs/file-ownership.md:42, every file path is validated before applying: no
\* operation changes a readonly file or a file of another specification.  The
\* target of a rename is not validated.
EveryPathValidated ==
    \A p \in Refused(Ownership, Self) : files[p] = base[p]
=============================================================================
