----------------------------- MODULE BuildSpec -----------------------------
(***************************************************************************)
(* One run of Builder.buildSpec (internal/app/builder.go): the pipeline    *)
(* that turns one specification into files, tries again with repair        *)
(* context, rolls a failed attempt back and writes the receipt.            *)
(*                                                                         *)
(* Every call that can fail, wait or touch the disk is a step.  What the   *)
(* backend answers, what hooks, tests and coverage report, and which of    *)
(* the I/O steps in Faults fail is chosen by the environment.  Texts       *)
(* (prompts, test output, errors) are represented by the number of the     *)
(* attempt they were taken from, 0 standing for the empty string.          *)
(*                                                                         *)
(* Not represented: files that the test command or a hook writes, and      *)
(* other processes that write to the project directory meanwhile.          *)
(***************************************************************************)
EXTENDS Patch, FsGuard

CONSTANTS
    Self,            \* the id of the specification being built
    Owned, Shared, Readonly,   \* its managed_files
    Ownership,       \* loaded.Ownership, the declarations of every spec
    InitFiles,       \* the workspace when the build starts
    Options,         \* the option records a build can be started with
    CoverageTarget,  \* spec.Coverage.Target, 0 when there is none
    CoverageLevels,  \* the percentages a coverage report can show
    PatchSets,       \* the sequences of operations a backend may return
    InPlace,         \* the paths a backend's own process may write itself
    Hooks,           \* the events with a registered hook that can fail
    Faults           \* the I/O steps that may fail, and "crash"

OptionRecords ==
    [dryRun: BOOLEAN, tests: BOOLEAN, coverage: BOOLEAN, maxRetries: Int]

ASSUME BuildSpecAssumption ==
    /\ Absent \notin Contents /\ Torn \notin Contents /\ Absent # Torn
    /\ Owned \subseteq Paths /\ Shared \subseteq Paths /\ Readonly \subseteq Paths
    /\ IsFiniteSet(Owned)
    /\ Ownership.readonly \subseteq Paths /\ DOMAIN Ownership.owned \subseteq Paths
    /\ InitFiles \in [Paths -> Contents \cup {Absent}]
    /\ Options \subseteq OptionRecords
    /\ CoverageTarget \in Nat /\ CoverageLevels \subseteq Nat
    /\ PatchSets \subseteq Seq(PatchOps)
    /\ InPlace \subseteq Paths

VARIABLES
    pc,          \* the step buildSpec is about to take
    opts,        \* BuildOptions and the parts of the spec that switch steps
    attempt,     \* the loop variable, 0 for the first attempt
    files,       \* the workspace
    base,        \* history: the workspace without the operations applied
    restoreErr,  \* history: a Restore failed (its error is dropped)
    ops, next,   \* the operations of this attempt and the next to apply
    snapshot,    \* rollbackState.files
    context,     \* lastFailures, failingTests, coverageGaps
    cause,       \* history: what ended the attempt before this one
    counters,    \* changedFiles, testRuns, testsPassed, ..., coverageAfter
    artifacts,   \* buildArtifacts: attempt that made each, repair attempts
    tested,      \* history: the workspace the tests last passed on
    covered,     \* history: the workspace coverage last met its target on
    saved,       \* the artifact files on disk
    receipt,     \* receipt.json on disk
    result       \* BuildResult.Status

workspaceVars == <<files, base, restoreErr>>
patchVars     == <<ops, next, snapshot>>
loopVars      == <<attempt, context, cause>>
evidenceVars  == <<counters, artifacts, tested, covered>>
outcomeVars   == <<saved, receipt, result>>
vars == <<pc, opts, workspaceVars, patchVars, loopVars, evidenceVars, outcomeVars>>

RetryLimit == IF opts.maxRetries < 0 THEN 0 ELSE opts.maxRetries
RunsCoverage == opts.coverage /\ CoverageTarget > 0
Managed == Owned \cup Shared \cup Readonly

NoFailures == {}
NoText == 0
OnlyFailures(failures) ==
    [failures |-> failures, failingTests |-> NoText, coverageGaps |-> NoText]
NoContext == OnlyFailures(NoFailures)
NoCounters == [testsRun |-> 0, testsPassed |-> 0, testsFailed |-> 0, coverageAfter |-> 0]
NoReceipt ==
    [status |-> "none", retries |-> 0, testsRun |-> 0, testsPassed |-> 0,
     testsFailed |-> 0, coverageAfter |-> 0, changedFiles |-> {}]

\* repair.Classify: the kinds of failure the next prompt is told about.
ClassifyFailure(testPassed, percent, target, ownershipError) ==
    (IF ownershipError THEN {"ownership_violation"} ELSE {})
      \cup (IF ~testPassed THEN {"test_failure"} ELSE {})
      \cup (IF testPassed /\ percent < target THEN {"coverage_gap"} ELSE {})

Init ==
    /\ pc = "preflight"
    /\ opts \in Options
    /\ attempt = 0
    /\ files = InitFiles /\ base = InitFiles /\ restoreErr = FALSE
    /\ ops = <<>> /\ next = 1 /\ snapshot = [p \in {} |-> Absent]
    /\ context = NoContext /\ cause = "none"
    /\ counters = NoCounters /\ artifacts = [tests |-> 0, coverage |-> 0, repair |-> <<>>]
    /\ tested = {} /\ covered = {}
    /\ saved = {} /\ receipt = NoReceipt /\ result = "none"

\* Of the commands registered for an event the first that fails, unless it
\* may, fails the event and the others are not run.
HookFails(event) == event \in Hooks

(***************************************************************************)
(* Before the loop.                                                        *)
(***************************************************************************)

\* contextpack.Assemble: the owned and shared files that exist.  It is called
\* once, before the loop, and every attempt's prompt shows this.
SourcesIn(ws) == [p \in {q \in Owned \cup Shared : ws[q] # Absent} |-> ws[p]]
SourceContents == SourcesIn(InitFiles)

\* A dry run reports success at once.  Assembling the context, selecting a
\* backend, resolving the approval profile or the pre_exec hook may fail,
\* which reports failure and writes nothing.
Preflight ==
    /\ pc = "preflight"
    /\ \/ opts.dryRun /\ pc' = "done" /\ result' = "success"
       \/ ~opts.dryRun /\ pc' = "done" /\ result' = "failed"
       \/ ~opts.dryRun /\ pc' = "execute" /\ UNCHANGED result
    /\ UNCHANGED <<opts, workspaceVars, patchVars, loopVars, evidenceVars, saved, receipt>>

(***************************************************************************)
(* One attempt.                                                            *)
(***************************************************************************)

\* `_ = rollbackState.Restore()': the snapshot goes over the workspace ws,
\* and nobody learns when that fails.
Undo(ws) ==
    \/ files' = Restore(ws, snapshot) /\ UNCHANGED <<base, restoreErr>>
    \/ /\ "restore" \in Faults
       /\ files' \in FailedRestore(ws, snapshot)
       /\ restoreErr' = TRUE
       /\ UNCHANGED base

\* An error that ends the loop after the workspace was changed.
Abandon(ws) ==
    /\ Undo(ws)
    /\ pc' = "fail_artifacts"
    /\ UNCHANGED <<opts, patchVars, loopVars, evidenceVars, outcomeVars>>

\* Mutant: the last attempt may be followed by one more.
RetryOnceMore(kind) ==
    /\ cause' = kind
    /\ IF attempt <= RetryLimit
       THEN attempt' = attempt + 1 /\ pc' = "execute"
       ELSE UNCHANGED attempt /\ pc' = "fail_artifacts"

\* Mutant: the break after the last attempt is missing.
RetryOrFallThrough(kind) ==
    /\ cause' = kind
    /\ IF attempt < RetryLimit
       THEN attempt' = attempt + 1 /\ pc' = "execute"
       ELSE UNCHANGED attempt /\ pc' = "save_artifacts"

\* `if attempt < retryLimit { continue }; break'.
RetryOrGiveUp(kind) ==
    /\ cause' = kind
    /\ IF attempt < RetryLimit
       THEN attempt' = attempt + 1 /\ pc' = "execute"
       ELSE UNCHANGED attempt /\ pc' = "fail_artifacts"

WithRepair(failures) == Append(artifacts.repair, failures)

\* The backend works inside the project directory: its own process may have
\* written or removed files, whether it fails or answers with operations.
Edits == UNION {[S -> Contents \cup {Absent}] : S \in SUBSET InPlace}

Execute ==
    /\ pc = "execute"
    /\ \E edit \in Edits :
         /\ files' = RestoredOn(files, edit, DOMAIN edit)
         /\ base' = RestoredOn(base, edit, DOMAIN edit)
    /\ \/ pc' = "fail_artifacts" /\ UNCHANGED patchVars
       \/ \E patches \in PatchSets :
            /\ ops' = patches \o StaleOwnedDeleteOps(Owned, patches)
            /\ next' = 1 /\ snapshot' = [p \in {} |-> Absent]
            /\ pc' = "capture"
    /\ UNCHANGED <<opts, restoreErr, loopVars, evidenceVars, outcomeVars>>

\* The snapshot is taken now, after the backend has run.
CaptureWorkspaceState ==
    /\ pc = "capture"
    /\ \/ /\ snapshot' = Capture(files, Managed \cup PatchPathsForSnapshot(ops))
          /\ pc' = "validate"
       \/ "capture" \in Faults /\ pc' = "fail_artifacts" /\ UNCHANGED snapshot
    /\ UNCHANGED <<opts, workspaceVars, ops, next, loopVars, evidenceVars, outcomeVars>>

Allowed == ValidatePatch(Ownership, Self, {OpPath(ops[i]) : i \in DOMAIN ops})

\* Mutant: the texts of an earlier failure survive an ownership violation.
ValidateKeepingTexts ==
    /\ pc = "validate"
    /\ IF Allowed
       THEN pc' = "apply" /\ UNCHANGED <<loopVars, artifacts>>
       ELSE LET failures == ClassifyFailure(TRUE, 0, 0, TRUE)
            IN  /\ context' = [context EXCEPT !.failures = failures]
                /\ artifacts' = [artifacts EXCEPT !.repair = WithRepair(failures)]
                /\ RetryOrGiveUp("ownership")
    /\ UNCHANGED <<opts, workspaceVars, patchVars, counters, tested, covered, outcomeVars>>

\* Mutant: an attempt that was refused is not counted.
ValidateUncounted ==
    /\ pc = "validate"
    /\ pc' = IF Allowed THEN "apply" ELSE "execute"
    /\ UNCHANGED <<opts, workspaceVars, patchVars, loopVars, evidenceVars, outcomeVars>>

\* A violation is reported to the backend in the next attempt.  The counters
\* and the artifacts of an earlier attempt stay as they are.
Validate ==
    /\ pc = "validate"
    /\ IF Allowed
       THEN pc' = "apply" /\ UNCHANGED <<loopVars, artifacts>>
       ELSE LET failures == ClassifyFailure(TRUE, 0, 0, TRUE)
            IN  /\ context' = OnlyFailures(failures)
                /\ artifacts' = [artifacts EXCEPT !.repair = WithRepair(failures)]
                /\ RetryOrGiveUp("ownership")
    /\ UNCHANGED <<opts, workspaceVars, patchVars, counters, tested, covered, outcomeVars>>

\* ApplyAll, one operation at a time.
ApplyNext ==
    /\ pc = "apply" /\ next <= Len(ops)
    /\ CanApply(files, ops[next])
    /\ files' = Apply(files, ops[next]) /\ next' = next + 1
    /\ UNCHANGED <<pc, opts, base, restoreErr, ops, snapshot, loopVars, evidenceVars, outcomeVars>>

\* An operation fails and the ones before it stay until the rollback.
ApplyFails ==
    /\ pc = "apply" /\ next <= Len(ops)
    /\ \/ ~CanApply(files, ops[next]) /\ Abandon(files)
       \/ "apply" \in Faults /\ \E ws \in FailedApply(files, ops[next]) : Abandon(ws)

AfterTests == IF RunsCoverage THEN "coverage" ELSE "save_artifacts"

\* Mutant: the reports of an earlier attempt are kept.
PostApplyKeepingReports ==
    /\ pc = "apply" /\ next > Len(ops)
    /\ \/ HookFails("post_apply") /\ Abandon(files)
       \/ /\ context' = [context EXCEPT !.failingTests = NoText, !.coverageGaps = NoText]
          /\ counters' = NoCounters
          /\ pc' = IF opts.tests THEN "test" ELSE AfterTests
          /\ UNCHANGED <<opts, workspaceVars, patchVars, attempt, cause, artifacts,
                         tested, covered, outcomeVars>>

\* The post_apply hook, then what this attempt's evidence starts from.
PostApply ==
    /\ pc = "apply" /\ next > Len(ops)
    /\ \/ HookFails("post_apply") /\ Abandon(files)
       \/ /\ context' = [context EXCEPT !.failingTests = NoText, !.coverageGaps = NoText]
          /\ artifacts' = [artifacts EXCEPT !.tests = 0, !.coverage = 0]
          /\ counters' = NoCounters
          /\ pc' = IF opts.tests THEN "test" ELSE AfterTests
          /\ UNCHANGED <<opts, workspaceVars, patchVars, attempt, cause, tested,
                         covered, outcomeVars>>

\* The pre_test hook and the test command.  The command may not start, which
\* is an error and no test result.
RunTests ==
    /\ pc = "test"
    /\ \/ Abandon(files)
       \/ \E passed \in BOOLEAN :
            /\ artifacts' = [artifacts EXCEPT !.tests = attempt + 1]
            /\ counters' = [counters EXCEPT !.testsRun = 1,
                                !.testsPassed = IF passed THEN 1 ELSE 0,
                                !.testsFailed = IF passed THEN 0 ELSE 1]
            /\ tested' = IF passed THEN {files} ELSE tested
            /\ pc' = "post_test"
            /\ UNCHANGED <<opts, workspaceVars, patchVars, loopVars, covered, outcomeVars>>

\* The post_test hook, then the verdict of the tests.  Failing tests that
\* printed nothing leave failingTests empty.
PostTest ==
    /\ pc = "post_test"
    /\ \/ HookFails("post_test") /\ Abandon(files)
       \/ /\ counters.testsPassed = 1
          /\ pc' = AfterTests
          /\ UNCHANGED <<opts, workspaceVars, patchVars, loopVars, evidenceVars, outcomeVars>>
       \/ /\ counters.testsPassed = 0
          /\ Undo(files)
          /\ LET failures == ClassifyFailure(FALSE, 0, CoverageTarget, FALSE)
             IN  /\ \E text \in {NoText, attempt + 1} :
                      context' = [context EXCEPT !.failures = failures, !.failingTests = text]
                 /\ artifacts' = [artifacts EXCEPT !.repair = WithRepair(failures)]
          /\ RetryOrGiveUp("tests")
          /\ UNCHANGED <<opts, patchVars, counters, tested, covered, outcomeVars>>

\* `go test -coverprofile': a run that fails, failing tests included, ends
\* the loop; a percentage below the target is a failed attempt.
RunCoverage ==
    /\ pc = "coverage"
    /\ \/ Abandon(files)
       \/ \E percent \in CoverageLevels :
            /\ counters' = [counters EXCEPT !.coverageAfter = percent]
            /\ UNCHANGED <<opts, patchVars, tested, outcomeVars>>
            /\ IF percent < CoverageTarget
               THEN /\ Undo(files)
                    /\ LET failures == ClassifyFailure(TRUE, percent, CoverageTarget, FALSE)
                       IN  /\ \E text \in {NoText, attempt + 1} :
                                context' = [context EXCEPT !.failures = failures,
                                                           !.coverageGaps = text]
                           /\ artifacts' = [artifacts EXCEPT !.coverage = attempt + 1,
                                                !.repair = WithRepair(failures)]
                    /\ RetryOrGiveUp("coverage")
                    /\ UNCHANGED covered
               ELSE /\ artifacts' = [artifacts EXCEPT !.coverage = attempt + 1]
                    /\ covered' = {files}
                    /\ pc' = "save_artifacts"
                    /\ UNCHANGED <<workspaceVars, loopVars>>

(***************************************************************************)
(* After the loop: artifacts first, then the receipt, then the hook.       *)
(***************************************************************************)

\* The files saveArtifacts writes: what this build has to report.
ArtifactNames == {"tests", "coverage", "repair"}
ArtifactFiles ==
    (IF artifacts.tests # 0 THEN {"tests"} ELSE {})
      \cup (IF artifacts.coverage # 0 THEN {"coverage"} ELSE {})
      \cup (IF artifacts.repair # <<>> THEN {"repair"} ELSE {})

\* It writes them in this order, and a failing write keeps those before it.
SavedPartly ==
    \E written \in {{}, {"tests"}, {"tests", "coverage"}, ArtifactNames} :
        saved' = ArtifactFiles \cap written

\* Nothing is written any more and the build reports failure.
ReportFailure == pc' = "done" /\ result' = "failed"

SuccessReceipt ==
    [status |-> "success", retries |-> attempt,
     testsRun |-> counters.testsRun, testsPassed |-> counters.testsPassed,
     testsFailed |-> counters.testsFailed, coverageAfter |-> counters.coverageAfter,
     changedFiles |-> ChangedFilesFromOps(ops)]

FailedReceipt ==
    [status |-> "failed", retries |-> Len(artifacts.repair),
     testsRun |-> counters.testsRun, testsPassed |-> counters.testsPassed,
     testsFailed |-> counters.testsFailed, coverageAfter |-> counters.coverageAfter,
     changedFiles |-> {}]

\* Mutant: the receipt goes to disk together with the first artifact.
SaveReceiptFirst ==
    /\ pc = "save_artifacts"
    /\ receipt' = SuccessReceipt
    /\ UNCHANGED <<opts, patchVars, loopVars, evidenceVars>>
    /\ \/ saved' = ArtifactFiles /\ pc' = "save_receipt"
          /\ UNCHANGED <<workspaceVars, result>>
       \/ "artifacts" \in Faults /\ SavedPartly /\ Undo(files) /\ ReportFailure

SaveArtifacts ==
    /\ pc = "save_artifacts"
    /\ UNCHANGED <<opts, patchVars, loopVars, evidenceVars, receipt>>
    /\ \/ saved' = ArtifactFiles /\ pc' = "save_receipt"
          /\ UNCHANGED <<workspaceVars, result>>
       \/ "artifacts" \in Faults /\ SavedPartly /\ Undo(files) /\ ReportFailure

\* A receipt that could not be written completely does not parse, and every
\* reader of the store skips it.
SaveReceipt ==
    /\ pc = "save_receipt"
    /\ UNCHANGED <<opts, patchVars, loopVars, evidenceVars, saved>>
    /\ \/ receipt' = SuccessReceipt /\ pc' = "on_receipt"
          /\ UNCHANGED <<workspaceVars, result>>
       \/ "receipt" \in Faults /\ Undo(files) /\ ReportFailure /\ UNCHANGED receipt

\* A failing on_receipt hook fails the build that has its receipt.
OnReceipt ==
    /\ pc = "on_receipt"
    /\ \/ HookFails("on_receipt") /\ ReportFailure
       \/ pc' = "done" /\ result' = "success"
    /\ UNCHANGED <<opts, workspaceVars, patchVars, loopVars, evidenceVars, saved, receipt>>

FailArtifacts ==
    /\ pc = "fail_artifacts"
    /\ \/ saved' = ArtifactFiles /\ pc' = "fail_receipt" /\ UNCHANGED result
       \/ "artifacts" \in Faults /\ SavedPartly /\ ReportFailure
    /\ UNCHANGED <<opts, workspaceVars, patchVars, loopVars, evidenceVars, receipt>>

\* The error of an on_error hook is dropped.
FailReceipt ==
    /\ pc = "fail_receipt"
    /\ ReportFailure
    /\ \/ receipt' = FailedReceipt
       \/ "receipt" \in Faults /\ UNCHANGED receipt
    /\ UNCHANGED <<opts, workspaceVars, patchVars, loopVars, evidenceVars, saved>>

Step ==
    \/ Preflight
    \/ Execute \/ CaptureWorkspaceState \/ Validate
    \/ ApplyNext \/ ApplyFails \/ PostApply
    \/ RunTests \/ PostTest \/ RunCoverage
    \/ SaveArtifacts \/ SaveReceipt \/ OnReceipt
    \/ FailArtifacts \/ FailReceipt

\* The process dies; nothing of the build is ever resumed.
Crash ==
    /\ "crash" \in Faults
    /\ pc \notin {"done", "crashed"}
    /\ pc' = "crashed"
    /\ UNCHANGED <<opts, workspaceVars, patchVars, loopVars, evidenceVars, outcomeVars>>

Next == Step \/ Crash

Spec == Init /\ [][Next]_vars

\* buildSpec is sequential code: it takes its next step as long as the
\* backend, the hooks and the test command it waits for come back.
FairSpec == Spec /\ WF_vars(Step)

-----------------------------------------------------------------------------
(***************************************************************************)
(* Properties.                                                             *)
(***************************************************************************)

FailureKinds == {"ownership_violation", "test_failure", "coverage_gap"}
Attempts == 0..RetryLimit
Texts == 0..(RetryLimit + 1)
Counters ==
    [testsRun: {0, 1}, testsPassed: {0, 1}, testsFailed: {0, 1},
     coverageAfter: CoverageLevels \cup {0}]
Receipts ==
    [status: {"none", "success", "failed"}, retries: Nat, testsRun: {0, 1},
     testsPassed: {0, 1}, testsFailed: {0, 1},
     coverageAfter: CoverageLevels \cup {0}, changedFiles: SUBSET Paths]

\* The type invariant: every variable holds a value of its kind, and the
\* loop variable and the texts never pass the retry limit.
TypeOK ==
    /\ pc \in {"preflight", "execute", "capture", "validate", "apply", "test",
               "post_test", "coverage", "save_artifacts", "save_receipt",
               "on_receipt", "fail_artifacts", "fail_receipt", "done", "crashed"}
    /\ opts \in OptionRecords
    /\ attempt \in Attempts
    /\ files \in Workspaces /\ base \in Workspaces /\ restoreErr \in BOOLEAN
    /\ ops \in Seq(PatchOps) /\ next \in 1..(Len(ops) + 1)
    /\ DOMAIN snapshot \subseteq Paths /\ snapshot \in [DOMAIN snapshot -> FileStates]
    /\ context \in [failures: SUBSET FailureKinds, failingTests: Texts, coverageGaps: Texts]
    /\ cause \in {"none", "ownership", "tests", "coverage"}
    /\ counters \in Counters
    /\ artifacts \in [tests: Texts, coverage: Texts, repair: Seq(SUBSET FailureKinds)]
    /\ tested \subseteq Workspaces /\ covered \subseteq Workspaces
    /\ saved \subseteq ArtifactNames
    /\ receipt \in Receipts
    /\ result \in {"none", "success", "failed"}

\* The points between attempts and after a failure, where none of the
\* operations of any attempt may be left in the workspace.
RolledBack ==
    \/ pc \in {"preflight", "execute", "capture", "validate", "fail_artifacts", "fail_receipt"}
    \/ pc = "done" /\ receipt.status # "success"

\* A failed attempt leaves nothing behind: before the next attempt, and when
\* the build has failed, every file is what the backends' own processes left,
\* whichever operation, hook, test or save ended the attempt (unless
\* Restore itself failed).
FailedAttemptUndone == RolledBack /\ ~restoreErr => files = base

\* A success receipt on disk, even one whose build died right after, vouches
\* for the workspace as it is: the tests passed and coverage met its target
\* on exactly these files.
SuccessIsVerified ==
    receipt.status = "success" =>
        /\ opts.tests => files \in tested /\ receipt.testsPassed = 1
        /\ RunsCoverage => files \in covered /\ receipt.coverageAfter >= CoverageTarget
        /\ receipt.testsFailed = 0

\* The prompt of a repair attempt describes the failure of the attempt just
\* before it and of no other: its kind, and no text of an older attempt.  The
\* sources it calls current are those in the workspace, unless a backend has
\* written there itself or Restore has failed.
RepairContextIsFresh ==
    pc = "execute" /\ attempt > 0 =>
        /\ context.failures = (CASE cause = "ownership" -> {"ownership_violation"}
                                 [] cause = "tests" -> {"test_failure"}
                                 [] cause = "coverage" -> {"coverage_gap"}
                                 [] OTHER -> {})
        /\ context.failingTests \in (IF cause = "tests" THEN {NoText, attempt} ELSE {NoText})
        /\ context.coverageGaps \in (IF cause = "coverage" THEN {NoText, attempt} ELSE {NoText})
        /\ base = InitFiles /\ ~restoreErr => SourceContents = SourcesIn(files)

\* Each attempt that failed validation is on record exactly once, whatever
\* mixture of ownership, test and coverage failures led there, and a success
\* receipt counts them all.
RetriesAccounted ==
    /\ pc \in {"preflight", "execute", "capture", "validate", "save_artifacts"}
           => Len(artifacts.repair) = attempt
    /\ receipt.status = "success" =>
           receipt.retries = Len(artifacts.repair) /\ receipt.retries <= RetryLimit
    /\ Len(artifacts.repair) <= RetryLimit + 1

\* What the build reports is what its receipt says, however artifacts and
\* receipt fail to be written; only an on_receipt hook can make them differ.
ResultMatchesReceipt ==
    pc = "done" /\ ~opts.dryRun /\ "on_receipt" \notin Hooks =>
        (result = "success" <=> receipt.status = "success")

RenameTargets == {ops[i].to : i \in {j \in DOMAIN ops : ops[j].kind = "rename"}}

\* Readonly files and files of other specifications are never changed by an
\* operation, at any moment, the middle of an attempt and of a crashed build
\* included, except as the target of a rename.
ProtectedFilesKept ==
    ~restoreErr =>
        \A p \in Refused(Ownership, Self) \ RenameTargets : files[p] = base[p]

\* After a successful build an owned file exists only if the successful
\* attempt produced it: what earlier builds left is gone.
NoStaleOwnedFiles ==
    receipt.status = "success" =>
        \A p \in Owned : files[p] # Absent => p \in Desired(ops)

\* The changed_files of a success receipt name every file the build's
\* operations changed.
ChangedFilesComplete ==
    receipt.status = "success" /\ ~restoreErr =>
        \A p \in Paths : files[p] # base[p] => p \in receipt.changedFiles

\* A receipt is on disk only after the reports it summarises, so a crash or a
\* failing write between them never leaves a receipt without its evidence.
ReceiptImpliesArtifacts ==
    receipt.status # "none" =>
        /\ receipt.testsRun = 1 => "tests" \in saved
        /\ receipt.coverageAfter > 0 => "coverage" \in saved
        /\ receipt.retries > 0 => "repair" \in saved

\* The reports and counters in a receipt, a failed one included, never mix
\* two attempts.
EvidenceFromOneAttempt ==
    /\ artifacts.tests # 0 /\ artifacts.coverage # 0 => artifacts.tests = artifacts.coverage
    /\ counters.testsRun = 1 <=> artifacts.tests # 0
    /\ counters.coverageAfter > 0 => artifacts.coverage # 0

\* The order of the steps of an attempt and of the end of a build.
Place ==
    [preflight |-> 1, execute |-> 2, capture |-> 3, validate |-> 4, apply |-> 5, test |-> 6,
     post_test |-> 7, coverage |-> 8, save_artifacts |-> 9, save_receipt |-> 10,
     on_receipt |-> 11, fail_artifacts |-> 12, fail_receipt |-> 13, done |-> 14, crashed |-> 14]

Advances ==
    /\ UNCHANGED opts
    /\ \/ attempt' = attempt + 1 /\ attempt' <= RetryLimit
       \/ attempt' = attempt /\ Place[pc] < Place[pc']
       \/ UNCHANGED <<attempt, pc, ops>> /\ next' = next + 1 /\ next' <= Len(ops) + 1

\* The repair loop never goes on for nothing: whatever fails, a step goes to a
\* later one, to the next operation, or to a next attempt within the limit.
EveryStepAdvances == [][Advances]_vars

\* Every build comes to an end, as long as what it waits for comes back.
Termination == <>(pc \in {"done", "crashed"})

\* The inductive strengthening of the rollback properties: while operations
\* may be in the workspace the snapshot covers all they can change, and they
\* have passed the ownership check.
Applying == {"apply", "test", "post_test", "coverage", "save_artifacts", "save_receipt"}

Undoable ==
    /\ ~restoreErr =>
         /\ \A p \in Paths \ AllTouched(ops) : files[p] = base[p]
         /\ RolledBack => files = base
         /\ files # base => Allowed
         /\ pc \in Applying \cup {"validate"} =>
                snapshot = Capture(base, Managed \cup AllTouched(ops))
    /\ pc \in Applying => Allowed
    /\ receipt.status = "success" =>
         /\ pc \in {"on_receipt", "done", "crashed"}
         /\ receipt.changedFiles = AllTouched(ops)
    /\ pc = "on_receipt" => receipt.status = "success"

\* The inductive strengthening of SuccessIsVerified: what each step knows of
\* the evidence collected so far in this attempt.
EvidenceSoFar ==
    /\ pc = "test" => counters = NoCounters
    /\ pc = "post_test" => counters.testsPassed = 1 - counters.testsFailed
    /\ pc = "post_test" /\ counters.testsPassed = 1 => files \in tested
    /\ pc \in {"coverage", "save_artifacts", "save_receipt"} =>
         /\ opts.tests => files \in tested /\ counters.testsPassed = 1
         /\ counters.testsFailed = 0
    /\ pc \in {"save_artifacts", "save_receipt"} /\ RunsCoverage =>
         files \in covered /\ counters.coverageAfter >= CoverageTarget
    /\ receipt.status = "success" => pc \in {"on_receipt", "done", "crashed"}

\* The contract of BuildContract, with the operations of an attempt hidden
\* until its receipt is written or its rollback is over.
VisibleFiles == IF RolledBack \/ receipt.status = "success" THEN files ELSE base

Contract == INSTANCE BuildContract WITH
    States <- FileStates, LateFailure <- "on_receipt" \in Hooks,
    ws <- VisibleFiles, receipt <- receipt.status, audit <- receipt.changedFiles,
    reported <- result, dry <- opts.dryRun

\* A build is all or nothing: its steps, seen through VisibleFiles, are those
\* of BuildContract (without crashes and failing rollbacks).
ImplementsContract == Contract!Spec
=============================================================================
