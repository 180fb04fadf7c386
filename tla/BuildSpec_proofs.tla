-------------------------- MODULE BuildSpec_proofs --------------------------
(***************************************************************************)
(* Theorems about one build, for every workspace, ownership map, option    *)
(* record, backend answer and set of faults that BuildSpecAssumption       *)
(* admits.                                                                 *)
(***************************************************************************)
EXTENDS BuildSpec, FiniteSetTheorems, SequenceTheorems, TLAPS

-----------------------------------------------------------------------------
(***************************************************************************)
(* What the operators of Patch and FsGuard return, for every set of paths  *)
(* and contents.                                                           *)
(***************************************************************************)

\* Applying an operation yields a workspace.
LEMMA ApplyType ==
    ASSUME NEW ws \in Workspaces, NEW op \in PatchOps
    PROVE  Apply(ws, op) \in Workspaces
BY DEF Apply, Workspaces, FileStates, PatchOps

\* An operation changes only the paths that are snapshotted for it.
LEMMA ApplyTouches ==
    ASSUME NEW ws \in Workspaces, NEW op \in PatchOps, CanApply(ws, op),
           NEW p \in Paths \ TouchedPaths(op)
    PROVE  Apply(ws, op)[p] = ws[p]
BY DEF Apply, CanApply, Workspaces, PatchOps, TouchedPaths

\* A failing operation leaves a workspace that differs on its path at most.
LEMMA FailedApplyEffect ==
    ASSUME NEW ws \in Workspaces, NEW op \in PatchOps, NEW w \in FailedApply(ws, op)
    PROVE  /\ w \in Workspaces
           /\ \A p \in Paths \ TouchedPaths(op) : w[p] = ws[p]
<1>1. CASE w = ws
  BY <1>1
<1>2. CASE op.kind = "write" /\ w = [ws EXCEPT ![op.path] = Torn]
  BY <1>2 DEF Workspaces, FileStates, TouchedPaths
<1>3. QED
  BY <1>1, <1>2 DEF FailedApply

\* The paths of one operation of a list are among those of the list.
LEMMA TouchedInAll ==
    ASSUME NEW patches \in Seq(PatchOps), NEW i \in DOMAIN patches
    PROVE  /\ patches[i] \in PatchOps
           /\ TouchedPaths(patches[i]) \subseteq AllTouched(patches)
           /\ OpPath(patches[i]) \in Paths
BY DEF AllTouched, OpPath, PatchOps

\* What an answer touches are paths.
LEMMA AllTouchedType ==
    ASSUME NEW patches \in Seq(PatchOps)
    PROVE  AllTouched(patches) \subseteq Paths
BY DEF AllTouched, TouchedPaths, PatchOps

\* Restoring a snapshot gives back the captured workspace, if nothing but
\* snapshotted paths changed since.
LEMMA RestoreUndoes ==
    ASSUME NEW ws \in Workspaces, NEW before \in Workspaces,
           NEW S \in SUBSET Paths,
           \A p \in Paths \ S : ws[p] = before[p]
    PROVE  Restore(ws, Capture(before, S)) = before
BY DEF Restore, RestoredOn, Capture, Workspaces

\* A restored workspace is a workspace.
LEMMA RestoreType ==
    ASSUME NEW ws \in Workspaces, NEW snap, DOMAIN snap \subseteq Paths,
           snap \in [DOMAIN snap -> FileStates], NEW D \in SUBSET DOMAIN snap
    PROVE  RestoredOn(ws, snap, D) \in Workspaces
BY DEF RestoredOn, Workspaces

\* So is one whose restore stopped half-way.
LEMMA FailedRestoreType ==
    ASSUME NEW ws \in Workspaces, NEW snap, DOMAIN snap \subseteq Paths,
           snap \in [DOMAIN snap -> FileStates], NEW w \in FailedRestore(ws, snap)
    PROVE  w \in Workspaces
<1>1. PICK D \in SUBSET DOMAIN snap, bad \in DOMAIN snap :
         w \in {RestoredOn(ws, snap, D), TruncatedAt(RestoredOn(ws, snap, D), snap, bad)}
  BY DEF FailedRestore
<1>2. RestoredOn(ws, snap, D) \in Workspaces
  BY RestoreType
<1>3. Torn \in FileStates
  BY DEF FileStates
<1>4. QED
  BY <1>1, <1>2, <1>3 DEF Workspaces, TruncatedAt

\* The stale deletes form a list of operations.
LEMMA StaleDeletesType ==
    ASSUME NEW owned \in SUBSET Paths, IsFiniteSet(owned), NEW patches
    PROVE  StaleOwnedDeleteOps(owned, patches) \in Seq(PatchOps)
<1> DEFINE stale == owned \ Desired(patches)
<1>1. IsFiniteSet(stale) /\ Cardinality(stale) \in Nat
  BY FS_Difference, FS_CardinalityType
<1>2. ExistsBijection(1..Cardinality(stale), stale)
  BY <1>1, FS_CardinalityType
<1>3. \E g \in [1..Cardinality(stale) -> stale] : IsInjective(g)
  BY <1>2 DEF ExistsBijection, Bijection, Injection
<1>4. SetToSeq(stale) \in [1..Cardinality(stale) -> stale]
  BY <1>3 DEF SetToSeq
<1>5. SetToSeq(stale) \in Seq(stale)
  <2>1. PICK n \in Nat : n = Cardinality(stale)
    BY <1>1
  <2>2. SetToSeq(stale) \in [1..n -> stale]
    BY <1>4, <2>1
  <2>3. QED
    BY <2>2, SeqDef
<1>6. \A p \in stale : DeleteFile(p) \in PatchOps
  BY DEF DeleteFile, PatchOps
<1>7. QED
  BY <1>5, <1>6 DEF StaleOwnedDeleteOps

\* The stale deletes are there for every stale path.
LEMMA StaleInOrder ==
    ASSUME NEW owned \in SUBSET Paths, IsFiniteSet(owned), NEW patches,
           NEW p \in owned \ Desired(patches)
    PROVE  LET order == SetToSeq(owned \ Desired(patches))
               deletes == StaleOwnedDeleteOps(owned, patches)
           IN  /\ Len(deletes) = Len(order)
               /\ \A i \in 1..Len(deletes) : deletes[i] = DeleteFile(order[i])
               /\ \E i \in 1..Len(deletes) : order[i] = p
<1> DEFINE stale == owned \ Desired(patches)
           order == SetToSeq(stale)
           deletes == StaleOwnedDeleteOps(owned, patches)
<1>1. IsFiniteSet(stale) /\ Cardinality(stale) \in Nat /\ ExistsBijection(1..Cardinality(stale), stale)
  BY FS_Difference, FS_CardinalityType
<1>2. \E g \in [1..Cardinality(stale) -> stale] : IsInjective(g)
  BY <1>1 DEF ExistsBijection, Bijection, Injection
<1>3. order \in [1..Cardinality(stale) -> stale] /\ IsInjective(order)
  BY <1>2 DEF SetToSeq
<1>4. PICK n \in Nat : n = Cardinality(stale)
  BY <1>1
<1>5. order \in Injection(1..n, stale)
  BY <1>3, <1>4 DEF Injection
<1>6. Cardinality(1..n) = n
  BY <1>4, FS_Interval
<1>7. order \in Surjection(1..n, stale)
  BY <1>1, <1>4, <1>5, <1>6, FS_Injection
<1>8. order \in Seq(stale) /\ Len(order) = n
  <2>1. order \in [1..n -> stale]
    BY <1>3, <1>4
  <2>2. order \in Seq(stale) /\ DOMAIN order = 1..n
    BY <2>1, SeqDef
  <2>3. QED
    BY <2>2, LenProperties, <1>4
<1>9. deletes = [i \in 1..n |-> DeleteFile(order[i])] /\ Len(deletes) = n
  BY <1>8 DEF StaleOwnedDeleteOps
<1>10. \E i \in 1..n : order[i] = p
  BY <1>7 DEF Surjection
<1>11. QED
  BY <1>8, <1>9, <1>10

\* ValidatePatch accepts exactly the lists without a refused path.
LEMMA ValidatePatchRefuses ==
    ASSUME NEW m, NEW id, NEW paths
    PROVE  ValidatePatch(m, id, paths) <=> paths \cap Refused(m, id) = {}
BY DEF ValidatePatch, Classify, Refused

-----------------------------------------------------------------------------
(***************************************************************************)
(* One build.                                                              *)
(***************************************************************************)

\* Constants of a build have their types.
LEMMA RetryLimitType == ASSUME opts \in OptionRecords PROVE RetryLimit \in Nat /\ NoText \in Texts
BY DEF RetryLimit, OptionRecords, NoText, Texts

\* A rollback, failing or not, yields a workspace.
LEMMA UndoType ==
    ASSUME TypeOK, NEW ws \in Workspaces, Undo(ws)
    PROVE  /\ files' \in Workspaces /\ base' = base /\ restoreErr' \in BOOLEAN
<1>1. CASE files' = Restore(ws, snapshot) /\ UNCHANGED <<base, restoreErr>>
  BY <1>1, RestoreType DEF Restore, TypeOK
<1>2. CASE files' \in FailedRestore(ws, snapshot) /\ restoreErr' = TRUE /\ UNCHANGED base
  BY <1>2, FailedRestoreType DEF TypeOK
<1>3. QED
  BY <1>1, <1>2 DEF Undo

\* Giving up a build keeps the types.
LEMMA AbandonType ==
    ASSUME TypeOK, NEW ws \in Workspaces, Abandon(ws)
    PROVE  TypeOK'
<1>1. files' \in Workspaces /\ base' = base /\ restoreErr' \in BOOLEAN
  BY UndoType DEF Abandon
<1>2. QED
  BY <1>1 DEF Abandon, TypeOK, patchVars, loopVars, evidenceVars, outcomeVars,
       Attempts, Texts, RetryLimit

\* Recording a failed attempt keeps the list of repairs typed.
LEMMA RepairType ==
    ASSUME TypeOK, NEW a \in BOOLEAN, NEW b \in Nat, NEW c \in Nat, NEW d \in BOOLEAN
    PROVE  /\ ClassifyFailure(a, b, c, d) \in SUBSET FailureKinds
           /\ WithRepair(ClassifyFailure(a, b, c, d)) \in Seq(SUBSET FailureKinds)
<1>1. ClassifyFailure(a, b, c, d) \in SUBSET FailureKinds
  BY DEF ClassifyFailure, FailureKinds
<1>2. QED
  BY <1>1, AppendProperties DEF WithRepair, TypeOK

\* Failing an attempt keeps the types.
LEMMA RetryType ==
    ASSUME TypeOK, NEW k \in {"ownership", "tests", "coverage"}, RetryOrGiveUp(k)
    PROVE  /\ cause' \in {"none", "ownership", "tests", "coverage"}
           /\ attempt' \in Attempts
           /\ pc' \in {"execute", "fail_artifacts"}
           /\ attempt + 1 \in Texts
BY SMTT(30), RetryLimitType DEF RetryOrGiveUp, TypeOK, Attempts, Texts

\* The initial values have their types.
LEMMA InitType == Init => TypeOK
<1> SUFFICES ASSUME Init PROVE TypeOK
  OBVIOUS
<1> USE BuildSpecAssumption
<1>1. RetryLimit \in Nat
  BY RetryLimitType DEF Init
<1>2. files \in Workspaces /\ base \in Workspaces
  BY DEF Init, Workspaces, FileStates
<1>3. /\ ops \in Seq(PatchOps) /\ next \in 1..(Len(ops) + 1)
      /\ DOMAIN snapshot \subseteq Paths /\ snapshot \in [DOMAIN snapshot -> FileStates]
  BY DEF Init
<1>4. artifacts \in [tests: Texts, coverage: Texts, repair: Seq(SUBSET FailureKinds)]
  BY <1>1 DEF Init, Texts
<1>5. context \in [failures: SUBSET FailureKinds, failingTests: Texts, coverageGaps: Texts]
  BY <1>1 DEF Init, Texts, NoContext, OnlyFailures, NoFailures, NoText
<1>6. counters \in Counters /\ receipt \in Receipts
  BY DEF Init, NoCounters, Counters, NoReceipt, Receipts
<1>7. opts \in OptionRecords /\ attempt \in Attempts
  BY <1>1 DEF Init, Attempts
<1>8. /\ pc = "preflight" /\ restoreErr = FALSE /\ cause = "none" /\ result = "none"
      /\ tested = {} /\ covered = {} /\ saved = {}
  BY DEF Init
<1>9. QED
  BY <1>2, <1>3, <1>4, <1>5, <1>6, <1>7, <1>8 DEF TypeOK

\* The execution keeps the types.
LEMMA ExecuteType == ASSUME TypeOK, Execute PROVE TypeOK'
<1> USE BuildSpecAssumption
<1>1. PICK edit \in Edits :
         /\ files' = RestoredOn(files, edit, DOMAIN edit)
         /\ base' = RestoredOn(base, edit, DOMAIN edit)
  BY DEF Execute
<1>2. DOMAIN edit \subseteq Paths /\ edit \in [DOMAIN edit -> FileStates]
  BY DEF Edits, FileStates
<1>3. files' \in Workspaces /\ base' \in Workspaces
  BY <1>1, <1>2, RestoreType DEF TypeOK
<1>4. /\ ops' \in Seq(PatchOps) /\ next' \in 1..(Len(ops') + 1)
      /\ DOMAIN snapshot' \subseteq Paths /\ snapshot' \in [DOMAIN snapshot' -> FileStates]
      /\ pc' \in {"fail_artifacts", "capture"}
  <2>1. CASE pc' = "fail_artifacts" /\ UNCHANGED patchVars
    BY <2>1 DEF TypeOK, patchVars
  <2>2. CASE \E patches \in PatchSets :
               /\ ops' = patches \o StaleOwnedDeleteOps(Owned, patches)
               /\ next' = 1 /\ snapshot' = [p \in {} |-> Absent]
               /\ pc' = "capture"
    <3>1. PICK patches \in PatchSets : ops' = patches \o StaleOwnedDeleteOps(Owned, patches)
      BY <2>2
    <3>2. StaleOwnedDeleteOps(Owned, patches) \in Seq(PatchOps)
      BY StaleDeletesType
    <3>3. ops' \in Seq(PatchOps) /\ Len(ops') \in Nat
      BY <3>1, <3>2, ConcatProperties, LenProperties
    <3>4. QED
      BY <2>2, <3>3
  <2>3. QED
    BY <2>1, <2>2 DEF Execute
<1>5. QED
  BY <1>3, <1>4 DEF Execute, TypeOK, loopVars, evidenceVars, outcomeVars, Attempts, Texts, RetryLimit

\* The capture of the workspace keeps the types.
LEMMA CaptureType == ASSUME TypeOK, CaptureWorkspaceState PROVE TypeOK'
<1> USE BuildSpecAssumption
<1> DEFINE S == Managed \cup PatchPathsForSnapshot(ops)
<1>1. S \subseteq Paths
  BY AllTouchedType DEF Managed, PatchPathsForSnapshot, TypeOK
<1>2. /\ DOMAIN snapshot' \subseteq Paths /\ snapshot' \in [DOMAIN snapshot' -> FileStates]
      /\ pc' \in {"validate", "fail_artifacts"}
  BY <1>1 DEF CaptureWorkspaceState, Capture, TypeOK, Workspaces
<1>3. QED
  BY <1>2 DEF CaptureWorkspaceState, TypeOK, workspaceVars, loopVars, evidenceVars, outcomeVars,
       Attempts, Texts, RetryLimit

\* The validation keeps the types.
LEMMA ValidateType == ASSUME TypeOK, Validate PROVE TypeOK'
<1> DEFINE failures == ClassifyFailure(TRUE, 0, 0, TRUE)
<1>1. CASE Allowed
  BY <1>1 DEF Validate, TypeOK, workspaceVars, patchVars, loopVars, outcomeVars,
       Attempts, Texts, RetryLimit
<1>2. CASE ~Allowed
  <2>1. /\ context' = OnlyFailures(failures)
        /\ artifacts' = [artifacts EXCEPT !.repair = WithRepair(failures)]
        /\ RetryOrGiveUp("ownership")
        /\ UNCHANGED <<opts, workspaceVars, patchVars, counters, tested, covered, outcomeVars>>
    BY <1>2 DEF Validate
  <2>2. failures \in SUBSET FailureKinds /\ WithRepair(failures) \in Seq(SUBSET FailureKinds)
    BY RepairType
  <2>3. context' \in [failures: SUBSET FailureKinds, failingTests: Texts, coverageGaps: Texts]
    <3>1. NoText \in Texts
      BY RetryLimitType DEF TypeOK
    <3>2. QED
      BY <2>1, <2>2, <3>1 DEF OnlyFailures
  <2>4. artifacts' \in [tests: Texts, coverage: Texts, repair: Seq(SUBSET FailureKinds)]
    BY <2>1, <2>2 DEF TypeOK
  <2>5. QED
    BY <2>1, <2>3, <2>4, RetryType DEF TypeOK, workspaceVars, patchVars, outcomeVars,
         Attempts, Texts, RetryLimit
<1>3. QED
  BY <1>1, <1>2

\* Applying a file keeps the types.
LEMMA ApplyNextType == ASSUME TypeOK, ApplyNext PROVE TypeOK'
<1>1. next \in DOMAIN ops /\ ops[next] \in PatchOps
  BY LenProperties, ElementOfSeq DEF ApplyNext, TypeOK
<1>2. files' \in Workspaces
  BY <1>1, ApplyType DEF ApplyNext, TypeOK
<1>3. next' \in 1..(Len(ops) + 1)
  BY LenProperties DEF ApplyNext, TypeOK
<1>4. QED
  BY <1>2, <1>3 DEF ApplyNext, TypeOK, loopVars, evidenceVars, outcomeVars,
       Attempts, Texts, RetryLimit

\* A failure to apply a file keeps the types.
LEMMA ApplyFailsType == ASSUME TypeOK, ApplyFails PROVE TypeOK'
<1>1. next \in DOMAIN ops /\ ops[next] \in PatchOps
  BY LenProperties, ElementOfSeq DEF ApplyFails, TypeOK
<1>2. CASE Abandon(files)
  BY <1>2, AbandonType DEF TypeOK
<1>3. CASE \E ws \in FailedApply(files, ops[next]) : Abandon(ws)
  BY <1>1, <1>3, FailedApplyEffect, AbandonType DEF TypeOK
<1>4. QED
  BY <1>2, <1>3 DEF ApplyFails

\* The post-apply hooks keep the types.
LEMMA PostApplyType == ASSUME TypeOK, PostApply PROVE TypeOK'
<1>1. CASE Abandon(files)
  BY <1>1, AbandonType DEF TypeOK
<1>2. CASE ~Abandon(files)
  <2>1. /\ context' = [context EXCEPT !.failingTests = NoText, !.coverageGaps = NoText]
        /\ artifacts' = [artifacts EXCEPT !.tests = 0, !.coverage = 0]
        /\ counters' = NoCounters
        /\ pc' \in {"test", "coverage", "save_artifacts"}
        /\ UNCHANGED <<opts, workspaceVars, patchVars, attempt, cause, tested,
                       covered, outcomeVars>>
    BY <1>2 DEF PostApply, AfterTests
  <2>2. NoText \in Texts /\ 0 \in Texts
    BY RetryLimitType DEF TypeOK, NoText
  <2>3. context' \in [failures: SUBSET FailureKinds, failingTests: Texts, coverageGaps: Texts]
    BY <2>1, <2>2 DEF TypeOK
  <2>4. artifacts' \in [tests: Texts, coverage: Texts, repair: Seq(SUBSET FailureKinds)]
    BY <2>1, <2>2 DEF TypeOK
  <2>5. counters' \in Counters
    BY <2>1 DEF NoCounters, Counters
  <2>6. QED
    BY <2>1, <2>3, <2>4, <2>5 DEF TypeOK, workspaceVars, patchVars, outcomeVars,
         Attempts, Texts, RetryLimit
<1>3. QED
  BY <1>1, <1>2

\* The test run keeps the types.
LEMMA RunTestsType == ASSUME TypeOK, RunTests PROVE TypeOK'
<1>1. CASE Abandon(files)
  BY <1>1, AbandonType DEF TypeOK
<1>2. CASE ~Abandon(files)
  <2>1. PICK passed \in BOOLEAN :
          /\ artifacts' = [artifacts EXCEPT !.tests = attempt + 1]
          /\ counters' = [counters EXCEPT !.testsRun = 1,
                              !.testsPassed = IF passed THEN 1 ELSE 0,
                              !.testsFailed = IF passed THEN 0 ELSE 1]
          /\ tested' = IF passed THEN {files} ELSE tested
          /\ pc' = "post_test"
          /\ UNCHANGED <<opts, workspaceVars, patchVars, loopVars, covered, outcomeVars>>
    BY <1>2 DEF RunTests
  <2>2. attempt + 1 \in Texts
    BY RetryLimitType DEF TypeOK, Attempts, Texts
  <2>3. artifacts' \in [tests: Texts, coverage: Texts, repair: Seq(SUBSET FailureKinds)]
    BY <2>1, <2>2 DEF TypeOK
  <2>4. counters' \in Counters
    BY <2>1 DEF TypeOK, Counters
  <2>5. tested' \subseteq Workspaces
    BY <2>1 DEF TypeOK
  <2>6. QED
    BY <2>1, <2>3, <2>4, <2>5 DEF TypeOK, workspaceVars, patchVars, loopVars, outcomeVars,
         Attempts, Texts, RetryLimit
<1>3. QED
  BY <1>1, <1>2

\* The post-test hooks keep the types.
LEMMA PostTestType == ASSUME TypeOK, PostTest PROVE TypeOK'
<1> USE BuildSpecAssumption
<1> DEFINE failures == ClassifyFailure(FALSE, 0, CoverageTarget, FALSE)
<1>1. CASE Abandon(files)
  BY <1>1, AbandonType DEF TypeOK
<1>2. CASE /\ pc' = AfterTests
           /\ UNCHANGED <<opts, workspaceVars, patchVars, loopVars, evidenceVars, outcomeVars>>
  BY <1>2 DEF TypeOK, AfterTests, workspaceVars, patchVars, loopVars, evidenceVars, outcomeVars,
       Attempts, Texts, RetryLimit
<1>3. CASE /\ Undo(files)
           /\ \E text \in {NoText, attempt + 1} :
                 context' = [context EXCEPT !.failures = failures, !.failingTests = text]
           /\ artifacts' = [artifacts EXCEPT !.repair = WithRepair(failures)]
           /\ RetryOrGiveUp("tests")
           /\ UNCHANGED <<opts, patchVars, counters, tested, covered, outcomeVars>>
  <2>1. failures \in SUBSET FailureKinds /\ WithRepair(failures) \in Seq(SUBSET FailureKinds)
    BY RepairType
  <2>2. {NoText, attempt + 1} \subseteq Texts
    BY <1>3, RetryType, RetryLimitType DEF TypeOK
  <2>3. context' \in [failures: SUBSET FailureKinds, failingTests: Texts, coverageGaps: Texts]
    BY <1>3, <2>1, <2>2 DEF TypeOK
  <2>4. artifacts' \in [tests: Texts, coverage: Texts, repair: Seq(SUBSET FailureKinds)]
    BY <1>3, <2>1 DEF TypeOK
  <2>5. files' \in Workspaces /\ base' = base /\ restoreErr' \in BOOLEAN
    BY <1>3, UndoType DEF TypeOK
  <2>6. QED
    BY <1>3, <2>3, <2>4, <2>5, RetryType DEF TypeOK, patchVars, outcomeVars,
         Attempts, Texts, RetryLimit
<1>4. QED
  BY <1>1, <1>2, <1>3 DEF PostTest

\* The coverage run keeps the types.
LEMMA RunCoverageType == ASSUME TypeOK, RunCoverage PROVE TypeOK'
<1> USE BuildSpecAssumption
<1>1. CASE Abandon(files)
  BY <1>1, AbandonType DEF TypeOK
<1>2. CASE ~Abandon(files)
  <2> DEFINE failures(percent) == ClassifyFailure(TRUE, percent, CoverageTarget, FALSE)
  <2>1. PICK percent \in CoverageLevels :
          /\ counters' = [counters EXCEPT !.coverageAfter = percent]
          /\ UNCHANGED <<opts, patchVars, tested, outcomeVars>>
          /\ \/ /\ Undo(files)
                /\ \E text \in {NoText, attempt + 1} :
                     context' = [context EXCEPT !.failures = failures(percent),
                                                !.coverageGaps = text]
                /\ artifacts' = [artifacts EXCEPT !.coverage = attempt + 1,
                                     !.repair = WithRepair(failures(percent))]
                /\ RetryOrGiveUp("coverage")
                /\ UNCHANGED covered
             \/ /\ artifacts' = [artifacts EXCEPT !.coverage = attempt + 1]
                /\ covered' = {files}
                /\ pc' = "save_artifacts"
                /\ UNCHANGED <<workspaceVars, loopVars>>
    BY <1>2 DEF RunCoverage
  <2>2. counters' \in Counters
    BY <2>1 DEF TypeOK, Counters
  <2>3. {NoText, attempt + 1} \subseteq Texts
    BY RetryLimitType DEF TypeOK, Attempts, Texts
  <2>4. CASE /\ Undo(files)
             /\ \E text \in {NoText, attempt + 1} :
                  context' = [context EXCEPT !.failures = failures(percent),
                                             !.coverageGaps = text]
             /\ artifacts' = [artifacts EXCEPT !.coverage = attempt + 1,
                                  !.repair = WithRepair(failures(percent))]
             /\ RetryOrGiveUp("coverage")
             /\ UNCHANGED covered
    <3>1. failures(percent) \in SUBSET FailureKinds
          /\ WithRepair(failures(percent)) \in Seq(SUBSET FailureKinds)
      BY RepairType
    <3>2. context' \in [failures: SUBSET FailureKinds, failingTests: Texts, coverageGaps: Texts]
      BY <2>3, <2>4, <3>1 DEF TypeOK
    <3>3. artifacts' \in [tests: Texts, coverage: Texts, repair: Seq(SUBSET FailureKinds)]
      BY <2>3, <2>4, <3>1 DEF TypeOK
    <3>4. files' \in Workspaces /\ base' = base /\ restoreErr' \in BOOLEAN
      BY <2>4, UndoType DEF TypeOK
    <3>5. QED
      BY <2>1, <2>2, <2>4, <3>2, <3>3, <3>4, RetryType DEF TypeOK, patchVars, outcomeVars,
           Attempts, Texts, RetryLimit
  <2>5. CASE /\ artifacts' = [artifacts EXCEPT !.coverage = attempt + 1]
             /\ covered' = {files}
             /\ pc' = "save_artifacts"
             /\ UNCHANGED <<workspaceVars, loopVars>>
    <3>1. artifacts' \in [tests: Texts, coverage: Texts, repair: Seq(SUBSET FailureKinds)]
      BY <2>3, <2>5 DEF TypeOK
    <3>2. QED
      BY <2>1, <2>2, <2>5, <3>1 DEF TypeOK, workspaceVars, patchVars, loopVars, outcomeVars,
           Attempts, Texts, RetryLimit
  <2>6. QED
    BY <2>1, <2>4, <2>5
<1>3. QED
  BY <1>1, <1>2

\* The receipts that are written have their type.
LEMMA ReceiptTypes ==
    ASSUME TypeOK
    PROVE  SuccessReceipt \in Receipts /\ FailedReceipt \in Receipts
<1>1. attempt \in Nat /\ Len(artifacts.repair) \in Nat
  BY RetryLimitType, LenProperties DEF TypeOK, Attempts
<1>2. ChangedFilesFromOps(ops) \in SUBSET Paths
  BY AllTouchedType DEF ChangedFilesFromOps, TypeOK
<1>3. counters \in Counters
  BY DEF TypeOK
<1>4. QED
  BY <1>1, <1>2, <1>3 DEF SuccessReceipt, FailedReceipt, Receipts, Counters

\* The artifacts that are saved have names of the model.
LEMMA ArtifactFilesType == ArtifactFiles \subseteq ArtifactNames /\ (SavedPartly => saved' \subseteq ArtifactNames)
BY DEF ArtifactFiles, ArtifactNames, SavedPartly

\* Saving the artifacts keeps the types.
LEMMA SaveArtifactsType == ASSUME TypeOK, SaveArtifacts PROVE TypeOK'
<1>1. saved' \subseteq ArtifactNames
  BY ArtifactFilesType DEF SaveArtifacts
<1>2. files' \in Workspaces /\ base' = base /\ restoreErr' \in BOOLEAN
  BY UndoType DEF SaveArtifacts, TypeOK, workspaceVars
<1>3. pc' \in {"save_receipt", "done"} /\ result' \in {result, "failed"}
  BY DEF SaveArtifacts, ReportFailure
<1>4. QED
  BY <1>1, <1>2, <1>3 DEF SaveArtifacts, TypeOK, patchVars, loopVars, evidenceVars,
       Attempts, Texts, RetryLimit

\* Saving the receipt keeps the types.
LEMMA SaveReceiptType == ASSUME TypeOK, SaveReceipt PROVE TypeOK'
<1>1. receipt' \in Receipts
  BY ReceiptTypes DEF SaveReceipt, TypeOK
<1>2. files' \in Workspaces /\ base' = base /\ restoreErr' \in BOOLEAN
  BY UndoType DEF SaveReceipt, TypeOK, workspaceVars
<1>3. pc' \in {"on_receipt", "done"} /\ result' \in {result, "failed"}
  BY DEF SaveReceipt, ReportFailure
<1>4. QED
  BY <1>1, <1>2, <1>3 DEF SaveReceipt, TypeOK, patchVars, loopVars, evidenceVars,
       Attempts, Texts, RetryLimit

\* The receipt of a failed build keeps the types.
LEMMA FailReceiptType == ASSUME TypeOK, FailReceipt PROVE TypeOK'
<1>1. receipt' \in Receipts
  BY ReceiptTypes DEF FailReceipt, TypeOK
<1>2. QED
  BY <1>1 DEF FailReceipt, ReportFailure, TypeOK, workspaceVars, patchVars, loopVars,
       evidenceVars, Attempts, Texts, RetryLimit

\* The steps that only move on, report or save artifacts.
LEMMA OtherStepsType ==
    ASSUME TypeOK, Preflight \/ OnReceipt \/ FailArtifacts \/ Crash \/ UNCHANGED vars
    PROVE  TypeOK'
<1> USE DEF TypeOK, workspaceVars, patchVars, loopVars, evidenceVars, outcomeVars,
            Attempts, Texts, RetryLimit
<1>1. CASE Preflight
  BY <1>1 DEF Preflight
<1>2. CASE OnReceipt
  BY <1>2 DEF OnReceipt, ReportFailure
<1>3. CASE FailArtifacts
  BY <1>3, ArtifactFilesType DEF FailArtifacts, ReportFailure
<1>4. CASE Crash
  BY <1>4 DEF Crash
<1>5. CASE UNCHANGED vars
  BY <1>5 DEF vars
<1>6. QED
  BY <1>1, <1>2, <1>3, <1>4, <1>5

\* Every step keeps the types.
LEMMA NextType == TypeOK /\ [Next]_vars => TypeOK'
BY ExecuteType, CaptureType, ValidateType, ApplyNextType, ApplyFailsType, PostApplyType,
   RunTestsType, PostTestType, RunCoverageType, SaveArtifactsType, SaveReceiptType,
   FailReceiptType, OtherStepsType
   DEF Next, Step

\* Every variable of a build keeps its type, and no attempt passes the retry
\* limit, whatever the backend, the hooks, the tests and the disk do.
THEOREM TypeCorrect == Spec => []TypeOK
BY InitType, NextType, PTL DEF Spec

-----------------------------------------------------------------------------
(***************************************************************************)
(* Rollback.                                                               *)
(***************************************************************************)

\* In a state that satisfies the invariant, a rollback that does not fail
\* removes every effect of the operations, also of one that failed half way.
LEMMA UndoRestores ==
    ASSUME TypeOK, Undoable, pc \in Applying, NEW ws \in Workspaces,
           \A p \in Paths \ AllTouched(ops) : ws[p] = files[p],
           Undo(ws)
    PROVE  ~restoreErr' => ~restoreErr /\ files' = base /\ base' = base
<1> SUFFICES ASSUME ~restoreErr'
             PROVE  ~restoreErr /\ files' = base /\ base' = base
  OBVIOUS
<1>1. files' = Restore(ws, snapshot) /\ UNCHANGED <<base, restoreErr>>
  BY DEF Undo
<1>2. snapshot = Capture(base, Managed \cup AllTouched(ops))
  BY <1>1 DEF Undoable
<1>3. Managed \cup AllTouched(ops) \subseteq Paths
  BY BuildSpecAssumption, AllTouchedType DEF Managed, TypeOK
<1>4. \A p \in Paths \ (Managed \cup AllTouched(ops)) : ws[p] = base[p]
  BY <1>1 DEF Undoable
<1>5. Restore(ws, snapshot) = base
  BY <1>2, <1>3, <1>4, RestoreUndoes DEF TypeOK
<1>6. QED
  BY <1>1, <1>5

\* Every step that gives an attempt up ends with a rollback that keeps the
\* invariant.
LEMMA GivingUpUndoable ==
    ASSUME TypeOK, Undoable, pc \in Applying, NEW ws \in Workspaces,
           \A p \in Paths \ AllTouched(ops) : ws[p] = files[p],
           Undo(ws), pc' \in {"execute", "fail_artifacts", "done"},
           UNCHANGED <<patchVars, receipt>>
    PROVE  Undoable'
<1>1. ~restoreErr' => files' = base'
  BY UndoRestores
<1>2. receipt'.status # "success"
  BY DEF Undoable, Applying
<1>3. pc' \notin Applying \cup {"validate", "on_receipt"}
  BY DEF Applying
<1>4. QED
  BY <1>1, <1>2, <1>3 DEF Undoable, patchVars

\* Giving up a build leaves nothing that a retry would have to undo.
LEMMA AbandonUndoable ==
    ASSUME TypeOK, Undoable, pc \in Applying, NEW ws \in Workspaces,
           \A p \in Paths \ AllTouched(ops) : ws[p] = files[p],
           Abandon(ws)
    PROVE  Undoable'
BY GivingUpUndoable DEF Abandon, outcomeVars

\* Steps that touch neither the workspace nor the operations.
LEMMA SameFilesUndoable ==
    ASSUME TypeOK, Undoable, UNCHANGED <<workspaceVars, patchVars>>,
           receipt'.status = "success" =>
               /\ pc' \in {"on_receipt", "done", "crashed"}
               /\ receipt'.changedFiles = AllTouched(ops),
           pc' = "on_receipt" => receipt'.status = "success",
           pc' \in Applying => pc \in Applying \/ (pc = "validate" /\ Allowed),
           pc' = "validate" => pc = "validate",
           ~restoreErr /\ RolledBack' => RolledBack \/ files = base
    PROVE  Undoable'
BY DEF Undoable, workspaceVars, patchVars, Allowed, RolledBack

\* There is nothing to undo at the start.
LEMMA InitUndoable == Init => Undoable
BY DEF Init, Undoable, NoReceipt, Applying, AllTouched, RolledBack

\* The execution keeps the attempt undoable.
LEMMA ExecuteUndoable == ASSUME TypeOK, Undoable, Execute PROVE Undoable'
<1>1. PICK edit \in Edits :
         /\ files' = RestoredOn(files, edit, DOMAIN edit)
         /\ base' = RestoredOn(base, edit, DOMAIN edit)
  BY DEF Execute
<1>2. ~restoreErr' => files' = base'
  BY <1>1 DEF Execute, Undoable, RolledBack
<1>3. pc' \in {"fail_artifacts", "capture"} /\ UNCHANGED receipt
  BY DEF Execute, outcomeVars
<1>4. receipt.status # "success"
  BY DEF Execute, Undoable
<1>5. QED
  BY <1>2, <1>3, <1>4 DEF Undoable, Applying

\* The capture of the workspace keeps the attempt undoable.
LEMMA CaptureUndoable == ASSUME TypeOK, Undoable, CaptureWorkspaceState PROVE Undoable'
<1>1. ~restoreErr => files = base
  BY DEF CaptureWorkspaceState, Undoable, RolledBack
<1>2. UNCHANGED <<workspaceVars, ops, receipt>> /\ receipt.status # "success"
  BY DEF CaptureWorkspaceState, outcomeVars, Undoable
<1>3. CASE /\ snapshot' = Capture(files, Managed \cup PatchPathsForSnapshot(ops))
           /\ pc' = "validate"
  BY <1>1, <1>2, <1>3 DEF Undoable, workspaceVars, Applying, PatchPathsForSnapshot
<1>4. CASE pc' = "fail_artifacts"
  BY <1>1, <1>2, <1>4 DEF Undoable, workspaceVars, Applying
<1>5. QED
  BY <1>3, <1>4 DEF CaptureWorkspaceState

\* The validation keeps the attempt undoable.
LEMMA ValidateUndoable == ASSUME TypeOK, Undoable, Validate PROVE Undoable'
<1>1. /\ UNCHANGED <<workspaceVars, patchVars, receipt>>
      /\ pc' \in {"apply", "execute", "fail_artifacts"}
      /\ pc' = "apply" => Allowed
  BY DEF Validate, RetryOrGiveUp, outcomeVars
<1>2. RolledBack /\ receipt.status # "success" /\ pc = "validate"
  BY DEF Validate, RolledBack, Undoable
<1>3. QED
  BY <1>1, <1>2, SameFilesUndoable DEF Applying

\* Applying a file keeps the attempt undoable.
LEMMA ApplyNextUndoable == ASSUME TypeOK, Undoable, ApplyNext PROVE Undoable'
<1>1. next \in DOMAIN ops /\ ops[next] \in PatchOps /\ TouchedPaths(ops[next]) \subseteq AllTouched(ops)
  BY LenProperties, TouchedInAll DEF ApplyNext, TypeOK
<1>2. \A p \in Paths \ AllTouched(ops) : files'[p] = files[p]
  BY <1>1, ApplyTouches DEF ApplyNext, TypeOK
<1>3. /\ pc = "apply" /\ pc' = "apply" /\ receipt' = receipt
      /\ UNCHANGED <<base, restoreErr, ops, snapshot>>
  BY DEF ApplyNext, outcomeVars
<1>4. Allowed /\ Allowed'
  BY <1>3 DEF Undoable, Applying, Allowed
<1>5. QED
  BY <1>2, <1>3, <1>4 DEF Undoable, Applying, RolledBack

\* A failure to apply a file keeps the attempt undoable.
LEMMA ApplyFailsUndoable == ASSUME TypeOK, Undoable, ApplyFails PROVE Undoable'
<1>1. next \in DOMAIN ops /\ ops[next] \in PatchOps /\ TouchedPaths(ops[next]) \subseteq AllTouched(ops)
  BY LenProperties, TouchedInAll DEF ApplyFails, TypeOK
<1>2. pc \in Applying
  BY DEF ApplyFails, Applying
<1>3. CASE Abandon(files)
  BY <1>2, <1>3, AbandonUndoable DEF TypeOK
<1>4. CASE \E ws \in FailedApply(files, ops[next]) : Abandon(ws)
  <2>1. PICK ws \in FailedApply(files, ops[next]) : Abandon(ws)
    BY <1>4
  <2>2. ws \in Workspaces /\ \A p \in Paths \ AllTouched(ops) : ws[p] = files[p]
    BY <1>1, FailedApplyEffect DEF TypeOK
  <2>3. QED
    BY <1>2, <2>1, <2>2, AbandonUndoable
<1>5. QED
  BY <1>3, <1>4 DEF ApplyFails

\* The steps from the post_apply hook to the verdicts of tests and coverage:
\* they move on with the workspace as it is or give the attempt up.
LEMMA JudgeUndoable ==
    ASSUME TypeOK, Undoable, PostApply \/ RunTests \/ PostTest \/ RunCoverage
    PROVE  Undoable'
<1>1. pc \in Applying /\ receipt.status # "success"
  BY DEF PostApply, RunTests, PostTest, RunCoverage, Applying, Undoable
<1>2. CASE Abandon(files)
  BY <1>1, <1>2, AbandonUndoable DEF TypeOK
<1>3. CASE /\ UNCHANGED <<workspaceVars, patchVars, receipt>>
           /\ pc' \in {"test", "coverage", "save_artifacts", "post_test"}
  BY <1>1, <1>3, SameFilesUndoable DEF RolledBack
<1>4. CASE /\ Undo(files)
           /\ UNCHANGED <<patchVars, receipt>>
           /\ pc' \in {"execute", "fail_artifacts"}
  BY <1>1, <1>4, GivingUpUndoable DEF TypeOK
<1>5. QED
  BY <1>2, <1>3, <1>4 DEF PostApply, RunTests, PostTest, RunCoverage, AfterTests,
       RetryOrGiveUp, outcomeVars

\* Saving leaves the workspace alone.
LEMMA SaveUndoable ==
    ASSUME TypeOK, Undoable, SaveArtifacts \/ SaveReceipt
    PROVE  Undoable'
<1>1. pc \in Applying /\ receipt.status # "success"
  BY DEF SaveArtifacts, SaveReceipt, Applying, Undoable
<1>2. CASE Undo(files) /\ pc' = "done" /\ UNCHANGED <<patchVars, receipt>>
  BY <1>1, <1>2, GivingUpUndoable DEF TypeOK
<1>3. CASE UNCHANGED <<workspaceVars, patchVars, receipt>> /\ pc' = "save_receipt"
  BY <1>1, <1>3, SameFilesUndoable DEF RolledBack
<1>4. CASE UNCHANGED <<workspaceVars, patchVars>> /\ receipt' = SuccessReceipt /\ pc' = "on_receipt"
  BY <1>1, <1>4, SameFilesUndoable DEF RolledBack, SuccessReceipt, ChangedFilesFromOps, Applying
<1>5. QED
  BY <1>2, <1>3, <1>4 DEF SaveArtifacts, SaveReceipt, ReportFailure

\* The steps before the loop, after it, and the crash.
LEMMA OtherStepsUndoable ==
    ASSUME TypeOK, Undoable,
           Preflight \/ OnReceipt \/ FailArtifacts \/ FailReceipt \/ Crash \/ UNCHANGED vars
    PROVE  Undoable'
<1>1. CASE Preflight
  BY <1>1, SameFilesUndoable DEF Preflight, RolledBack, Undoable, Applying
<1>2. CASE OnReceipt
  BY <1>2, SameFilesUndoable DEF OnReceipt, ReportFailure, RolledBack, Undoable, Applying
<1>3. CASE FailArtifacts
  BY <1>3, SameFilesUndoable DEF FailArtifacts, ReportFailure, RolledBack, Undoable, Applying
<1>4. CASE FailReceipt
  BY <1>4, SameFilesUndoable DEF FailReceipt, ReportFailure, FailedReceipt, RolledBack, Undoable, Applying
<1>5. CASE Crash
  BY <1>5, SameFilesUndoable DEF Crash, RolledBack, Undoable, Applying, outcomeVars
<1>6. CASE UNCHANGED vars
  BY <1>6 DEF vars, Undoable, workspaceVars, patchVars, outcomeVars, RolledBack, Allowed
<1>7. QED
  BY <1>1, <1>2, <1>3, <1>4, <1>5, <1>6

\* Every step keeps the attempt undoable.
LEMMA NextUndoable == TypeOK /\ Undoable /\ [Next]_vars => Undoable'
BY ExecuteUndoable, CaptureUndoable, ValidateUndoable, ApplyNextUndoable, ApplyFailsUndoable,
   JudgeUndoable, SaveUndoable, OtherStepsUndoable
   DEF Next, Step

\* The attempt is undoable in every reachable state.
LEMMA UndoableInvariant == Spec => []Undoable
<1>1. Init => Undoable
  BY InitUndoable
<1>2. TypeOK /\ Undoable /\ [Next]_vars => Undoable'
  BY NextUndoable
<1>3. QED
  BY <1>1, <1>2, TypeCorrect, PTL DEF Spec

\* A failed attempt leaves nothing behind, however it failed.
THEOREM Rollback == Spec => []FailedAttemptUndone
<1>1. Undoable => FailedAttemptUndone
  BY DEF Undoable, FailedAttemptUndone
<1>2. QED
  BY <1>1, UndoableInvariant, PTL

\* No operation changes a readonly file or a file of another specification,
\* at any moment, except as the target of a rename.
THEOREM Protection == Spec => []ProtectedFilesKept
<1>1. TypeOK /\ Undoable => ProtectedFilesKept
  <2> SUFFICES ASSUME TypeOK, Undoable, ~restoreErr,
                      NEW p \in Refused(Ownership, Self) \ RenameTargets
               PROVE  files[p] = base[p]
    BY DEF ProtectedFilesKept
  <2>1. p \in Paths
    BY BuildSpecAssumption DEF Refused
  <2>2. CASE files = base
    BY <2>2
  <2>3. CASE files # base
    <3>1. {OpPath(ops[i]) : i \in DOMAIN ops} \cap Refused(Ownership, Self) = {}
      BY <2>3, ValidatePatchRefuses DEF Undoable, Allowed
    <3>2. p \notin AllTouched(ops)
      BY <3>1 DEF AllTouched, TouchedPaths, OpPath, RenameTargets
    <3>3. QED
      BY <2>1, <3>2 DEF Undoable
  <2>4. QED
    BY <2>2, <2>3
<1>2. QED
  BY <1>1, TypeCorrect, UndoableInvariant, PTL

\* A success receipt names every file the build's operations changed.
THEOREM AuditTrail == Spec => []ChangedFilesComplete
<1>1. Undoable => ChangedFilesComplete
  BY DEF Undoable, ChangedFilesComplete
<1>2. QED
  BY <1>1, UndoableInvariant, PTL

-----------------------------------------------------------------------------
(***************************************************************************)
(* What a success receipt vouches for.                                     *)
(***************************************************************************)

Evidence == EvidenceSoFar /\ SuccessIsVerified

\* Steps after which no evidence is claimed: nothing has been tested yet in
\* the attempt, or there will be no success receipt.
LEMMA NoClaim ==
    ASSUME Evidence, receipt.status # "success", receipt'.status # "success",
           pc' \notin {"test", "post_test", "coverage", "save_artifacts", "save_receipt"}
    PROVE  Evidence'
BY DEF Evidence, EvidenceSoFar, SuccessIsVerified

\* Steps after a success receipt is on disk.
LEMMA ClaimStays ==
    ASSUME Evidence, UNCHANGED <<opts, workspaceVars, evidenceVars, receipt>>,
           pc' \in {"on_receipt", "done", "crashed"}
    PROVE  Evidence'
BY DEF Evidence, EvidenceSoFar, SuccessIsVerified, workspaceVars, evidenceVars, RunsCoverage

\* There is no evidence at the start.
LEMMA InitEvidence == Init => Evidence
BY DEF Init, Evidence, EvidenceSoFar, SuccessIsVerified, NoReceipt

\* Before the hooks run there is no evidence.
LEMMA EarlyEvidence ==
    ASSUME Evidence,
           Preflight \/ Execute \/ CaptureWorkspaceState \/ Validate
             \/ ApplyNext \/ ApplyFails \/ FailArtifacts \/ FailReceipt
    PROVE  Evidence'
<1>1. receipt.status # "success"
  BY DEF Preflight, Execute, CaptureWorkspaceState, Validate, ApplyNext, ApplyFails,
         FailArtifacts, FailReceipt, Evidence, EvidenceSoFar
<1>2. receipt' \in {receipt, FailedReceipt}
  BY DEF Preflight, Execute, CaptureWorkspaceState, Validate, ApplyNext, ApplyFails,
         FailArtifacts, FailReceipt, Abandon, outcomeVars
<1>3. pc' \notin {"test", "post_test", "coverage", "save_artifacts", "save_receipt"}
  BY DEF Preflight, Execute, CaptureWorkspaceState, Validate, ApplyNext, ApplyFails,
         FailArtifacts, FailReceipt, Abandon, RetryOrGiveUp, ReportFailure
<1>4. FailedReceipt.status # "success"
  BY DEF FailedReceipt
<1>5. QED
  BY <1>1, <1>2, <1>3, <1>4, NoClaim

\* An attempt that is given up makes no claim.
LEMMA GivingUpEvidence ==
    ASSUME Evidence, pc \in Applying, UNCHANGED receipt,
           pc' \in {"execute", "fail_artifacts", "done"}
    PROVE  Evidence'
BY NoClaim DEF Applying, Evidence, EvidenceSoFar

\* The post-apply hooks keep the evidence to the stages that passed.
LEMMA PostApplyEvidence == ASSUME TypeOK, Evidence, PostApply PROVE Evidence'
<1>1. receipt.status # "success"
  BY DEF PostApply, Evidence, EvidenceSoFar
<1>2. CASE Abandon(files)
  BY <1>2, GivingUpEvidence DEF PostApply, Abandon, Applying, outcomeVars
<1>3. CASE ~Abandon(files)
  <2>1. /\ counters' = NoCounters
        /\ pc' = IF opts.tests THEN "test" ELSE AfterTests
        /\ UNCHANGED <<opts, receipt>>
    BY <1>3 DEF PostApply, outcomeVars
  <2>2. NoCounters.testsFailed = 0
    BY DEF NoCounters
  <2>3. QED
    BY <1>1, <2>1, <2>2 DEF Evidence, EvidenceSoFar, SuccessIsVerified, AfterTests, RunsCoverage
<1>4. QED
  BY <1>2, <1>3

\* The test run keeps the evidence to the stages that passed.
LEMMA RunTestsEvidence == ASSUME TypeOK, Evidence, RunTests PROVE Evidence'
<1>1. receipt.status # "success" /\ counters = NoCounters
  BY DEF RunTests, Evidence, EvidenceSoFar
<1>2. CASE Abandon(files)
  BY <1>2, GivingUpEvidence DEF RunTests, Abandon, Applying, outcomeVars
<1>3. CASE ~Abandon(files)
  <2>1. PICK passed \in BOOLEAN :
          /\ counters' = [counters EXCEPT !.testsRun = 1,
                              !.testsPassed = IF passed THEN 1 ELSE 0,
                              !.testsFailed = IF passed THEN 0 ELSE 1]
          /\ tested' = IF passed THEN {files} ELSE tested
          /\ pc' = "post_test"
          /\ UNCHANGED <<files, receipt>>
    BY <1>3 DEF RunTests, workspaceVars, outcomeVars
  <2>2. /\ counters'.testsPassed = IF passed THEN 1 ELSE 0
        /\ counters'.testsFailed = IF passed THEN 0 ELSE 1
    BY <2>1 DEF TypeOK, Counters
  <2>3. QED
    BY <1>1, <2>1, <2>2 DEF Evidence, EvidenceSoFar, SuccessIsVerified
<1>4. QED
  BY <1>2, <1>3

\* The post-test hooks keep the evidence to the stages that passed.
LEMMA PostTestEvidence == ASSUME TypeOK, Evidence, PostTest PROVE Evidence'
<1>1. receipt.status # "success" /\ pc = "post_test"
  BY DEF PostTest, Evidence, EvidenceSoFar
<1>2. CASE Abandon(files) \/ (Undo(files) /\ RetryOrGiveUp("tests") /\ UNCHANGED outcomeVars)
  BY <1>1, <1>2, GivingUpEvidence DEF Abandon, RetryOrGiveUp, Applying, outcomeVars
<1>3. CASE /\ counters.testsPassed = 1
           /\ pc' = AfterTests
           /\ UNCHANGED <<opts, workspaceVars, patchVars, loopVars, evidenceVars, outcomeVars>>
  <2>1. files \in tested /\ counters.testsFailed = 0
    BY <1>1, <1>3 DEF Evidence, EvidenceSoFar, TypeOK, Counters
  <2>2. QED
    BY <1>1, <1>3, <2>1 DEF Evidence, EvidenceSoFar, SuccessIsVerified, AfterTests, RunsCoverage,
         workspaceVars, evidenceVars, outcomeVars
<1>4. QED
  BY <1>2, <1>3 DEF PostTest

\* The coverage run keeps the evidence to the stages that passed.
LEMMA RunCoverageEvidence == ASSUME TypeOK, Evidence, RunCoverage PROVE Evidence'
<1>1. receipt.status # "success" /\ pc = "coverage"
  BY DEF RunCoverage, Evidence, EvidenceSoFar
<1>2. CASE Abandon(files) \/ (Undo(files) /\ RetryOrGiveUp("coverage") /\ UNCHANGED outcomeVars)
  BY <1>1, <1>2, GivingUpEvidence DEF Abandon, RetryOrGiveUp, Applying, outcomeVars
<1>3. CASE \E percent \in CoverageLevels :
             /\ ~(percent < CoverageTarget)
             /\ counters' = [counters EXCEPT !.coverageAfter = percent]
             /\ covered' = {files} /\ pc' = "save_artifacts"
             /\ UNCHANGED <<opts, tested, workspaceVars, outcomeVars>>
  <2>1. PICK percent \in CoverageLevels :
             /\ ~(percent < CoverageTarget)
             /\ counters' = [counters EXCEPT !.coverageAfter = percent]
    BY <1>3
  <2>2. /\ counters'.testsPassed = counters.testsPassed
        /\ counters'.testsFailed = counters.testsFailed
        /\ counters'.coverageAfter >= CoverageTarget
    BY <2>1, BuildSpecAssumption DEF TypeOK, Counters
  <2>3. QED
    BY <1>1, <1>3, <2>2 DEF Evidence, EvidenceSoFar, SuccessIsVerified, workspaceVars, outcomeVars
<1>4. QED
  BY <1>2, <1>3 DEF RunCoverage

\* Saving leaves the evidence alone.
LEMMA SaveEvidence == ASSUME Evidence, SaveArtifacts \/ SaveReceipt PROVE Evidence'
<1>1. pc \in {"save_artifacts", "save_receipt"} /\ receipt.status # "success"
  BY DEF SaveArtifacts, SaveReceipt, Evidence, EvidenceSoFar
<1>2. CASE pc' = "done" /\ UNCHANGED receipt
  BY <1>1, <1>2, GivingUpEvidence DEF Applying
<1>3. CASE pc' = "save_receipt" /\ pc = "save_artifacts"
           /\ UNCHANGED <<opts, workspaceVars, evidenceVars, receipt>>
  BY <1>1, <1>3 DEF Evidence, EvidenceSoFar, SuccessIsVerified, workspaceVars, evidenceVars, RunsCoverage
<1>4. CASE pc' = "on_receipt" /\ receipt' = SuccessReceipt
           /\ UNCHANGED <<opts, workspaceVars, evidenceVars>>
  BY <1>1, <1>4 DEF Evidence, EvidenceSoFar, SuccessIsVerified, SuccessReceipt, workspaceVars,
       evidenceVars, RunsCoverage
<1>5. QED
  BY <1>2, <1>3, <1>4 DEF SaveArtifacts, SaveReceipt, ReportFailure

\* Every step keeps the evidence to the stages that passed.
LEMMA NextEvidence == TypeOK /\ Evidence /\ [Next]_vars => Evidence'
<1> SUFFICES ASSUME TypeOK, Evidence, [Next]_vars PROVE Evidence'
  OBVIOUS
<1>1. CASE OnReceipt
  BY <1>1, ClaimStays DEF OnReceipt, ReportFailure
<1>2. CASE Crash
  BY <1>2, ClaimStays DEF Crash, outcomeVars
<1>3. CASE UNCHANGED vars
  BY <1>3 DEF vars, Evidence, EvidenceSoFar, SuccessIsVerified, workspaceVars, evidenceVars,
       outcomeVars, RunsCoverage
<1>4. QED
  BY <1>1, <1>2, <1>3, EarlyEvidence, PostApplyEvidence, RunTestsEvidence, PostTestEvidence,
     RunCoverageEvidence, SaveEvidence DEF Next, Step

\* A success receipt is on disk only if the tests passed and coverage met its
\* target on exactly the files that are in the workspace.
THEOREM SuccessVerified == Spec => []SuccessIsVerified
<1>1. Init => Evidence
  BY InitEvidence
<1>2. TypeOK /\ Evidence /\ [Next]_vars => Evidence'
  BY NextEvidence
<1>3. Evidence => SuccessIsVerified
  BY DEF Evidence
<1>4. QED
  BY <1>1, <1>2, <1>3, TypeCorrect, PTL DEF Spec

-----------------------------------------------------------------------------
(***************************************************************************)
(* A build implements BuildContract: it is all or nothing.                 *)
(***************************************************************************)

\* The faults the contract excludes: a process that dies and a rollback that
\* fails leave a workspace nobody promised anything about.
Reliable == "restore" \notin Faults /\ "crash" \notin Faults

\* Who has been told what so far.
Reported ==
    /\ restoreErr = FALSE /\ pc # "crashed"
    /\ pc # "done" => result = "none"
    /\ pc \notin {"on_receipt", "done"} => receipt = NoReceipt
    /\ receipt.status # "success" => receipt.changedFiles = {}
    /\ opts.dryRun => pc \in {"preflight", "done"}

\* What the contract assumes of a result holds at the start.
LEMMA InitReported == Init => Reported
BY DEF Init, Reported, NoReceipt

\* Every step of a build keeps it.
LEMMA NextReported ==
    ASSUME Reliable, TypeOK, Undoable, Reported, [Next]_vars
    PROVE  Reported'
<1> USE DEF Reported, workspaceVars, outcomeVars
<1>1. restoreErr' = FALSE /\ pc' # "crashed"
  <2>1. ASSUME NEW ws, Undo(ws) PROVE restoreErr' = FALSE
    BY <2>1 DEF Undo, Reliable
  <2>2. CASE Step
    BY <2>1, <2>2 DEF Step, Preflight, Execute, CaptureWorkspaceState, Validate, ApplyNext,
         ApplyFails, Abandon, PostApply, RunTests, PostTest, RunCoverage, SaveArtifacts,
         SaveReceipt, OnReceipt, FailArtifacts, FailReceipt, RetryOrGiveUp, ReportFailure, AfterTests
  <2>3. CASE Crash \/ UNCHANGED vars
    BY <2>3 DEF Crash, Reliable, vars
  <2>4. QED
    BY <2>2, <2>3 DEF Next
<1>2. opts' = opts /\ (opts.dryRun => pc' \in {"preflight", "done"})
  BY DEF Next, Step, Preflight, Execute, CaptureWorkspaceState, Validate, ApplyNext,
         ApplyFails, Abandon, PostApply, RunTests, PostTest, RunCoverage, SaveArtifacts,
         SaveReceipt, OnReceipt, FailArtifacts, FailReceipt, ReportFailure, Crash, vars, Reliable
<1>3. pc' # "done" => result' = "none"
  BY DEF Next, Step, Preflight, Execute, CaptureWorkspaceState, Validate, ApplyNext,
         ApplyFails, Abandon, PostApply, RunTests, PostTest, RunCoverage, SaveArtifacts,
         SaveReceipt, OnReceipt, FailArtifacts, FailReceipt, ReportFailure, Crash, vars, Reliable
<1>4. /\ pc' \notin {"on_receipt", "done"} => receipt' = NoReceipt
      /\ receipt'.status # "success" => receipt'.changedFiles = {}
  <2>1. FailedReceipt.changedFiles = {} /\ SuccessReceipt.status = "success"
    BY DEF FailedReceipt, SuccessReceipt
  <2>2. CASE receipt' = receipt
    BY <2>2 DEF Next, Step, Preflight, Execute, CaptureWorkspaceState, Validate, ApplyNext,
         ApplyFails, Abandon, PostApply, RunTests, PostTest, RunCoverage, SaveArtifacts,
         SaveReceipt, OnReceipt, FailArtifacts, FailReceipt, ReportFailure, Crash, vars, Reliable
  <2>3. CASE receipt' # receipt
    <3>1. \/ receipt' = SuccessReceipt /\ pc' = "on_receipt"
          \/ receipt' = FailedReceipt /\ pc' = "done"
      BY <2>3 DEF Next, Step, Preflight, Execute, CaptureWorkspaceState, Validate, ApplyNext,
           ApplyFails, Abandon, PostApply, RunTests, PostTest, RunCoverage, SaveArtifacts,
           SaveReceipt, OnReceipt, FailArtifacts, FailReceipt, ReportFailure, Crash, vars
    <3>2. QED
      BY <2>1, <3>1
  <2>4. QED
    BY <2>2, <2>3
<1>5. QED
  BY <1>1, <1>2, <1>3, <1>4

\* Under the invariants the visible workspace is the one without operations
\* until the success receipt is written.
LEMMA Visible ==
    ASSUME Undoable, Reported
    PROVE  VisibleFiles = IF receipt.status = "success" THEN files ELSE base
BY DEF VisibleFiles, Undoable, Reported

\* A build starts where its contract does.
LEMMA InitContract == Init => Contract!Init
BY BuildSpecAssumption DEF Init, Contract!Init, VisibleFiles, RolledBack, NoReceipt, OptionRecords

\* What holds of the steps that leave receipt, result and base as they are.
LEMMA InnerStutter ==
    ASSUME Undoable, Reported, Undoable', Reported',
           UNCHANGED <<base, opts, receipt, result>>, receipt.status # "success"
    PROVE  UNCHANGED Contract!vars
BY Visible DEF Contract!vars, VisibleFiles, Undoable, Reported

\* Between the execution and the receipt, a step of an attempt is a stutter,
\* a retry or the end of the build to the contract.
LEMMA AttemptContract ==
    ASSUME TypeOK, Undoable, Reported, Undoable', Reported',
           CaptureWorkspaceState \/ Validate \/ ApplyNext \/ ApplyFails \/ PostApply
             \/ RunTests \/ PostTest \/ RunCoverage
    PROVE  UNCHANGED Contract!vars
<1>1. ASSUME NEW ws, Undo(ws) PROVE base' = base
  BY <1>1 DEF Undo
<1>2. UNCHANGED <<base, opts, receipt, result>> /\ receipt.status # "success"
  BY <1>1 DEF CaptureWorkspaceState, Validate, ApplyNext, ApplyFails, PostApply, RunTests,
       PostTest, RunCoverage, Abandon, workspaceVars, outcomeVars, Undoable
<1>3. QED
  BY <1>2, InnerStutter

\* The backend's answer or failure, as the contract sees it.
LEMMA ExecuteContract ==
    ASSUME TypeOK, Undoable, Reported, TypeOK', Undoable', Reported', Execute
    PROVE  Contract!BackendWrites
<1>1. PICK edit \in Edits : base' = RestoredOn(base, edit, DOMAIN edit)
  BY DEF Execute
<1>2. DOMAIN edit \subseteq InPlace
  BY DEF Edits
<1>3. \A p \in Paths \ InPlace : base'[p] = base[p]
  BY <1>1, <1>2 DEF RestoredOn
<1>4. VisibleFiles = base /\ VisibleFiles' = base' /\ base' \in [Paths -> FileStates]
  <2>1. receipt = NoReceipt /\ receipt' = receipt /\ NoReceipt.status # "success"
    BY DEF Execute, Reported, outcomeVars, NoReceipt
  <2>2. VisibleFiles = base
    BY <2>1, Visible
  <2>3. (pc' = "capture" \/ pc' = "fail_artifacts") /\ files' = base'
    BY <2>1 DEF Execute, Undoable, Reported, RolledBack
  <2>4. QED
    BY <2>2, <2>3, <2>1 DEF VisibleFiles, TypeOK, Workspaces
<1>5. /\ receipt.status = "none" /\ result = "none"
      /\ UNCHANGED <<opts, receipt, result>>
  BY DEF Execute, Reported, outcomeVars, NoReceipt
<1>6. QED
  BY <1>3, <1>4, <1>5 DEF Contract!BackendWrites, Contract!Running, Contract!DiffersOnlyOn

\* Saving artifacts and receipt, as the contract sees it.
LEMMA SaveContract ==
    ASSUME TypeOK, Undoable, Reported, TypeOK', Undoable', Reported',
           SaveArtifacts \/ SaveReceipt
    PROVE  Contract!Commit \/ Contract!Abort \/ UNCHANGED Contract!vars
<1>1. /\ receipt.status = "none" /\ receipt.changedFiles = {} /\ result = "none"
      /\ ~opts.dryRun /\ UNCHANGED opts
  BY DEF SaveArtifacts, SaveReceipt, Reported, NoReceipt
<1>2. base' = base
  BY DEF SaveArtifacts, SaveReceipt, Undo, workspaceVars
<1>3. VisibleFiles = base
  BY <1>1, Visible
<1>4. CASE UNCHANGED <<receipt, result>>
  BY <1>1, <1>2, <1>4, InnerStutter
<1>5. CASE UNCHANGED receipt /\ ReportFailure
  <2>1. VisibleFiles' = base
    BY <1>1, <1>2, <1>5 DEF ReportFailure, VisibleFiles, RolledBack, Undoable, Reported
  <2>2. QED
    BY <1>1, <1>3, <1>5, <2>1 DEF ReportFailure, Contract!Abort, Contract!Running
<1>6. CASE receipt' = SuccessReceipt /\ UNCHANGED <<workspaceVars, result, ops>>
  <2>1. receipt'.status = "success" /\ receipt'.changedFiles = AllTouched(ops)
    BY <1>6 DEF SuccessReceipt, ChangedFilesFromOps
  <2>2. VisibleFiles' = files /\ files \in [Paths -> FileStates]
    BY <1>6, <2>1 DEF VisibleFiles, TypeOK, Workspaces, workspaceVars
  <2>3. \A p \in Paths \ AllTouched(ops) : files[p] = base[p]
    BY DEF Undoable, Reported
  <2>4. AllTouched(ops) \subseteq Paths
    BY AllTouchedType DEF TypeOK
  <2>5. QED
    BY <1>1, <1>3, <1>6, <2>1, <2>2, <2>3, <2>4
       DEF Contract!Commit, Contract!Running, Contract!DiffersOnlyOn
<1>7. QED
  BY <1>4, <1>5, <1>6 DEF SaveArtifacts, SaveReceipt, patchVars

\* The receipt of a failed build, as the contract sees it.
LEMMA EndContract ==
    ASSUME TypeOK, Undoable, Reported, TypeOK', Undoable', Reported',
           Preflight \/ OnReceipt \/ FailArtifacts \/ FailReceipt
    PROVE  Contract!Abort \/ Contract!Report \/ UNCHANGED Contract!vars
<1>1. UNCHANGED <<files, base, opts>>
  BY DEF Preflight, OnReceipt, FailArtifacts, FailReceipt, workspaceVars
<1>2. CASE OnReceipt
  <2>1. receipt.status = "success" /\ receipt' = receipt /\ result = "none"
    BY <1>2 DEF OnReceipt, Undoable, Reported
  <2>2. VisibleFiles' = VisibleFiles
    BY <1>1, <2>1 DEF VisibleFiles
  <2>3. result' = "success" \/ (result' = "failed" /\ "on_receipt" \in Hooks)
    BY <1>2 DEF HookFails, OnReceipt, ReportFailure
  <2>4. QED
    BY <1>1, <2>1, <2>2, <2>3 DEF Contract!Report
<1>3. CASE Preflight \/ FailArtifacts \/ FailReceipt
  <2>1. receipt = NoReceipt /\ result = "none" /\ receipt'.status \in {"none", "failed"}
        /\ receipt'.changedFiles = {}
    BY <1>3 DEF Preflight, FailArtifacts, FailReceipt, Reported, NoReceipt, FailedReceipt
  <2>2. VisibleFiles' = VisibleFiles
    BY <1>1, <2>1, Visible DEF VisibleFiles, Undoable, Reported, NoReceipt
  <2>3. CASE result' = result
    BY <1>1, <1>3, <2>1, <2>2, <2>3 DEF Preflight, FailArtifacts, FailReceipt, ReportFailure, Contract!vars
  <2>4. CASE result' = "failed"
    BY <1>1, <1>3, <2>1, <2>2, <2>4 DEF Preflight, FailArtifacts, FailReceipt, Reported,
       NoReceipt, Contract!Abort, Contract!Running
  <2>5. CASE result' = "success"
    BY <1>1, <1>3, <2>1, <2>2, <2>5 DEF Preflight, FailArtifacts, FailReceipt, ReportFailure,
       NoReceipt, Contract!Report
  <2>6. QED
    BY <1>3, <2>3, <2>4, <2>5 DEF Preflight, FailArtifacts, FailReceipt, ReportFailure
<1>4. QED
  BY <1>2, <1>3

\* Every step of a build is a step or a stutter of its contract.
LEMMA NextContract ==
    ASSUME Reliable, TypeOK, Undoable, Reported, TypeOK', Undoable', Reported', [Next]_vars
    PROVE  [Contract!Next]_(Contract!vars)
<1>1. CASE UNCHANGED vars
  BY <1>1 DEF vars, Contract!vars, VisibleFiles, RolledBack, workspaceVars, outcomeVars
<1>2. CASE Next
  BY <1>2, AttemptContract, ExecuteContract, SaveContract, EndContract
     DEF Next, Step, Crash, Reliable, Contract!Next
<1>3. QED
  BY <1>1, <1>2

\* A build is all or nothing: seen through VisibleFiles it takes only steps of
\* BuildContract, if the process does not die and no rollback fails.
THEOREM Refinement == Reliable => (Spec => ImplementsContract)
<1> SUFFICES ASSUME Reliable PROVE Spec => ImplementsContract
  OBVIOUS
<1>1. Init => Reported /\ Contract!Init
  BY InitReported, InitContract
<1>2. TypeOK /\ Undoable /\ Reported /\ [Next]_vars => Reported'
  BY NextReported
<1>3. TypeOK /\ Undoable /\ Reported /\ TypeOK' /\ Undoable' /\ Reported' /\ [Next]_vars
        => [Contract!Next]_(Contract!vars)
  BY NextContract
<1>4. QED
  BY <1>1, <1>2, <1>3, TypeCorrect, UndoableInvariant, PTL DEF Spec, ImplementsContract, Contract!Spec

-----------------------------------------------------------------------------
(***************************************************************************)
(* The repair loop.                                                        *)
(***************************************************************************)

\* The places of the steps, one by one.
LEMMA Places ==
    /\ Place["preflight"] = 1 /\ Place["execute"] = 2 /\ Place["capture"] = 3
    /\ Place["validate"] = 4 /\ Place["apply"] = 5 /\ Place["test"] = 6
    /\ Place["post_test"] = 7 /\ Place["coverage"] = 8 /\ Place["save_artifacts"] = 9
    /\ Place["save_receipt"] = 10 /\ Place["on_receipt"] = 11 /\ Place["fail_artifacts"] = 12
    /\ Place["fail_receipt"] = 13 /\ Place["done"] = 14 /\ Place["crashed"] = 14
BY DEF Place

\* An attempt that failed is followed by one within the limit, or by the end.
LEMMA RetryAdvances ==
    ASSUME TypeOK, UNCHANGED opts, pc \in {"validate", "post_test", "coverage"},
           NEW kind, RetryOrGiveUp(kind)
    PROVE  Advances
<1>1. attempt \in Nat /\ RetryLimit \in Nat
  BY DEF TypeOK, Attempts, OptionRecords, RetryLimit
<1>2. CASE attempt < RetryLimit
  BY <1>1, <1>2 DEF RetryOrGiveUp, Advances
<1>3. CASE ~(attempt < RetryLimit)
  BY <1>3, Places DEF RetryOrGiveUp, Advances
<1>4. QED
  BY <1>2, <1>3

\* Giving up leads to the end.
LEMMA AbandonAdvances ==
    ASSUME pc \in {"apply", "test", "post_test", "coverage"}, NEW ws, Abandon(ws)
    PROVE  Advances
BY Places DEF Abandon, Advances, loopVars

\* The steps of an attempt up to its operations.
LEMMA AttemptAdvances ==
    ASSUME TypeOK, Preflight \/ Execute \/ CaptureWorkspaceState \/ Validate
    PROVE  Advances
<1>1. CASE Preflight
  BY <1>1, Places DEF Preflight, Advances, loopVars
<1>2. CASE Execute
  BY <1>2, Places DEF Execute, Advances, loopVars
<1>3. CASE CaptureWorkspaceState
  BY <1>3, Places DEF CaptureWorkspaceState, Advances, loopVars
<1>4. CASE Validate /\ Allowed
  BY <1>4, Places DEF Validate, Advances, loopVars
<1>5. CASE Validate /\ ~Allowed
  BY <1>5, RetryAdvances DEF Validate
<1>6. QED
  BY <1>1, <1>2, <1>3, <1>4, <1>5

\* One operation after the other is applied, or none any more.
LEMMA ApplyAdvances ==
    ASSUME TypeOK, ApplyNext \/ ApplyFails \/ PostApply
    PROVE  Advances
<1>1. CASE ApplyNext
  <2>1. Len(ops) \in Nat /\ next \in Nat
    BY LenProperties DEF TypeOK
  <2>2. next + 1 <= Len(ops) + 1
    BY <1>1, <2>1 DEF ApplyNext
  <2>3. QED
    BY <1>1, <2>2 DEF ApplyNext, Advances, loopVars
<1>2. CASE ApplyFails
  BY <1>2, AbandonAdvances DEF ApplyFails
<1>3. CASE PostApply
  <2>1. CASE Abandon(files)
    BY <1>3, <2>1, AbandonAdvances DEF PostApply
  <2>2. CASE ~Abandon(files)
    BY <1>3, <2>2, Places DEF PostApply, AfterTests, Advances
  <2>3. QED
    BY <2>1, <2>2
<1>4. QED
  BY <1>1, <1>2, <1>3

\* Tests and coverage lead on, to the next attempt or to the end.
LEMMA ChecksAdvance ==
    ASSUME TypeOK, RunTests \/ PostTest \/ RunCoverage
    PROVE  Advances
<1>1. CASE Abandon(files)
  BY <1>1, AbandonAdvances DEF RunTests, PostTest, RunCoverage
<1>2. CASE RunTests /\ ~Abandon(files)
  <2>1. pc = "test" /\ pc' = "post_test" /\ UNCHANGED <<opts, loopVars>>
    BY <1>2, Zenon DEF RunTests
  <2>2. QED
    BY <2>1, Places DEF Advances, loopVars
<1>3. CASE PostTest /\ ~Abandon(files)
  <2>1. CASE pc' = AfterTests /\ UNCHANGED <<opts, loopVars>>
    BY <1>3, <2>1, Places DEF PostTest, AfterTests, Advances, loopVars
  <2>2. CASE RetryOrGiveUp("tests") /\ UNCHANGED opts
    BY <1>3, <2>2, RetryAdvances DEF PostTest
  <2>3. QED
    BY <1>3, <2>1, <2>2 DEF PostTest
<1>4. CASE RunCoverage /\ ~Abandon(files)
  <2> pc = "coverage"
    BY <1>4, Zenon DEF RunCoverage
  <2>1. CASE pc' = "save_artifacts" /\ UNCHANGED <<opts, loopVars>>
    BY <2>1, Places DEF Advances, loopVars
  <2>2. CASE RetryOrGiveUp("coverage") /\ UNCHANGED opts
    BY <2>2, RetryAdvances
  <2>3. QED
    BY <1>4, <2>1, <2>2 DEF RunCoverage
<1>5. QED
  BY <1>1, <1>2, <1>3, <1>4

\* The end leads to its own end.
LEMMA EndAdvances ==
    ASSUME TypeOK,
           SaveArtifacts \/ SaveReceipt \/ OnReceipt \/ FailArtifacts \/ FailReceipt \/ Crash
    PROVE  Advances
<1>1. CASE SaveArtifacts
  BY <1>1, Places DEF SaveArtifacts, ReportFailure, Advances, loopVars
<1>2. CASE SaveReceipt
  BY <1>2, Places DEF SaveReceipt, ReportFailure, Advances, loopVars
<1>3. CASE OnReceipt
  BY <1>3, Places DEF OnReceipt, ReportFailure, Advances, loopVars
<1>4. CASE FailArtifacts
  BY <1>4, Places DEF FailArtifacts, ReportFailure, Advances, loopVars
<1>5. CASE FailReceipt
  BY <1>5, Places DEF FailReceipt, ReportFailure, Advances, loopVars
<1>6. CASE Crash
  <2>1. Place[pc] < 14
    BY <1>6, Places DEF Crash, TypeOK
  <2>2. QED
    BY <1>6, <2>1, Places DEF Crash, Advances, loopVars
<1>7. QED
  BY <1>1, <1>2, <1>3, <1>4, <1>5, <1>6

\* The repair loop of buildSpec never goes on for nothing, whatever fails: for
\* every retry limit and every answer a build has boundedly many steps.
THEOREM BuildAdvances == Spec => EveryStepAdvances
<1>1. TypeOK /\ [Next]_vars => [Advances]_vars
  BY AttemptAdvances, ApplyAdvances, ChecksAdvance, EndAdvances DEF Next, Step
<1>2. QED
  BY <1>1, TypeCorrect, PTL DEF Spec, EveryStepAdvances
=============================================================================
