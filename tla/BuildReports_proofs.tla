------------------------ MODULE BuildReports_proofs -------------------------
(***************************************************************************)
(* What a build reports, for every workspace, ownership map, option        *)
(* record, backend answer and set of faults: the number of its retries,    *)
(* its result, the reports beside its receipt, the context of its repair   *)
(* prompts, and the owned files that a success leaves.                     *)
(***************************************************************************)
EXTENDS BuildSpec_proofs

-----------------------------------------------------------------------------
(***************************************************************************)
(* Retries.                                                                *)
(***************************************************************************)

InAttempt == {"preflight", "execute", "capture", "validate"} \cup Applying
AfterReceipt == {"on_receipt", "done", "crashed"}

\* The inductive strengthening of RetriesAccounted: while an attempt has not
\* failed, the failed ones are those before it.
Accounts ==
    /\ pc \in InAttempt => Len(artifacts.repair) = attempt
    /\ Len(artifacts.repair) <= RetryLimit + 1
    /\ receipt.status = "success" =>
         /\ pc \in AfterReceipt
         /\ receipt.retries = Len(artifacts.repair) /\ receipt.retries <= RetryLimit

\* A failed attempt is recorded once.
LEMMA OneMoreRepair ==
    ASSUME TypeOK, NEW failures \in SUBSET FailureKinds
    PROVE  Len(WithRepair(failures)) = Len(artifacts.repair) + 1
BY AppendProperties DEF WithRepair, TypeOK

\* A step that records no failure and stays in the attempt, or leaves it.
LEMMA SameRepairsAccounts ==
    ASSUME Accounts, UNCHANGED <<opts, attempt>>, receipt'.status # "success",
           artifacts'.repair = artifacts.repair,
           pc' \in InAttempt => pc \in InAttempt
    PROVE  Accounts'
BY DEF Accounts, RetryLimit

\* A step that records a failure.
LEMMA RetryAccounts ==
    ASSUME TypeOK, Accounts, NEW kind, RetryOrGiveUp(kind), opts' = opts,
           pc \in InAttempt, receipt'.status # "success",
           Len(artifacts'.repair) = Len(artifacts.repair) + 1
    PROVE  Accounts'
<1>1. Len(artifacts.repair) = attempt /\ attempt \in Nat /\ RetryLimit \in Nat /\ attempt <= RetryLimit
  BY RetryLimitType DEF Accounts, TypeOK, Attempts
<1>2. RetryLimit' = RetryLimit
  BY DEF RetryLimit
<1>3. \/ attempt' = attempt + 1 /\ pc' = "execute"
      \/ attempt' = attempt /\ pc' = "fail_artifacts"
  BY DEF RetryOrGiveUp
<1>4. QED
  BY <1>1, <1>2, <1>3 DEF Accounts, InAttempt, Applying

\* The steps of an attempt.
LEMMA AttemptAccounts ==
    ASSUME TypeOK, Accounts,
           Execute \/ CaptureWorkspaceState \/ Validate \/ ApplyNext \/ ApplyFails
             \/ PostApply \/ RunTests \/ PostTest \/ RunCoverage
    PROVE  Accounts'
<1> USE BuildSpecAssumption
<1>1. pc \in InAttempt /\ receipt.status # "success" /\ receipt' = receipt /\ opts' = opts
  BY DEF Execute, CaptureWorkspaceState, Validate, ApplyNext, ApplyFails, PostApply, RunTests,
         PostTest, RunCoverage, Abandon, outcomeVars, InAttempt, AfterReceipt, Applying, Accounts
<1>2. CASE UNCHANGED attempt /\ artifacts'.repair = artifacts.repair
  BY <1>1, <1>2, SameRepairsAccounts
<1>3. CASE \E failures \in SUBSET FailureKinds, kind \in {"ownership", "tests", "coverage"} :
             artifacts'.repair = WithRepair(failures) /\ RetryOrGiveUp(kind)
  BY <1>1, <1>3, OneMoreRepair, RetryAccounts
<1>4. CASE Execute \/ CaptureWorkspaceState \/ ApplyNext \/ ApplyFails
  BY <1>2, <1>4 DEF Execute, CaptureWorkspaceState, ApplyNext, ApplyFails, Abandon,
                    loopVars, evidenceVars
<1>5. CASE PostApply \/ RunTests
  BY <1>2, <1>5 DEF PostApply, RunTests, Abandon, loopVars, evidenceVars, TypeOK
<1>6. CASE Validate
  <2>1. CASE Allowed
    BY <1>2, <1>6, <2>1 DEF Validate, loopVars
  <2>2. CASE ~Allowed
    <3> DEFINE failures == ClassifyFailure(TRUE, 0, 0, TRUE)
    <3>1. failures \in SUBSET FailureKinds
      BY RepairType
    <3>2. artifacts'.repair = WithRepair(failures) /\ RetryOrGiveUp("ownership")
      BY <1>6, <2>2 DEF Validate, TypeOK
    <3>3. QED
      BY <1>3, <3>1, <3>2
  <2>3. QED
    BY <2>1, <2>2
<1>7. CASE PostTest
  <2> DEFINE failures == ClassifyFailure(FALSE, 0, CoverageTarget, FALSE)
  <2>1. failures \in SUBSET FailureKinds
    BY RepairType
  <2>2. \/ UNCHANGED <<attempt, artifacts>>
        \/ artifacts' = [artifacts EXCEPT !.repair = WithRepair(failures)] /\ RetryOrGiveUp("tests")
    BY <1>7 DEF PostTest, Abandon, loopVars, evidenceVars
  <2>3. QED
    BY <1>2, <1>3, <2>1, <2>2 DEF TypeOK
<1>8. CASE RunCoverage
  <2>1. \/ UNCHANGED <<attempt, artifacts>>
        \/ UNCHANGED attempt /\ artifacts' = [artifacts EXCEPT !.coverage = attempt + 1]
        \/ \E percent \in CoverageLevels :
             /\ artifacts' = [artifacts EXCEPT !.coverage = attempt + 1,
                   !.repair = WithRepair(ClassifyFailure(TRUE, percent, CoverageTarget, FALSE))]
             /\ RetryOrGiveUp("coverage")
    BY <1>8 DEF RunCoverage, Abandon, loopVars, evidenceVars
  <2>2. \A percent \in CoverageLevels :
          ClassifyFailure(TRUE, percent, CoverageTarget, FALSE) \in SUBSET FailureKinds
    BY RepairType
  <2>3. QED
    BY <1>2, <1>3, <2>1, <2>2 DEF TypeOK
<1>9. QED
  BY <1>4, <1>5, <1>6, <1>7, <1>8

\* The steps before the loop and after it.
LEMMA OtherAccounts ==
    ASSUME TypeOK, Accounts,
           Preflight \/ SaveArtifacts \/ SaveReceipt \/ OnReceipt \/ FailArtifacts
             \/ FailReceipt \/ Crash \/ UNCHANGED vars
    PROVE  Accounts'
<1> USE DEF Accounts, InAttempt, Applying, AfterReceipt, RetryLimit
<1>1. CASE Preflight
  BY <1>1 DEF Preflight, loopVars, evidenceVars
<1>2. CASE SaveArtifacts
  BY <1>2 DEF SaveArtifacts, ReportFailure, loopVars, evidenceVars
<1>3. CASE SaveReceipt
  <2>1. attempt <= RetryLimit
    BY RetryLimitType DEF TypeOK, Attempts
  <2>2. QED
    BY <1>3, <2>1 DEF SaveReceipt, SuccessReceipt, ReportFailure, loopVars, evidenceVars
<1>4. CASE OnReceipt
  BY <1>4 DEF OnReceipt, ReportFailure, loopVars, evidenceVars
<1>5. CASE FailArtifacts
  BY <1>5 DEF FailArtifacts, ReportFailure, loopVars, evidenceVars
<1>6. CASE FailReceipt
  BY <1>6 DEF FailReceipt, ReportFailure, FailedReceipt, loopVars, evidenceVars
<1>7. CASE Crash
  BY <1>7 DEF Crash, loopVars, evidenceVars, outcomeVars
<1>8. CASE UNCHANGED vars
  BY <1>8 DEF vars, loopVars, evidenceVars, outcomeVars
<1>9. QED
  BY <1>1, <1>2, <1>3, <1>4, <1>5, <1>6, <1>7, <1>8

\* The accounts hold in every reachable state.
LEMMA AccountsInvariant == Spec => []Accounts
<1>1. Init => Accounts
  <2> SUFFICES ASSUME Init PROVE Accounts
    OBVIOUS
  <2>1. Len(artifacts.repair) = 0 /\ attempt = 0 /\ receipt.status = "none"
    BY DEF Init, NoReceipt
  <2>2. RetryLimit \in Nat
    BY RetryLimitType, BuildSpecAssumption DEF Init
  <2>3. QED
    BY <2>1, <2>2 DEF Accounts
<1>2. TypeOK /\ Accounts /\ [Next]_vars => Accounts'
  BY AttemptAccounts, OtherAccounts DEF Next, Step
<1>3. QED
  BY <1>1, <1>2, TypeCorrect, PTL DEF Spec

\* Each attempt that failed validation, its tests or coverage is on record
\* exactly once, and a success receipt counts them all.
THEOREM RetriesCounted == Spec => []RetriesAccounted
<1>1. Accounts => RetriesAccounted
  BY DEF Accounts, RetriesAccounted, InAttempt, Applying
<1>2. QED
  BY <1>1, AccountsInvariant, PTL

-----------------------------------------------------------------------------
(***************************************************************************)
(* The result.                                                             *)
(***************************************************************************)

\* The inductive strengthening of ResultMatchesReceipt: a result is reported
\* with the last step, and a success receipt comes just before it.
Reporting ==
    /\ pc \notin {"done", "crashed"} => result = "none"
    /\ receipt.status = "success" => pc \in AfterReceipt
    /\ pc = "on_receipt" => receipt.status = "success"
    /\ ResultMatchesReceipt

\* A step before the last one that writes no receipt.
LEMMA QuietReporting ==
    ASSUME Reporting, UNCHANGED <<receipt, result>>, pc \notin AfterReceipt,
           pc' \notin {"done", "on_receipt"}
    PROVE  Reporting'
BY DEF Reporting, ResultMatchesReceipt, AfterReceipt

\* A last step that reports failure without a success receipt.
LEMMA FailureReporting ==
    ASSUME Reporting, ReportFailure, receipt'.status # "success"
    PROVE  Reporting'
BY DEF Reporting, ReportFailure, ResultMatchesReceipt

\* Every step keeps result and receipt together.
LEMMA NextReporting == Reporting /\ [Next]_vars => Reporting'
<1> SUFFICES ASSUME Reporting, [Next]_vars PROVE Reporting'
  OBVIOUS
<1>1. CASE Execute \/ CaptureWorkspaceState \/ Validate \/ ApplyNext \/ ApplyFails
  <2>1. /\ UNCHANGED <<receipt, result>> /\ pc \notin AfterReceipt
        /\ pc' \notin {"done", "on_receipt"}
    BY <1>1 DEF Execute, CaptureWorkspaceState, Validate, ApplyNext, ApplyFails,
       Abandon, RetryOrGiveUp, outcomeVars, AfterReceipt
  <2>2. QED
    BY <2>1, QuietReporting
<1>2. CASE PostApply \/ RunTests \/ PostTest \/ RunCoverage
  <2>1. /\ UNCHANGED <<receipt, result>> /\ pc \notin AfterReceipt
        /\ pc' \notin {"done", "on_receipt"}
    BY <1>2 DEF PostApply, RunTests, PostTest, RunCoverage, Abandon, RetryOrGiveUp,
       AfterTests, outcomeVars, AfterReceipt
  <2>2. QED
    BY <2>1, QuietReporting
<1>3. CASE Preflight
  BY <1>3 DEF Preflight, Reporting, ResultMatchesReceipt, AfterReceipt
<1>4. CASE SaveArtifacts \/ FailArtifacts
  <2>1. UNCHANGED receipt /\ receipt.status # "success" /\ pc \notin AfterReceipt
    BY <1>4 DEF SaveArtifacts, FailArtifacts, Reporting, AfterReceipt
  <2>2. CASE ReportFailure
    BY <2>1, <2>2, FailureReporting
  <2>3. CASE UNCHANGED result /\ pc' \in {"save_receipt", "fail_receipt"}
    BY <2>1, <2>3, QuietReporting
  <2>4. QED
    BY <1>4, <2>2, <2>3 DEF SaveArtifacts, FailArtifacts
<1>5. CASE SaveReceipt
  <2>1. pc = "save_receipt" /\ receipt.status # "success" /\ result = "none"
    BY <1>5 DEF SaveReceipt, Reporting, AfterReceipt
  <2>2. CASE ReportFailure /\ UNCHANGED receipt
    BY <2>1, <2>2, FailureReporting
  <2>3. CASE receipt' = SuccessReceipt /\ pc' = "on_receipt" /\ UNCHANGED result
    BY <2>1, <2>3 DEF SuccessReceipt, Reporting, ResultMatchesReceipt, AfterReceipt
  <2>4. QED
    BY <1>5, <2>2, <2>3 DEF SaveReceipt
<1>6. CASE OnReceipt
  BY <1>6 DEF OnReceipt, ReportFailure, HookFails, Reporting, ResultMatchesReceipt, AfterReceipt
<1>7. CASE FailReceipt
  <2>1. receipt.status # "success" /\ receipt' \in {receipt, FailedReceipt}
    BY <1>7 DEF FailReceipt, Reporting, AfterReceipt
  <2>2. QED
    BY <1>7, <2>1, FailureReporting DEF FailReceipt, FailedReceipt
<1>8. CASE Crash
  BY <1>8 DEF Crash, outcomeVars, Reporting, ResultMatchesReceipt, AfterReceipt
<1>9. CASE UNCHANGED vars
  BY <1>9 DEF vars, outcomeVars, Reporting, ResultMatchesReceipt
<1>10. QED
  BY <1>1, <1>2, <1>3, <1>4, <1>5, <1>6, <1>7, <1>8, <1>9 DEF Next, Step

\* A build reports success just when there is a success receipt, unless an
\* on_receipt hook fails.
THEOREM ResultRight == Spec => []ResultMatchesReceipt
<1>1. Init => Reporting
  BY DEF Init, Reporting, ResultMatchesReceipt, NoReceipt
<1>2. Reporting => ResultMatchesReceipt
  BY DEF Reporting
<1>3. QED
  BY <1>1, <1>2, NextReporting, PTL DEF Spec

-----------------------------------------------------------------------------
(***************************************************************************)
(* Reports and counters.                                                   *)
(***************************************************************************)

\* The inductive strengthening of EvidenceFromOneAttempt: what there can be
\* at each step of an attempt.
OneAttempt ==
    /\ EvidenceFromOneAttempt
    /\ pc = "test" => artifacts.tests = 0
    /\ pc \in {"test", "post_test", "coverage"} =>
         /\ artifacts.coverage = 0
         /\ artifacts.tests \in {0, attempt + 1}

\* A step that leaves reports and counters alone.
LEMMA SameReports ==
    ASSUME OneAttempt, counters' = counters, pc' \notin {"test", "post_test", "coverage"},
           artifacts'.tests = artifacts.tests, artifacts'.coverage = artifacts.coverage
    PROVE  OneAttempt'
BY DEF OneAttempt, EvidenceFromOneAttempt

\* The steps that make or reset reports.
LEMMA JudgeOneAttempt ==
    ASSUME TypeOK, OneAttempt, PostApply \/ RunTests \/ PostTest \/ RunCoverage
    PROVE  OneAttempt'
<1> USE BuildSpecAssumption
<1>0. attempt \in Nat
  BY RetryLimitType DEF TypeOK, Attempts
<1>1. CASE Abandon(files)
  BY <1>1, SameReports DEF Abandon, evidenceVars
<1>2. CASE PostApply /\ ~Abandon(files)
  <2>1. /\ artifacts' = [artifacts EXCEPT !.tests = 0, !.coverage = 0]
        /\ counters' = NoCounters
    BY <1>2 DEF PostApply
  <2>2. artifacts'.tests = 0 /\ artifacts'.coverage = 0
    BY <2>1 DEF TypeOK
  <2>3. QED
    BY <2>1, <2>2 DEF OneAttempt, EvidenceFromOneAttempt, NoCounters
<1>3. CASE RunTests /\ ~Abandon(files)
  <2>1. PICK passed \in BOOLEAN :
          /\ artifacts' = [artifacts EXCEPT !.tests = attempt + 1]
          /\ counters' = [counters EXCEPT !.testsRun = 1,
                              !.testsPassed = IF passed THEN 1 ELSE 0,
                              !.testsFailed = IF passed THEN 0 ELSE 1]
          /\ pc' = "post_test" /\ UNCHANGED attempt /\ pc = "test"
    BY <1>3 DEF RunTests, loopVars
  <2>2. /\ artifacts'.tests = attempt + 1 /\ artifacts'.coverage = artifacts.coverage
        /\ counters'.testsRun = 1 /\ counters'.coverageAfter = counters.coverageAfter
    BY <2>1 DEF TypeOK, Counters
  <2>3. artifacts.coverage = 0
    BY <2>1 DEF OneAttempt
  <2>4. QED
    BY <1>0, <2>1, <2>2, <2>3 DEF OneAttempt, EvidenceFromOneAttempt
<1>4. CASE PostTest /\ ~Abandon(files)
  <2>1. /\ counters' = counters /\ pc = "post_test"
        /\ artifacts'.tests = artifacts.tests /\ artifacts'.coverage = artifacts.coverage
    BY <1>4 DEF PostTest, evidenceVars, TypeOK
  <2>2. CASE pc' = AfterTests /\ UNCHANGED <<attempt, artifacts>>
    BY <2>1, <2>2 DEF OneAttempt, EvidenceFromOneAttempt, AfterTests
  <2>3. CASE RetryOrGiveUp("tests")
    BY <2>1, <2>3, SameReports DEF RetryOrGiveUp
  <2>4. QED
    BY <1>4, <2>2, <2>3 DEF PostTest, loopVars, evidenceVars
<1>5. CASE RunCoverage /\ ~Abandon(files)
  <2>1. PICK percent \in CoverageLevels :
          /\ counters' = [counters EXCEPT !.coverageAfter = percent]
          /\ pc = "coverage" /\ pc' \in {"execute", "fail_artifacts", "save_artifacts"}
          /\ artifacts'.tests = artifacts.tests /\ artifacts'.coverage = attempt + 1
    BY <1>5 DEF RunCoverage, RetryOrGiveUp, TypeOK
  <2>2. counters'.testsRun = counters.testsRun
    BY <2>1 DEF TypeOK, Counters
  <2>3. QED
    BY <1>0, <2>1, <2>2 DEF OneAttempt, EvidenceFromOneAttempt
<1>6. QED
  BY <1>1, <1>2, <1>3, <1>4, <1>5

\* Every step keeps the evidence within one attempt.
LEMMA NextOneAttempt == TypeOK /\ OneAttempt /\ [Next]_vars => OneAttempt'
<1> SUFFICES ASSUME TypeOK, OneAttempt, [Next]_vars PROVE OneAttempt'
  OBVIOUS
<1>1. CASE Preflight \/ Execute \/ CaptureWorkspaceState \/ Validate \/ ApplyNext \/ ApplyFails
  <2>1. /\ counters' = counters /\ pc' \notin {"test", "post_test", "coverage"}
        /\ artifacts'.tests = artifacts.tests /\ artifacts'.coverage = artifacts.coverage
    BY <1>1 DEF Preflight, Execute, CaptureWorkspaceState, Validate, ApplyNext, ApplyFails,
       Abandon, RetryOrGiveUp, evidenceVars, TypeOK
  <2>2. QED
    BY <2>1, SameReports
<1>2. CASE SaveArtifacts \/ SaveReceipt \/ OnReceipt \/ FailArtifacts \/ FailReceipt \/ Crash
  <2>1. UNCHANGED <<counters, artifacts>> /\ pc' \notin {"test", "post_test", "coverage"}
    BY <1>2 DEF SaveArtifacts, SaveReceipt, OnReceipt, FailArtifacts, FailReceipt, Crash,
       ReportFailure, evidenceVars
  <2>2. QED
    BY <2>1, SameReports
<1>3. CASE UNCHANGED vars
  BY <1>3 DEF vars, loopVars, evidenceVars, OneAttempt, EvidenceFromOneAttempt
<1>4. QED
  BY <1>1, <1>2, <1>3, JudgeOneAttempt DEF Next, Step

\* The reports and counters that go into a receipt never mix two attempts.
THEOREM EvidenceNotMixed == Spec => []EvidenceFromOneAttempt
<1>1. Init => OneAttempt
  BY DEF Init, OneAttempt, EvidenceFromOneAttempt, NoCounters
<1>2. OneAttempt => EvidenceFromOneAttempt
  BY DEF OneAttempt
<1>3. QED
  BY <1>1, <1>2, NextOneAttempt, TypeCorrect, PTL DEF Spec

\* The inductive strengthening of ReceiptImpliesArtifacts: a receipt is only
\* written by a step that finds all reports on disk.
ReportsFirst ==
    /\ pc \in {"save_receipt", "fail_receipt"} => saved = ArtifactFiles
    /\ receipt.status # "none" => pc \in AfterReceipt
    /\ ReceiptImpliesArtifacts

\* What is written of a failed or a successful build is beside its receipt.
LEMMA ReceiptReports ==
    ASSUME TypeOK, Accounts, OneAttempt, ReportsFirst, SaveReceipt \/ FailReceipt,
           receipt' # receipt
    PROVE  ReceiptImpliesArtifacts'
<1>1. saved = ArtifactFiles /\ saved' = saved
  BY DEF SaveReceipt, FailReceipt, ReportsFirst
<1>2. /\ receipt'.testsRun = counters.testsRun
      /\ receipt'.coverageAfter = counters.coverageAfter
      /\ receipt'.retries = Len(artifacts.repair)
  BY DEF SaveReceipt, FailReceipt, SuccessReceipt, FailedReceipt, Accounts, InAttempt, Applying
<1>3. receipt'.retries > 0 => artifacts.repair # <<>>
  BY <1>2
<1>4. QED
  BY <1>1, <1>2, <1>3
     DEF ReceiptImpliesArtifacts, ArtifactFiles, OneAttempt, EvidenceFromOneAttempt

\* Every step keeps the reports before the receipt.
LEMMA NextReportsFirst ==
    TypeOK /\ Accounts /\ OneAttempt /\ ReportsFirst /\ [Next]_vars => ReportsFirst'
<1> SUFFICES ASSUME TypeOK, Accounts, OneAttempt, ReportsFirst, [Next]_vars PROVE ReportsFirst'
  OBVIOUS
<1>1. CASE Execute \/ CaptureWorkspaceState \/ Validate \/ ApplyNext \/ ApplyFails
           \/ PostApply \/ RunTests \/ PostTest \/ RunCoverage \/ Preflight
  <2>1. /\ pc \notin AfterReceipt /\ UNCHANGED <<saved, receipt>>
        /\ pc' \notin {"save_receipt", "fail_receipt"}
    BY <1>1 DEF Execute, CaptureWorkspaceState, Validate, ApplyNext, ApplyFails, PostApply,
       RunTests, PostTest, RunCoverage, Preflight, Abandon, RetryOrGiveUp, AfterTests,
       outcomeVars, AfterReceipt
  <2>2. QED
    BY <2>1 DEF ReportsFirst, ReceiptImpliesArtifacts
<1>2. CASE SaveArtifacts \/ FailArtifacts
  <2>1. /\ receipt' = receipt /\ receipt.status = "none" /\ UNCHANGED artifacts
        /\ \/ saved' = ArtifactFiles
           \/ pc' = "done"
    BY <1>2 DEF SaveArtifacts, FailArtifacts, ReportFailure, ReportsFirst, AfterReceipt, evidenceVars
  <2>2. QED
    BY <2>1 DEF ReportsFirst, ReceiptImpliesArtifacts, ArtifactFiles
<1>3. CASE SaveReceipt \/ FailReceipt
  <2>1. pc' \in {"on_receipt", "done"} /\ receipt.status = "none"
    BY <1>3 DEF SaveReceipt, FailReceipt, ReportFailure, ReportsFirst, AfterReceipt
  <2>2. CASE receipt' # receipt
    BY <1>3, <2>1, <2>2, ReceiptReports DEF ReportsFirst, AfterReceipt
  <2>3. CASE receipt' = receipt
    BY <2>1, <2>3 DEF ReportsFirst, ReceiptImpliesArtifacts, AfterReceipt
  <2>4. QED
    BY <2>2, <2>3
<1>4. CASE OnReceipt \/ Crash
  <2>1. UNCHANGED <<saved, receipt>> /\ pc' \in {"done", "crashed"}
    BY <1>4 DEF OnReceipt, Crash, ReportFailure, outcomeVars
  <2>2. QED
    BY <2>1 DEF ReportsFirst, ReceiptImpliesArtifacts, AfterReceipt
<1>5. CASE UNCHANGED vars
  BY <1>5 DEF vars, evidenceVars, outcomeVars, ReportsFirst, ReceiptImpliesArtifacts, ArtifactFiles
<1>6. QED
  BY <1>1, <1>2, <1>3, <1>4, <1>5 DEF Next, Step

\* A receipt on disk has the reports it summarises beside it.
THEOREM ReceiptHasReports == Spec => []ReceiptImpliesArtifacts
<1>1. Init => ReportsFirst
  BY DEF Init, ReportsFirst, ReceiptImpliesArtifacts, NoReceipt
<1>2. Init => OneAttempt
  BY DEF Init, OneAttempt, EvidenceFromOneAttempt, NoCounters
<1>3. ReportsFirst => ReceiptImpliesArtifacts
  BY DEF ReportsFirst
<1>4. QED
  BY <1>1, <1>2, <1>3, NextReportsFirst, NextOneAttempt, AccountsInvariant, TypeCorrect, PTL DEF Spec

-----------------------------------------------------------------------------
(***************************************************************************)
(* Repair prompts.                                                         *)
(***************************************************************************)

\* The failure kinds that follow from what ended the attempt before.
KindsOf(c) == CASE c = "ownership" -> {"ownership_violation"}
                [] c = "tests" -> {"test_failure"}
                [] c = "coverage" -> {"coverage_gap"}
                [] OTHER -> {}

\* The inductive strengthening of RepairContextIsFresh: the texts of earlier
\* attempts are gone before this one can leave its own.
FreshTexts ==
    /\ pc \in {"test", "post_test", "coverage"} =>
         context.failingTests = NoText /\ context.coverageGaps = NoText
    /\ pc = "execute" /\ attempt > 0 =>
         /\ context.failures = KindsOf(cause)
         /\ context.failingTests \in (IF cause = "tests" THEN {NoText, attempt} ELSE {NoText})
         /\ context.coverageGaps \in (IF cause = "coverage" THEN {NoText, attempt} ELSE {NoText})

\* A step to somewhere else in or after the attempt.
LEMMA ElsewhereFresh ==
    ASSUME pc' \notin {"test", "post_test", "coverage", "execute"}
    PROVE  FreshTexts'
BY DEF FreshTexts

\* A refused attempt leaves no text.
LEMMA ValidateFresh == ASSUME TypeOK, Validate PROVE FreshTexts'
<1>1. CASE Allowed
  BY <1>1, ElsewhereFresh DEF Validate
<1>2. CASE ~Allowed
  <2>1. context' = OnlyFailures({"ownership_violation"}) /\ RetryOrGiveUp("ownership")
    BY <1>2 DEF Validate, ClassifyFailure
  <2>2. QED
    BY <2>1 DEF RetryOrGiveUp, FreshTexts, KindsOf, OnlyFailures
<1>3. QED
  BY <1>1, <1>2

\* Failing tests leave their own text only.
LEMMA PostTestFresh == ASSUME TypeOK, FreshTexts, PostTest PROVE FreshTexts'
<1>1. CASE Abandon(files)
  BY <1>1, ElsewhereFresh DEF Abandon
<1>2. CASE pc' = AfterTests /\ UNCHANGED loopVars
  BY <1>2 DEF PostTest, FreshTexts, AfterTests, loopVars
<1>3. CASE /\ \E text \in {NoText, attempt + 1} :
                context' = [context EXCEPT !.failures = {"test_failure"}, !.failingTests = text]
           /\ RetryOrGiveUp("tests")
  <2>1. pc = "post_test" /\ context.coverageGaps = NoText
    BY DEF PostTest, FreshTexts
  <2>2. /\ context'.failures = {"test_failure"}
        /\ context'.failingTests \in {NoText, attempt + 1}
        /\ context'.coverageGaps = NoText
    BY <1>3, <2>1 DEF TypeOK
  <2>3. cause' = "tests" /\ (pc' = "execute" => attempt' = attempt + 1)
        /\ pc' \in {"execute", "fail_artifacts"}
    BY <1>3 DEF RetryOrGiveUp
  <2>4. KindsOf("tests") = {"test_failure"}
    BY DEF KindsOf
  <2>5. QED
    BY <2>2, <2>3, <2>4 DEF FreshTexts
<1>4. ClassifyFailure(FALSE, 0, CoverageTarget, FALSE) = {"test_failure"}
  BY DEF ClassifyFailure
<1>5. QED
  BY <1>1, <1>2, <1>3, <1>4 DEF PostTest

\* Coverage below the target leaves its own text only.
LEMMA RunCoverageFresh == ASSUME TypeOK, FreshTexts, RunCoverage PROVE FreshTexts'
<1>1. CASE Abandon(files)
  BY <1>1, ElsewhereFresh DEF Abandon
<1>2. CASE pc' = "save_artifacts"
  BY <1>2, ElsewhereFresh
<1>3. CASE \E percent \in CoverageLevels :
             /\ percent < CoverageTarget
             /\ \E text \in {NoText, attempt + 1} :
                  context' = [context EXCEPT
                      !.failures = ClassifyFailure(TRUE, percent, CoverageTarget, FALSE),
                      !.coverageGaps = text]
             /\ RetryOrGiveUp("coverage")
  <2>1. pc = "coverage" /\ context.failingTests = NoText
    BY DEF RunCoverage, FreshTexts
  <2>2. PICK percent \in CoverageLevels :
             /\ percent < CoverageTarget
             /\ \E text \in {NoText, attempt + 1} :
                  context' = [context EXCEPT
                      !.failures = ClassifyFailure(TRUE, percent, CoverageTarget, FALSE),
                      !.coverageGaps = text]
    BY <1>3
  <2>3. ClassifyFailure(TRUE, percent, CoverageTarget, FALSE) = {"coverage_gap"}
    BY <2>2 DEF ClassifyFailure
  <2>4. /\ context'.failures = {"coverage_gap"}
        /\ context'.coverageGaps \in {NoText, attempt + 1}
        /\ context'.failingTests = NoText
    BY <2>1, <2>2, <2>3 DEF TypeOK
  <2>5. cause' = "coverage" /\ (pc' = "execute" => attempt' = attempt + 1)
        /\ pc' \in {"execute", "fail_artifacts"}
    BY <1>3 DEF RetryOrGiveUp
  <2>6. KindsOf("coverage") = {"coverage_gap"}
    BY DEF KindsOf
  <2>7. QED
    BY <2>4, <2>5, <2>6 DEF FreshTexts
<1>4. QED
  BY <1>1, <1>2, <1>3 DEF RunCoverage

\* Every step keeps the texts fresh; before the loop there is no attempt.
LEMMA NextFresh ==
    TypeOK /\ FreshTexts /\ (pc = "preflight" => attempt = 0) /\ [Next]_vars => FreshTexts'
<1> SUFFICES ASSUME TypeOK, FreshTexts, pc = "preflight" => attempt = 0, [Next]_vars
             PROVE  FreshTexts'
  OBVIOUS
<1>1. CASE Preflight
  BY <1>1 DEF Preflight, FreshTexts, loopVars
<1>2. CASE Execute \/ CaptureWorkspaceState \/ ApplyNext \/ ApplyFails
  BY <1>2, ElsewhereFresh DEF Execute, CaptureWorkspaceState, ApplyNext, ApplyFails, Abandon
<1>3. CASE PostApply
  <2>1. CASE Abandon(files)
    BY <2>1, ElsewhereFresh DEF Abandon
  <2>2. CASE ~Abandon(files)
    <3>1. context' = [context EXCEPT !.failingTests = NoText, !.coverageGaps = NoText]
          /\ pc' \in {"test", "coverage", "save_artifacts"}
      BY <1>3, <2>2 DEF PostApply, AfterTests
    <3>2. context'.failingTests = NoText /\ context'.coverageGaps = NoText
      BY <3>1 DEF TypeOK
    <3>3. QED
      BY <3>1, <3>2 DEF FreshTexts
  <2>3. QED
    BY <2>1, <2>2
<1>4. CASE RunTests
  BY <1>4, ElsewhereFresh DEF RunTests, Abandon, FreshTexts, loopVars
<1>5. CASE SaveArtifacts \/ SaveReceipt \/ OnReceipt \/ FailArtifacts \/ FailReceipt \/ Crash
  BY <1>5, ElsewhereFresh DEF SaveArtifacts, SaveReceipt, OnReceipt, FailArtifacts, FailReceipt,
     Crash, ReportFailure
<1>6. CASE UNCHANGED vars
  BY <1>6 DEF vars, loopVars, FreshTexts
<1>7. QED
  BY <1>1, <1>2, <1>3, <1>4, <1>5, <1>6, ValidateFresh, PostTestFresh, RunCoverageFresh
     DEF Next, Step

\* The loop variable is 0 before the loop.
LEMMA NoAttemptYet == Spec => [](pc = "preflight" => attempt = 0)
<1>1. Init => (pc = "preflight" => attempt = 0)
  BY DEF Init
<1>2. (pc = "preflight" => attempt = 0) /\ [Next]_vars => (pc = "preflight" => attempt = 0)'
  <2> SUFFICES ASSUME pc = "preflight" => attempt = 0, [Next]_vars, pc' = "preflight"
               PROVE  attempt' = 0
    OBVIOUS
  <2>1. CASE Step
    BY <2>1 DEF Step, Preflight, Execute, CaptureWorkspaceState, Validate, ApplyNext, ApplyFails,
       PostApply, RunTests, PostTest, RunCoverage, SaveArtifacts, SaveReceipt, OnReceipt,
       FailArtifacts, FailReceipt, Abandon, RetryOrGiveUp, AfterTests, ReportFailure
  <2>2. CASE Crash \/ UNCHANGED vars
    BY <2>2 DEF Crash, vars, loopVars
  <2>3. QED
    BY <2>1, <2>2 DEF Next
<1>3. QED
  BY <1>1, <1>2, PTL DEF Spec

\* A repair prompt tells of the attempt just before it and of no other, and
\* shows the sources as they are, unless a backend wrote there itself or
\* Restore has failed.
THEOREM RepairContextFresh == Spec => []RepairContextIsFresh
<1>1. Init => FreshTexts
  BY DEF Init, FreshTexts
<1>2. FreshTexts /\ FailedAttemptUndone => RepairContextIsFresh
  BY DEF FreshTexts, KindsOf, FailedAttemptUndone, RolledBack, RepairContextIsFresh, SourceContents
<1>3. QED
  BY <1>1, <1>2, NextFresh, NoAttemptYet, Rollback, TypeCorrect, PTL DEF Spec

-----------------------------------------------------------------------------
(***************************************************************************)
(* Owned files.                                                            *)
(***************************************************************************)

Deletes(i, p) == ops[i].kind = "delete" /\ ops[i].path = p

\* The inductive strengthening of NoStaleOwnedFiles: what no operation makes
\* is not there, or a delete of it is still to come.
StaleGoing ==
    /\ pc \in {"capture", "validate", "apply"} =>
         \A p \in Owned \ Desired(ops) :
             files[p] = Absent \/ \E i \in next..Len(ops) : Deletes(i, p)
    /\ pc \in {"test", "post_test", "coverage", "save_artifacts", "save_receipt"} =>
         \A p \in Owned \ Desired(ops) : files[p] = Absent
    /\ receipt.status = "success" => pc \in AfterReceipt
    /\ NoStaleOwnedFiles

\* Every owned path that no patch makes has its delete at the end.
LEMMA StaleDeleted ==
    ASSUME NEW patches \in PatchSets,
           NEW p \in Owned \ Desired(patches \o StaleOwnedDeleteOps(Owned, patches))
    PROVE  LET all == patches \o StaleOwnedDeleteOps(Owned, patches)
           IN  \E i \in 1..Len(all) : all[i].kind = "delete" /\ all[i].path = p
<1> USE BuildSpecAssumption
<1> DEFINE stale == Owned \ Desired(patches)
           deletes == StaleOwnedDeleteOps(Owned, patches)
           all == patches \o deletes
<1>1. patches \in Seq(PatchOps) /\ deletes \in Seq(PatchOps)
  BY StaleDeletesType
<1>2. /\ Len(all) = Len(patches) + Len(deletes) /\ Len(patches) \in Nat /\ Len(deletes) \in Nat
      /\ \A i \in 1..Len(patches) : all[i] = patches[i]
      /\ \A i \in 1..Len(deletes) : all[Len(patches) + i] = deletes[i]
      /\ DOMAIN all = 1..Len(all) /\ DOMAIN patches = 1..Len(patches)
  BY <1>1, ConcatProperties, LenProperties
<1>3. p \in stale
  BY <1>2 DEF Desired
<1>4. /\ Len(deletes) = Len(SetToSeq(stale))
      /\ \A i \in 1..Len(deletes) : deletes[i] = DeleteFile(SetToSeq(stale)[i])
      /\ \E i \in 1..Len(deletes) : SetToSeq(stale)[i] = p
  BY <1>3, StaleInOrder
<1>5. PICK i \in 1..Len(deletes) : SetToSeq(stale)[i] = p
  BY <1>4
<1>6. Len(patches) + i \in 1..Len(all)
  <2> HIDE DEF all, deletes
  <2>1. QED
    BY <1>2
<1>7. all[Len(patches) + i] = DeleteFile(p)
  <2>1. all[Len(patches) + i] = deletes[i]
    BY <1>2
  <2>2. deletes[i] = DeleteFile(SetToSeq(stale)[i])
    BY <1>4
  <2>3. QED
    BY <1>5, <2>1, <2>2
<1>8. QED
  BY <1>6, <1>7 DEF DeleteFile

\* An operation deletes its path or leaves what it does not make.
LEMMA ApplyGoing == ASSUME TypeOK, StaleGoing, ApplyNext PROVE StaleGoing'
<1>1. /\ pc = "apply" /\ pc' = "apply" /\ UNCHANGED <<ops, receipt>>
      /\ files' = Apply(files, ops[next]) /\ next' = next + 1
      /\ next \in DOMAIN ops /\ ops[next] \in PatchOps /\ CanApply(files, ops[next])
      /\ receipt.status # "success"
  BY LenProperties, ElementOfSeq DEF ApplyNext, TypeOK, outcomeVars, StaleGoing, AfterReceipt
<1>2. ASSUME NEW p \in Owned \ Desired(ops)
      PROVE  files'[p] = Absent \/ \E i \in next'..Len(ops) : Deletes(i, p)
  <2>1. p \in Paths /\ files \in Workspaces
    BY BuildSpecAssumption DEF TypeOK
  <2>2. files'[p] = Absent \/ (files'[p] = files[p] /\ ~Deletes(next, p))
    <3>1. CASE ops[next].kind = "write"
      BY <1>1, <2>1, <3>1 DEF Apply, Desired, Workspaces, PatchOps, Deletes
    <3>2. CASE ops[next].kind = "delete"
      BY <1>1, <2>1, <3>2 DEF Apply, Workspaces, PatchOps, Deletes
    <3>3. CASE ops[next].kind = "rename"
      <4>1. ops[next].to # p
        BY <1>1, <3>3 DEF Desired
      <4>2. files' = [files EXCEPT ![ops[next].path] = Absent, ![ops[next].to] = files[ops[next].path]]
        BY <1>1, <3>3 DEF Apply
      <4>3. QED
        BY <2>1, <3>3, <4>1, <4>2 DEF Workspaces, Deletes
    <3>4. QED
      BY <1>1, <3>1, <3>2, <3>3 DEF CanApply, PatchOps
  <2>3. next \in Nat /\ Len(ops) \in Nat
    BY LenProperties DEF TypeOK
  <2>4. files[p] = Absent \/ \E i \in next..Len(ops) : Deletes(i, p)
    BY <1>1 DEF StaleGoing
  <2>5. QED
    BY <1>1, <2>2, <2>3, <2>4
<1>3. QED
  BY <1>1, <1>2 DEF StaleGoing, NoStaleOwnedFiles, Deletes

\* A step that leaves the workspace and the operations alone.
LEMMA SameFilesGoing ==
    ASSUME StaleGoing, UNCHANGED <<files, patchVars, receipt>>, pc \notin AfterReceipt,
           \/ pc \in {"capture", "validate"} /\ pc' \in {"validate", "apply"}
           \/ /\ pc \in {"test", "post_test", "coverage", "save_artifacts"}
              /\ pc' \in {"post_test", "coverage", "save_artifacts", "save_receipt"}
    PROVE  StaleGoing'
BY DEF StaleGoing, NoStaleOwnedFiles, patchVars, Deletes

\* A step that leaves the attempt without a success receipt.
LEMMA GivingUpGoing ==
    ASSUME StaleGoing, receipt'.status # "success",
           pc' \in {"execute", "fail_artifacts", "fail_receipt", "done", "crashed"}
    PROVE  StaleGoing'
BY DEF StaleGoing, NoStaleOwnedFiles

\* Every step keeps the stale files on their way.
LEMMA NextGoing == TypeOK /\ StaleGoing /\ [Next]_vars => StaleGoing'
<1> SUFFICES ASSUME TypeOK, StaleGoing, [Next]_vars PROVE StaleGoing'
  OBVIOUS
<1>1. CASE Execute
  <2>1. receipt' = receipt /\ receipt.status # "success"
    BY <1>1 DEF Execute, outcomeVars, StaleGoing, AfterReceipt
  <2>2. CASE pc' = "fail_artifacts"
    BY <2>1, <2>2, GivingUpGoing
  <2>3. CASE \E patches \in PatchSets :
               /\ ops' = patches \o StaleOwnedDeleteOps(Owned, patches)
               /\ next' = 1 /\ pc' = "capture"
    BY <2>1, <2>3, StaleDeleted DEF StaleGoing, NoStaleOwnedFiles, Deletes
  <2>4. QED
    BY <1>1, <2>2, <2>3 DEF Execute
<1>2. CASE CaptureWorkspaceState
  <2>1. receipt' = receipt /\ receipt.status # "success" /\ pc = "capture"
    BY <1>2 DEF CaptureWorkspaceState, outcomeVars, StaleGoing, AfterReceipt
  <2>2. CASE pc' = "fail_artifacts"
    BY <2>1, <2>2, GivingUpGoing
  <2>3. CASE pc' = "validate"
    BY <1>2, <2>1, <2>3 DEF CaptureWorkspaceState, workspaceVars, StaleGoing, NoStaleOwnedFiles, Deletes
  <2>4. QED
    BY <1>2, <2>2, <2>3 DEF CaptureWorkspaceState
<1>3. CASE Validate
  <2>1. /\ UNCHANGED <<files, patchVars, receipt>> /\ receipt.status # "success" /\ pc = "validate"
        /\ pc' \in {"apply", "execute", "fail_artifacts"}
    BY <1>3 DEF Validate, RetryOrGiveUp, workspaceVars, outcomeVars, StaleGoing, AfterReceipt
  <2>2. QED
    BY <2>1, SameFilesGoing, GivingUpGoing DEF AfterReceipt
<1>4. CASE ApplyFails
  BY <1>4, GivingUpGoing DEF ApplyFails, Abandon, outcomeVars, StaleGoing, AfterReceipt
<1>5. CASE PostApply
  <2>1. receipt' = receipt /\ receipt.status # "success" /\ pc = "apply" /\ next > Len(ops)
    BY <1>5 DEF PostApply, Abandon, outcomeVars, StaleGoing, AfterReceipt
  <2>2. CASE Abandon(files)
    BY <2>1, <2>2, GivingUpGoing DEF Abandon
  <2>3. CASE UNCHANGED <<workspaceVars, patchVars>> /\ pc' \in {"test", "coverage", "save_artifacts"}
    <3>1. next..Len(ops) = {}
      BY <2>1, LenProperties DEF TypeOK
    <3>2. \A p \in Owned \ Desired(ops) : files[p] = Absent
      BY <2>1, <3>1 DEF StaleGoing
    <3>3. QED
      BY <2>1, <2>3, <3>2 DEF StaleGoing, NoStaleOwnedFiles, workspaceVars, patchVars
  <2>4. QED
    BY <1>5, <2>2, <2>3 DEF PostApply, AfterTests
<1>6. CASE RunTests \/ PostTest \/ RunCoverage
  <2>1. /\ receipt' = receipt /\ receipt.status # "success"
        /\ pc \in {"test", "post_test", "coverage"}
    BY <1>6 DEF RunTests, PostTest, RunCoverage, Abandon, outcomeVars, StaleGoing, AfterReceipt
  <2>2. CASE pc' \in {"execute", "fail_artifacts"}
    BY <2>1, <2>2, GivingUpGoing
  <2>3. CASE /\ UNCHANGED <<workspaceVars, patchVars>>
             /\ pc' \in {"post_test", "coverage", "save_artifacts"}
    BY <2>1, <2>3, SameFilesGoing DEF AfterReceipt, workspaceVars
  <2>4. QED
    BY <1>6, <2>2, <2>3 DEF RunTests, PostTest, RunCoverage, Abandon, RetryOrGiveUp, AfterTests
<1>7. CASE SaveArtifacts
  <2>1. receipt' = receipt /\ receipt.status # "success" /\ pc = "save_artifacts"
    BY <1>7 DEF SaveArtifacts, StaleGoing, AfterReceipt
  <2>2. QED
    BY <1>7, <2>1, SameFilesGoing, GivingUpGoing
       DEF SaveArtifacts, ReportFailure, AfterReceipt, workspaceVars
<1>8. CASE SaveReceipt
  <2>1. receipt.status # "success" /\ pc = "save_receipt"
    BY <1>8 DEF SaveReceipt, StaleGoing, AfterReceipt
  <2>2. CASE receipt' = receipt /\ pc' = "done"
    BY <2>1, <2>2, GivingUpGoing
  <2>3. CASE pc' = "on_receipt" /\ UNCHANGED <<workspaceVars, patchVars>>
    BY <2>1, <2>3 DEF StaleGoing, NoStaleOwnedFiles, AfterReceipt, workspaceVars, patchVars
  <2>4. QED
    BY <1>8, <2>2, <2>3 DEF SaveReceipt, ReportFailure
<1>9. CASE FailArtifacts \/ FailReceipt \/ Preflight
  <2>1. receipt'.status # "success" /\ pc' \in {"fail_receipt", "done", "execute"}
    BY <1>9 DEF FailArtifacts, FailReceipt, FailedReceipt, Preflight, ReportFailure, StaleGoing, AfterReceipt
  <2>2. QED
    BY <2>1, GivingUpGoing
<1>10. CASE OnReceipt \/ Crash
  <2>1. UNCHANGED <<workspaceVars, patchVars, receipt>> /\ pc' \in {"done", "crashed"}
    BY <1>10 DEF OnReceipt, Crash, ReportFailure, outcomeVars
  <2>2. QED
    BY <2>1 DEF StaleGoing, NoStaleOwnedFiles, AfterReceipt, workspaceVars, patchVars
<1>11. CASE UNCHANGED vars
  BY <1>11 DEF vars, workspaceVars, patchVars, outcomeVars, StaleGoing, NoStaleOwnedFiles, Deletes
<1>12. QED
  BY <1>1, <1>2, <1>3, <1>4, <1>5, <1>6, <1>7, <1>8, <1>9, <1>10, <1>11, ApplyGoing DEF Next, Step

\* After a success an owned file is there only if the successful attempt's
\* operations make it.
THEOREM StaleFilesGone == Spec => []NoStaleOwnedFiles
<1>1. Init => StaleGoing
  BY DEF Init, StaleGoing, NoStaleOwnedFiles, NoReceipt
<1>2. StaleGoing => NoStaleOwnedFiles
  BY DEF StaleGoing
<1>3. QED
  BY <1>1, <1>2, NextGoing, TypeCorrect, PTL DEF Spec
=============================================================================
