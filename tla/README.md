# A TLA+ model of PlainCode

PlainCode is a build tool whose sources are specifications in Markdown. `plaincode build` hands a
specification to an AI backend, which answers with file operations; PlainCode checks, applies and
tests them, tries again with repair context when they do not work, rolls failed attempts back and
writes a receipt. It also starts and stops the service a specification describes.

This directory models the parts of PlainCode that keep state and can go wrong in the order of their
steps. Paths are relative to the repository (`internal/` and `cmd/`). `PROJECT.json` maps each
definition to the lines it models and lists the runs, the hazards and the theorems.

## 1. The system

### Components

| Component | Source | State it keeps | Operations |
|---|---|---|---|
| Build pipeline of one specification | `internal/app/builder.go` `buildSpec` | the attempt's operations, snapshot, repair context, counters, artifacts | hooks, execute, capture, validate, apply, test, coverage, save artifacts, save receipt, retry, roll back |
| Build of a project | `internal/app/builder.go` `Build`, `app/loader.go` | the loaded specifications, the ownership map, the list to build | load, choose, build in order |
| Dependency graph | `internal/graph/graph.go` | nodes, deps, dirty marks | AddEdge, MarkDirty, TopologicalSort, DirtyNodes |
| Patch operations, applier | `internal/backend/core/patch.go`, `internal/workspace/patch` | the files | write, delete, rename, diff (not implemented) |
| Workspace snapshot | `internal/app/workspace_state.go` | contents of the captured files | capture, Restore |
| File ownership | `internal/workspace/fsguard` | owned, shared, readonly | RegisterSpec, Classify, ValidatePatch |
| Receipt store | `internal/receipt` | one directory per build, receipt and reports | Save, SaveArtifact, ListAll, SpecHashes |
| Repair classification | `internal/validate/repair` | none | Classify |
| Hooks, test runner, coverage | `internal/hooks`, `internal/validate/test`, `internal/validate/coverage` | none | run a command, give a verdict |
| Managed runtime | `internal/runtime` | a state file per specification, a process group or a container | Start, Stop, Status, List |
| Spec checker | `internal/validate/speccheck` | the errors so far, whether it has started the service | tests.command, ParseHTTPOracles, Status, Start, the requests, the verdict, Stop |
| Backends | `internal/backend` | none, but codex's file with the last message | Select, Execute (ExecCLI, ParseFileBlocks), HealthCheck |
| Parser, IR, import resolver | `internal/spec` | none | text to specification |
| CLI | `cmd/plaincode` | flags | the calls above |
| Context pack | `internal/contextpack` | none | the sources and other sections of a prompt |
| Takeover, worktrees, policy, config, server, MCP, skills | `internal/...` | none that another part sees | |

### How they interact

`build` loads all specifications (`LoadSpecs`), which registers their declarations in one ownership
map and makes one graph of their imports. The receipts of earlier builds tell the graph which
specifications are stale; it marks those and everything that imports them and sorts. `Build` then
calls `buildSpec` for one specification after the other and stops at the first failure. `buildSpec`
owns the workspace while it runs. A backend is a process that works *inside* the project directory
and returns operations besides: a driver runs the program, decides whether its exit code counts, takes
its output or the file it wrote, and `ParseFileBlocks` cuts that text into files.

The managed runtime is called by independent CLI processes. Nothing locks the state file: a call
loads it, looks at a process or container, waits for seconds, and saves. `plaincode test` is such a
process too: `tests.command`, three calls of the manager, and HTTP requests in between.

### What is hard, and what correctness means

* *Build pipeline.* Twelve kinds of steps can fail, and each failure leaves through a different
  path: return at once, roll back and stop, roll back and try again, try again without a rollback.
  Correct: a failed attempt leaves nothing; a success receipt vouches for exactly the files that are
  there; the receipt on disk, the reports beside it and the reported result agree; a repair prompt
  tells of the failure just before it; protected files are never touched; the loop ends.
* *Incremental builds.* What is built depends on a history of receipts, edits and failures. Correct:
  what counts as up to date was built from its present text, imports are built first, nothing
  oscillates, nothing stale is missed, and of two specifications that claim one file the ownership check
  lets only one decide it in a run.
* *Graph.* Map iteration order differs from pass to pass. Correct: exactly the stale specifications
  and what reaches them by imports, each once, imports first; a cycle is an error and nothing else is.
* *Runtime.* Interleaved calls, processes that exit at any moment, reused process ids, containers,
  deadlines, a file that is truncated before it is written. Correct: one service at a time, and the
  state file knows it; a stop that succeeds has stopped it.
* *Spec checker.* A service may die or be replaced between two requests, and the oracles are read from
  English sentences. Correct: it stops what it has started and only that; it passes only what was executed,
  answered and is as the specification says.
* *Backend drivers.* A program may stop in the middle of a line, print markers in any order, or leave
  a file from an earlier attempt behind. Correct: the files a driver returns are the complete ones of
  this call's answer, and no others.

`PROJECT.json` lists these hazards one by one, each at its line.

## 2. The modules

| Module | Models | Uses |
|---|---|---|
| `FsGuard` | the ownership map as operators | |
| `Patch` | operations, their application, snapshot and restore, half-done writes and restores | |
| `BuildSpec` | one run of `buildSpec`, every step that can fail an action | `Patch`, `FsGuard` |
| `BuildContract` | the abstract specification of a build: all or nothing | |
| `SpecGraph` | the graph as data: staleness, dependents, cycles, topological orders | |
| `BuildChoice` | the abstract specification of the choice of what to build, made in one step | `SpecGraph` |
| `BuildGraph` | MarkDirty, TopologicalSort and DirtyNodes, one visit at a time | `SpecGraph` |
| `IncrementalBuild` | a project over time: edits, runs, receipts | `SpecGraph`, `FsGuard` |
| `RuntimeManager` | Start, Stop and Status of the managed runtime, cut at every wait and wherever the state file, a process or the container is touched; a save in two steps | |
| `Oracles` | the lines of a `## Test oracles` section, what the parser makes of them and the comparison with an answer, as operators | |
| `SpecCheck` | `plaincode test`, from `tests.command` to the verdict and the last Stop, among the calls of other clients | `RuntimeManager`, `Oracles` |
| `Blocks` | the file blocks of a text as data, said without the parser | |
| `CliBackend` | Execute of the drivers of the command line programs and of the mock, ParseFileBlocks line by line | `Blocks` |
| `AnswerContract` | the abstract specification of a call of a backend, whichever driver it is | `Blocks` |
| `MC...` | the small instances of the modules above for TLC | |
| `Induction` | induction over numbers, stated over sets; a recursive function of a number is defined at every number | |
| `BuildSpec_proofs`, `BuildReports_proofs`, `BuildGraph_proofs`, `CliBackend_proofs`, `RuntimeManager_proofs`, `IncrementalBuild_proofs`, `SpecCheck_proofs` | lemmas and theorems; `BuildSpec_proofs` also holds the lemmas about `Patch` and the refinement of `BuildContract`, `SpecCheck_proofs` the theorems about `Oracles` | the modules they are about |

The levels of a build meet as follows. `IncrementalBuild` takes the choice of what to build
in one step, from the definitions of `SpecGraph`; `BuildChoice` is that step, and `BuildGraph`, which goes
through the loops of the code, implements it. `IncrementalBuild` takes the build of one specification in one step.
That its operations take effect all together with a success receipt, or not at all, is what `BuildContract` states and `BuildSpec`
implements, as long as no Restore fails and nobody is killed; what a backend writes itself stays in either case, and what is left
when those provisos fail is a part of the step too. `BuildSpec` takes the answer of a backend as one of a set;
`AnswerContract` says what such an answer is of the text that a program set out to print, or that the call
failed, and the drivers of `CliBackend` implement it.

### State and actions against the code

**BuildSpec.** `pc` names the next step of `buildSpec`. `opts` are the options and the switches of the
specification. `files` is the project directory; `base` is a history variable: the directory
without the operations of the attempts, that is, the initial one with what the backends' own
processes wrote. `ops`, `next`, `snapshot` are the patches (stale-file deletions appended), the
applier's position and `rollbackState`; `context` is `lastFailures`, `failingTests` and
`coverageGaps`; `SourceContents` is what the prompts of all attempts show of the managed sources, which are read
once, before the first attempt, and `SourcesIn(files)` what they are by now; `counters` are the local variables that go into the receipt; `artifacts` is
`buildArtifacts`. `tested` and `covered` are histories: the directory the tests last passed on and
the one coverage last met its target on. Texts are numbered by the attempt they come from.

| Action | Code in `buildSpec` |
|---|---|
| `Preflight` | dry run, context pack, backend, approval, pre_exec hook |
| `Execute` | the backend's process and its answer, stale-file deletions |
| `CaptureWorkspaceState` | the snapshot of managed and touched files |
| `Validate` | ownership check; a violation is a failed attempt without rollback |
| `ApplyNext`, `ApplyFails` | the applier, one operation at a time |
| `PostApply` | post_apply hook, reset of the attempt's counters and reports |
| `RunTests`, `PostTest` | pre_test hook, test command, post_test hook, verdict, rollback |
| `RunCoverage` | coverage run, verdict, rollback |
| `SaveArtifacts`, `SaveReceipt`, `OnReceipt` | the successful end |
| `FailArtifacts`, `FailReceipt` | `failWithArtifacts` and `fail` |
| `Crash` | the process dies |

**BuildGraph.** `imports` is `Node.Deps` (edges to unknown specifications are not added), `dirty` is
`IsDirty`, `scan` what the running `range` has still to visit, `stack` the active calls of the
recursive `visit`, so that `inStack` is the set of their nodes. `CompareHashes`, `PropagateTo`,
`EndPass` are MarkDirty; `VisitRoot`, `VisitDep`, `Return`, `EndSort` are TopologicalSort;
`SelectDirty`, `EndSelect` are DirtyNodes.

**IncrementalBuild.** `text` is the specification directory, a text standing for its hash, its imports and
the files it declares as owned; `receipts` the store, newest first, where a `"torn"` one was being written when
the process died or the disk was full and does not parse; `loaded` is what LoadSpecs returned and `owner` the
owners in its ownership map, which are those of any order of registration (`Orders`), because the code ranges over a
map; `queue` is `toBuild`. `StartAll` is `build`, `StartOne` is `build --spec`, `BuildFails`,
`BuildSucceeds` one turn of the loop, `LoadFails` the panic on a load error. Histories: `stamps`, which build last decided a
file (its specification, its text, the texts of its imports, and whether it ended, `whole`); `writers`, whose checked
operations decided it in the present run; `claimants`, which specifications have ever declared it.

What a build does to the files is what `BuildSpec` shows. A successful one decides all files it declares (`Decide`): each is
written, deleted as stale, or the target of a rename. The ownership check is shown the first two, and of a rename only the
source (`builder.go:262`, `builder.go:541`), so that a build passes it when the map gives it all its files but for such
targets (`MayBuild`). Any build may besides write files the check never sees, whoever owns them: targets of renames, and what
the backend's own process writes in the project directory. `Strays` are the files an instance allows this for. A build that
fails or is killed may leave such writes behind, those a failed Restore has left, and some of the files it owns
(`Unfinished`).

**RuntimeManager.** `file` is the state file, `procs` who lives
under each process id (the leader of a service's group, its child, or a stranger), `container` the
container under the service's name. `file` is `NoState` when it is missing or empty and `Torn` when it does not parse. Each client has the call it is in, its program counter, its
`*State`, and what its last call returned. A request is what `resolveMode` looks at: the flag, the mode of the
specification, and what it or the project says about containers and processes; `CannotStart` is a start whose mode
cannot be resolved. `CallStart`, `CallStop`, `CallStatus` load the file;
`Probe` is the first half of `refreshWithContext`; `Spawn`, `RemoveContainer`, `RunContainer`,
`Ready`, `NotReady` are `startProcess` and `startDocker`; `TerminateProcess`, `Exited`,
`Kill`, `StopContainer` are `stopProcess` and `stopDocker`. `Store.Save` at the end of a refresh, a start, a stop or a start that
failed is two steps, because `os.WriteFile` truncates and then writes (`store.go:90`): `Open` empties the file, and `Write` writes
the record and goes on or returns (`Saved`, `SaveFailed`). When another call has written in between, its record is overwritten
from the start, and the end of a longer one stays behind: the file may then not parse. `List` does to every record what `Status`
does to one.

**Oracles.** A line is the record of what the parser's patterns find in it: a GET and a path, whether a word stands
between the path and a sentence about a field, the sentence, the numbers that may be a status before GET, in the path and
after it (the pattern is searched over the whole line, and the first one counts: `FirstNumber`), a JSON fragment. `parseFieldLengthOracle`, `parseFieldValueOracle`, `parseStatusOracle` and `ParseLine` make an
oracle of it in the order of the code, `OraclePasses` is `runHTTPOracle`. `LineHolds` is the other side: what the line says
of the service, read as the documents read it.

**SpecCheck.** `stage` is where `Checker.Run` is, `plan` what it tests (the outcome of `tests.command`, the lines, the
service's answers), `asked` the oracles so far, `errors` and `verdict` are `result.Errors` and `result.Passed`, `started`
its `startedRuntime`. Histories: `mine`, the record of the service its Start has launched, whether or not Start then
succeeded; `unsaved`, whether that service became ready and its record could not be saved; `alone`, whether anybody else has
made a call since the test began; `refused`, whether a request was not answered. `RunCommand` and `NothingToAsk` are the beginning,
`Look`, `UseRunning`, `StartOwn`, `OwnStarted`, `NotStarted` the search for a service, `Ask` one request, `StopOwn` and `Leave` the
verdict with and without the deferred Stop. `ContinueCall` is a step of a call of `RuntimeManager`, with the bookkeeping of `mine`
and `unsaved`.

**CliBackend.** `backend` is the kind of the selected driver, `calls` the attempts so far, `stdout` and
`exit` are `ExecResult`, `message` the file of codex's `--output-last-message`; `output`, `next`,
`inBlock`, `currentPath`, `currentContent`, `ops` are the locals of `ParseFileBlocks`. `answer` is a
history: what this call's program set out to print. A line is a start marker with a path, an end marker
or text. `StartCli`, `LaunchFails`, `CliExits` are `ExecCLI`; `StdoutTaken` is the rest of `Execute` of
gemini, copilot, cursor and opencode, `ExitRefused`, `ClaudeAnswers`, `MessageTaken`, `NoMessage` that of claude
and codex; `OpenBlock`, `CloseBlock`, `KeepLine`, `SkipLine`, `EndOfOutput` are the branches and the end of
the parser's loop. `PrintLine` is the program.

### History variables and provisos

Some promises hold only as long as something the code does not defend against stays away. Each
such proviso is a history variable, so that the property shows exactly what it depends on:

* `restoreErr` (BuildSpec): a Restore failed; its error is dropped (`builder.go:282`).
* `partial` (IncrementalBuild): a run built less than what was dirty: `build --spec`, a failure or a crash.
* `Regular` (IncrementalBuild): a file was last decided by a stray write of another specification's build, or by a build that
  failed or was killed; of such a file nothing is said.
* `Strays` (IncrementalBuild) is no proviso of the theorems, which hold for any, but `OneWriterPerRun` speaks of checked operations only.
* `claimants` (IncrementalBuild): a file that a second specification has claimed at any time is vouched for by neither
  (`OwnFiles`): the other one may have written it since, and a specification that gives a claim up is not
  built again for it.
* `mishap` (RuntimeManager): `"overlap"`, a start overlapped another call; `"clash"`, a call emptied the state file that another
  was about to write; `"fault"`, a call died, a save, an inspection of the container or the stop inside a failing start failed, or a
  service had a child of its own.
* `alone` (SpecCheck): nobody else made a call while a test ran; `refused`: a request got no answer; `unsaved`: a ready service's
  record could not be saved, after which the test does not know of its service. Without this last proviso `TestCleansUp` is false, and TLC finds the save that fails.
* `leftover` (CliBackend): the file with the last message could not be read, or not be removed.

## 3. The runs

| Run | Instance | What it shows |
|---|---|---|
| `build_spec` | 5 paths (one owned that exists, one owned that does not, one readonly, one of another specification, one unmanaged), 2 contents, 9 answers, up to 3 attempts, limits -1, 0 and 2, all switches, faults in capture, apply, restore, artifacts and receipt, failing hooks, crash at any step; after a Restore that failed at most one more attempt (`OneAttemptOnDamage`) | all safety properties of a build |
| `build_contract` | the same without crash and failing Restore, with a failing on_receipt hook; fair | each step leads on, every build ends, and it implements `BuildContract` |
| `graph` | all 512 graphs over three specifications, self-imports and cycles included, and one with unknown imports; every combination of no, old and current receipts; fair | MarkDirty, the sort and the list are right in every map order, together they make the choice of `BuildChoice`, no loop repeats itself, and they end |
| `incremental` | two specifications, one importing the other; texts that do not parse, name an unknown specification, close a cycle or claim the other's file; 3 edits, 4 receipts, torn ones among them; `build`, `build --spec`, failures, failing hooks, crashes; any build may write the importer's file behind the check | up to date means built; imports first; no oscillation; one checked writer per file and run |
| `runtime` | two clients, every interleaving, both modes, a mode that cannot be resolved, two process ids, every fault, saves in two steps | one service, tracked, and a stop that means it |
| `spec_check` | a test and another user, a service running at the start, nine plans (no oracle with and without a command, a command that fails or cannot run, no health URL, oracles of each kind that hold and that do not, a line with a number before GET that passes or fails against what it says), failing spawns and saves, crashes, every interleaving | a test cleans up after itself and leaves the rest alone; its verdict is right |
| `cli_backend` | all seven kinds of driver, two attempts; every answer of up to three lines out of a start marker with and without a path, an end marker and a text, and two longer answers; programs that end anywhere, in the middle of a line too, with either exit code; a message file that cannot be read or removed | only complete files of this attempt's answer, as `AnswerContract` has it |
| `doc_workspace_kept`, `doc_every_path`, `doc_identifies_stale`, `code_load_warning`, `doc_oracle_path` | small instances | where documents or comments and the code disagree, see section 6 |

`incremental`, `runtime` and `spec_check` have a VIEW, which leaves out what no later step and no property depends on: the
contents of receipts beyond the hashes that `SpecHashes` shows, and what a client's call has held and returned once that is
used. `runtime` is symmetric in clients and process ids; no property tells them apart, and none of it is liveness.

**Why the bounds are enough.** *Builds:* three attempts make a middle one, which has both a
predecessor whose traces it could show and a successor it could spoil; the answers are chosen so
that each way to fail and each way two operations can meet on one file occurs (written then
renamed away, deleted and written, renamed over a foreign file, a diff after a write, a missing source).
Coverage levels are below, well below and at the target, zero included, which the code also uses
for "no coverage". *Graph:* three nodes are enough for a propagation of two hops against the order
of the map, for a cycle entered from outside and for a diamond's sides; the theorems remove the
bound. *Incremental:* an edit and its reversal need two edits, a claim that is made and given up and an edit of the import three; a receipt list of four holds a success,
a failure over it and two builds after that; one file that stray writes may reach is both the importer's own, which a rename of the
imported specification may overwrite, and one that a text of the other claims; that staleness also reaches importers of importers is
what `graph` checks, and `MarkDirtyExact` proves. When `MaxReceipts` or `MaxEdits` is reached, builds or
edits stop; no property depends on one that never comes. *Runtime:* two process ids make a second
instance possible, and a reused id needs one; two clients are what it takes for a call between the steps of another, and for two calls that
have the state file open; the theorems remove both bounds. *Tests:* one test and one user; the theorems are about any number of both. *Drivers:* a trace of an earlier attempt needs two; the longer answers have two
files with text around them, and a start inside a block, which is the longest way to break one; the
theorems remove these bounds.

Deadlock checking is off in every configuration, because all of them may rightly stop: a build ends, a
sort ends, bounds are reached, every client may be idle.

**Fairness.** Only `build_contract` and `graph` check liveness. `WF_vars(Step)` for a build says that
sequential code takes its next step. That includes the return of the backend, the hooks and the test
command, which is an assumption about them: `main.go:132` gives the build a background context, and only
a hook with a timeout has a deadline. `Termination` thus says that the repair loop ends when every
command it waits for does. `WF_vars(Next)` for the graph says no more than that a loop goes on. Nothing is
assumed about which outcome the environment chooses. No fairness is assumed of clients or services of the
runtime or of a backend's program, and no liveness is claimed for them.

No command of the shipped program registers a hook (`builder.go:77` makes an empty runner); hooks are modelled
because `buildSpec` runs them and tests register them.

**Mutants.** Each property is paired with a plausible bug in the code it is about (definitions commented
`Mutant:` in the modules, never part of a specification): without the property's run failing on it,
the property would say nothing.

## 4. What is proved

TLC checks the instances above; the following holds for every value of the constants that satisfies the
modules' assumptions. `BuildSpecAssumption`, `BuildGraphAssumption`, `CliBackendAssumption`, `RuntimeManagerAssumption`,
`SpecCheckAssumption` and `IncrementalBuildAssumption` are types and the finiteness of what a specification lists, that
`"nobody"` is no specification, and that a test may make all three calls. `InitTrackedAssumption` is about the start of
the runtime: what runs there was left by a call that saved it.

| Theorem | Says |
|---|---|
| `BuildSpec_proofs!TypeCorrect` | types; the loop never passes the retry limit |
| `BuildSpec_proofs!Rollback` | a failed attempt leaves nothing behind, unless Restore failed |
| `BuildSpec_proofs!Protection` | readonly and foreign files keep their contents, save as targets of a rename |
| `BuildSpec_proofs!AuditTrail` | the receipt names every file that was changed |
| `BuildSpec_proofs!SuccessVerified` | a success receipt vouches for the files as they are |
| `BuildSpec_proofs!Refinement` | without crashes and failing restores a build implements `BuildContract` |
| `BuildSpec_proofs!BuildAdvances` | each step goes to a later one, to the next operation or to a next attempt within the limit |
| `BuildReports_proofs!RetriesCounted` | each failed validation is on record once, a success counts them all, the limit is kept |
| `BuildReports_proofs!RepairContextFresh` | a repair prompt tells of the failure just before it and of no other |
| `BuildReports_proofs!EvidenceNotMixed` | reports and counters never come from two attempts |
| `BuildReports_proofs!ReceiptHasReports` | no receipt without the reports it counts |
| `BuildReports_proofs!ResultRight` | the result is what the receipt says, unless an on_receipt hook fails |
| `BuildReports_proofs!StaleFilesGone` | after a success an owned file exists only if its attempt produced it |
| `BuildGraph_proofs!TypeCorrect` | types |
| `BuildGraph_proofs!MarkDirtyExact` | MarkDirty marks exactly the stale and what reaches them |
| `BuildGraph_proofs!CyclesFound` | an error exactly on cyclic graphs |
| `BuildGraph_proofs!TopologicalSortRight` | imports before importers |
| `BuildGraph_proofs!DirtyNodesRight` | every dirty specification once, imports first |
| `BuildGraph_proofs!ChoiceMade` | the three functions, step by step, implement `BuildChoice` |
| `BuildGraph_proofs!LoopsAdvance` | every step brings its loop closer to its end, on cyclic graphs too |
| `IncrementalBuild_proofs!TypeCorrect` | types; each declared file has one owner, a specification that declares it |
| `IncrementalBuild_proofs!LastRegistrationOwns` | of the specifications that declare a file the last one registered owns it |
| `IncrementalBuild_proofs!UpToDateBuilt` | of what the receipts call up to date each own file was decided, and by its present text unless a stray write or an unfinished build came after |
| `IncrementalBuild_proofs!ImportsFirst` | nothing is built before its imports |
| `IncrementalBuild_proofs!NothingLeft` | a run that came to its end leaves nothing dirty |
| `IncrementalBuild_proofs!NothingDirtyFresh` | when all would be skipped and nothing was left out, all is built against its present imports, but for files a stray write has decided since |
| `IncrementalBuild_proofs!SingleWriter` | the operations the ownership check sees decide no file for two specifications in one run |
| `RuntimeManager_proofs!TypeCorrect` | types |
| `RuntimeManager_proofs!StopMeansIt` | a stop that reports success has ended what its record names, unless a start overlapped a call |
| `RuntimeManager_proofs!OnlyOneService` | without a mishap (overlap, clash, fault) one service at most |
| `RuntimeManager_proofs!ServiceOnRecord` | without a mishap a living service is, between calls, the one of the state file |
| `SpecCheck_proofs!TestIsClient` | tests and users together are clients of the managed runtime: its theorems hold with tests around |
| `SpecCheck_proofs!StopsItsOwn` | an undisturbed test stops the service it has started and no other |
| `SpecCheck_proofs!LeavesNothing` | an undisturbed test leaves nothing running that it has launched, if processes can be killed and Docker answers (`CanStop`), but for a ready service whose record could not be saved |
| `SpecCheck_proofs!PlainLineIsJudgedRight` | the oracle of a plain line passes just when what the line says is true of the answer |
| `SpecCheck_proofs!FieldNextToPathAsksElsewhere` | a sentence about a field right behind its path is asked at another path |
| `SpecCheck_proofs!EveryLineIsParsed` | one oracle for each line that has one, in the order of the lines, for any list of lines |
| `SpecCheck_proofs!TestTypeCorrect` | types; a test never asks more oracles than it has |
| `SpecCheck_proofs!VerdictCorrect` | for any lines: a test passes only when every line was answered and every plain one holds, and oracles fail it only when some line was not answered, does not hold or is not plain |
| `CliBackend_proofs!TypeCorrect` | types; a running program has printed a beginning of its answer |
| `CliBackend_proofs!FreshAnswers` | a driver parses what this call's program has printed, unless `leftover` |
| `CliBackend_proofs!ParseExact` | ParseFileBlocks returns just the complete blocks of any text, in order |
| `CliBackend_proofs!NothingInvented` | of an answer that was cut anywhere, the operations are its first ones |
| `CliBackend_proofs!ContractKept` | every driver, over any program, implements `AnswerContract` |

`DirtyNodesRight` and `NothingInvented` state parts of `MakesChoice` and `KeepsContract`, on which the two refinements
rest; the runs check the wholes.

**Inductive invariants.** Hardly any of these properties is inductive, and each strengthening is itself
a statement about the code:

* `Undoable` (rollback, protection, audit): while operations may be in the workspace, it differs from
  `base` only on paths they touch, the operations have passed the ownership check, and the snapshot is
  `base` on all managed and touched paths. The rollback property alone says nothing in the middle of an
  attempt, which is where a step has to know that the snapshot covers what it changes. The key lemma, in
  `BuildSpec_proofs`, is that restoring a snapshot that covers the touched paths undoes any operations.
* `EvidenceSoFar` (verified success): what each step knows of tests and coverage so far. It does not
  mention `base` or `snapshot`, which is why the theorem holds with failing restores too.
* `Accounts` (retries), `OneAttempt` (evidence), `Reporting` (result), `ReportsFirst` (receipts), `FreshTexts` (repair
  context): what each step of an attempt knows of `artifacts`, `counters`, `saved` and `context`. The theorem on repair
  contexts also needs the rollback theorem: the sources of the first prompt are shown in every later one, and are the files as they are because a
  failed attempt leaves nothing. `StaleGoing` (stale files): the deletions stand behind the backend's operations, and what
  has been applied so far leaves no owned file that the rest will not decide.
* `Propagating` (MarkDirty): what is dirty has a reason; a pass without a change has seen that the nodes it
  is done with need none. Its last step shows that a closed set between the stale specifications and
  their dependents is the dependents.
* `PathOnStack`, `VisitedClosed` (sort): the stack is a path of imports without repetition, disjoint
  from the visited nodes; what a call is done with is visited or the call above it; the visited nodes are
  closed under imports and no subset of them is a cycle. When the sort meets a node of the stack, the
  nodes from there to the top are the cycle (`PathCloses`); when it ends, all nodes are visited.
* `ListSoFar` (DirtyNodes): nothing is in the result twice, and the list holds the dirty part of what
  the loop has passed.
* `Vouched` (incremental builds): the newest successful receipt of a specification and the stamps on its own files tell of
  the same text. `Queued`: during a run over all, what is dirty for the loaded texts is just the queue, imports first, and
  `Finished` its end. `Fresh`: unless a run left something out, what is neither dirty nor queued was built against its
  imports as they are loaded. `OwnersWrite`: of the checked operations only those of the owner in the map in force decide a file, for as long as the run
  lasts. A stray write makes a file irregular for `Vouched` and `Fresh` unless it is of the specification itself, so both
  say of a file only what its last regular decision settles, and that there was one decision at all (`SomebodyDecided`). The lemmas under them are that the newest index of a receipt exists and how a new receipt changes the hashes (`Least`,
  `HashesAfter`).
* `Orderly`, `Awaits` (runtime): what step a call can be at, that only a process is waited for, and that a start
  without overlap runs alone. `StopsGone`: a stop that is about to save has nothing left of its service. `WritesAlone`: without a
  clash a call that has the file open finds it as empty as it has left it. `Serving`: while no call launches a service or has the file open
  (`Unsettled`), the file names each living service; until it has stopped it, a call's own record names each (`Knows`), and a
  call that is about to launch, or has stopped what it was to stop, does so next to nothing. The second part is what the
  properties alone do not say, and what a call that finds the file empty rests on: the writer's record is still right.
* `Testing` (tests): where a test is, its call is; while it is alone the record of the service it has launched, the one in the state file and the one its
  Stop loads are the same (`Held`); and its service is gone when that Stop returns or its Start has failed, but for the
  save that failed (`Left`).
* `FreshSoFar` (drivers): unless a file could not be read or removed, there is no message file between calls, and
  what stdout and the file hold after the program's end is its answer, cut somewhere.
* `BlocksSoFar` (parser): the operations are the file blocks that end before the next line; `inBlock` holds just when
  a start marker with only text after it has been read, and `currentContent` is that text. That blocks do not overlap
  (`FirstBlocks`) makes the blocks of a text that was cut the first ones of the whole. For the refinement of
  `AnswerContract` there is `PrintedSoFar`: what stdout and the message file hold is, even where a file could not be
  read or removed, a beginning of something a program may print.
* `Judges` (verdicts): a test has asked a beginning of its oracles, and what it has asked without an error was
  answered and passed; its errors are the ones its stage can have left. `EveryLineIsParsed` and `PlainLineIsJudgedRight` turn
  oracles that passed into plain lines that hold, line by line (`PlainPasses`).
* `Bounded` (store): receipts stop at their bound, which makes the types of `IncrementalBuild` inductive.
* The refinement of `BuildChoice` and `LoopsAdvance` need no invariant of their own: `PropagationExact` makes the list
  one of the allowed ones, `CyclesReported` the refusals just, and `PathOnStack` shows that a dependency that is done
  with is to do nowhere else on the stack.

**Recursion.** Two loops of the code are recursive functions here: the registration of all specifications in one
ownership map (`Registered`) and the list of oracles (`Collected`). Both grow with the input, so that no instance
settles them. `RecursionDefines` says that such a function has a value of its type after every turn, and `SetInduction`
carries an invariant of the loop (`LastOwns`, `OneEach`) to its end. Both are proved from the well-foundedness of the
numbers, over sets instead of predicates.

**Only model-checked.** Liveness: the `Termination` of a build and of the graph, which need fairness and
`ENABLED`. `BuildAdvances` and `LoopsAdvance` prove the heart of it, that no step leaves its loop where it was; what
is left to TLC is that a step is possible until the end, and that what grows or shrinks is finite.

## 5. What is not modelled

* What texts say: prompts, test output, the YAML of a specification. A text either parses or not, passes or not, and is
  traced by the attempt it came from where it matters. Of an oracle line the model has what the patterns find, not the
  characters; redirects, paths that are whole URLs and numbers that do not fit an int are left out.
* Files written by the test command or a hook, and other programs that write to the project meanwhile.
* The arguments, events, usage figures and health checks of the drivers; a program that closes its output
  and goes on. What codex leaves in the file is its answer or a beginning of it.
* The import and IR resolvers and the worktree manager, which no command calls; the library behind takeover, which writes one
  draft; the parsing of a coverage profile; `change`, `takeover` and `coverage`, which only print that they are not
  implemented (`main.go:174`). `run --build` is a build of one specification and then a start, both modelled but not together.
* Logs, events, timestamps, health records of the runtime; the order of two receipts of the same second. A crash in
  the middle of an append to the event log leaves a line that makes `ReadEvents` fail from then on (`runtime/store.go:208`);
  only the printing of events reads it.
* Another server on the port of a service, which may answer a test's oracles.
* Two `build` processes at once. The code does not lock the project, and nothing in it or its documents
  speaks of the case.
* Server, MCP and skills: handlers that read the receipts, loaders of static files.

## 6. Where documents and code disagree

Five disagreements are runs, each with one property that states the document or comment:

* `doc_workspace_kept`: README.md:472 says that failed attempts do not pollute the workspace; the
  snapshot is taken after the backend has run in it (`builder.go:254`).
* `doc_every_path`: docs/file-ownership.md:42 says that every path is validated; of a rename only the
  source is (`builder.go:262`).
* `doc_identifies_stale`: graph.go:4 says that the graph finds the dirty specifications; after
  `build --spec` of an import, its importers are never found (`builder.go:104`). The same happens when an
  importer's build fails after its import's was recorded.
* `code_load_warning`: a file that does not parse is meant to be a warning (`builder.go:91`,
  `loader.go:54`); the nil writer it is printed to ends the run. An import of an unknown specification does the same.
* `doc_oracle_path`: docs/spec-format.md:122 lists `GET /api/solve?n=3 has moveCount 7` as supported; the pattern
  (`checker.go:27`) leaves the last character of the path to its gap, and `/api/solve?n=` is asked.

Others were met while modelling and are followed as the code has them, without a run of their own:

* a failure before the first attempt writes no receipt (`builder.go:169`), docs/receipts.md:3 says every
  build does; a failed receipt counts attempts as retries (`builder.go:441`, config-reference.md:16);
* readonly declarations are literal paths, not globs (`fsguard.go:53`, spec-format.md:37); of two owners of a
  file the last in map order counts (`loader.go:93`, architecture.md:113);
* two overlapping starts both start (`manager.go:95`); a status saves over the record of an overlapping
  start (`manager.go:494`, cli-reference.md:181); stop waits for the group's leader only
  (`manager.go:647`, cli-reference.md:170) and signals the recorded id whoever has it now (`manager.go:641`);
  a test stops the service the file names when its oracles are over, also one that somebody else has started
  meanwhile (`checker.go:143`, cli-reference.md:109);
* docs/cli-reference.md:109 says that a test stops the service it has started; when the service is ready and its record cannot
  be saved, Start returns an error and leaves it running (`manager.go:273`), and the test, which takes it for not
  started, does not stop it (`checker.go:130`);
* two calls that save at once, two status calls are enough, may leave a state file that does not parse, because nothing locks it
  and `os.WriteFile` truncates before it writes (`store.go:90`); a service that lives is then lost and the next start
  launches another;
* of an oracle line the first number that looks like a status counts, also one before GET or inside the path (`checker.go:249`), an oracle
  about a field passes whatever the status is (`checker.go:316`), and a value `1.5` is compared as a string, `"42"` as a
  number (`checker.go:270`);
* a `runtime.health_url` from before the modes makes `auto` choose Docker, and when nothing applies the error says that
  the mode "auto" is invalid (`resolveMode`);
* the driver of claude returns no operations (`claude.go:185`), so all owned files count as stale and are
  deleted, where README.md:121 calls a change of the provider a change of the configuration;
* a default backend that is not configured is silently the mock (`registry.go:50`), and gemini, copilot, cursor
  and opencode use the output of a program that failed (`common.go:48`);
* `providers doctor` passes a nil context (`core/registry.go:93`), with which `exec.CommandContext` panics
  (cli-reference.md:290).

## 7. Plan

Done: sections 2 to 4, in the order build pipeline, contract, graph, incremental builds, runtime, spec
checker, backend drivers; then the theorems on each, and the refinements of the abstract specifications. What would
come next, most useful first:

1. The parser of coverage profiles (`coverage/go_provider.go`) and the import resolver as pure operators.
2. A step invariant of `RuntimeManager` for calls that overlap: what the state file can still lose then.

To run a check: `tlc -config BuildSpec.cfg MCBuildSpec`; to check the proofs: `tlapm BuildSpec_proofs.tla`.
