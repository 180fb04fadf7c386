----------------------------- MODULE SpecCheck ------------------------------
(***************************************************************************)
(* `plaincode test' (internal/validate/speccheck): Checker.Run runs        *)
(* tests.command, looks for a running service with Status, starts one when *)
(* there is none, asks it the oracles of the specification one by one,     *)
(* comes to its verdict, and stops the service if it has started it.       *)
(* Status, Start and Stop are whole calls of RuntimeManager, interleaved   *)
(* with the calls of other CLI processes.                                  *)
(*                                                                         *)
(* Not represented: another server on the service's port.                  *)
(***************************************************************************)
EXTENDS RuntimeManager, Oracles

CONSTANTS
    Testers,     \* the clients that run `plaincode test', the others call the manager
    KeepRunning, \* `plaincode test --keep-running'
    Plans        \* what may be tested, a sequence of records: the outcome of tests.command, "none" without one or
                 \* with --skip-command; the lines of the section; whether the state
                 \* has a health URL; what the service answers, a function of paths

Commanded == {"none", "passes", "fails", "cannot run"}

ASSUME SpecCheckAssumption ==
    /\ Testers \subseteq Clients /\ KeepRunning \in BOOLEAN
    /\ {"start", "stop", "status"} \subseteq Commands   \* a test makes all three calls
    /\ IsSequence(Plans)
    /\ \A i \in DOMAIN Plans :
          /\ IsSequence(Plans[i].lines)
          /\ Plans[i].command \in Commanded /\ Plans[i].url \in BOOLEAN
          /\ \A k \in DOMAIN Plans[i].lines : WellFormed(Plans[i].lines[k])

VARIABLES
    stage,   \* where a tester is: "none", running the "command", in a "status",
             \* "start" or "stop" call, or asking its "oracles"
    plan,    \* what it tests, an index of Plans, or 0
    asked,   \* how many oracles it has asked
    errors,  \* result.Errors
    verdict, \* result.Passed, "none" before it is known
    started, \* startedRuntime
    mine,    \* history: the record of the service a tester's Start has launched
    unsaved, \* history: the service was ready, and its record could not be saved
    alone,   \* history: nobody else has made a call since the test began
    refused  \* history: a request of the test was not answered

memory == <<started, mine, unsaved>>
result == <<plan, asked, errors, verdict, refused>>
testVars == <<vars, stage, memory, alone, result>>

Reach(c, next) == stage' = [stage EXCEPT ![c] = next]
Intrude(c) == alone' = [d \in Clients |-> d = c /\ alone[c]]
Done(c) == op[c] = "none" /\ ret[c] # "crashed"

TestInit ==
    /\ Init
    /\ stage = [c \in Clients |-> "none"]
    /\ plan = [c \in Clients |-> 0] /\ asked = [c \in Clients |-> 0]
    /\ errors = [c \in Clients |-> {}] /\ verdict = [c \in Clients |-> "none"]
    /\ started = [c \in Clients |-> FALSE]
    /\ mine = [c \in Clients |-> NotLoaded] /\ unsaved = [c \in Clients |-> FALSE]
    /\ alone = [c \in Clients |-> FALSE]
    /\ refused = [c \in Clients |-> FALSE]

Tested(c) == Plans[plan[c]]
oracles(c) == ParseHTTPOracles(Tested(c).lines)

\* The test is forgotten but for its verdict.
Forget(c, outcome) ==
    /\ verdict' = [verdict EXCEPT ![c] = outcome]
    /\ plan' = [plan EXCEPT ![c] = 0] /\ asked' = [asked EXCEPT ![c] = 0]
    /\ errors' = [errors EXCEPT ![c] = {}] /\ refused' = [refused EXCEPT ![c] = FALSE]

\* A test passes when it has no error.
Conclude(c, more) == Forget(c, IF errors[c] \cup more = {} THEN "passed" ELSE "failed")

\* tests.command runs first, and the oracles are asked whatever it returned.
RunCommand(c, i) ==
    /\ c \in Testers /\ stage[c] = "none"
    /\ Reach(c, "command")
    /\ plan' = [plan EXCEPT ![c] = i] /\ verdict' = [verdict EXCEPT ![c] = "none"]
    /\ errors' = [errors EXCEPT ![c] =
          IF Plans[i].command \in {"fails", "cannot run"} THEN {"command"} ELSE {}]
    /\ started' = [started EXCEPT ![c] = FALSE]
    /\ mine' = [mine EXCEPT ![c] = NotLoaded] /\ unsaved' = [unsaved EXCEPT ![c] = FALSE]
    /\ alone' = [d \in Clients |-> d = c /\ \A e \in Clients \ {c} : op[e] = "none"]
    /\ UNCHANGED <<vars, asked, refused>>

\* Without an oracle and without a command that has run nothing was tested.
NothingToAsk(c) ==
    /\ stage[c] = "command" /\ oracles(c) = <<>>
    /\ Reach(c, "none")
    /\ Conclude(c, IF Tested(c).command \in {"none", "cannot run"}
                   THEN {"no executable tests"} ELSE {})
    /\ UNCHANGED <<vars, memory, alone>>

Look(c) ==
    /\ stage[c] = "command" /\ oracles(c) # <<>>
    /\ Reach(c, "status") /\ CallStatus(c) /\ Intrude(c)
    /\ UNCHANGED <<memory, result>>

\* A running service is used as it is.
UseRunning(c) ==
    /\ stage[c] = "status" /\ Done(c) /\ ret[c] = "running"
    /\ Reach(c, "oracles")
    /\ UNCHANGED <<vars, memory, alone, result>>

\* Any other answer of Status, an error as well, starts one.
StartOwn(c, request) ==
    /\ stage[c] = "status" /\ Done(c) /\ ret[c] # "running"
    /\ Reach(c, "start") /\ Intrude(c)
    /\ CallStart(c, request) \/ CannotStart(c, request)
    /\ UNCHANGED <<memory, result>>

OwnStarted(c) ==
    /\ stage[c] = "start" /\ Done(c) /\ ret[c] = "started"
    /\ Reach(c, "oracles")
    /\ started' = [started EXCEPT ![c] = TRUE]
    /\ UNCHANGED <<vars, mine, unsaved, alone, result>>

\* Mutant: the error of Start is dropped.
NotStartedQuietly(c) ==
    /\ stage[c] = "start" /\ Done(c) /\ ret[c] # "started"
    /\ Reach(c, "none") /\ Conclude(c, {})
    /\ UNCHANGED <<vars, memory, alone>>

\* Mutant: the oracles are asked although Start has failed.
GoOnWithout(c) ==
    /\ stage[c] = "start" /\ Done(c) /\ ret[c] # "started"
    /\ Reach(c, "oracles")
    /\ errors' = [errors EXCEPT ![c] = @ \cup {"start"}]
    /\ UNCHANGED <<vars, memory, alone, plan, asked, verdict, refused>>

\* Without a service no oracle is asked and nothing is stopped.
NotStarted(c) ==
    /\ stage[c] = "start" /\ Done(c) /\ ret[c] # "started"
    /\ Reach(c, "none") /\ Conclude(c, {"start"})
    /\ UNCHANGED <<vars, memory, alone>>

Answering == container = "running" \/ \E p \in Pids : procs[p] \cap {"leader", "child"} # {}

\* runHTTPOracles: a living service may be too slow to answer.
Ask(c) ==
    /\ stage[c] = "oracles" /\ Tested(c).url /\ asked[c] < Len(oracles(c))
    /\ \E answered \in BOOLEAN :
          /\ answered => Answering
          /\ LET oracle == oracles(c)[asked[c] + 1]
                 passed == answered /\ OraclePasses(oracle, Tested(c).service[oracle.path])
             IN  errors' = [errors EXCEPT ![c] = @ \cup (IF passed THEN {} ELSE {"oracle"})]
          /\ refused' = [refused EXCEPT ![c] = @ \/ ~answered]
    /\ asked' = [asked EXCEPT ![c] = @ + 1]
    /\ UNCHANGED <<vars, stage, memory, alone, plan, verdict>>

\* The verdict is there before the deferred Stop.
Judge(c) ==
    /\ stage[c] = "oracles" /\ (asked[c] = Len(oracles(c)) \/ ~Tested(c).url)
    /\ Conclude(c, IF Tested(c).url THEN {} ELSE {"base URL"})

\* Mutant: a service that was running before is stopped too.
StopAnyway(c) ==
    /\ Judge(c) /\ ~KeepRunning
    /\ Reach(c, "stop") /\ CallStop(c) /\ Intrude(c)
    /\ UNCHANGED memory

StopOwn(c) ==
    /\ Judge(c) /\ started[c] /\ ~KeepRunning
    /\ Reach(c, "stop") /\ CallStop(c) /\ Intrude(c)
    /\ UNCHANGED memory

\* Mutant: the service stays when the oracles are over.
LeaveRunning(c) ==
    /\ Judge(c)
    /\ Reach(c, "none")
    /\ UNCHANGED <<vars, memory, alone>>

Leave(c) ==
    /\ Judge(c) /\ (~started[c] \/ KeepRunning)
    /\ Reach(c, "none")
    /\ UNCHANGED <<vars, memory, alone>>

\* The error of Stop is dropped.
Stopped(c) ==
    /\ stage[c] = "stop" /\ Done(c)
    /\ Reach(c, "none")
    /\ UNCHANGED <<vars, memory, alone, result>>

\* A test that is killed stops nothing.
TestCrash(c) ==
    /\ Crash(c) /\ Reach(c, "none") /\ Forget(c, "none")
    /\ UNCHANGED <<memory, alone>>

TestStep(c) ==
    \/ (\E i \in DOMAIN Plans : RunCommand(c, i)) \/ NothingToAsk(c)
    \/ Look(c) \/ UseRunning(c) \/ (\E request \in Requests : StartOwn(c, request))
    \/ OwnStarted(c) \/ NotStarted(c) \/ Ask(c) \/ StopOwn(c) \/ Leave(c) \/ Stopped(c)
    \/ TestCrash(c)

\* Anybody else.
CallElsewhere(c) ==
    /\ c \notin Testers /\ Call(c) /\ Intrude(c)
    /\ UNCHANGED <<stage, memory, result>>

CrashElsewhere(c) ==
    /\ c \notin Testers /\ Crash(c)
    /\ UNCHANGED <<stage, memory, alone, result>>

\* Bookkeeping of the history variables only.
Remember(c) ==
    /\ mine' = [mine EXCEPT ![c] =
          IF stage[c] = "start" /\ pc'[c] = "wait" THEN local'[c] ELSE @]
    /\ unsaved' = [unsaved EXCEPT ![c] =
          @ \/ /\ stage[c] = "start" /\ pc[c] \in {"save_started", "write_started"}
               /\ op'[c] = "none" /\ ret'[c] = "error"]
    /\ UNCHANGED started

\* A call, of a test or of anybody else, goes on.
ContinueCall(c) ==
    /\ Continue(c) /\ Remember(c)
    /\ UNCHANGED <<stage, alone, result>>

TestNext ==
    \/ \E c \in Clients : TestStep(c) \/ CallElsewhere(c) \/ CrashElsewhere(c) \/ ContinueCall(c)
    \/ Environment /\ UNCHANGED <<stage, memory, alone, result>>

TestSpec == TestInit /\ [][TestNext]_testVars

-----------------------------------------------------------------------------
(***************************************************************************)
(* Properties.                                                             *)
(***************************************************************************)

\* The type invariant of the variables the Checker adds.
TestTypeOK ==
    /\ stage \in [Clients -> {"none", "command", "status", "start", "oracles", "stop"}]
    /\ started \in [Clients -> BOOLEAN]
    /\ mine \in [Clients -> States]
    /\ alone \in [Clients -> BOOLEAN] /\ refused \in [Clients -> BOOLEAN]
    /\ unsaved \in [Clients -> BOOLEAN]
    /\ plan \in [Clients -> 0..Len(Plans)]
    /\ errors \in [Clients -> SUBSET {"command", "oracle"}]
    /\ verdict \in [Clients -> {"none", "passed", "failed"}]
    /\ asked \in [Clients -> Nat]
    /\ \A c \in Clients : asked[c] \in 0..(IF plan[c] = 0 THEN 0 ELSE Len(oracles(c)))

\* The service a tester's Start has launched lives.
Runs(state) ==
    IF state.mode = "docker" THEN container = "running"
    ELSE state.pid # NoPid /\ "leader" \in procs[state.pid]

\* A test is over, and has not been killed, or told to keep the service, and
\* nobody else has made a call meanwhile.
OverAlone(c) == stage[c] = "none" /\ alone[c] /\ ret[c] # "crashed" /\ ~KeepRunning

\* Then nothing that it has launched is running, whether its service became
\* ready or not and whatever it answered, with one exception: a service that
\* has become ready, but whose record Start could not save, stays up, because
\* Start returns an error and the test does not know of it.  (A process that
\* survives SIGKILL and a Docker daemon that does not answer stay behind as
\* well: the errors of stopping are dropped.)  docs/cli-reference.md:109
\* says without an exception that what was started is stopped again.
TestCleansUp == \A c \in Testers : OverAlone(c) /\ ~unsaved[c] => ~Runs(mine[c])

Concluding(c, outcome) == verdict[c] = "none" /\ verdict'[c] = outcome
Checked(c) == LinesWithOracle(Tested(c).lines)
PlainlyHolds(c, i) ==
    PlainLine(Tested(c).lines[i]) /\ LineHolds(Tested(c).lines[i], Tested(c).service)

\* The verdict is what the specification says.  A test passes only when the
\* command has not failed, something was executed, every line with an oracle
\* was answered, also when the service has died or was replaced between two
\* requests, and every such line that is plain holds of the service; and when
\* nothing but an oracle has failed, some line was not answered, does not hold
\* or is not plain.
VerdictRight ==
    [][\A c \in Testers :
          /\ Concluding(c, "passed") =>
                /\ Tested(c).command \notin {"fails", "cannot run"}
                /\ Tested(c).command = "passes" \/ asked[c] > 0
                /\ asked[c] = Cardinality(Checked(c)) /\ ~refused[c]
                /\ \A i \in Checked(c) : PlainLine(Tested(c).lines[i]) => PlainlyHolds(c, i)
          /\ Concluding(c, "failed") /\ errors[c] = {"oracle"} =>
                refused[c] \/ \E i \in Checked(c) : ~PlainlyHolds(c, i)]_testVars

\* What docs/spec-format.md:122 lists as a supported pattern: a service that
\* answers what every line says is not failed by an oracle.
DocumentedLinesPass ==
    [][\A c \in Testers :
          Concluding(c, "failed") /\ errors[c] = {"oracle"} =>
              \/ refused[c]
              \/ \E i \in Checked(c) : ~LineHolds(Tested(c).lines[i], Tested(c).service)]_testVars

\* A test that nobody interferes with stops the service that it has started,
\* and no other.
TestStopsItsOwn ==
    \A c \in Testers :
        op[c] = "stop" /\ alone[c] => local[c].mode = mine[c].mode /\ local[c].pid = mine[c].pid
=============================================================================
