---------------------------- MODULE MCSpecCheck -----------------------------
(***************************************************************************)
(* SpecCheck with the service that an earlier `plaincode run' has left, a  *)
(* page with a health status, and a page with a list of moves and their    *)
(* count.                                                                  *)
(***************************************************************************)
EXTENDS SpecCheck

CONSTANTS pid1

MCOneProcess == [p \in Pids |-> IF p = pid1 THEN {"leader"} ELSE {}]
MCRunning == State("process", "running", pid1)

\* A specification with runtime.process, and one with nothing in a project
\* that is not in Go.
ProcessRequest ==
    [asked |-> "", mode |-> "process", docker |-> FALSE, process |-> TRUE, healthURL |-> FALSE,
     dockerfile |-> FALSE, inferred |-> FALSE]
MCRequests == {ProcessRequest, [ProcessRequest EXCEPT !.mode = "", !.process = FALSE]}

Health == <<"/healt", "h">>
Solve == <<"/api/solve?n=", "3">>
SolveCut == <<"/api/solve?n=">>
Good == <<"object", [status |-> <<"string", "good">>]>>
Solution(count, moves) ==
    <<"object", [moveCount |-> <<"number", count>>, moves |-> <<"array", moves>>]>>

Answers(status, body, solution) ==
    [path \in {Health, Solve, SolveCut} |->
        IF path = Health THEN [status |-> status, body |-> body]
        ELSE IF path = Solve THEN [status |-> 200, body |-> solution]
        ELSE [status |-> 400, body |-> Invalid]]

Right == Answers(200, Good, Solution(2, <<1, 2>>))
Sick == Answers(200, Invalid, Solution(2, <<1, 2>>))
Missing == Answers(404, Good, Solution(2, <<1, 2>>))
Miscounted == Answers(200, Good, Solution(2, <<1>>))

Blank ==
    [get |-> "first", path |-> Health, gap |-> TRUE, length |-> {}, value |-> {},
     before |-> {}, inPath |-> {}, code |-> {}, json |-> {}]

Prose == [Blank EXCEPT !.get = "no", !.path = <<>>]
Returns == [Blank EXCEPT !.code = {200}]
ReturnsGood == [Returns EXCEPT !.json = {Good}]
Count == [Blank EXCEPT !.path = Solve, !.value = {[field |-> "moveCount", text |-> <<"number", 2>>]}]
Moves == [Blank EXCEPT !.path = Solve, !.length = {[field |-> "moves", length |-> 2]}]

\* `GET /api/solve?n=3 has moveCount 2': no word between path and `has'.
EnglishCount == [Count EXCEPT !.gap = FALSE]

\* `Not 404 from GET /health but 200': the first number is taken.
Contrast == [Returns EXCEPT !.get = "inside", !.before = {404}]

Plan(command, lines, url, service) ==
    [command |-> command, lines |-> lines, url |-> url, service |-> service]

MCPlans ==
    <<Plan("none", <<Prose>>, TRUE, Right), Plan("passes", <<Prose>>, TRUE, Right),
      Plan("cannot run", <<Prose>>, TRUE, Right), Plan("fails", <<Returns>>, FALSE, Right),
      Plan("none", <<ReturnsGood, Prose, Count>>, TRUE, Right),
      Plan("none", <<ReturnsGood>>, TRUE, Sick), Plan("passes", <<Moves>>, TRUE, Miscounted),
      Plan("none", <<Returns, Contrast>>, TRUE, Right), Plan("none", <<Contrast>>, TRUE, Missing)>>

MCEnglish == <<Plan("none", <<EnglishCount>>, TRUE, Right)>>

\* What later steps and the properties depend on: the verdict of a test that
\* is over is read by nobody, what a call has returned only by the next step,
\* which service a test has launched only as long as it is alone, and what a
\* call has held or resolved no more once it launches or has launched.
Held(c) ==
    IF pc[c] \in {"idle", "launch", "docker_run"} THEN <<>> ELSE <<local[c]>>

Resolved(c) ==
    IF op[c] = "start" /\ pc[c] \in {"probe", "save_refresh", "write_refresh", "launch"}
    THEN want[c] ELSE "none"

Returned(c) ==
    CASE stage[c] = "start" -> ret[c] = "started"
      [] stage[c] = "status" -> ret[c] = "running"
      [] OTHER -> FALSE

MCView ==
    <<file, worldVars, pc, op, stage, alone, plan, asked, errors, refused, started,
      [c \in Clients |->
          <<IF alone[c] THEN <<mine[c], unsaved[c]>> ELSE <<>>, Held(c), Resolved(c),
            op[c] = "none" /\ Returned(c), ret[c] = "crashed">>]>>
=============================================================================
