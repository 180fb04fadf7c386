--------------------------- MODULE AnswerContract ---------------------------
(***************************************************************************)
(* What Backend.Execute promises a build, whichever driver it is, whatever *)
(* the program prints and wherever it stops: a call that does not fail     *)
(* returns complete files of one answer, the first ones of it, and of this *)
(* call's answer unless a message file could not be read or removed.       *)
(* BuildSpec takes the operations of an attempt so.                        *)
(***************************************************************************)
EXTENDS Blocks

CONSTANTS
    Answers,     \* what a program may set out to print
    Canned,      \* the operations of a backend that runs no program
    MaxCalls     \* bound: attempts of the build

VARIABLES
    program,     \* whether the backend runs a program
    calls,       \* how often it was called
    answer,      \* what the program of this call set out to print
    doubtful,    \* a message file could not be read or removed
    status,      \* "ready", "busy", "answered", "failed"
    patch        \* the operations the call has returned

vars == <<program, calls, answer, doubtful, status, patch>>

NoPatch == <<>>

Init ==
    /\ program \in BOOLEAN
    /\ calls = 0 /\ answer = <<>> /\ doubtful = FALSE
    /\ status = "ready" /\ patch = NoPatch

\* The build calls again after an answer, and never after a failure.
Called == status \in {"ready", "answered"} /\ calls < MaxCalls /\ calls' = calls + 1

Ask ==
    /\ Called /\ program
    /\ answer' \in Answers
    /\ status' = "busy" /\ patch' = NoPatch
    /\ UNCHANGED <<program, doubtful>>

AnswerAtOnce ==
    /\ Called /\ ~program
    /\ status' = "answered" /\ patch' = Canned
    /\ UNCHANGED <<program, answer, doubtful>>

Doubt ==
    /\ status = "busy" /\ doubtful' = TRUE
    /\ UNCHANGED <<program, calls, answer, status, patch>>

\* The answers that the operations may be of.
Sources == IF doubtful THEN Answers ELSE {answer}

Answer ==
    /\ status = "busy" /\ status' = "answered"
    /\ \E whole \in Sources : AreFirstBlocks(patch', whole)
    /\ UNCHANGED <<program, calls, answer, doubtful>>

Fail ==
    /\ program
    /\ \/ Called
       \/ status = "busy" /\ UNCHANGED calls
    /\ status' = "failed" /\ patch' = NoPatch
    /\ UNCHANGED <<program, answer, doubtful>>

Next == Ask \/ AnswerAtOnce \/ Doubt \/ Answer \/ Fail

Spec == Init /\ [][Next]_vars
=============================================================================
