----------------------------- MODULE CliBackend -----------------------------
(***************************************************************************)
(* The calls of Backend.Execute that one build makes: the drivers of the   *)
(* six command line programs (internal/backend/cli), the mock, and         *)
(* ParseFileBlocks, which cuts the text a program has printed into files.  *)
(*                                                                         *)
(* A program is external.  It sets out to print an answer, prints it line  *)
(* by line, and may end at any point, with either exit code and a last     *)
(* line that is cut; codex also writes its answer to a file.  A line is a  *)
(* start marker with a path, an end marker, or text.  A cut line is text:  *)
(* no line of an answer has a marker as a proper prefix.                   *)
(*                                                                         *)
(* Not represented: arguments, events, usage figures, FinalMessage (which  *)
(* nobody reads), and stderr.                                              *)
(***************************************************************************)
EXTENDS Blocks

CONSTANTS
    Paths,       \* the paths a start marker can name
    Texts,       \* the other lines
    Cut,         \* what is left of a line the program did not finish
    Answers,     \* what a program may set out to print
    NoFile,      \* there is no file with the last message
    MockPatch,   \* the operations the mock answers with
    Faults,      \* "read", "remove": the message file cannot be ...
    MaxCalls     \* bound: attempts of the build

StartLine(path) == [kind |-> "start", path |-> path]
EndLine == [kind |-> "end"]
TextLine(text) == [kind |-> "text", text |-> text]
CutLine == TextLine(Cut)
Lines == {StartLine(p) : p \in Paths \cup {NoPath}} \cup {EndLine}
           \cup {TextLine(t) : t \in Texts \cup {Cut}}

WriteFile(path, content) == [path |-> path, content |-> content]
Patches == [path : Paths, content : Seq(Lines)]

ASSUME CliBackendAssumption ==
    /\ NoPath \notin Paths
    /\ Answers \subseteq Seq(Lines) /\ NoFile \notin Seq(Lines)
    /\ MockPatch \in Seq(Patches)
    /\ MaxCalls \in Nat

VARIABLES
    backend,     \* the kind of the selected backend
    pc,          \* where Execute is
    calls,       \* how often it was called
    answer,      \* history: what the program of this call set out to print
    stdout, exit,      \* ExecResult
    message,           \* the file of --output-last-message
    leftover,          \* history: that file was not read or not removed
    output, next,      \* the text to parse and the next line
    inBlock, currentPath, currentContent, ops   \* of ParseFileBlocks

callVars   == <<backend, calls, answer>>
cliVars    == <<stdout, exit, message, leftover>>
blockVars  == <<inBlock, currentPath, currentContent>>
parserVars == <<output, next, blockVars, ops>>
vars == <<pc, callVars, cliVars, parserVars>>

\* The kinds BuildRegistry knows.  A project's default backend that is not
\* configured is the mock.
StdoutReaders == {"gemini", "copilot", "cursor", "opencode"}
Kinds == StdoutReaders \cup {"claude", "codex", "mock"}

NoLines == <<>>

Init ==
    /\ backend \in Kinds /\ pc = "ready" /\ calls = 0 /\ answer = NoLines
    /\ stdout = NoLines /\ exit = "none" /\ message = NoFile /\ leftover = FALSE
    /\ output = NoLines /\ next = 1
    /\ inBlock = FALSE /\ currentPath = NoPath /\ currentContent = NoLines /\ ops = <<>>

(***************************************************************************)
(* ExecCLI and the program.                                                *)
(***************************************************************************)

\* The locals of a call that has not parsed anything yet.
NothingParsed ==
    /\ output' = NoLines /\ next' = 1 /\ ops' = <<>>
    /\ inBlock' = FALSE /\ currentPath' = NoPath /\ currentContent' = NoLines

\* The build calls Execute, and again for the next attempt.
Called == pc \in {"ready", "answered"} /\ calls < MaxCalls /\ calls' = calls + 1

StartCli ==
    /\ Called /\ backend # "mock"
    /\ answer' \in Answers
    /\ stdout' = NoLines /\ exit' = "none"
    /\ NothingParsed
    /\ pc' = "running"
    /\ UNCHANGED <<backend, message, leftover>>

\* An Execute that fails ends the build.
Fail == pc' = "failed"

\* There is no such program.
LaunchFails ==
    /\ Called /\ backend # "mock"
    /\ Fail
    /\ UNCHANGED <<backend, answer, cliVars, parserVars>>

MockExecutes ==
    /\ Called /\ backend = "mock"
    /\ ops' = MockPatch /\ pc' = "answered"
    /\ UNCHANGED <<backend, answer, cliVars, output, next, blockVars>>

PrintLine ==
    /\ pc = "running" /\ Len(stdout) < Len(answer)
    /\ stdout' = Append(stdout, answer[Len(stdout) + 1])
    /\ UNCHANGED <<pc, callVars, exit, message, leftover, parserVars>>

\* The beginning of a text that was cut after n lines, or in the line after.
CutAfter(whole, n) ==
    {SubSeq(whole, 1, n)}
      \cup (IF n < Len(whole) THEN {Append(SubSeq(whole, 1, n), CutLine)} ELSE {})
CutsOf(whole) == UNION {CutAfter(whole, n) : n \in 0..Len(whole)}

\* The program ends.  codex may have written its answer to the file by then,
\* all of it or not.
CliExits ==
    /\ pc = "running"
    /\ stdout' \in CutAfter(answer, Len(stdout))
    /\ \/ UNCHANGED message
       \/ backend = "codex" /\ message' \in CutsOf(answer)
    /\ exit' \in {"zero", "nonzero"}
    /\ pc' = "exited"
    /\ UNCHANGED <<callVars, leftover, parserVars>>

(***************************************************************************)
(* What a driver does with the output.                                     *)
(***************************************************************************)

Parse(text) ==
    /\ output' = text /\ next' = 1
    /\ inBlock' = FALSE /\ currentPath' = NoPath /\ currentContent' = NoLines
    /\ ops' = <<>>
    /\ pc' = "parse"

\* gemini, copilot, cursor and opencode do not look at the exit code.
StdoutTaken ==
    /\ pc = "exited" /\ backend \in StdoutReaders
    /\ Parse(stdout)
    /\ UNCHANGED <<callVars, cliVars>>

\* claude and codex refuse the output of a program that failed.
ExitRefused ==
    /\ pc = "exited" /\ backend \in {"claude", "codex"} /\ exit = "nonzero"
    /\ Fail
    /\ UNCHANGED <<callVars, cliVars, parserVars>>

\* The driver of claude extracts no operations.
ClaudeAnswers ==
    /\ pc = "exited" /\ backend = "claude" /\ exit = "zero"
    /\ ops' = <<>> /\ pc' = "answered"
    /\ UNCHANGED <<callVars, cliVars, output, next, blockVars>>

\* Mutant: the file with the last message is not removed.
MessageKept ==
    /\ pc = "exited" /\ backend = "codex" /\ exit = "zero"
    /\ message # NoFile /\ Parse(message)
    /\ UNCHANGED <<callVars, cliVars>>

MessageTaken ==
    /\ pc = "exited" /\ backend = "codex" /\ exit = "zero"
    /\ message # NoFile /\ Parse(message)
    /\ \/ message' = NoFile /\ UNCHANGED leftover
       \/ "remove" \in Faults /\ leftover' = TRUE /\ UNCHANGED message
    /\ UNCHANGED <<callVars, stdout, exit>>

\* Without a file that can be read codex falls back to stdout.
NoMessage ==
    /\ pc = "exited" /\ backend = "codex" /\ exit = "zero"
    /\ \/ message = NoFile /\ UNCHANGED leftover
       \/ message # NoFile /\ "read" \in Faults /\ leftover' = TRUE
    /\ Parse(stdout)
    /\ UNCHANGED <<callVars, stdout, exit, message>>

(***************************************************************************)
(* ParseFileBlocks, one line at a time.                                    *)
(***************************************************************************)

Reading(kind) == pc = "parse" /\ next <= Len(output) /\ output[next].kind = kind
Line == output[next]
Advance == next' = next + 1 /\ UNCHANGED <<pc, callVars, cliVars, output>>

\* Mutant: a start marker inside a block keeps what the block holds so far.
ReopenBlock ==
    /\ Reading("start")
    /\ inBlock' = TRUE /\ currentPath' = Line.path
    /\ currentContent' = IF inBlock THEN currentContent ELSE NoLines
    /\ Advance /\ UNCHANGED ops

\* A start marker opens a block, and drops one that is open.
OpenBlock ==
    /\ Reading("start")
    /\ inBlock' = TRUE /\ currentPath' = Line.path /\ currentContent' = NoLines
    /\ Advance /\ UNCHANGED ops

\* Mutant: a marker without a path names a file all the same.
CloseAnyBlock ==
    /\ Reading("end") /\ inBlock
    /\ ops' = Append(ops, WriteFile(currentPath, currentContent))
    /\ inBlock' = FALSE /\ currentPath' = NoPath
    /\ Advance /\ UNCHANGED currentContent

\* An end marker closes the block; one without a path yields nothing.
CloseBlock ==
    /\ Reading("end") /\ inBlock
    /\ ops' = IF currentPath # NoPath
              THEN Append(ops, WriteFile(currentPath, currentContent)) ELSE ops
    /\ inBlock' = FALSE /\ currentPath' = NoPath
    /\ Advance /\ UNCHANGED currentContent

KeepLine ==
    /\ Reading("text") /\ inBlock
    /\ currentContent' = Append(currentContent, Line)
    /\ Advance /\ UNCHANGED <<inBlock, currentPath, ops>>

\* What stands outside a block is passed over.
SkipLine ==
    /\ (Reading("text") \/ Reading("end")) /\ ~inBlock
    /\ Advance /\ UNCHANGED <<blockVars, ops>>

\* Mutant: a block that is still open when the text ends counts.
AcceptOpenBlock ==
    /\ pc = "parse" /\ next > Len(output)
    /\ ops' = IF inBlock /\ currentPath # NoPath
              THEN Append(ops, WriteFile(currentPath, currentContent)) ELSE ops
    /\ pc' = "answered"
    /\ UNCHANGED <<callVars, cliVars, output, next, blockVars>>

\* A block that is still open when the text ends is dropped.
EndOfOutput ==
    /\ pc = "parse" /\ next > Len(output)
    /\ pc' = "answered"
    /\ UNCHANGED <<callVars, cliVars, parserVars>>

Next ==
    \/ StartCli \/ LaunchFails \/ MockExecutes
    \/ PrintLine \/ CliExits
    \/ StdoutTaken \/ ExitRefused \/ ClaudeAnswers \/ MessageTaken \/ NoMessage
    \/ OpenBlock \/ CloseBlock \/ KeepLine \/ SkipLine \/ EndOfOutput

Spec == Init /\ [][Next]_vars

-----------------------------------------------------------------------------
(***************************************************************************)
(* Properties.                                                             *)
(***************************************************************************)

\* The type invariant; while a program runs it has printed a beginning of
\* its answer.
TypeOK ==
    /\ backend \in Kinds
    /\ pc \in {"ready", "running", "exited", "parse", "answered", "failed"}
    /\ calls \in 0..MaxCalls
    /\ answer \in Seq(Lines) /\ stdout \in Seq(Lines) /\ output \in Seq(Lines)
    /\ exit \in {"none", "zero", "nonzero"}
    /\ message \in Seq(Lines) \cup {NoFile} /\ leftover \in BOOLEAN
    /\ next \in 1..(Len(output) + 1)
    /\ inBlock \in BOOLEAN /\ currentPath \in Paths \cup {NoPath}
    /\ currentContent \in Seq(Lines) /\ ops \in Seq(Patches)
    /\ pc = "running" => /\ Len(stdout) <= Len(answer)
                         /\ stdout = SubSeq(answer, 1, Len(stdout))

Parsed == pc = "answered" /\ backend \in StdoutReaders \cup {"codex"}

\* What ParseFileBlocks makes of any text, with markers in any order, is just
\* its file blocks.
BlocksExact == Parsed => AreBlocksAt(ops, output, FileBlocks(output))

\* What a driver parses was printed by the program of this call, not by that
\* of an earlier attempt, unless the message file could not be read or removed.
AnswerIsFresh ==
    Parsed /\ ~leftover => output \in CutsOf(answer)

\* Output that was cut anywhere yields a beginning of the operations the whole
\* answer would have given: no file is written in part, none is invented.  This
\* is what KeepsContract says of an answer when there is no doubt.
CutNeverInvents ==
    Parsed /\ ~leftover => AreFirstBlocks(ops, answer)

\* What a build sees of a call.
Status == IF pc \in {"running", "exited", "parse"} THEN "busy" ELSE pc
Returned == IF pc = "answered" THEN ops ELSE <<>>

Contract == INSTANCE AnswerContract WITH
    Canned <- MockPatch, program <- backend # "mock", doubtful <- leftover,
    status <- Status, patch <- Returned

\* Every driver keeps the contract of an answer: its operations are complete
\* files of one answer, and what it has returned does not change until it is
\* called again; a call that fails is the last.
KeepsContract == Contract!Spec
=============================================================================
