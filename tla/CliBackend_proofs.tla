-------------------------- MODULE CliBackend_proofs --------------------------
(***************************************************************************)
(* For all answers, whatever their markers, and any number of attempts:    *)
(* types, that a driver parses what its own program has printed, and that  *)
(* ParseFileBlocks returns just the file blocks of its text.               *)
(***************************************************************************)
EXTENDS CliBackend, SequenceTheorems, TLAPS

\* What a line can be, and what its fields are.
LEMMA LineKinds ==
    ASSUME NEW l \in Lines
    PROVE  /\ l.kind \in {"start", "end", "text"}
           /\ l.kind = "start" => l.path \in Paths \cup {NoPath}
BY DEF Lines, StartLine, EndLine, TextLine

\* A prefix of a text is a text.
LEMMA PrefixType ==
    ASSUME NEW whole \in Seq(Lines), NEW n \in 0..Len(whole)
    PROVE  SubSeq(whole, 1, n) \in Seq(Lines) /\ Len(SubSeq(whole, 1, n)) = n
OBVIOUS

\* A text that was cut is a text.
LEMMA CutsType ==
    ASSUME NEW whole \in Seq(Lines), NEW n \in 0..Len(whole)
    PROVE  CutAfter(whole, n) \subseteq Seq(Lines)
<1>1. CutLine \in Lines
  BY DEF CutLine, Lines
<1>2. QED
  BY <1>1, PrefixType DEF CutAfter

\* The same of all places where it may have been cut.
LEMMA AllCutsType ==
    ASSUME NEW whole \in Seq(Lines)
    PROVE  CutsOf(whole) \subseteq Seq(Lines)
BY CutsType DEF CutsOf

\* Printing one more line yields a longer prefix.
LEMMA PrefixGrows ==
    ASSUME NEW whole \in Seq(Lines), NEW n \in 0..Len(whole), n < Len(whole)
    PROVE  Append(SubSeq(whole, 1, n), whole[n + 1]) = SubSeq(whole, 1, n + 1)
OBVIOUS

\* A text has a length, and its lines are lines.
LEMMA TextLines ==
    ASSUME NEW text \in Seq(Lines)
    PROVE  Len(text) \in Nat /\ 1 \in 1..(Len(text) + 1) /\ \A i \in 1..Len(text) : text[i] \in Lines
OBVIOUS

\* Nothing is a text, and no operations are operations.
LEMMA Nothing ==
    /\ <<>> \in Seq(Lines) /\ <<>> \in Seq(Patches) /\ Len(<<>>) = 0
    /\ \A text \in Seq(Lines) : SubSeq(text, 1, 0) = <<>>
OBVIOUS

\* Types are kept by every step.
LEMMA TypeStep ==
    ASSUME TypeOK, [Next]_vars
    PROVE  TypeOK'
<1> USE CliBackendAssumption
<1> USE DEF TypeOK, callVars, cliVars, blockVars, parserVars, NoLines
<1>1. CASE StartCli
  <2>1. answer' \in Seq(Lines) /\ pc' = "running" /\ stdout' = <<>>
    BY <1>1 DEF StartCli
  <2>2. SubSeq(answer', 1, 0) = <<>> /\ Len(answer') \in Nat
    BY <2>1, Nothing, TextLines
  <2>3. Len(stdout') <= Len(answer') /\ stdout' = SubSeq(answer', 1, Len(stdout'))
    BY <2>1, <2>2, Nothing
  <2>4. output' \in Seq(Lines) /\ next' \in 1..(Len(output') + 1)
    BY <1>1, Nothing, TextLines DEF StartCli, NothingParsed
  <2>5. currentContent' \in Seq(Lines) /\ ops' \in Seq(Patches)
    BY <1>1, Nothing DEF StartCli, NothingParsed
  <2>6. calls' \in 0..MaxCalls
    BY <1>1 DEF StartCli, Called
  <2>7. exit' = "none" /\ inBlock' = FALSE /\ currentPath' = NoPath
    BY <1>1 DEF StartCli, NothingParsed
  <2>8. backend' = backend /\ message' = message /\ leftover' = leftover
    BY <1>1 DEF StartCli
  <2>9. QED
    BY <2>1, <2>3, <2>4, <2>5, <2>6, <2>7, <2>8, Nothing
<1>2. CASE LaunchFails
  BY <1>2 DEF LaunchFails, Called, Fail
<1>3. CASE MockExecutes
  BY <1>3 DEF MockExecutes, Called
<1>4. CASE PrintLine
  <2>1. /\ pc' = "running" /\ answer' = answer
        /\ stdout' = SubSeq(answer, 1, Len(stdout) + 1)
    BY <1>4, PrefixGrows DEF PrintLine
  <2>2. stdout' \in Seq(Lines) /\ Len(stdout') = Len(stdout) + 1
    BY <1>4, <2>1, PrefixType DEF PrintLine
  <2>3. QED
    BY <1>4, <2>1, <2>2 DEF PrintLine
<1>5. CASE CliExits
  <2>1. stdout' \in Seq(Lines)
    BY <1>5, CutsType DEF CliExits
  <2>2. message' \in Seq(Lines) \cup {NoFile}
    BY <1>5, AllCutsType DEF CliExits
  <2>3. QED
    BY <1>5, <2>1, <2>2 DEF CliExits
<1>6. CASE StdoutTaken
  BY <1>6, TextLines, Nothing DEF StdoutTaken, Parse
<1>7. CASE ExitRefused
  BY <1>7 DEF ExitRefused, Fail
<1>8. CASE ClaudeAnswers
  BY <1>8, Nothing DEF ClaudeAnswers
<1>9. CASE MessageTaken
  BY <1>9, TextLines, Nothing DEF MessageTaken, Parse
<1>10. CASE NoMessage
  BY <1>10, TextLines, Nothing DEF NoMessage, Parse
<1>11. ASSUME pc = "parse", next <= Len(output)
       PROVE  output[next] \in Lines
  BY <1>11
<1>12. CASE OpenBlock
  BY Nothing, <1>11, <1>12, LineKinds DEF OpenBlock, Reading, Line, Advance
<1>13. CASE CloseBlock
  <2>1. currentPath # NoPath => WriteFile(currentPath, currentContent) \in Patches
    BY DEF WriteFile, Patches
  <2>2. ops' \in Seq(Patches)
    BY <1>13, <2>1, AppendProperties DEF CloseBlock
  <2>3. pc' = "parse" /\ next' \in 1..(Len(output') + 1) /\ output' = output
    BY <1>13 DEF CloseBlock, Reading, Advance
  <2>4. inBlock' = FALSE /\ currentPath' = NoPath /\ currentContent' = currentContent
    BY <1>13 DEF CloseBlock
  <2>5. UNCHANGED <<callVars, cliVars>>
    BY <1>13 DEF CloseBlock, Advance
  <2>6. QED
    BY <2>2, <2>3, <2>4, <2>5
<1>14. CASE KeepLine
  BY <1>11, <1>14 DEF KeepLine, Reading, Line, Advance
<1>15. CASE SkipLine
  BY <1>15 DEF SkipLine, Reading, Advance
<1>16. CASE EndOfOutput
  BY <1>16 DEF EndOfOutput
<1>17. CASE UNCHANGED vars
  BY <1>17 DEF vars
<1>18. QED
  BY <1>1, <1>2, <1>3, <1>4, <1>5, <1>6, <1>7, <1>8, <1>9, <1>10, <1>12, <1>13,
     <1>14, <1>15, <1>16, <1>17 DEF Next

\* Types at the start.
LEMMA TypeInit ==
    ASSUME Init
    PROVE  TypeOK
<1>1. answer = <<>> /\ stdout = <<>> /\ output = <<>> /\ currentContent = <<>>
  BY DEF Init, NoLines
<1>2. next \in 1..(Len(output) + 1)
  BY <1>1, Nothing, TextLines DEF Init
<1>3. calls \in 0..MaxCalls
  BY CliBackendAssumption DEF Init
<1>4. QED
  BY <1>1, <1>2, <1>3, Nothing DEF Init, TypeOK

\* The type invariant.
THEOREM TypeCorrect == Spec => []TypeOK
<1>1. Init => TypeOK
  BY TypeInit
<1>2. TypeOK /\ [Next]_vars => TypeOK'
  BY TypeStep
<1>3. QED
  BY <1>1, <1>2, PTL DEF Spec
(***************************************************************************)
(* What a driver parses was printed by the program of this call.           *)
(***************************************************************************)

\* The message file never outlives the call that wrote it, unless that is
\* known; until a call has parsed, what it will parse is of this call.
FreshSoFar ==
    ~leftover =>
        /\ pc \in {"ready", "running", "answered"} => message = NoFile
        /\ pc = "exited" =>
              /\ stdout \in CutsOf(answer) /\ message \in CutsOf(answer) \cup {NoFile}
              /\ backend # "codex" => message = NoFile
        /\ pc = "parse" => output \in CutsOf(answer) /\ message = NoFile
        /\ Parsed => output \in CutsOf(answer)

\* It holds at the start.
LEMMA FreshInit ==
    ASSUME Init
    PROVE  FreshSoFar
BY DEF Init, FreshSoFar, Parsed, StdoutReaders

\* Every step keeps it.
LEMMA FreshStep ==
    ASSUME TypeOK, FreshSoFar, [Next]_vars
    PROVE  FreshSoFar'
<1> USE DEF FreshSoFar, Parsed, callVars, cliVars, blockVars, parserVars
<1>1. CASE StartCli
  BY <1>1 DEF StartCli, Called
<1>2. CASE LaunchFails
  BY <1>2 DEF LaunchFails, Fail
<1>3. CASE MockExecutes
  BY <1>3 DEF MockExecutes, Called, StdoutReaders
<1>4. CASE PrintLine
  BY <1>4 DEF PrintLine
<1>5. CASE CliExits
  <2>1. Len(stdout) \in 0..Len(answer)
    BY <1>5, TextLines DEF CliExits, TypeOK
  <2>2. stdout' \in CutsOf(answer)
    BY <1>5, <2>1 DEF CliExits, CutsOf
  <2>3. QED
    BY <1>5, <2>2 DEF CliExits
<1>6. CASE StdoutTaken
  <2>1. ~leftover => stdout \in CutsOf(answer)
    BY <1>6 DEF StdoutTaken
  <2>2. QED
    BY <1>6, <2>1 DEF StdoutTaken, Parse, StdoutReaders
<1>7. CASE ExitRefused
  BY <1>7 DEF ExitRefused, Fail
<1>8. CASE ClaudeAnswers
  BY <1>8 DEF ClaudeAnswers, StdoutReaders
<1>9. CASE MessageTaken
  BY <1>9 DEF MessageTaken, Parse
<1>10. CASE NoMessage
  BY <1>10 DEF NoMessage, Parse
<1>11. CASE OpenBlock
  BY <1>11 DEF OpenBlock, Reading, Advance
<1>12. CASE CloseBlock
  BY <1>12 DEF CloseBlock, Reading, Advance
<1>13. CASE KeepLine
  BY <1>13 DEF KeepLine, Reading, Advance
<1>14. CASE SkipLine
  BY <1>14 DEF SkipLine, Reading, Advance
<1>15. CASE EndOfOutput
  BY <1>15 DEF EndOfOutput
<1>16. CASE UNCHANGED vars
  BY <1>16 DEF vars
<1>17. QED
  BY <1>1, <1>2, <1>3, <1>4, <1>5, <1>6, <1>7, <1>8, <1>9, <1>10, <1>11, <1>12,
     <1>13, <1>14, <1>15, <1>16 DEF Next

\* No driver parses what the program of an earlier attempt has printed.
THEOREM FreshAnswers == Spec => []AnswerIsFresh
<1>1. Init => TypeOK /\ FreshSoFar
  BY TypeInit, FreshInit
<1>2. TypeOK /\ FreshSoFar /\ [Next]_vars => TypeOK' /\ FreshSoFar'
  BY TypeStep, FreshStep
<1>3. FreshSoFar => AnswerIsFresh
  BY DEF FreshSoFar, AnswerIsFresh
<1>4. QED
  BY <1>1, <1>2, <1>3, PTL DEF Spec

(***************************************************************************)
(* ParseFileBlocks.                                                        *)
(***************************************************************************)

\* The block that is open starts in line i: its path is that of line i, its
\* content all that came since.
OpenAt(i) ==
    /\ output[i].kind = "start" /\ output[i].path = currentPath
    /\ \A k \in i + 1 .. next - 1 : output[k].kind = "text"
    /\ currentContent = SubSeq(output, i + 1, next - 1)

BlockOpen == \E i \in 1..(next - 1) : OpenAt(i)
NoBlockOpen ==
    \A i \in 1..(next - 1) :
        output[i].kind = "start" => \E k \in i + 1 .. next - 1 : output[k].kind # "text"

\* The operations so far are the file blocks that end before the next line.
BlocksSoFar ==
    /\ pc = "parse" =>
          /\ AreBlocksAt(ops, output, FileBlocksBy(output, next - 1))
          /\ inBlock => BlockOpen
          /\ ~inBlock => NoBlockOpen
    /\ BlocksExact

\* A block starts in one line only: with only text since the marker in line
\* i, no other marker can have been the last one.
LEMMA OneOpening ==
    ASSUME NEW text \in Seq(Lines), NEW n \in 1..Len(text),
           NEW i \in 1..(n - 1), text[i].kind = "start",
           \A k \in i + 1 .. n - 1 : text[k].kind = "text",
           NEW h \in 1..(n - 1), IsBlock(text, h, n)
    PROVE  h = i
BY DEF IsBlock

\* Blocks that end before line n start before a marker in line i that has
\* only text behind it.
LEMMA EarlierBlocks ==
    ASSUME NEW text \in Seq(Lines), NEW n \in 1..Len(text),
           NEW i \in 1..(n - 1), text[i].kind = "start",
           \A k \in i + 1 .. n - 1 : text[k].kind = "text",
           NEW h \in FileBlocksBy(text, n - 1)
    PROVE  h < i
<1>1. h \in 1..Len(text)
  BY DEF FileBlocksBy
<1>2. PICK j \in h + 1 .. n - 1 : IsBlock(text, h, j)
  BY DEF FileBlocksBy
<1>3. j \notin i + 1 .. n - 1 /\ j # i
  BY <1>2 DEF IsBlock
<1>4. QED
  BY <1>1, <1>2, <1>3

\* One more file block, which starts behind all others, is one more operation.
LEMMA OneMoreBlock ==
    ASSUME NEW patches \in Seq(Patches), NEW text \in Seq(Lines), NEW S \in SUBSET (1..Len(text)),
           NEW i \in 1..Len(text), NEW op \in Patches,
           AreBlocksAt(patches, text, S), IsFileBlock(text, i, op),
           \A s \in S : s < i
    PROVE  AreBlocksAt(Append(patches, op), text, S \cup {i})
<1> DEFINE n == Len(patches)
           more == Append(patches, op)
<1>1. PICK at \in [1..n -> S] :
          /\ \A s \in S : \E k \in 1..n : at[k] = s
          /\ \A k, l \in 1..n : k < l => at[k] < at[l]
          /\ \A k \in 1..n : IsFileBlock(text, at[k], patches[k])
  BY DEF AreBlocksAt
<1> DEFINE then == [k \in 1..(n + 1) |-> IF k = n + 1 THEN i ELSE at[k]]
<1>2. /\ n \in Nat /\ Len(more) = n + 1 /\ more[n + 1] = op
      /\ \A k \in 1..n : more[k] = patches[k]
  BY AppendProperties
<1>3. then \in [1..(n + 1) -> S \cup {i}]
  BY <1>1, <1>2
<1>4. ASSUME NEW s \in S \cup {i} PROVE \E k \in 1..(n + 1) : then[k] = s
  <2>1. CASE s = i
    BY <2>1, <1>2
  <2>2. CASE s \in S /\ s # i
    BY <2>2, <1>1, <1>2
  <2>3. QED
    BY <2>1, <2>2
<1>5. ASSUME NEW k \in 1..(n + 1), NEW l \in 1..(n + 1), k < l
      PROVE  then[k] < then[l]
  <2>1. k \in 1..n /\ then[k] = at[k] /\ at[k] \in S
    BY SMTT(30), <1>1, <1>2, <1>5
  <2>2. CASE l = n + 1
    BY <2>1, <2>2, <1>2
  <2>3. CASE l \in 1..n
    BY <2>1, <2>3, <1>1, <1>2, <1>5
  <2>4. QED
    BY <2>2, <2>3, <1>2
<1>6. ASSUME NEW k \in 1..(n + 1) PROVE IsFileBlock(text, then[k], more[k])
  <2>1. CASE k = n + 1
    BY <2>1, <1>2
  <2>2. CASE k \in 1..n
    BY <2>2, <1>1, <1>2
  <2>3. QED
    BY <2>1, <2>2, <1>2
<1> HIDE DEF then, more
<1>7. \E f \in [1..Len(more) -> S \cup {i}] :
          /\ \A s \in S \cup {i} : \E k \in 1..Len(more) : f[k] = s
          /\ \A k, l \in 1..Len(more) : k < l => f[k] < f[l]
          /\ \A k \in 1..Len(more) : IsFileBlock(text, f[k], more[k])
  BY <1>2, <1>3, <1>4, <1>5, <1>6
<1>8. QED
  BY <1>7 DEF AreBlocksAt, more
\* Nothing is parsed and no block is open at the start of a text.
LEMMA NothingRead ==
    ASSUME NEW text \in Seq(Lines)
    PROVE  AreBlocksAt(<<>>, text, FileBlocksBy(text, 0))
<1>1. FileBlocksBy(text, 0) = {}
  BY DEF FileBlocksBy
<1>2. Len(<<>>) = 0 /\ 1..0 = {}
  OBVIOUS
<1>3. \E at \in [1..0 -> {}] : TRUE
  <2>1. [k \in 1..0 |-> 0] \in [1..0 -> {}]
    BY <1>2
  <2>2. QED
    BY <2>1
<1>4. QED
  BY <1>1, <1>2, <1>3 DEF AreBlocksAt

\* A line that closes no block adds none.
LEMMA NoMoreBlocks ==
    ASSUME NEW text \in Seq(Lines), NEW n \in 1..Len(text),
           \A i \in 1..Len(text) : i < n => ~IsBlock(text, i, n)
    PROVE  FileBlocksBy(text, n) = FileBlocksBy(text, n - 1)
<1>1. ASSUME NEW i \in 1..Len(text), NEW j \in i + 1 .. n, IsBlock(text, i, j)
      PROVE  j \in i + 1 .. n - 1
  <2>1. j # n
    BY <1>1
  <2>2. QED
    BY <2>1
<1>2. ASSUME NEW i \in 1..Len(text), NEW j \in i + 1 .. n - 1
      PROVE  j \in i + 1 .. n
  OBVIOUS
<1>3. QED
  BY <1>1, <1>2 DEF FileBlocksBy

\* It holds at the start.
LEMMA BlocksInit ==
    ASSUME Init
    PROVE  BlocksSoFar
BY DEF Init, BlocksSoFar, BlocksExact, Parsed

\* The start marker opens its block.
LEMMA OpenBlockKeeps ==
    ASSUME TypeOK, BlocksSoFar, OpenBlock
    PROVE  BlocksSoFar'
<1> USE DEF OpenBlock, Reading, Advance, callVars, Line
<1>1. /\ next \in 1..Len(output) /\ output[next].kind = "start" /\ output \in Seq(Lines)
      /\ pc = "parse" /\ pc' = "parse"
  BY DEF TypeOK
<1>2. FileBlocksBy(output, next) = FileBlocksBy(output, next - 1)
  BY <1>1, NoMoreBlocks DEF IsBlock
<1>3. AreBlocksAt(ops, output, FileBlocksBy(output, next - 1))
  BY <1>1 DEF BlocksSoFar
<1>4. next' - 1 = next
  BY <1>1
<1>5. PICK i \in 1..Len(output) : i = next
  BY <1>1
<1>6. BlockOpen'
  <2>1. OpenAt(i)'
    BY <1>1, <1>4, <1>5, SubSeqEmpty DEF OpenAt, NoLines
  <2>2. i \in 1..(next' - 1)
    BY <1>1, <1>4, <1>5
  <2>3. QED
    BY <2>1, <2>2 DEF BlockOpen
<1>7. QED
  BY <1>1, <1>2, <1>3, <1>4, <1>6 DEF BlocksSoFar, BlocksExact, Parsed

\* The end marker turns the open block into an operation if it has a path.
LEMMA CloseBlockKeeps ==
    ASSUME TypeOK, BlocksSoFar, CloseBlock
    PROVE  BlocksSoFar'
<1> USE DEF CloseBlock, Reading, Advance, callVars
<1>1. /\ next \in 1..Len(output) /\ output[next].kind = "end" /\ output \in Seq(Lines)
      /\ pc = "parse" /\ pc' = "parse" /\ output' = output
      /\ currentPath \in Paths \cup {NoPath} /\ currentContent \in Seq(Lines)
      /\ ops \in Seq(Patches)
  BY DEF TypeOK
<1>2. PICK i \in 1..(next - 1) : OpenAt(i)
  BY <1>1 DEF BlocksSoFar, BlockOpen
<1>3. /\ output[i].kind = "start" /\ output[i].path = currentPath
      /\ \A k \in i + 1 .. next - 1 : output[k].kind = "text"
      /\ currentContent = SubSeq(output, i + 1, next - 1)
  BY <1>2 DEF OpenAt
<1>4. IsBlock(output, i, next) /\ i \in 1..Len(output) /\ next \in i + 1 .. next
  BY <1>1, <1>2, <1>3 DEF IsBlock
<1>5. ASSUME NEW h \in 1..Len(output), NEW j \in h + 1 .. next, IsBlock(output, h, j)
      PROVE  h = i \/ j \in h + 1 .. next - 1
  <2>1. CASE j = next
    <3>1. h \in 1..(next - 1)
      BY <1>1, <2>1
    <3>2. QED
      BY <1>1, <1>2, <1>3, <1>5, <2>1, <3>1, OneOpening
  <2>2. CASE j # next
    BY <1>1, <2>2
  <2>3. QED
    BY <2>1, <2>2
<1>6. FileBlocksBy(output, next) =
          FileBlocksBy(output, next - 1) \cup (IF currentPath # NoPath THEN {i} ELSE {})
  <2>1. ASSUME NEW h \in 1..Len(output)
        PROVE  h \in FileBlocksBy(output, next) <=>
                  h \in FileBlocksBy(output, next - 1) \/ (h = i /\ currentPath # NoPath)
    <3>1. CASE h = i
      <4>1. i \notin FileBlocksBy(output, next - 1)
        <5>1. SUFFICES ASSUME i \in FileBlocksBy(output, next - 1) PROVE FALSE
          OBVIOUS
        <5>2. i < i
          BY <1>1, <1>2, <1>3, <5>1, EarlierBlocks
        <5>3. QED
          BY <1>2, <5>2
      <4>2. QED
        BY <1>3, <1>4, <3>1, <4>1 DEF FileBlocksBy
    <3>2. CASE h # i
      <4>1. \A j \in h + 1 .. next : IsBlock(output, h, j) => j \in h + 1 .. next - 1
        BY <1>5, <3>2
      <4>2. \A j \in h + 1 .. next - 1 : j \in h + 1 .. next
        BY <1>1
      <4>3. QED
        BY <3>2, <4>1, <4>2 DEF FileBlocksBy
    <3>3. QED
      BY <3>1, <3>2
  <2>2. /\ FileBlocksBy(output, next) \subseteq 1..Len(output)
        /\ FileBlocksBy(output, next - 1) \subseteq 1..Len(output)
    BY DEF FileBlocksBy
  <2>3. QED
    BY <1>4, <2>1, <2>2
<1>7. AreBlocksAt(ops, output, FileBlocksBy(output, next - 1))
  BY <1>1 DEF BlocksSoFar
<1>8. AreBlocksAt(ops', output, FileBlocksBy(output, next))
  <2>1. CASE currentPath = NoPath
    BY <1>6, <1>7, <2>1
  <2>2. CASE currentPath # NoPath
    <3> DEFINE op == WriteFile(currentPath, currentContent)
    <3>1. op \in Patches /\ ops' = Append(ops, op)
      BY <1>1, <2>2 DEF WriteFile, Patches
    <3>2. IsFileBlock(output, i, op)
      <4>1. op.path = currentPath /\ op.content = currentContent
        BY DEF WriteFile
      <4>2. next \in i + 1 .. Len(output)
        BY <1>1, <1>4
      <4>3. QED
        BY <1>3, <1>4, <4>1, <4>2 DEF IsFileBlock
    <3>3. \A h \in FileBlocksBy(output, next - 1) : h < i
      BY <1>1, <1>2, <1>3, EarlierBlocks
    <3>4. FileBlocksBy(output, next - 1) \in SUBSET (1..Len(output))
      BY DEF FileBlocksBy
    <3> HIDE DEF op
    <3>5. AreBlocksAt(Append(ops, op), output, FileBlocksBy(output, next - 1) \cup {i})
      BY <1>1, <1>4, <1>7, <3>1, <3>2, <3>3, <3>4, OneMoreBlock
    <3>6. QED
      BY <1>6, <2>2, <3>1, <3>5
  <2>3. QED
    BY <2>1, <2>2
<1>9. next' - 1 = next
  BY <1>1
<1>10. NoBlockOpen'
  <2>1. ASSUME NEW h \in 1..next, output[h].kind = "start"
        PROVE  \E k \in h + 1 .. next : output[k].kind # "text"
    BY <1>1, <2>1
  <2>2. QED
    BY <1>1, <1>9, <2>1 DEF NoBlockOpen
<1>11. QED
  BY <1>1, <1>8, <1>9, <1>10 DEF BlocksSoFar, BlocksExact, Parsed

\* A line of text belongs to the open block.
LEMMA KeepLineKeeps ==
    ASSUME TypeOK, BlocksSoFar, KeepLine
    PROVE  BlocksSoFar'
<1> USE DEF KeepLine, Reading, Advance, callVars, Line
<1>1. /\ next \in 1..Len(output) /\ output[next].kind = "text" /\ output \in Seq(Lines)
      /\ pc = "parse" /\ pc' = "parse" /\ output' = output /\ inBlock' = TRUE
      /\ output[next] \in Lines
  BY DEF TypeOK
<1>2. PICK i \in 1..(next - 1) : OpenAt(i)
  BY <1>1 DEF BlocksSoFar, BlockOpen
<1>3. FileBlocksBy(output, next) = FileBlocksBy(output, next - 1)
  BY <1>1, NoMoreBlocks DEF IsBlock
<1>4. AreBlocksAt(ops, output, FileBlocksBy(output, next - 1))
  BY <1>1 DEF BlocksSoFar
<1>5. next' - 1 = next
  BY <1>1
<1>6. Append(SubSeq(output, i + 1, next - 1), output[next]) = SubSeq(output, i + 1, next)
  BY <1>1, <1>2
<1>7. OpenAt(i)'
  <2>1. /\ output[i].kind = "start" /\ output[i].path = currentPath
        /\ \A k \in i + 1 .. next - 1 : output[k].kind = "text"
        /\ currentContent = SubSeq(output, i + 1, next - 1)
    BY <1>2 DEF OpenAt
  <2>2. \A k \in i + 1 .. next : output[k].kind = "text"
    BY <1>1, <2>1
  <2>3. currentContent' = SubSeq(output, i + 1, next)
    BY <1>6, <2>1
  <2>4. QED
    BY <1>1, <1>5, <2>1, <2>2, <2>3 DEF OpenAt
<1>8. BlockOpen'
  <2>1. i \in 1..(next' - 1)
    BY <1>1, <1>5
  <2>2. QED
    BY <1>7, <2>1 DEF BlockOpen
<1>9. QED
  BY <1>1, <1>3, <1>4, <1>5, <1>8 DEF BlocksSoFar, BlocksExact, Parsed

\* Lines outside a block, stray end markers among them, add nothing.
LEMMA SkipLineKeeps ==
    ASSUME TypeOK, BlocksSoFar, SkipLine
    PROVE  BlocksSoFar'
<1> USE DEF SkipLine, Reading, Advance, callVars, blockVars
<1>1. /\ next \in 1..Len(output) /\ output[next].kind # "start" /\ output \in Seq(Lines)
      /\ pc = "parse" /\ pc' = "parse" /\ output' = output /\ inBlock = FALSE
      /\ inBlock' = FALSE /\ ops' = ops
  BY DEF TypeOK
<1>2. NoBlockOpen
  BY <1>1 DEF BlocksSoFar
<1>3. FileBlocksBy(output, next) = FileBlocksBy(output, next - 1)
  <2>1. ASSUME NEW i \in 1..Len(output), i < next PROVE ~IsBlock(output, i, next)
    <3>1. i \in 1..(next - 1)
      BY <1>1, <2>1
    <3>2. QED
      BY <1>2, <3>1 DEF NoBlockOpen, IsBlock
  <2>2. QED
    BY <1>1, <2>1, NoMoreBlocks
<1>4. AreBlocksAt(ops, output, FileBlocksBy(output, next - 1))
  BY <1>1 DEF BlocksSoFar
<1>5. next' - 1 = next
  BY <1>1
<1>6. NoBlockOpen'
  <2>1. ASSUME NEW h \in 1..next, output[h].kind = "start"
        PROVE  \E k \in h + 1 .. next : output[k].kind # "text"
    <3>1. h \in 1..(next - 1)
      BY <1>1, <2>1
    <3>2. PICK k \in h + 1 .. next - 1 : output[k].kind # "text"
      BY <1>2, <2>1, <3>1 DEF NoBlockOpen
    <3>3. k \in h + 1 .. next
      BY <1>1, <3>2
    <3>4. QED
      BY <3>2, <3>3
  <2>2. QED
    BY <1>1, <1>5, <2>1 DEF NoBlockOpen
<1>7. QED
  BY <1>1, <1>3, <1>4, <1>5, <1>6 DEF BlocksSoFar, BlocksExact, Parsed

\* A driver that begins to parse a text.
LEMMA ParseKeeps ==
    ASSUME NEW text \in Seq(Lines), Parse(text)
    PROVE  BlocksSoFar'
<1>1. /\ output' = text /\ next' = 1 /\ inBlock' = FALSE /\ ops' = <<>> /\ pc' = "parse"
      /\ next' - 1 = 0
  BY DEF Parse
<1>2. AreBlocksAt(ops', output', FileBlocksBy(output', next' - 1))
  BY <1>1, NothingRead
<1>3. NoBlockOpen'
  BY <1>1 DEF NoBlockOpen
<1>4. QED
  BY <1>1, <1>2, <1>3 DEF BlocksSoFar, BlocksExact, Parsed

\* Every step keeps it.
LEMMA BlocksStep ==
    ASSUME TypeOK, BlocksSoFar, [Next]_vars
    PROVE  BlocksSoFar'
<1> USE DEF callVars, cliVars, blockVars, parserVars
<1>1. CASE StartCli \/ LaunchFails \/ CliExits \/ ExitRefused
  BY <1>1 DEF StartCli, LaunchFails, CliExits, ExitRefused, Fail, BlocksSoFar, BlocksExact, Parsed
<1>2. CASE PrintLine
  BY <1>2 DEF PrintLine, BlocksSoFar, BlocksExact, Parsed
<1>3. CASE MockExecutes \/ ClaudeAnswers
  BY <1>3 DEF MockExecutes, ClaudeAnswers, Called, BlocksSoFar, BlocksExact, Parsed, StdoutReaders
<1>4. CASE StdoutTaken
  BY <1>4, ParseKeeps DEF StdoutTaken, TypeOK
<1>5. CASE MessageTaken
  BY <1>5, ParseKeeps DEF MessageTaken, TypeOK
<1>6. CASE NoMessage
  BY <1>6, ParseKeeps DEF NoMessage, TypeOK
<1>7. CASE OpenBlock
  BY <1>7, OpenBlockKeeps
<1>8. CASE CloseBlock
  BY <1>8, CloseBlockKeeps
<1>9. CASE KeepLine
  BY <1>9, KeepLineKeeps
<1>10. CASE SkipLine
  BY <1>10, SkipLineKeeps
<1>11. CASE EndOfOutput
  <2>1. next - 1 = Len(output) /\ pc = "parse" /\ pc' = "answered"
    BY <1>11 DEF EndOfOutput, TypeOK
  <2>2. AreBlocksAt(ops, output, FileBlocks(output))
    BY <2>1 DEF BlocksSoFar, FileBlocks
  <2>3. ops' = ops /\ output' = output
    BY <1>11 DEF EndOfOutput
  <2>4. QED
    BY <2>1, <2>2, <2>3 DEF BlocksSoFar, BlocksExact
<1>12. CASE UNCHANGED vars
  BY <1>12 DEF vars, BlocksSoFar, BlocksExact, Parsed, BlockOpen, NoBlockOpen, OpenAt
<1>13. QED
  BY <1>1, <1>2, <1>3, <1>4, <1>5, <1>6, <1>7, <1>8, <1>9, <1>10, <1>11, <1>12 DEF Next

\* ParseFileBlocks returns just the file blocks of its text, in order.
THEOREM ParseExact == Spec => []BlocksExact
<1>1. Init => TypeOK /\ BlocksSoFar
  BY TypeInit, BlocksInit
<1>2. TypeOK /\ BlocksSoFar /\ [Next]_vars => TypeOK' /\ BlocksSoFar'
  BY TypeStep, BlocksStep
<1>3. BlocksSoFar => BlocksExact
  BY DEF BlocksSoFar
<1>4. QED
  BY <1>1, <1>2, <1>3, PTL DEF Spec

(***************************************************************************)
(* Output that was cut.                                                    *)
(***************************************************************************)

\* A text that was cut after m lines agrees with the whole up to there; what
\* may follow is no marker.
LEMMA CutAgrees ==
    ASSUME NEW whole \in Seq(Lines), NEW m \in 0..Len(whole), NEW cut \in CutAfter(whole, m)
    PROVE  /\ cut \in Seq(Lines) /\ Len(cut) \in {m, m + 1}
           /\ \A k \in 1..m : cut[k] = whole[k]
           /\ Len(cut) = m + 1 => cut[m + 1].kind = "text"
<1> DEFINE front == SubSeq(whole, 1, m)
<1>1. front \in Seq(Lines) /\ Len(front) = m /\ \A k \in 1..m : front[k] = whole[k]
  OBVIOUS
<1>2. CutLine \in Lines /\ CutLine.kind = "text"
  BY DEF CutLine, TextLine, Lines
<1>3. cut = front \/ cut = Append(front, CutLine)
  BY DEF CutAfter
<1> HIDE DEF front
<1>4. CASE cut = front
  BY <1>1, <1>4
<1>5. CASE cut = Append(front, CutLine)
  BY <1>1, <1>2, <1>5, AppendProperties
<1>6. QED
  BY <1>3, <1>4, <1>5

\* The blocks of the cut text are those of the whole that end before the cut.
LEMMA BlocksBeforeCut ==
    ASSUME NEW whole \in Seq(Lines), NEW m \in 0..Len(whole), NEW cut \in CutAfter(whole, m),
           NEW i \in 1..Len(cut), NEW j \in i + 1 .. Len(cut), IsBlock(cut, i, j)
    PROVE  /\ j <= m /\ IsBlock(whole, i, j)
           /\ SubSeq(cut, i + 1, j - 1) = SubSeq(whole, i + 1, j - 1)
<1>1. /\ cut \in Seq(Lines) /\ Len(cut) \in {m, m + 1}
      /\ \A k \in 1..m : cut[k] = whole[k]
      /\ Len(cut) = m + 1 => cut[m + 1].kind = "text"
  BY CutAgrees
<1>2. j <= m
  BY <1>1 DEF IsBlock
<1>3. \A k \in i..j : cut[k] = whole[k]
  BY <1>1, <1>2
<1>4. IsBlock(whole, i, j)
  BY <1>3 DEF IsBlock
<1>5. SubSeq(cut, i + 1, j - 1) = SubSeq(whole, i + 1, j - 1)
  BY <1>1, <1>2, <1>3
<1>6. QED
  BY <1>2, <1>4, <1>5

\* And the other way round.
LEMMA BlocksOfCut ==
    ASSUME NEW whole \in Seq(Lines), NEW m \in 0..Len(whole), NEW cut \in CutAfter(whole, m)
    PROVE  FileBlocks(cut) = FileBlocksBy(whole, m)
<1>1. /\ Len(cut) \in {m, m + 1} /\ \A k \in 1..m : cut[k] = whole[k]
  BY CutAgrees
<1>2. ASSUME NEW i \in FileBlocks(cut) PROVE i \in FileBlocksBy(whole, m)
  <2>1. i \in 1..Len(cut) /\ cut[i].path # NoPath
    BY DEF FileBlocks, FileBlocksBy
  <2>2. PICK j \in i + 1 .. Len(cut) : IsBlock(cut, i, j)
    BY DEF FileBlocks, FileBlocksBy
  <2>3. j <= m /\ IsBlock(whole, i, j)
    BY <2>1, <2>2, BlocksBeforeCut
  <2>4. i \in 1..m /\ j \in i + 1 .. m /\ i \in 1..Len(whole)
    BY <2>1, <2>2, <2>3, <1>1
  <2>5. QED
    BY <1>1, <2>1, <2>3, <2>4 DEF FileBlocksBy
<1>3. ASSUME NEW i \in FileBlocksBy(whole, m) PROVE i \in FileBlocks(cut)
  <2>1. i \in 1..Len(whole) /\ whole[i].path # NoPath
    BY DEF FileBlocksBy
  <2>2. PICK j \in i + 1 .. m : IsBlock(whole, i, j)
    BY DEF FileBlocksBy
  <2>3. \A k \in i..j : cut[k] = whole[k]
    BY <1>1, <2>1, <2>2
  <2>4. IsBlock(cut, i, j)
    BY <2>1, <2>2, <2>3 DEF IsBlock
  <2>5. i \in 1..Len(cut) /\ j \in i + 1 .. Len(cut) /\ cut[i] = whole[i]
    BY <1>1, <2>1, <2>2
  <2>6. QED
    BY <2>1, <2>4, <2>5 DEF FileBlocks, FileBlocksBy
<1>4. \A i : i \in FileBlocks(cut) <=> i \in FileBlocksBy(whole, m)
  BY <1>2, <1>3
<1>5. FileBlocks(cut) \subseteq Nat /\ FileBlocksBy(whole, m) \subseteq Nat
  BY DEF FileBlocks, FileBlocksBy
<1>6. QED
  BY <1>4, <1>5

\* Blocks do not overlap, so that those which end by line m are the first
\* ones of the text.
LEMMA FirstBlocks ==
    ASSUME NEW whole \in Seq(Lines), NEW m \in 0..Len(whole)
    PROVE  \E n \in 0..Len(whole) : FileBlocksBy(whole, m) = {i \in FileBlocks(whole) : i <= n}
<1>1. FileBlocksBy(whole, m) \subseteq FileBlocks(whole)
  <2>1. \A i \in 1..Len(whole) : \A j \in i + 1 .. m : j \in i + 1 .. Len(whole)
    OBVIOUS
  <2>2. QED
    BY <2>1 DEF FileBlocks, FileBlocksBy
<1>2. CASE \A b \in 1..m, e \in m + 1 .. Len(whole) : ~IsBlock(whole, b, e)
  <2>1. ASSUME NEW h \in FileBlocks(whole), h <= m PROVE h \in FileBlocksBy(whole, m)
    <3>1. h \in 1..Len(whole) /\ whole[h].path # NoPath
      BY DEF FileBlocks, FileBlocksBy
    <3>2. PICK j \in h + 1 .. Len(whole) : IsBlock(whole, h, j)
      BY DEF FileBlocks, FileBlocksBy
    <3>3. j \notin m + 1 .. Len(whole)
      BY <1>2, <2>1, <3>1, <3>2
    <3>4. j \in h + 1 .. m
      BY <3>1, <3>2, <3>3
    <3>5. QED
      BY <3>1, <3>2, <3>4 DEF FileBlocksBy
  <2>2. ASSUME NEW h \in FileBlocksBy(whole, m) PROVE h <= m
    BY DEF FileBlocksBy
  <2>3. FileBlocksBy(whole, m) = {i \in FileBlocks(whole) : i <= m}
    BY <1>1, <2>1, <2>2
  <2>4. QED
    BY <2>3
<1>3. CASE \E b \in 1..m, e \in m + 1 .. Len(whole) : IsBlock(whole, b, e)
  <2>1. PICK i \in 1..m : \E e \in m + 1 .. Len(whole) : IsBlock(whole, i, e)
    BY <1>3
  <2>2. PICK e \in m + 1 .. Len(whole) : IsBlock(whole, i, e)
    BY <2>1
  <2>3. /\ whole[i].kind = "start" /\ \A k \in i + 1 .. e - 1 : whole[k].kind = "text"
    BY <2>2 DEF IsBlock
  <2>4. ASSUME NEW h \in FileBlocks(whole), h <= i - 1 PROVE h \in FileBlocksBy(whole, m)
    <3>1. h \in 1..Len(whole) /\ whole[h].path # NoPath
      BY DEF FileBlocks, FileBlocksBy
    <3>2. PICK j \in h + 1 .. Len(whole) : IsBlock(whole, h, j)
      BY DEF FileBlocks, FileBlocksBy
    <3>3. i \notin h + 1 .. j - 1
      BY <2>3, <3>2 DEF IsBlock
    <3>4. j \in h + 1 .. m
      BY <2>1, <2>4, <3>1, <3>2, <3>3
    <3>5. QED
      BY <3>1, <3>2, <3>4 DEF FileBlocksBy
  <2>5. ASSUME NEW h \in FileBlocksBy(whole, m) PROVE h <= i - 1
    <3>1. h \in 1..Len(whole)
      BY DEF FileBlocksBy
    <3>2. PICK j \in h + 1 .. m : IsBlock(whole, h, j)
      BY DEF FileBlocksBy
    <3>3. whole[h].kind = "start" /\ whole[j].kind = "end"
      BY <3>2 DEF IsBlock
    <3>4. h \notin i + 1 .. e - 1 /\ j \notin i + 1 .. e - 1
      BY <2>3, <3>3
    <3>5. QED
      BY <2>1, <2>2, <3>1, <3>2, <3>4
  <2>6. FileBlocksBy(whole, m) = {h \in FileBlocks(whole) : h <= i - 1}
    BY <1>1, <2>4, <2>5
  <2>7. i - 1 \in 0..Len(whole)
    BY <2>1
  <2>8. QED
    BY <2>6, <2>7
<1>4. QED
  BY <1>2, <1>3

\* The operations of a text that was cut are the first ones of the whole.
LEMMA CutYieldsFirst ==
    ASSUME NEW whole \in Seq(Lines), NEW cut \in CutsOf(whole), NEW patches \in Seq(Patches),
           AreBlocksAt(patches, cut, FileBlocks(cut))
    PROVE  AreFirstBlocks(patches, whole)
<1>1. PICK m \in 0..Len(whole) : cut \in CutAfter(whole, m)
  BY DEF CutsOf
<1>2. PICK n \in 0..Len(whole) : FileBlocksBy(whole, m) = {i \in FileBlocks(whole) : i <= n}
  BY FirstBlocks
<1>3. PICK starts : starts = FileBlocks(cut)
  OBVIOUS
<1>4. starts = {i \in FileBlocks(whole) : i <= n} /\ starts \subseteq 1..Len(cut)
  BY <1>1, <1>2, <1>3, BlocksOfCut DEF FileBlocks, FileBlocksBy
<1>5. PICK at \in [1..Len(patches) -> starts] :
          /\ \A s \in starts : \E k \in 1..Len(patches) : at[k] = s
          /\ \A k, l \in 1..Len(patches) : k < l => at[k] < at[l]
          /\ \A k \in 1..Len(patches) : IsFileBlock(cut, at[k], patches[k])
  BY <1>3 DEF AreBlocksAt
<1>6. ASSUME NEW k \in 1..Len(patches) PROVE IsFileBlock(whole, at[k], patches[k])
  <2>1. PICK i \in 1..Len(cut) : i = at[k]
    BY <1>4, <1>5
  <2>2. cut[i].path = patches[k].path
    BY <1>5, <2>1 DEF IsFileBlock
  <2>3. PICK j \in i + 1 .. Len(cut) :
            IsBlock(cut, i, j) /\ patches[k].content = SubSeq(cut, i + 1, j - 1)
    BY <1>5, <2>1 DEF IsFileBlock
  <2>4. j <= m /\ IsBlock(whole, i, j) /\ SubSeq(cut, i + 1, j - 1) = SubSeq(whole, i + 1, j - 1)
    BY <1>1, <2>3, BlocksBeforeCut
  <2>5. cut[i] = whole[i] /\ j \in i + 1 .. Len(whole)
    BY <1>1, <2>3, <2>4, CutAgrees
  <2>6. QED
    BY <2>1, <2>2, <2>3, <2>4, <2>5 DEF IsFileBlock
<1>7. AreBlocksAt(patches, whole, starts)
  BY <1>5, <1>6 DEF AreBlocksAt
<1>8. QED
  BY <1>4, <1>7 DEF AreFirstBlocks

\* Output that was cut anywhere yields the first operations of the answer the
\* program set out to print, and no others.
THEOREM NothingInvented == Spec => []CutNeverInvents
<1>1. Init => TypeOK /\ FreshSoFar /\ BlocksSoFar
  BY TypeInit, FreshInit, BlocksInit
<1>2. TypeOK /\ FreshSoFar /\ BlocksSoFar /\ [Next]_vars => TypeOK' /\ FreshSoFar' /\ BlocksSoFar'
  BY TypeStep, FreshStep, BlocksStep
<1>3. TypeOK /\ FreshSoFar /\ BlocksSoFar => CutNeverInvents
  <2>1. ASSUME TypeOK, FreshSoFar, BlocksSoFar, Parsed, ~leftover
        PROVE  AreFirstBlocks(ops, answer)
    <3>1. answer \in Seq(Lines) /\ ops \in Seq(Patches)
      BY <2>1 DEF TypeOK
    <3>2. output \in CutsOf(answer)
      BY <2>1 DEF FreshSoFar
    <3>3. AreBlocksAt(ops, output, FileBlocks(output))
      BY <2>1 DEF BlocksSoFar, BlocksExact
    <3>4. QED
      BY <3>1, <3>2, <3>3, CutYieldsFirst
  <2>2. QED
    BY <2>1 DEF CutNeverInvents
<1>4. QED
  BY <1>1, <1>2, <1>3, PTL DEF Spec

(***************************************************************************)
(* The contract of an answer.                                              *)
(***************************************************************************)

Printable == UNION {CutsOf(whole) : whole \in Answers}

\* What a driver holds is of something a program may print, a message file of
\* an earlier call included.
PrintedSoFar ==
    /\ message \in Printable \cup {NoFile}
    /\ pc \in {"running", "exited", "parse"} => answer \in Answers /\ backend # "mock"
    /\ pc = "exited" => stdout \in CutsOf(answer)
    /\ pc = "parse" => output \in Printable

\* It holds at the start.
LEMMA PrintedInit ==
    ASSUME Init
    PROVE  PrintedSoFar
BY DEF Init, PrintedSoFar

\* What is printed of an answer is printable.
LEMMA CutIsPrintable ==
    ASSUME NEW whole \in Answers, NEW cut \in CutsOf(whole)
    PROVE  cut \in Printable
BY DEF Printable

\* Every step keeps it.
LEMMA PrintedStep ==
    ASSUME TypeOK, PrintedSoFar, [Next]_vars
    PROVE  PrintedSoFar'
<1> USE DEF PrintedSoFar, callVars, cliVars, blockVars, parserVars
<1>1. CASE StartCli
  BY <1>1 DEF StartCli, Called
<1>2. CASE LaunchFails \/ MockExecutes \/ PrintLine \/ ExitRefused \/ ClaudeAnswers \/ EndOfOutput
  BY <1>2 DEF LaunchFails, MockExecutes, PrintLine, ExitRefused, ClaudeAnswers, EndOfOutput, Fail
<1>3. CASE CliExits
  <2>1. Len(stdout) \in 0..Len(answer) /\ answer \in Answers
    BY <1>3, TextLines DEF CliExits, TypeOK
  <2>2. stdout' \in CutsOf(answer)
    BY <1>3, <2>1 DEF CliExits, CutsOf
  <2>3. message' = message \/ message' \in CutsOf(answer)
    BY <1>3 DEF CliExits
  <2>4. message' \in Printable \cup {NoFile}
    BY <2>1, <2>3, CutIsPrintable
  <2>5. QED
    BY <1>3, <2>2, <2>4 DEF CliExits
<1>4. CASE StdoutTaken \/ NoMessage
  <2>1. stdout \in Printable
    BY <1>4, CutIsPrintable DEF StdoutTaken, NoMessage
  <2>2. QED
    BY <1>4, <2>1 DEF StdoutTaken, NoMessage, Parse
<1>5. CASE MessageTaken
  BY <1>5 DEF MessageTaken, Parse
<1>6. CASE OpenBlock \/ CloseBlock \/ KeepLine \/ SkipLine
  BY <1>6 DEF OpenBlock, CloseBlock, KeepLine, SkipLine, Reading, Advance
<1>7. CASE UNCHANGED vars
  BY <1>7 DEF vars
<1>8. QED
  BY <1>1, <1>2, <1>3, <1>4, <1>5, <1>6, <1>7 DEF Next

\* The contract speaks of the same blocks.
LEMMA SameBlocks ==
    \A patches, text : Contract!AreFirstBlocks(patches, text) <=> AreFirstBlocks(patches, text)
<1>1. \A text, i, j : Contract!IsBlock(text, i, j) <=> IsBlock(text, i, j)
  BY DEF IsBlock, Contract!IsBlock
<1>2. \A text : Contract!FileBlocks(text) = FileBlocks(text)
  BY <1>1 DEF FileBlocks, Contract!FileBlocks, FileBlocksBy, Contract!FileBlocksBy
<1>3. \A text, i, op : Contract!IsFileBlock(text, i, op) <=> IsFileBlock(text, i, op)
  BY <1>1 DEF IsFileBlock, Contract!IsFileBlock
<1>4. \A patches, text, starts :
         Contract!AreBlocksAt(patches, text, starts) <=> AreBlocksAt(patches, text, starts)
  BY <1>3 DEF AreBlocksAt, Contract!AreBlocksAt
<1>5. QED
  BY <1>2, <1>4 DEF AreFirstBlocks, Contract!AreFirstBlocks

\* No operations are the first blocks of any text.
LEMMA NoneAreFirst ==
    ASSUME NEW text \in Seq(Lines)
    PROVE  AreFirstBlocks(<<>>, text)
<1>1. AreBlocksAt(<<>>, text, FileBlocksBy(text, 0))
  BY NothingRead
<1>2. FileBlocksBy(text, 0) = {} /\ {i \in FileBlocks(text) : i <= 0} = {}
  BY DEF FileBlocks, FileBlocksBy
<1>3. 0 \in 0..Len(text)
  OBVIOUS
<1>4. QED
  BY <1>1, <1>2, <1>3, Zenon DEF AreFirstBlocks

\* What the parser has found at the end of a text are the first files of an
\* answer, of this call's answer unless that is in doubt.
LEMMA EndYieldsAnswer ==
    ASSUME TypeOK, FreshSoFar, BlocksSoFar, PrintedSoFar, EndOfOutput
    PROVE  \E whole \in (IF leftover THEN Answers ELSE {answer}) : AreFirstBlocks(ops, whole)
<1>1. pc = "parse" /\ next - 1 = Len(output)
  BY DEF EndOfOutput, TypeOK
<1>2. AreBlocksAt(ops, output, FileBlocks(output))
  BY <1>1 DEF BlocksSoFar, FileBlocks
<1>3. PICK whole \in (IF leftover THEN Answers ELSE {answer}) : output \in CutsOf(whole)
  <2>1. CASE leftover
    BY <1>1, <2>1 DEF PrintedSoFar, Printable
  <2>2. CASE ~leftover
    BY <1>1, <2>2 DEF FreshSoFar
  <2>3. QED
    BY <2>1, <2>2
<1>4. whole \in Seq(Lines) /\ ops \in Seq(Patches)
  BY CliBackendAssumption DEF TypeOK
<1>5. AreFirstBlocks(ops, whole)
  BY <1>2, <1>3, <1>4, CutYieldsFirst
<1>6. QED
  BY <1>5

\* At the start nothing was asked.
LEMMA ContractInit == Init => Contract!Init
<1> SUFFICES ASSUME Init PROVE Contract!Init
  OBVIOUS
<1>1. /\ pc = "ready" /\ calls = 0 /\ leftover = FALSE /\ answer = <<>>
      /\ (backend # "mock") \in BOOLEAN
  BY DEF Init, NoLines
<1>2. Status = "ready" /\ Returned = <<>>
  BY <1>1 DEF Status, Returned
<1>3. QED
  BY <1>1, <1>2, Zenon DEF Contract!Init, Contract!NoPatch

\* Every step is one of the contract, or nothing that a build sees.
LEMMA ContractStep ==
    ASSUME TypeOK, FreshSoFar, BlocksSoFar, PrintedSoFar, [Next]_vars
    PROVE  [Contract!Next]_(Contract!vars)
<1> USE DEF callVars, cliVars, blockVars, parserVars
<1>1. ASSUME UNCHANGED <<callVars, leftover>>, pc \in {"running", "exited", "parse"},
             pc' \in {"running", "exited", "parse"}
      PROVE  UNCHANGED Contract!vars
  BY <1>1 DEF Contract!vars, Status, Returned
<1>2. CASE UNCHANGED vars
  BY <1>2 DEF vars, Contract!vars, Status, Returned
<1>3. CASE PrintLine \/ CliExits \/ StdoutTaken
  BY <1>1, <1>3 DEF PrintLine, CliExits, StdoutTaken, Parse
<1>4. CASE OpenBlock \/ CloseBlock \/ KeepLine \/ SkipLine
  BY <1>1, <1>4 DEF OpenBlock, CloseBlock, KeepLine, SkipLine, Reading, Advance
<1>5. CASE MessageTaken \/ NoMessage
  <2>1. CASE leftover' = leftover
    BY <1>1, <1>5, <2>1 DEF MessageTaken, NoMessage, Parse
  <2>2. CASE leftover' # leftover
    <3>1. leftover' = TRUE /\ UNCHANGED callVars /\ pc = "exited" /\ pc' = "parse"
      BY <1>5, <2>2 DEF MessageTaken, NoMessage, Parse
    <3>2. Status = "busy" /\ Status' = "busy" /\ Returned = <<>> /\ Returned' = <<>>
      BY <3>1 DEF Status, Returned
    <3>3. Contract!Doubt
      BY <3>1, <3>2, Zenon DEF Contract!Doubt
    <3>4. QED
      BY <3>3 DEF Contract!Next
  <2>3. QED
    BY <2>1, <2>2
<1>6. ASSUME Called
      PROVE  Contract!Called
  BY <1>6 DEF Called, Contract!Called, Status
<1>7. CASE StartCli
  <2>1. /\ Called /\ backend # "mock" /\ backend' = backend /\ answer' \in Answers
        /\ leftover' = leftover /\ pc' = "running"
    BY <1>7 DEF StartCli
  <2>2. Status' = "busy" /\ Returned' = <<>>
    BY <2>1 DEF Status, Returned
  <2>3. Contract!Ask
    BY <1>6, <2>1, <2>2, Zenon DEF Contract!Ask, Contract!NoPatch
  <2>4. QED
    BY <2>3 DEF Contract!Next
<1>8. CASE MockExecutes
  <2>1. /\ Called /\ backend = "mock" /\ backend' = backend /\ answer' = answer
        /\ leftover' = leftover /\ pc' = "answered" /\ ops' = MockPatch
    BY <1>8 DEF MockExecutes
  <2>2. Status' = "answered" /\ Returned' = MockPatch
    BY <2>1 DEF Status, Returned
  <2>3. Contract!AnswerAtOnce
    BY <1>6, <2>1, <2>2, Zenon DEF Contract!AnswerAtOnce
  <2>4. QED
    BY <2>3 DEF Contract!Next
<1>9. CASE LaunchFails \/ ExitRefused
  <2>1. /\ backend # "mock" /\ backend' = backend /\ answer' = answer /\ leftover' = leftover
        /\ pc' = "failed"
        /\ \/ Called
           \/ pc = "exited" /\ UNCHANGED calls
    BY <1>9 DEF LaunchFails, ExitRefused, Fail
  <2>2. Status' = "failed" /\ Returned' = <<>>
    BY <2>1 DEF Status, Returned
  <2>3. \/ Contract!Called
        \/ Status = "busy" /\ UNCHANGED calls
    BY <1>6, <2>1 DEF Status
  <2>4. Contract!Fail
    BY <2>1, <2>2, <2>3, Zenon DEF Contract!Fail, Contract!NoPatch
  <2>5. QED
    BY <2>4 DEF Contract!Next
<1>10. CASE ClaudeAnswers \/ EndOfOutput
  <2>1. UNCHANGED <<callVars, leftover>> /\ pc \in {"exited", "parse"} /\ pc' = "answered"
    BY <1>10 DEF ClaudeAnswers, EndOfOutput
  <2>2. Status = "busy" /\ Status' = "answered" /\ Returned' = ops'
    BY <2>1 DEF Status, Returned
  <2>3. \E whole \in (IF leftover THEN Answers ELSE {answer}) : AreFirstBlocks(ops', whole)
    <3>1. CASE ClaudeAnswers
      <4>1. ops' = <<>> /\ answer \in Answers /\ answer \in Seq(Lines)
        BY <3>1 DEF ClaudeAnswers, PrintedSoFar, TypeOK
      <4>2. AreFirstBlocks(ops', answer)
        BY <4>1, NoneAreFirst
      <4>3. QED
        BY <4>1, <4>2
    <3>2. CASE EndOfOutput
      BY <3>2, EndYieldsAnswer DEF EndOfOutput
    <3>3. QED
      BY <1>10, <3>1, <3>2
  <2>4. \E whole \in Contract!Sources : Contract!AreFirstBlocks(Returned', whole)
    BY <2>2, <2>3, SameBlocks DEF Contract!Sources
  <2>5. Contract!Answer
    BY <2>1, <2>2, <2>4, Zenon DEF Contract!Answer
  <2>6. QED
    BY <2>5 DEF Contract!Next
<1>11. QED
  BY <1>2, <1>3, <1>4, <1>5, <1>7, <1>8, <1>9, <1>10 DEF Next

\* Every driver, whatever its program prints and wherever it stops, keeps the
\* contract that a build relies on.
THEOREM ContractKept == Spec => KeepsContract
<1> DEFINE Inv == TypeOK /\ FreshSoFar /\ BlocksSoFar /\ PrintedSoFar
<1>1. Init => Inv
  BY TypeInit, FreshInit, BlocksInit, PrintedInit
<1>2. Inv /\ [Next]_vars => Inv'
  BY TypeStep, FreshStep, BlocksStep, PrintedStep
<1>3. Inv /\ [Next]_vars => [Contract!Next]_(Contract!vars)
  BY ContractStep
<1>4. QED
  BY <1>1, <1>2, <1>3, ContractInit, PTL DEF Spec, KeepsContract, Contract!Spec
=============================================================================
