---------------------------- MODULE MCCliBackend ----------------------------
(***************************************************************************)
(* Two paths and two other lines, every answer of up to three lines, and   *)
(* two longer ones: two files with text around them, and blocks broken by  *)
(* markers in the wrong places.                                            *)
(***************************************************************************)
EXTENDS CliBackend, SequencesExt

CONSTANTS fileA, fileB, code, generated

MCPaths == {fileA, fileB}
MCTexts == {code, generated}

\* Paths and texts are told apart by where they come from, so a short answer
\* needs one of each only.
MCShort == BoundedSeq({StartLine(fileA), StartLine(NoPath), EndLine, TextLine(code)}, 3)
MCLong ==
    {<<StartLine(fileA), TextLine(code), EndLine, TextLine(code), StartLine(fileB),
       TextLine(code), TextLine(generated), EndLine>>,
     <<EndLine, StartLine(fileA), TextLine(code), StartLine(fileB), TextLine(generated),
       EndLine, TextLine(code), EndLine, StartLine(fileA), EndLine>>}
MCAnswers == MCShort \cup MCLong

MCMockPatch == <<WriteFile(fileA, <<TextLine(generated)>>)>>
=============================================================================
