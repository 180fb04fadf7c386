------------------------------- MODULE Blocks -------------------------------
(***************************************************************************)
(* The file blocks of a text, as data: what the operations are that        *)
(* ParseFileBlocks (internal/backend/core) has to find in it, said without *)
(* the parser.  A text is a sequence of lines, each a start marker with a  *)
(* path, an end marker or text.                                            *)
(***************************************************************************)
EXTENDS Naturals, Sequences

CONSTANT NoPath   \* the empty path, of a start marker that names none

\* A block of the text: a start marker in line i, an end marker in line j and
\* only text between them.
IsBlock(text, i, j) ==
    /\ text[i].kind = "start" /\ text[j].kind = "end"
    /\ \A k \in i + 1 .. j - 1 : text[k].kind = "text"

\* The first lines of the blocks that name a path and end by line n.
FileBlocksBy(text, n) ==
    {i \in 1..Len(text) :
        (\E j \in i + 1 .. n : IsBlock(text, i, j)) /\ text[i].path # NoPath}
FileBlocks(text) == FileBlocksBy(text, Len(text))

IsFileBlock(text, i, op) ==
    /\ text[i].path = op.path
    /\ \E j \in i + 1 .. Len(text) :
           IsBlock(text, i, j) /\ op.content = SubSeq(text, i + 1, j - 1)

\* The operations are the file blocks of the text that start in the given
\* lines, each once, in the order of the text.
AreBlocksAt(patches, text, starts) ==
    \E at \in [1..Len(patches) -> starts] :
        /\ \A s \in starts : \E k \in 1..Len(patches) : at[k] = s
        /\ \A k, l \in 1..Len(patches) : k < l => at[k] < at[l]
        /\ \A k \in 1..Len(patches) : IsFileBlock(text, at[k], patches[k])

\* They are the first file blocks of the text, all of them or not.
AreFirstBlocks(patches, text) ==
    \E n \in 0..Len(text) : AreBlocksAt(patches, text, {i \in FileBlocks(text) : i <= n})
=============================================================================
