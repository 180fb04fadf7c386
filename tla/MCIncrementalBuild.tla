------------------------- MODULE MCIncrementalBuild -------------------------
(***************************************************************************)
(* Three specifications: top imports middle and middle imports base.  Each *)
(* has two good texts; other texts drop the import, close a cycle, name an *)
(* unknown specification, claim the file of another or do not parse.       *)
(***************************************************************************)
EXTENDS IncrementalBuild

CONSTANTS base, middle, top, unknown,
          base1, base2, baseCyclic, middle1, middle2, middleUnknown, baseGreedy, top1, top2,
          topAlone, broken, fileA, fileB, fileC

MCSpecs == {base, middle, top}
MCImports ==
    [t \in {base1, base2, baseCyclic, middle1, middle2, middleUnknown, baseGreedy, top1, top2,
            topAlone, broken} |->
        IF t \in {middle1, middle2} THEN {base}
        ELSE IF t \in {top1, top2} THEN {middle}
        ELSE IF t = baseCyclic THEN {middle}
        ELSE IF t = middleUnknown THEN {unknown}
        ELSE {}]
MCInitText == [s \in MCSpecs |-> IF s = base THEN base1 ELSE IF s = middle THEN middle1 ELSE top1]

MCVariants ==
    [s \in MCSpecs |->
        IF s = base THEN {base1, base2, baseCyclic, baseGreedy}
        ELSE IF s = middle THEN {middle1, middle2, middleUnknown, broken}
        ELSE {top1, top2, topAlone}]

\* The one edit is to a text that does not parse.
MCBroken == [s \in MCSpecs |-> IF s = middle THEN {broken} ELSE {}]

MCTexts == DOMAIN MCImports
MCOwned ==
    [t \in MCTexts |->
        IF t \in {base1, base2, baseCyclic} THEN {fileA}
        ELSE IF t \in {top1, top2, topAlone} THEN {fileC}
        ELSE IF t = baseGreedy THEN {fileA, fileB}
        ELSE {fileB}]
MCStrays == {fileB}
MCNone == {}
MCParses == MCTexts \ {broken}

\* Only base and middle, for long histories of builds.
MCPair == {base, middle}
MCPairText == [s \in MCPair |-> MCInitText[s]]

\* Of the receipts only their number and the hashes they show decide what
\* can happen next, and what a run has loaded matters no longer when it has
\* ended, except to what is said of a completed one.
HashesShown ==
    <<text, edits, SpecHashes(receipts), Len(receipts), historyVars, queue, outcome,
      IF Running \/ outcome = "completed" THEN runVars ELSE <<>>>>

(***************************************************************************)
(* What the documents and comments say and the code does not do.           *)
(***************************************************************************)

\* internal/graph/graph.go:4, the graph identifies the dirty specs that need
\* rebuilding: one whose import was rebuilt from a new text is among them.
\* After `build --spec' of the import alone, or a failure, it is not.
IdentifiesStaleSpecs == SkipsEverything => EverythingFresh

\* internal/app/builder.go:91, a file that does not parse is a warning and
\* the scan continues (loader.go:54): the run goes on with the others.
LoadErrorsAreWarnings == outcome # "panicked"
=============================================================================
