-------------------------- MODULE IncrementalBuild --------------------------
(***************************************************************************)
(* A project over time: specifications are edited while `plaincode build'  *)
(* runs again and again.  A run loads the specifications (LoadSpecs), asks *)
(* the receipts what is dirty (MarkDirty, DirtyNodes, SpecHashes) and      *)
(* builds one specification after the other until one fails                *)
(* (internal/app/builder.go, Build).                                       *)
(*                                                                         *)
(* The choice of what to build is one step here and taken apart in         *)
(* BuildGraph; the build of one specification is one step here and taken   *)
(* apart in BuildSpec.  What it does to the files is what BuildSpec shows: *)
(* a successful build decides all files its specification declares, by a   *)
(* write, a delete or as the target of a rename; the ownership check sees  *)
(* the first two.  Besides, any build may write files that check does not  *)
(* see or nobody owns at the time: targets of renames, and whatever the    *)
(* backend's own process writes in the project directory.  A build that    *)
(* fails may leave such writes behind, and those a failed Restore left.    *)
(*                                                                         *)
(* A specification's text stands for its hash, and declares the files it   *)
(* owns, so that two may claim one file.  One run is active at a time; dry *)
(* runs, which change nothing, are left out.                               *)
(***************************************************************************)
EXTENDS SpecGraph, FsGuard

CONSTANTS
    Specs,       \* the specification files in the spec directory
    Texts,       \* the texts a specification file can hold
    Variants,    \* those each file is edited to
    Parses,      \* the texts that parser.ParseFile accepts
    Imports,     \* the imports each text declares
    Owned,       \* the files each text declares as owned
    Strays,      \* those a build may write without the ownership check
    InitText,    \* the files' texts at the start
    Commands,    \* "all" for `build', "one" for `build --spec'
    Faults,      \* what can go wrong: "fail", "hook", "torn", "crash"
    MaxEdits,    \* bound on the number of edits
    MaxReceipts  \* bound on the number of receipts

Paths == UNION {Owned[t] : t \in Texts}

ASSUME IncrementalBuildAssumption ==
    /\ IsFiniteSet(Specs) /\ "nobody" \notin Specs
    /\ Parses \subseteq Texts
    /\ InitText \in [Specs -> Texts]
    /\ \A s \in Specs : Variants[s] \subseteq Texts
    /\ Strays \subseteq Paths
    /\ \A t \in Texts : IsFiniteSet(Imports[t])
    /\ MaxEdits \in Nat /\ MaxReceipts \in Nat

VARIABLES
    text,       \* the specification files
    edits,      \* how often one was edited
    receipts,   \* the receipt store, newest first; a torn one does not parse
    stamps,     \* history: the build that last decided each file
    writers,    \* history: whose checked operations decided it in the last run
    partial,    \* history: a run has built less than was dirty
    claimants,  \* history: the specifications that have declared each file as owned
    loaded,     \* the texts the last run loaded
    owner,      \* the owners in its OwnershipMap
    command,    \* its command
    queue,      \* toBuild, from the specification being built on
    outcome     \* how the last run ended

runVars == <<loaded, owner, command, queue>>
historyVars == <<stamps, writers, partial, claimants>>
vars == <<text, edits, receipts, historyVars, runVars, outcome>>

Running == queue # <<>>

\* ListAll passes over a receipt that does not parse: these are the indices
\* of those of s with a status in `counted'.
ReceiptsOf(store, s, counted) ==
    {i \in DOMAIN store : store[i].spec = s /\ store[i].status \in counted}

Newest(indices) == CHOOSE i \in indices : \A j \in indices : i <= j

NewestHashes(store, counted) ==
    [s \in {r \in Specs : ReceiptsOf(store, r, counted) # {}} |->
        store[Newest(ReceiptsOf(store, s, counted))].hash]

\* Mutant: a failed build counts as a build.
LastHashes(store) == NewestHashes(store, {"success", "failed"})

\* Mutant: one receipt that does not parse is an error of ListAll, which
\* Build drops.
HashesOrNone(store) ==
    IF \E i \in DOMAIN store : store[i].status = "torn" THEN [s \in {} |-> "none"]
    ELSE NewestHashes(store, {"success"})

\* The hash of the newest successful receipt of each specification.
SpecHashes(store) == NewestHashes(store, {"success"})

ImportsIn(texts) == [s \in Specs |-> Imports[texts[s]] \cap Specs]

\* Mutant: nothing is propagated to the importers of a stale specification.
DirtyAlone(texts, store) == Stale(texts, SpecHashes(store))

Dirty(texts, store) ==
    Dependents(ImportsIn(texts), Stale(texts, SpecHashes(store)))

\* Mutant: a file that does not parse is passed over.
UnknownImports(texts) ==
    {s \in Specs : texts[s] \in Parses /\ ~(Imports[texts[s]] \subseteq Specs)}

\* LoadResult.Errors: a file that does not parse, and one that imports a
\* specification that is not loaded.
LoadErrors(texts) ==
    {s \in Specs : \/ texts[s] \notin Parses
                   \/ \E d \in Imports[texts[s]] : d \notin Specs \/ texts[d] \notin Parses}

\* Ownership is registered in the order of a Go map: of several owners of a
\* file the last one counts.
Declaration(t) == [owned |-> Owned[t], shared |-> {}, readonly |-> {}]
Orders == SetToSeqs(Specs)
Registered(texts, order) ==
    LET registered[n \in 0..Len(order)] ==
            IF n = 0 THEN NewOwnershipMap
            ELSE RegisterSpec(registered[n - 1], order[n], Declaration(texts[order[n]]))
    IN  registered

Owners(texts) == {Registered(texts, order)[Len(order)].owned : order \in Orders}

NotDecided == [by |-> "nobody"]
Stamp(s, whole) ==
    [by |-> s, text |-> loaded[s], whole |-> whole,
     imports |-> [d \in Imports[loaded[s]] \cap Specs |-> loaded[d]]]

Init ==
    /\ text = InitText /\ edits = 0
    /\ receipts = <<>> /\ stamps = [p \in Paths |-> NotDecided]
    /\ writers = [p \in Paths |-> {}] /\ partial = FALSE /\ claimants = [p \in Paths |-> {}]
    /\ loaded = InitText /\ owner \in Owners(InitText) /\ command = "none"
    /\ queue = <<>> /\ outcome = "none"

(***************************************************************************)
(* The actions.                                                            *)
(***************************************************************************)

Edit(s, t) ==
    /\ edits < MaxEdits /\ edits' = edits + 1
    /\ t # text[s] /\ text' = [text EXCEPT ![s] = t]
    /\ UNCHANGED <<receipts, historyVars, runVars, outcome>>

\* LoadSpecs by a run that has nothing to complain about.
Load ==
    /\ ~Running /\ LoadErrors(text) = {}
    /\ loaded' = text /\ owner' \in Owners(text)
    /\ writers' = [p \in Paths |-> {}]
    /\ claimants' = [p \in Paths |-> claimants[p] \cup {s \in Specs : p \in Owned[text[s]]}]
    /\ UNCHANGED <<text, edits, receipts, stamps>>

\* Printing a load error as a warning uses a nil writer, which panics.
LoadFails ==
    /\ ~Running /\ LoadErrors(text) # {}
    /\ outcome' = "panicked"
    /\ UNCHANGED <<text, edits, receipts, historyVars, runVars>>

StartAll ==
    /\ "all" \in Commands
    /\ Load /\ command' = "all" /\ UNCHANGED partial
    /\ LET dirty == Dirty(text, receipts)
       IN  \/ /\ Cyclic(ImportsIn(text))
              /\ queue' = <<>> /\ outcome' = "error"
           \/ /\ ~Cyclic(ImportsIn(text)) /\ dirty = {}
              /\ queue' = <<>> /\ outcome' = "skipped"
           \/ /\ ~Cyclic(ImportsIn(text)) /\ dirty # {}
              /\ queue' \in TopologicalOrders(ImportsIn(text), dirty)
              /\ outcome' = "none"

\* `build --spec s' builds s whether it is dirty or not, and nothing else.
StartOne(s) ==
    /\ "one" \in Commands
    /\ Load /\ command' = "one" /\ partial' = TRUE
    /\ queue' = <<s>> /\ outcome' = "none"

Current == Head(queue)
Receipt(status) == [spec |-> Current, hash |-> loaded[Current], status |-> status]
OwnedNow == Owned[loaded[Current]]

\* The build decides `files' and `strays', these unseen by the check.
Decide(files, strays, whole) ==
    /\ stamps' = [p \in Paths |->
                     IF p \in files \cup strays THEN Stamp(Current, whole) ELSE stamps[p]]
    /\ writers' = [p \in Paths |->
                      IF p \in files \ strays THEN writers[p] \cup {Current} ELSE writers[p]]

\* Mutant: the deletes of stale files are appended after the check.
OwnsOne(strays) == \E p \in OwnedNow : owner[p] = Current

\* What ValidatePatch is shown: a declared file that is neither written nor
\* the target of a rename is deleted, and of a rename it sees the source.
MayBuild(strays) == \A p \in OwnedNow \ strays : owner[p] = Current

\* What a build can leave behind that does not succeed: files the backend
\* wrote in place, a Restore that failed, or operations when it was killed.
Unfinished ==
    \E strays \in SUBSET Strays, files \in SUBSET {p \in OwnedNow : owner[p] = Current} :
        Decide(files, strays, FALSE)

\* Mutant: the loop over toBuild goes on after a failure.
FailAndGoOn ==
    /\ Running /\ "fail" \in Faults
    /\ Len(receipts) < MaxReceipts
    /\ receipts' = <<Receipt("failed")>> \o receipts
    /\ queue' = Tail(queue) /\ outcome' = IF Len(queue) = 1 THEN "completed" ELSE "none"
    /\ partial' = TRUE /\ Unfinished
    /\ UNCHANGED <<text, edits, claimants, loaded, owner, command>>

\* A build that fails ends the run.  It may fail before it can save a
\* receipt, or be unable to save all of it.
BuildFails ==
    /\ Running /\ ("fail" \in Faults \/ ~MayBuild({}))
    /\ Len(receipts) < MaxReceipts
    /\ \/ \E status \in {"failed"} \cup ({"torn"} \cap Faults) :
             receipts' = <<Receipt(status)>> \o receipts
       \/ UNCHANGED receipts
    /\ queue' = <<>> /\ outcome' = "failed" /\ partial' = TRUE /\ Unfinished
    /\ UNCHANGED <<text, edits, claimants, loaded, owner, command>>

BuildSucceeds ==
    /\ Running
    /\ Len(receipts) < MaxReceipts
    /\ receipts' = <<Receipt("success")>> \o receipts
    /\ \E strays \in SUBSET Strays : MayBuild(strays) /\ Decide(OwnedNow, strays, TRUE)
    /\ \/ /\ queue' = Tail(queue) /\ UNCHANGED partial
          /\ outcome' = IF Len(queue) = 1 THEN "completed" ELSE "none"
       \/ /\ "hook" \in Faults   \* on_receipt
          /\ queue' = <<>> /\ outcome' = "failed" /\ partial' = TRUE
    /\ UNCHANGED <<text, edits, claimants, loaded, owner, command>>

\* The process dies while it builds: there is no receipt, or one that was
\* being written.
Crash ==
    /\ Running /\ "crash" \in Faults /\ Unfinished
    /\ \/ UNCHANGED receipts
       \/ "torn" \in Faults /\ Len(receipts) < MaxReceipts
          /\ receipts' = <<Receipt("torn")>> \o receipts
    /\ queue' = <<>> /\ outcome' = "crashed" /\ partial' = TRUE
    /\ UNCHANGED <<text, edits, claimants, loaded, owner, command>>

Next ==
    \/ LoadFails \/ StartAll
    \/ BuildFails \/ BuildSucceeds \/ Crash
    \/ \E s \in Specs : StartOne(s) \/ \E t \in Variants[s] : Edit(s, t)

Spec == Init /\ [][Next]_vars

-----------------------------------------------------------------------------
(***************************************************************************)
(* Properties.                                                             *)
(***************************************************************************)

\* The type invariant; a run only ever builds from texts that parse.
TypeOK ==
    /\ text \in [Specs -> Texts] /\ edits \in 0..MaxEdits
    /\ receipts \in Seq([spec: Specs, hash: Texts, status: {"success", "failed", "torn"}])
    /\ Len(receipts) <= MaxReceipts
    /\ \A p \in Paths : stamps[p] = NotDecided \/ stamps[p].by \in Specs
    /\ writers \in [Paths -> SUBSET Specs]
    /\ partial \in BOOLEAN /\ claimants \in [Paths -> SUBSET Specs]
    /\ loaded \in [Specs -> Texts]
    /\ owner \in [UNION {Owned[loaded[s]] : s \in Specs} -> Specs]
    /\ queue \in Seq(Specs) /\ \A i \in DOMAIN queue : loaded[queue[i]] \in Parses
    /\ command \in {"none"} \cup Commands
    /\ outcome \in {"none", "skipped", "completed", "failed", "error", "panicked", "crashed"}

\* The files that no second specification has ever claimed.
OwnFiles(s, t) == {p \in Owned[t] : claimants[p] = {s}}

\* A file's last decision was a successful build of a specification that
\* declares it, and no stray write of another or of an unfinished build.
Regular(p) == stamps[p].whole /\ p \in Owned[stamps[p].text]

UpToDate == Specs \ Stale(text, SpecHashes(receipts))

\* A specification that the receipts call up to date really was built: each
\* of its own files was decided, and none is left from an older text of it,
\* whatever edits, reverted edits, failed builds and failing hooks came in
\* between.  Only stray writes, and those of unfinished builds, may have
\* come after, and only files that no second specification has ever claimed
\* are vouched for.
UpToDateMeansBuilt ==
    \A s \in UpToDate :
        \A p \in OwnFiles(s, text[s]) :
            /\ stamps[p] # NotDecided
            /\ Regular(p) => stamps[p].by = s /\ stamps[p].text = text[s]

\* A run over all dirty specifications builds one only when each of its
\* imports has a successful build of the text this run has loaded.
ImportsBuiltFirst ==
    Running /\ command = "all" =>
        \A d \in Imports[loaded[Current]] \cap Specs :
            d \notin Stale(loaded, SpecHashes(receipts))

\* A run that came to its end leaves nothing to do for the next one unless
\* somebody edited a specification: builds do not oscillate.
CompletedLeavesNothingDirty ==
    outcome = "completed" /\ command = "all" /\ text = loaded
        => Dirty(text, receipts) = {}

BuiltAgainst(s, texts) ==
    \A p \in OwnFiles(s, texts[s]) :
        /\ stamps[p] # NotDecided
        /\ Regular(p) => \A d \in DOMAIN stamps[p].imports : stamps[p].imports[d] = texts[d]

SkipsEverything == ~Running /\ LoadErrors(text) = {} /\ Dirty(text, receipts) = {}
EverythingFresh == \A s \in Specs : BuiltAgainst(s, text)

\* When the next run would skip everything, every specification was built
\* against the present text of what it imports, provided that every run so
\* far has built all that was dirty; again but for files that a stray write
\* has decided since.
NothingDirtyMeansFresh == SkipsEverything /\ ~partial => EverythingFresh

\* Within one run the operations the ownership check sees decide no file for
\* two specifications, whichever of two that claim it the ownership map
\* names: the other one neither writes it nor deletes it as stale.
OneWriterPerRun ==
    \A p \in Paths : \A s, r \in writers[p] : s = r
=============================================================================
