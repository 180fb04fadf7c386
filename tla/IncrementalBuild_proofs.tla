----------------------- MODULE IncrementalBuild_proofs ----------------------
(***************************************************************************)
(* A project over time, for any specifications, texts, imports and files,  *)
(* and any number of edits and receipts.                                   *)
(***************************************************************************)
EXTENDS IncrementalBuild, Induction, SequenceTheorems, FiniteSetTheorems

-----------------------------------------------------------------------------
(***************************************************************************)
(* The receipt store.                                                      *)
(***************************************************************************)

\* The newest of some receipts is what it should be.
LEMMA NewestIs ==
    ASSUME NEW I \in SUBSET Nat, NEW k \in I, \A j \in I : k <= j
    PROVE  Newest(I) = k
<1>1. \A i \in I : (\A j \in I : i <= j) => i = k
  OBVIOUS
<1>2. QED
  BY <1>1 DEF Newest

Receipts == [spec: Specs, hash: Texts, status: {"success", "failed", "torn"}]

Built(store, s) == ReceiptsOf(store, s, {"success"})

\* What SpecHashes returns after a receipt was saved.
LEMMA HashesAfter ==
    ASSUME NEW store \in Seq(Receipts), NEW r \in Receipts
    PROVE  LET old == SpecHashes(store)  new == SpecHashes(<<r>> \o store) IN
           /\ r.status # "success" => new = old
           /\ r.status = "success" =>
                 new = [s \in DOMAIN old \cup {r.spec} |-> IF s = r.spec THEN r.hash ELSE old[s]]
<1> DEFINE next == <<r>> \o store
<1>1. /\ DOMAIN store = 1..Len(store) /\ Len(store) \in Nat
      /\ DOMAIN next = 1..Len(store) + 1
      /\ next[1] = r /\ \A i \in 1..Len(store) : next[i + 1] = store[i]
  <2>1. <<r>> \in Seq(Receipts) /\ Len(<<r>>) = 1 /\ <<r>>[1] = r
    OBVIOUS
  <2>2. /\ next \in Seq(Receipts) /\ Len(next) = 1 + Len(store)
        /\ \A i \in 1..1 + Len(store) : next[i] = IF i <= 1 THEN <<r>>[i] ELSE store[i - 1]
    BY <2>1, ConcatProperties
  <2>3. Len(store) \in Nat /\ DOMAIN store = 1..Len(store) /\ DOMAIN next = 1..Len(next)
    BY <2>2, LenProperties
  <2> HIDE DEF next
  <2>4. QED
    BY <2>1, <2>2, <2>3
<1> HIDE DEF next
<1>2. ASSUME NEW s
      PROVE  /\ Built(store, s) \subseteq 1..Len(store)
             /\ Built(next, s) = {i + 1 : i \in Built(store, s)}
                   \cup (IF r.status = "success" /\ r.spec = s THEN {1} ELSE {})
  <2>1. /\ \A i : i \in Built(store, s) <=>
                    i \in 1..Len(store) /\ store[i].spec = s /\ store[i].status = "success"
        /\ \A i : i \in Built(next, s) <=>
                    i \in 1..Len(store) + 1 /\ next[i].spec = s /\ next[i].status = "success"
    BY <1>1 DEF Built, ReceiptsOf
  <2>2. \A i \in 1..Len(store) : i + 1 \in Built(next, s) <=> i \in Built(store, s)
    BY <1>1, <2>1
  <2>3. 1 \in Built(next, s) <=> r.status = "success" /\ r.spec = s
    BY <1>1, <2>1
  <2>4. \A i \in Built(next, s) : i = 1 \/ (i - 1 \in 1..Len(store) /\ i = (i - 1) + 1)
    BY <1>1, <2>1
  <2>5. ASSUME NEW i \in Built(next, s), i # 1 PROVE \E j \in Built(store, s) : i = j + 1
    BY <2>2, <2>4, <2>5
  <2>6. Built(store, s) \subseteq 1..Len(store)
    BY <2>1
  <2>7. QED
    BY <2>2, <2>3, <2>5, <2>6
<1>3. ASSUME NEW s, Built(store, s) # {}, ~(r.status = "success" /\ r.spec = s)
      PROVE  /\ Built(next, s) # {}
             /\ next[Newest(Built(next, s))] = store[Newest(Built(store, s))]
  <2>1. Built(store, s) \in SUBSET Nat
    BY <1>1, <1>2
  <2>2. PICK k \in Built(store, s) : \A j \in Built(store, s) : k <= j
    BY <1>3, <2>1, Least
  <2>3. Newest(Built(store, s)) = k
    BY <2>1, <2>2, NewestIs
  <2>4. Built(next, s) = {i + 1 : i \in Built(store, s)}
    BY <1>2, <1>3
  <2>5. /\ Built(next, s) \in SUBSET Nat /\ k + 1 \in Built(next, s)
        /\ \A j \in Built(next, s) : k + 1 <= j
    BY <2>1, <2>2, <2>4
  <2>6. Newest(Built(next, s)) = k + 1
    BY <2>5, NewestIs
  <2>7. next[k + 1] = store[k]
    BY <1>1, <1>2, <2>2
  <2>8. QED
    BY <2>3, <2>5, <2>6, <2>7
<1>4. ASSUME r.status = "success"
      PROVE  Built(next, r.spec) # {} /\ next[Newest(Built(next, r.spec))] = r
  <2>1. /\ Built(next, r.spec) \in SUBSET Nat /\ 1 \in Built(next, r.spec)
        /\ \A j \in Built(next, r.spec) : 1 <= j
    BY <1>1, <1>2, <1>4
  <2>2. Newest(Built(next, r.spec)) = 1
    BY <2>1, NewestIs
  <2>3. QED
    BY <1>1, <2>1, <2>2
<1>5. ASSUME NEW s, Built(store, s) = {}, ~(r.status = "success" /\ r.spec = s)
      PROVE  Built(next, s) = {}
  BY <1>2, <1>5
<1>6. \A t : SpecHashes(t) = [s \in {q \in Specs : Built(t, q) # {}} |-> t[Newest(Built(t, s))].hash]
  BY DEF SpecHashes, NewestHashes, Built
<1>7. CASE r.status # "success"
  <2>1. {q \in Specs : Built(next, q) # {}} = {q \in Specs : Built(store, q) # {}}
    BY <1>3, <1>5, <1>7
  <2>2. \A s \in {q \in Specs : Built(store, q) # {}} :
          next[Newest(Built(next, s))].hash = store[Newest(Built(store, s))].hash
    BY <1>3, <1>7
  <2>3. SpecHashes(next) = SpecHashes(store)
    BY <1>6, <2>1, <2>2
  <2>4. QED
    BY <1>7, <2>3 DEF next
<1>8. CASE r.status = "success"
  <2> DEFINE old == SpecHashes(store)
             known == {q \in Specs : Built(store, q) # {}}
  <2>1. {q \in Specs : Built(next, q) # {}} = known \cup {r.spec}
    BY <1>3, <1>4, <1>5, <1>8 DEF Receipts
  <2>2. DOMAIN old = known /\ \A s \in known : old[s] = store[Newest(Built(store, s))].hash
    BY <1>6
  <2>3. \A s \in known \cup {r.spec} :
          next[Newest(Built(next, s))].hash = IF s = r.spec THEN r.hash ELSE old[s]
    BY <1>3, <1>4, <1>8, <2>2
  <2>4. SpecHashes(next) = [s \in known \cup {r.spec} |-> next[Newest(Built(next, s))].hash]
    BY <1>6, <2>1
  <2> HIDE DEF known, old
  <2>5. SpecHashes(next) = [s \in DOMAIN old \cup {r.spec} |-> IF s = r.spec THEN r.hash ELSE old[s]]
    BY <2>2, <2>3, <2>4
  <2>6. QED
    BY <1>8, <2>5 DEF next, old
<1>9. QED
  BY <1>7, <1>8
-----------------------------------------------------------------------------
(***************************************************************************)
(* Graphs.                                                                 *)
(***************************************************************************)

\* What depends on stale specifications includes them and whatever imports
\* something that is included.
LEMMA DependentsClosed ==
    ASSUME NEW imports, NEW sources, sources \subseteq DOMAIN imports
    PROVE  /\ sources \subseteq Dependents(imports, sources)
           /\ Dependents(imports, sources) \subseteq DOMAIN imports
           /\ ClosedUnderImporters(imports, Dependents(imports, sources))
           /\ sources = {} => Dependents(imports, sources) = {}
<1>1. ClosedUnderImporters(imports, Dependents(imports, sources))
  <2> SUFFICES ASSUME NEW s \in DOMAIN imports, NEW d \in imports[s],
                      d \in Dependents(imports, sources),
                      NEW S \in SUBSET DOMAIN imports, sources \subseteq S,
                      ClosedUnderImporters(imports, S)
               PROVE  s \in S
    BY DEF ClosedUnderImporters, Dependents
  <2>1. d \in S
    BY DEF Dependents
  <2>2. QED
    BY <2>1 DEF ClosedUnderImporters
<1>2. ClosedUnderImporters(imports, {})
  BY DEF ClosedUnderImporters
<1>3. QED
  BY <1>1, <1>2 DEF Dependents

\* The members of a list.
Listed(list) == {list[i] : i \in 1..Len(list)}

\* An order of a set lists just its members.
LEMMA OrderLists ==
    ASSUME NEW imports, NEW S, IsFiniteSet(S), NEW order \in TopologicalOrders(imports, S)
    PROVE  order \in Seq(S) /\ Listed(order) = S /\ DependenciesFirst(imports, order)
<1> DEFINE n == Cardinality(S)
<1>1. n \in Nat /\ order \in [1..n -> S] /\ (\A i, j \in 1..n : i # j => order[i] # order[j])
      /\ DependenciesFirst(imports, order)
  BY FS_CardinalityType DEF TopologicalOrders, SetToSeqs
<1>2. IsFiniteSet(1..n) /\ Cardinality(1..n) = n
  BY <1>1, FS_Interval
<1>3. order \in Injection(1..n, S)
  BY <1>1 DEF Injection, IsInjective
<1>4. order \in Surjection(1..n, S)
  BY <1>2, <1>3, FS_Injection
<1>5. order \in Seq(S) /\ Len(order) = n
  BY <1>1
<1>6. QED
  BY <1>1, <1>4, <1>5 DEF Surjection, Listed

\* The head of a list and what is left of it.
LEMMA ListSplits ==
    ASSUME NEW S, NEW list \in Seq(S), list # <<>>
    PROVE  /\ Head(list) \in S /\ Tail(list) \in Seq(S)
           /\ Listed(list) = {Head(list)} \cup Listed(Tail(list))
           /\ Len(list) = 1 => Listed(Tail(list)) = {} /\ Tail(list) = <<>>
           /\ \A imports : DependenciesFirst(imports, list) =>
                 /\ DependenciesFirst(imports, Tail(list))
                 /\ imports[Head(list)] \cap Listed(list) = {}
<1>1. /\ Len(list) \in Nat \ {0} /\ Head(list) \in S /\ Tail(list) \in Seq(S)
      /\ Len(Tail(list)) = Len(list) - 1
      /\ \A i \in 1..Len(list) - 1 : Tail(list)[i] = list[i + 1]
      /\ DOMAIN list = 1..Len(list) /\ DOMAIN Tail(list) = 1..Len(list) - 1
  BY HeadTailProperties, EmptySeq, LenProperties
<1>2. Head(list) = list[1]
  OBVIOUS
<1>3. Listed(list) = {Head(list)} \cup Listed(Tail(list))
  <2>1. ASSUME NEW i \in 1..Len(list), i # 1 PROVE list[i] \in Listed(Tail(list))
    <3>1. i - 1 \in 1..Len(list) - 1 /\ (i - 1) + 1 = i
      BY <1>1, <2>1
    <3>2. list[i] = Tail(list)[i - 1]
      BY <1>1, <3>1
    <3>3. QED
      BY <1>1, <3>1, <3>2 DEF Listed
  <2>2. ASSUME NEW i \in 1..Len(list) - 1 PROVE Tail(list)[i] \in Listed(list)
    <3>1. i + 1 \in 1..Len(list)
      BY <1>1
    <3>2. QED
      BY <1>1, <3>1 DEF Listed
  <2>3. Head(list) \in Listed(list)
    BY <1>1, <1>2 DEF Listed
  <2>4. Listed(list) \subseteq {Head(list)} \cup Listed(Tail(list))
    BY <1>2, <2>1 DEF Listed
  <2>5. Listed(Tail(list)) \subseteq Listed(list)
    BY <1>1, <2>2 DEF Listed
  <2>6. QED
    BY <2>3, <2>4, <2>5
<1>4. ASSUME Len(list) = 1 PROVE Listed(Tail(list)) = {} /\ Tail(list) = <<>>
  <2>1. Len(Tail(list)) = 0
    BY <1>1, <1>4
  <2>2. Tail(list) = <<>>
    BY <1>1, <2>1, EmptySeq
  <2>3. 1..0 = {}
    OBVIOUS
  <2>4. Listed(Tail(list)) = {Tail(list)[i] : i \in {}}
    BY <2>1, <2>3, Zenon DEF Listed
  <2>5. QED
    BY <2>2, <2>4
<1>5. ASSUME NEW imports, DependenciesFirst(imports, list)
      PROVE  /\ DependenciesFirst(imports, Tail(list))
             /\ imports[Head(list)] \cap Listed(list) = {}
  <2>1. \A i, j \in 1..Len(list) : list[j] \in imports[list[i]] => j < i
    BY <1>1, <1>5 DEF DependenciesFirst
  <2>2. ASSUME NEW i \in 1..Len(list) - 1, NEW j \in 1..Len(list) - 1,
               Tail(list)[j] \in imports[Tail(list)[i]]
        PROVE  j < i
    <3>1. i + 1 \in 1..Len(list) /\ j + 1 \in 1..Len(list) /\ list[j + 1] \in imports[list[i + 1]]
      BY <1>1, <2>2
    <3>2. j + 1 < i + 1
      BY <2>1, <3>1
    <3>3. QED
      BY <3>2
  <2>3. ASSUME NEW j \in 1..Len(list), list[j] \in imports[Head(list)] PROVE FALSE
    <3>1. 1 \in 1..Len(list) /\ list[j] \in imports[list[1]]
      BY <1>1, <1>2, <2>3
    <3>2. QED
      BY <2>1, <3>1
  <2>4. QED
    BY <1>1, <2>2, <2>3 DEF DependenciesFirst, Listed
<1>6. QED
  BY <1>1, <1>3, <1>4, <1>5
-----------------------------------------------------------------------------
(***************************************************************************)
(* Types.                                                                  *)
(***************************************************************************)

Decisions ==
    [by: Specs, text: Texts, whole: BOOLEAN,
     imports: UNION {[D -> Texts] : D \in SUBSET Specs}]

\* The types that all the proofs need; those of the ownership map and of the
\* rest are below.
Stored ==
    /\ text \in [Specs -> Texts] /\ loaded \in [Specs -> Texts]
    /\ receipts \in Seq(Receipts)
    /\ stamps \in [Paths -> Decisions \cup {NotDecided}] /\ writers \in [Paths -> SUBSET Specs]
    /\ claimants \in [Paths -> SUBSET Specs]
    /\ queue \in Seq(Specs)

\* What a run that is under way has.
LEMMA RunningHas ==
    ASSUME Stored, Running
    PROVE  /\ Current \in Specs /\ loaded[Current] \in Texts /\ OwnedNow \subseteq Paths
           /\ Tail(queue) \in Seq(Specs)
           /\ \A status \in {"success", "failed", "torn"} :
                 /\ Receipt(status) \in Receipts
                 /\ <<Receipt(status)>> \o receipts \in Seq(Receipts)
           /\ \A whole \in BOOLEAN : Stamp(Current, whole) \in Decisions
<1>1. Current \in Specs /\ Tail(queue) \in Seq(Specs) /\ loaded[Current] \in Texts
  BY ListSplits DEF Stored, Running, Current
<1>2. OwnedNow \subseteq Paths
  BY <1>1 DEF OwnedNow, Paths
<1>3. ASSUME NEW status \in {"success", "failed", "torn"}
      PROVE  Receipt(status) \in Receipts /\ <<Receipt(status)>> \o receipts \in Seq(Receipts)
  <2>1. Receipt(status) \in Receipts
    BY <1>1 DEF Receipt, Receipts
  <2>2. <<Receipt(status)>> \in Seq(Receipts)
    BY <2>1
  <2>3. QED
    BY <2>1, <2>2, ConcatProperties DEF Stored
<1>4. ASSUME NEW whole \in BOOLEAN PROVE Stamp(Current, whole) \in Decisions
  <2> DEFINE D == Imports[loaded[Current]] \cap Specs
             against == [d \in D |-> loaded[d]]
  <2>1. D \in SUBSET Specs /\ against \in [D -> Texts]
    BY DEF Stored
  <2>2. against \in UNION {[E -> Texts] : E \in SUBSET Specs}
    BY <2>1
  <2>3. Stamp(Current, whole) =
          [by |-> Current, text |-> loaded[Current], whole |-> whole, imports |-> against]
    BY DEF Stamp
  <2> HIDE DEF against, D
  <2>4. QED
    BY <1>1, <1>4, <2>2, <2>3 DEF Decisions
<1>5. QED
  BY <1>1, <1>2, <1>3, <1>4

\* A decision has a writer, and no decision has none.
LEMMA SomebodyDecided ==
    ASSUME NEW stamp \in Decisions \cup {NotDecided}
    PROVE  stamp.by \in Specs <=> stamp # NotDecided
BY IncrementalBuildAssumption DEF Decisions, NotDecided

\* What a build decides is told from what nobody has decided.
LEMMA StampHas ==
    ASSUME Stored, Running, NEW whole \in BOOLEAN
    PROVE  /\ Stamp(Current, whole) # NotDecided
           /\ Stamp(Current, whole).by = Current /\ Stamp(Current, whole).text = loaded[Current]
           /\ Stamp(Current, whole).whole = whole
           /\ Stamp(Current, whole).imports = [d \in Imports[loaded[Current]] \cap Specs |-> loaded[d]]
<1>1. Stamp(Current, whole) \in Decisions
  BY RunningHas
<1>2. Stamp(Current, whole).by \in Specs
  BY <1>1 DEF Decisions
<1>3. Stamp(Current, whole) # NotDecided
  BY <1>1, <1>2, SomebodyDecided
<1>4. /\ Stamp(Current, whole).by = Current /\ Stamp(Current, whole).text = loaded[Current]
      /\ Stamp(Current, whole).whole = whole
      /\ Stamp(Current, whole).imports = [d \in Imports[loaded[Current]] \cap Specs |-> loaded[d]]
  BY DEF Stamp
<1>5. QED
  BY <1>3, <1>4

\* What a run chooses to build is the stale specifications and what depends
\* on them, in an order that respects the imports.
LEMMA Chosen ==
    ASSUME Stored, StartAll, queue' # <<>>
    PROVE  /\ queue' \in Seq(Specs) /\ Listed(queue') = Dirty(text, receipts)
           /\ DependenciesFirst(ImportsIn(text), queue')
           /\ Stale(text, SpecHashes(receipts)) \subseteq Dirty(text, receipts)
           /\ ClosedUnderImporters(ImportsIn(text), Dirty(text, receipts))
<1>1. queue' \in TopologicalOrders(ImportsIn(text), Dirty(text, receipts))
  BY DEF StartAll
<1>2. DOMAIN ImportsIn(text) = Specs /\ Stale(text, SpecHashes(receipts)) \subseteq Specs
  BY DEF ImportsIn, Stale, Stored
<1>3. /\ Dirty(text, receipts) \subseteq Specs
      /\ Stale(text, SpecHashes(receipts)) \subseteq Dirty(text, receipts)
      /\ ClosedUnderImporters(ImportsIn(text), Dirty(text, receipts))
  BY <1>2, DependentsClosed DEF Dirty
<1>4. IsFiniteSet(Dirty(text, receipts))
  BY <1>3, FS_Subset, IncrementalBuildAssumption
<1>5. /\ queue' \in Seq(Dirty(text, receipts)) /\ Listed(queue') = Dirty(text, receipts)
      /\ DependenciesFirst(ImportsIn(text), queue')
  BY <1>1, <1>4, OrderLists
<1>6. queue' \in Seq(Specs)
  BY <1>3, <1>5, SeqMonotonic
<1>7. QED
  BY <1>3, <1>5, <1>6

\* The initial values have their types.
LEMMA InitStored == Init => Stored
<1> SUFFICES ASSUME Init PROVE Stored
  OBVIOUS
<1>1. receipts \in Seq(Receipts) /\ queue \in Seq(Specs)
  BY EmptySeq DEF Init
<1>2. QED
  BY <1>1, IncrementalBuildAssumption DEF Init, Stored

\* A decision about some files has its type.
LEMMA DecideType ==
    ASSUME Stored, Running, NEW files, NEW strays, NEW whole \in BOOLEAN,
           Decide(files, strays, whole)
    PROVE  /\ stamps' \in [Paths -> Decisions \cup {NotDecided}]
           /\ writers' \in [Paths -> SUBSET Specs]
BY RunningHas DEF Decide, Stored

\* Every step keeps the types of what is stored.
LEMMA NextStored == Stored /\ [Next]_vars => Stored'
<1> SUFFICES ASSUME Stored, [Next]_vars PROVE Stored'
  OBVIOUS
<1>1. ASSUME NEW s \in Specs, NEW t \in Variants[s], Edit(s, t) PROVE Stored'
  <2>1. t \in Texts
    BY IncrementalBuildAssumption
  <2>2. QED
    BY <1>1, <2>1 DEF Edit, Stored, historyVars, runVars
<1>2. ASSUME Load PROVE Stored' \/ queue' \notin Seq(Specs)
  <2>1. stamps' = stamps /\ writers' \in [Paths -> SUBSET Specs]
    BY <1>2 DEF Load
  <2>2. claimants' \in [Paths -> SUBSET Specs]
    BY <1>2 DEF Load, Stored
  <2>3. QED
    BY <1>2, <2>1, <2>2 DEF Load, Stored
<1>3. CASE StartAll
  <2>1. queue' \in Seq(Specs)
    BY <1>3, Chosen, EmptySeq
  <2>2. QED
    BY <1>2, <1>3, <2>1 DEF StartAll
<1>4. ASSUME NEW s \in Specs, StartOne(s) PROVE Stored'
  <2>1. queue' \in Seq(Specs)
    BY <1>4 DEF StartOne
  <2>2. QED
    BY <1>2, <1>4, <2>1 DEF StartOne
<1>5. CASE BuildFails
  <2>1. receipts' \in Seq(Receipts) /\ queue' \in Seq(Specs)
    BY <1>5, RunningHas, EmptySeq DEF BuildFails, Stored
  <2>2. stamps' \in [Paths -> Decisions \cup {NotDecided}] /\ writers' \in [Paths -> SUBSET Specs]
    BY <1>5, DecideType DEF BuildFails, Unfinished
  <2>3. QED
    BY <1>5, <2>1, <2>2 DEF BuildFails, Stored
<1>6. CASE BuildSucceeds
  <2>1. receipts' \in Seq(Receipts) /\ queue' \in Seq(Specs)
    BY <1>6, RunningHas, EmptySeq DEF BuildSucceeds, Stored
  <2>2. stamps' \in [Paths -> Decisions \cup {NotDecided}] /\ writers' \in [Paths -> SUBSET Specs]
    BY <1>6, DecideType DEF BuildSucceeds
  <2>3. QED
    BY <1>6, <2>1, <2>2 DEF BuildSucceeds, Stored
<1>7. CASE Crash
  <2>1. receipts' \in Seq(Receipts) /\ queue' \in Seq(Specs)
    BY <1>7, RunningHas, EmptySeq DEF Crash, Stored
  <2>2. stamps' \in [Paths -> Decisions \cup {NotDecided}] /\ writers' \in [Paths -> SUBSET Specs]
    BY <1>7, DecideType DEF Crash, Unfinished
  <2>3. QED
    BY <1>7, <2>1, <2>2 DEF Crash, Stored
<1>8. CASE LoadFails \/ UNCHANGED vars
  BY <1>8 DEF LoadFails, vars, historyVars, runVars, Stored
<1>9. QED
  BY <1>1, <1>3, <1>4, <1>5, <1>6, <1>7, <1>8 DEF Next

\* What is stored always has its types.
LEMMA StoredInvariant == Spec => []Stored
BY InitStored, NextStored, PTL DEF Spec

-----------------------------------------------------------------------------
(***************************************************************************)
(* Ownership.                                                              *)
(***************************************************************************)

\* The files that the first n of an order of specifications declare.
DeclaredBy(texts, order, n) == UNION {Owned[texts[order[k]]] : k \in 1..n}

\* Of those that declare a file the last one owns it.
LastOwns(owned, texts, order, n) ==
    /\ owned \in [DeclaredBy(texts, order, n) -> Specs]
    /\ \A p \in DeclaredBy(texts, order, n) :
          \E k \in 1..n :
              /\ p \in Owned[texts[order[k]]] /\ owned[p] = order[k]
              /\ \A l \in k + 1 .. n : p \notin Owned[texts[order[l]]]

Maps == OwnershipMaps(Paths, Specs)

\* An order of the specifications.
LEMMA OrderIs ==
    ASSUME NEW order \in Orders
    PROVE  /\ Len(order) = Cardinality(Specs) /\ Len(order) \in Nat
           /\ order \in [1..Len(order) -> Specs]
           /\ \A s \in Specs : \E k \in 1..Len(order) : order[k] = s
<1> DEFINE n == Cardinality(Specs)
<1>2. n \in Nat /\ order \in [1..n -> Specs] /\ \A i, j \in 1..n : i # j => order[i] # order[j]
  BY FS_CardinalityType, IncrementalBuildAssumption DEF Orders, SetToSeqs
<1>3. IsFiniteSet(1..n) /\ Cardinality(1..n) = n
  BY <1>2, FS_Interval
<1>4. order \in Injection(1..n, Specs)
  BY <1>2 DEF Injection, IsInjective
<1>5. order \in Surjection(1..n, Specs)
  BY <1>3, <1>4, FS_Injection, IncrementalBuildAssumption
<1>6. Len(order) = n
  BY <1>2
<1>7. QED
  BY <1>2, <1>5, <1>6 DEF Surjection

\* A registration yields an ownership map.
LEMMA RegisterType ==
    ASSUME NEW m \in Maps, NEW s \in Specs, NEW t \in Texts
    PROVE  RegisterSpec(m, s, Declaration(t)) \in Maps
<1> DEFINE D == Owned[t] \cup DOMAIN m.owned
           next == [p \in D |-> IF p \in Owned[t] THEN s ELSE m.owned[p]]
<1>1. PICK S \in SUBSET Paths : m.owned \in [S -> Specs]
  BY DEF Maps, OwnershipMaps
<1>2. D \in SUBSET Paths
  BY <1>1 DEF Paths
<1>3. next \in [D -> Specs]
  BY <1>1
<1>4. RegisterSpec(m, s, Declaration(t)) =
        [owned |-> next, shared |-> m.shared \cup {}, readonly |-> m.readonly \cup {}]
  BY DEF RegisterSpec, Declaration
<1> HIDE DEF next, D
<1>5. QED
  BY <1>2, <1>3, <1>4 DEF Maps, OwnershipMaps

\* The registrations are defined one after the other.
LEMMA RegisteredDefined ==
    ASSUME NEW texts \in [Specs -> Texts], NEW order \in Orders
    PROVE  /\ Registered(texts, order)[0] = NewOwnershipMap
           /\ \A n \in 1..Len(order) :
                 Registered(texts, order)[n] =
                     RegisterSpec(Registered(texts, order)[n - 1], order[n], Declaration(texts[order[n]]))
<1> DEFINE N == Len(order)
           step == [n \in 1..N |-> [m \in Maps |->
                      RegisterSpec(m, order[n], Declaration(texts[order[n]]))]]
<1>1. N \in Nat /\ order \in [1..N -> Specs]
  BY OrderIs
<1>2. NewOwnershipMap \in Maps
  <2> DEFINE e == [p \in {} |-> {}]
  <2>1. e \in [{} -> Specs] /\ {} \in SUBSET Paths
    OBVIOUS
  <2>2. NewOwnershipMap = [owned |-> e, shared |-> {}, readonly |-> {}]
    BY DEF NewOwnershipMap
  <2> HIDE DEF e
  <2>3. QED
    BY <2>1, <2>2 DEF Maps, OwnershipMaps
<1>3. step \in [1..N -> [Maps -> Maps]]
  <2>1. ASSUME NEW n \in 1..N, NEW m \in Maps
        PROVE  RegisterSpec(m, order[n], Declaration(texts[order[n]])) \in Maps
    BY <1>1, RegisterType
  <2>2. QED
    BY <2>1
<1>4. PICK f \in History(N, Maps, NewOwnershipMap, step) : TRUE
  <2> HIDE DEF step
  <2>1. QED
    BY <1>1, <1>2, <1>3, RecursionDefines
<1>5. /\ f \in [0..N -> Maps] /\ f[0] = NewOwnershipMap
      /\ \A n \in 1..N : f[n] = step[n][f[n - 1]]
  <2> HIDE DEF step
  <2>1. QED
    BY <1>4 DEF History
<1>6. \A n \in 1..N : f[n] = RegisterSpec(f[n - 1], order[n], Declaration(texts[order[n]]))
  <2>1. \A n \in 1..N : n - 1 \in 0..N /\ f[n - 1] \in Maps
    <3> HIDE DEF step
    <3>1. QED
      BY <1>1, <1>5
  <2>2. QED
    BY <1>5, <2>1
<1> HIDE DEF step
<1>7. \A n \in 0..N : n # 0 => n \in 1..N
  BY <1>1
<1>8. f = [n \in 0..N |->
              IF n = 0 THEN NewOwnershipMap
              ELSE RegisterSpec(f[n - 1], order[n], Declaration(texts[order[n]]))]
  BY <1>5, <1>6, <1>7
<1>9. Registered(texts, order) =
        CHOOSE registered : registered = [n \in 0..N |->
              IF n = 0 THEN NewOwnershipMap
              ELSE RegisterSpec(registered[n - 1], order[n], Declaration(texts[order[n]]))]
  BY Zenon DEF Registered
<1>10. Registered(texts, order) =
        [n \in 0..N |->
              IF n = 0 THEN NewOwnershipMap
              ELSE RegisterSpec(Registered(texts, order)[n - 1], order[n], Declaration(texts[order[n]]))]
  BY <1>8, <1>9, Zenon
<1>11. \A n \in 1..N : n \in 0..N /\ n # 0
  BY <1>1
<1>12. QED
  BY <1>1, <1>10, <1>11

\* The owner of a file is the last specification that was registered with it
\* (RegisterSpec, fsguard.go): of every order the map was ranged over in, the
\* map has just the declared files, and each belongs to the last that
\* declared it.
THEOREM LastRegistrationOwns ==
    ASSUME NEW texts \in [Specs -> Texts], NEW order \in Orders
    PROVE  LastOwns(Registered(texts, order)[Len(order)].owned, texts, order, Len(order))
<1> DEFINE N == Len(order)
           map == Registered(texts, order)
           Right == {n \in 0..N : LastOwns(map[n].owned, texts, order, n)}
<1>1. N \in Nat /\ order \in [1..N -> Specs]
  BY OrderIs
<1>2. /\ map[0] = NewOwnershipMap
      /\ \A n \in 1..N : map[n] = RegisterSpec(map[n - 1], order[n], Declaration(texts[order[n]]))
  BY RegisteredDefined
<1> HIDE DEF map
<1>3. 0 \in Right
  <2>1. DeclaredBy(texts, order, 0) = {}
    BY DEF DeclaredBy
  <2>2. map[0].owned \in [{} -> Specs]
    BY <1>2 DEF NewOwnershipMap
  <2> HIDE DEF N
  <2>3. LastOwns(map[0].owned, texts, order, 0)
    BY <2>1, <2>2 DEF LastOwns
  <2>4. QED
    BY <1>1, <2>3
<1>4. ASSUME NEW n \in 0..N, n \in Right, n < N
      PROVE  n + 1 \in Right
  <2> DEFINE s == order[n + 1]
             t == texts[s]
             before == DeclaredBy(texts, order, n)
             after == DeclaredBy(texts, order, n + 1)
  <2>1. n \in Nat /\ n + 1 \in 0..N /\ n + 1 \in 1..N /\ (n + 1) - 1 = n /\ s \in Specs
    BY <1>1, <1>4
  <2>2. LastOwns(map[n].owned, texts, order, n)
    BY <1>4
  <2>3. after = Owned[t] \cup before
    <3>1. 1..(n + 1) = 1..n \cup {n + 1}
      BY <2>1
    <3>2. QED
      BY ONLY <3>1 DEF DeclaredBy
  <2>4. map[n + 1] = RegisterSpec(map[n], s, Declaration(t))
    BY <1>2, <2>1
  <2>5. map[n + 1].owned =
          [p \in Owned[t] \cup DOMAIN map[n].owned |-> IF p \in Owned[t] THEN s ELSE map[n].owned[p]]
    BY <2>4 DEF RegisterSpec, Declaration
  <2> HIDE DEF before, after, s, t
  <2>6. map[n].owned \in [before -> Specs]
    BY <2>2 DEF LastOwns, before
  <2>7. map[n + 1].owned \in [after -> Specs]
    BY <2>1, <2>3, <2>5, <2>6
  <2>8. ASSUME NEW p \in after
        PROVE  \E k \in 1..(n + 1) :
                  /\ p \in Owned[texts[order[k]]] /\ map[n + 1].owned[p] = order[k]
                  /\ \A l \in k + 1 .. n + 1 : p \notin Owned[texts[order[l]]]
    <3>1. CASE p \in Owned[t]
      <4>1. map[n + 1].owned[p] = s /\ n + 1 \in 1..(n + 1) /\ (n + 1) + 1 .. n + 1 = {}
        BY <2>1, <2>5, <3>1
      <4>2. QED
        BY <3>1, <4>1 DEF s, t
    <3>2. CASE p \notin Owned[t]
      <4>1. p \in before /\ map[n + 1].owned[p] = map[n].owned[p]
        BY <2>3, <2>5, <2>6, <3>2
      <4>2. PICK k \in 1..n : /\ p \in Owned[texts[order[k]]] /\ map[n].owned[p] = order[k]
                              /\ \A l \in k + 1 .. n : p \notin Owned[texts[order[l]]]
        BY <2>2, <4>1 DEF LastOwns, before
      <4>3. \A l \in k + 1 .. n + 1 : l \in k + 1 .. n \/ l = n + 1
        BY <2>1
      <4>4. \A l \in k + 1 .. n + 1 : p \notin Owned[texts[order[l]]]
        BY <3>2, <4>2, <4>3 DEF s, t
      <4>5. k \in 1..(n + 1)
        BY <2>1
      <4>6. QED
        BY <4>1, <4>2, <4>4, <4>5
    <3>3. QED
      BY <3>1, <3>2
  <2>9. LastOwns(map[n + 1].owned, texts, order, n + 1)
    BY <2>7, <2>8 DEF LastOwns, after
  <2>10. QED
    BY <2>1, <2>9
<1>5. N \in Right
  <2> HIDE DEF Right
  <2>1. \A n \in 0..N : n \in Right /\ n < N => n + 1 \in Right
    BY <1>4
  <2>2. \A n \in 0..N : n \in Right
    BY <1>1, <1>3, <2>1, SetInduction
  <2>3. QED
    BY <1>1, <2>2
<1>6. QED
  BY <1>5 DEF map

\* So every declared file has an owner, and only those.
LEMMA OwnersType ==
    ASSUME NEW texts \in [Specs -> Texts], NEW owned \in Owners(texts)
    PROVE  owned \in [UNION {Owned[texts[s]] : s \in Specs} -> Specs]
<1>1. PICK order \in Orders : owned = Registered(texts, order)[Len(order)].owned
  BY DEF Owners
<1>2. LastOwns(owned, texts, order, Len(order))
  BY <1>1, LastRegistrationOwns
<1>3. DeclaredBy(texts, order, Len(order)) = UNION {Owned[texts[s]] : s \in Specs}
  BY OrderIs DEF DeclaredBy
<1>4. QED
  BY <1>2, <1>3 DEF LastOwns

-----------------------------------------------------------------------------
(***************************************************************************)
(* The types.                                                              *)
(***************************************************************************)

\* The bounded part of the types, and that a run only builds what it could
\* parse.
Bounded ==
    /\ edits \in 0..MaxEdits /\ Len(receipts) <= MaxReceipts
    /\ partial \in BOOLEAN
    /\ owner \in [UNION {Owned[loaded[s]] : s \in Specs} -> Specs]
    /\ \A i \in 1..Len(queue) : loaded[queue[i]] \in Parses
    /\ command \in {"none"} \cup Commands
    /\ outcome \in {"none", "skipped", "completed", "failed", "error", "panicked", "crashed"}

\* A receipt more is within the bound.
LEMMA OneReceiptMore ==
    ASSUME Stored, Running, Len(receipts) < MaxReceipts,
           NEW status \in {"success", "failed", "torn"}
    PROVE  Len(<<Receipt(status)>> \o receipts) <= MaxReceipts
<1>1. Receipt(status) \in Receipts /\ receipts \in Seq(Receipts)
  BY RunningHas DEF Stored
<1>2. Len(<<Receipt(status)>> \o receipts) = 1 + Len(receipts) /\ Len(receipts) \in Nat
  BY <1>1, ConcatProperties, LenProperties
<1>3. QED
  BY <1>2, IncrementalBuildAssumption

\* What a run loads can be parsed and has its owners.
LEMMA LoadBounded ==
    ASSUME Stored, Load, queue' \in Seq(Specs)
    PROVE  /\ owner' \in [UNION {Owned[loaded'[s]] : s \in Specs} -> Specs]
           /\ \A i \in 1..Len(queue') : loaded'[queue'[i]] \in Parses
<1>1. loaded' = text /\ owner' \in Owners(text) /\ \A s \in Specs : text[s] \in Parses
  BY DEF Load, LoadErrors
<1>2. \A i \in 1..Len(queue') : queue'[i] \in Specs
  BY LenProperties
<1>3. owner' \in [UNION {Owned[text[s]] : s \in Specs} -> Specs]
  BY <1>1, OwnersType DEF Stored
<1>4. QED
  BY <1>1, <1>2, <1>3

\* Every step keeps the bounds.
LEMMA NextBounded == Stored /\ Bounded /\ [Next]_vars => Bounded'
<1> SUFFICES ASSUME Stored, Bounded, [Next]_vars PROVE Bounded'
  OBVIOUS
<1>0. Stored'
  BY NextStored
<1>1. ASSUME NEW s \in Specs, NEW t \in Variants[s], Edit(s, t) PROVE Bounded'
  BY <1>1, IncrementalBuildAssumption DEF Edit, Bounded, historyVars, runVars
<1>2. CASE StartAll
  <2>1. /\ owner' \in [UNION {Owned[loaded'[s]] : s \in Specs} -> Specs]
        /\ \A i \in 1..Len(queue') : loaded'[queue'[i]] \in Parses
    BY <1>0, <1>2, LoadBounded DEF StartAll, Stored
  <2>2. /\ command' \in Commands /\ UNCHANGED <<edits, receipts, partial>>
        /\ outcome' \in {"error", "skipped", "none"}
    BY <1>2 DEF StartAll, Load
  <2>3. QED
    BY <2>1, <2>2 DEF Bounded
<1>3. ASSUME NEW s \in Specs, StartOne(s) PROVE Bounded'
  <2>1. /\ owner' \in [UNION {Owned[loaded'[r]] : r \in Specs} -> Specs]
        /\ \A i \in 1..Len(queue') : loaded'[queue'[i]] \in Parses
    BY <1>0, <1>3, LoadBounded DEF StartOne, Stored
  <2>2. /\ command' \in Commands /\ UNCHANGED <<edits, receipts>> /\ partial' = TRUE
        /\ outcome' = "none"
    BY <1>3 DEF StartOne, Load
  <2>3. QED
    BY <2>1, <2>2 DEF Bounded
<1>4. ASSUME Running, UNCHANGED <<edits, loaded, owner, command>>,
             queue' \in {<<>>, Tail(queue)}, Len(receipts') <= MaxReceipts,
             partial' \in {TRUE, partial}, outcome' \in {"completed", "none", "failed", "crashed"}
      PROVE  Bounded'
  <2>1. \A i \in 1..Len(queue') : loaded[queue'[i]] \in Parses
    <3>1. CASE queue' = <<>>
      <4>1. 1..Len(queue') = {}
        BY <3>1
      <4>2. QED
        BY <4>1
    <3>2. CASE queue' = Tail(queue)
      <4>1. queue \in Seq(Specs) /\ queue # <<>>
        BY <1>4 DEF Running, Stored
      <4>2. \A i \in 1..Len(Tail(queue)) : i + 1 \in 1..Len(queue) /\ Tail(queue)[i] = queue[i + 1]
        BY <4>1, HeadTailProperties, LenProperties
      <4>3. QED
        BY <3>2, <4>2 DEF Bounded
    <3>3. QED
      BY <1>4, <3>1, <3>2
  <2>2. QED
    BY <1>4, <2>1 DEF Bounded
<1>5. CASE BuildFails
  <2>1. Len(receipts') <= MaxReceipts
    BY <1>5, OneReceiptMore DEF BuildFails, Bounded
  <2>2. QED
    BY <1>4, <1>5, <2>1 DEF BuildFails
<1>6. CASE BuildSucceeds
  <2>1. Len(receipts') <= MaxReceipts
    BY <1>6, OneReceiptMore DEF BuildSucceeds
  <2>2. QED
    BY <1>4, <1>6, <2>1 DEF BuildSucceeds
<1>7. CASE Crash
  <2>1. Len(receipts') <= MaxReceipts
    BY <1>7, OneReceiptMore DEF Crash, Bounded
  <2>2. QED
    BY <1>4, <1>7, <2>1 DEF Crash
<1>8. CASE LoadFails \/ UNCHANGED vars
  BY <1>8 DEF LoadFails, vars, historyVars, runVars, Bounded
<1>9. QED
  BY <1>1, <1>2, <1>3, <1>5, <1>6, <1>7, <1>8 DEF Next

\* The variables always have their types: the store keeps to its bound, every
\* file that a loaded specification declares has one owner and no other file
\* has any, and a run only builds what it could parse.
THEOREM TypeCorrect == Spec => []TypeOK
<1>1. Init => Bounded
  <2> SUFFICES ASSUME Init PROVE Bounded
    OBVIOUS
  <2>1. Len(receipts) = 0 /\ Len(queue) = 0
    BY DEF Init
  <2>2. owner \in [UNION {Owned[loaded[s]] : s \in Specs} -> Specs]
    <3>1. InitText \in [Specs -> Texts] /\ owner \in Owners(InitText) /\ loaded = InitText
      BY IncrementalBuildAssumption DEF Init
    <3>2. owner \in [UNION {Owned[InitText[s]] : s \in Specs} -> Specs]
      BY <3>1, OwnersType
    <3>3. QED
      BY <3>1, <3>2
  <2>3. 1..Len(queue) = {}
    BY <2>1
  <2>4. edits \in 0..MaxEdits /\ Len(receipts) <= MaxReceipts
    BY <2>1, IncrementalBuildAssumption DEF Init
  <2>5. partial = FALSE /\ command = "none" /\ outcome = "none"
    BY DEF Init
  <2>6. \A i \in 1..Len(queue) : loaded[queue[i]] \in Parses
    BY <2>3
  <2>7. partial \in BOOLEAN /\ command \in {"none"} \cup Commands
        /\ outcome \in {"none", "skipped", "completed", "failed", "error", "panicked", "crashed"}
    BY <2>5
  <2>8. QED
    BY <2>2, <2>4, <2>6, <2>7, Zenon DEF Bounded
<1>2. Stored /\ Bounded => TypeOK
  <2> SUFFICES ASSUME Stored, Bounded PROVE TypeOK
    OBVIOUS
  <2>1. \A p \in Paths : stamps[p] = NotDecided \/ stamps[p].by \in Specs
    BY SomebodyDecided DEF Stored
  <2>2. \A i \in DOMAIN queue : loaded[queue[i]] \in Parses
    <3>1. DOMAIN queue = 1..Len(queue)
      BY LenProperties DEF Stored
    <3>2. QED
      BY <3>1 DEF Bounded
  <2>3. QED
    BY <2>1, <2>2, Zenon DEF Stored, Bounded, TypeOK, Receipts
<1>3. QED
  BY <1>1, <1>2, StoredInvariant, NextBounded, PTL DEF Spec

-----------------------------------------------------------------------------
(***************************************************************************)
(* One writer per run.                                                     *)
(***************************************************************************)

\* What the checked operations of a run have decided, those of the owner did.
OwnersWrite == \A p \in Paths : writers[p] \subseteq {owner[p]}

\* Every step keeps that.
LEMMA NextWriter ==
    ASSUME Stored, OwnersWrite, [Next]_vars
    PROVE  OwnersWrite'
<1>1. CASE Load
  BY <1>1 DEF Load, OwnersWrite
<1>2. ASSUME NEW files, NEW strays, NEW whole, \A p \in files \ strays : owner[p] = Current,
             Running, Decide(files, strays, whole), owner' = owner
      PROVE  OwnersWrite'
  BY <1>2 DEF OwnersWrite, Decide
<1>3. CASE BuildSucceeds
  <2>1. PICK strays \in SUBSET Strays : MayBuild(strays) /\ Decide(OwnedNow, strays, TRUE)
    BY <1>3 DEF BuildSucceeds
  <2>2. QED
    BY <1>2, <1>3, <2>1 DEF BuildSucceeds, MayBuild
<1>4. CASE Running /\ Unfinished /\ owner' = owner
  <2>1. PICK strays \in SUBSET Strays, files \in SUBSET {p \in OwnedNow : owner[p] = Current} :
           Decide(files, strays, FALSE)
    BY <1>4 DEF Unfinished
  <2>2. QED
    BY <1>2, <1>4, <2>1
<1>5. CASE UNCHANGED <<writers, owner>>
  BY <1>5 DEF OwnersWrite
<1>6. QED
  BY <1>1, <1>3, <1>4, <1>5
     DEF Next, Edit, LoadFails, StartAll, StartOne, BuildFails, Crash, vars, historyVars, runVars

\* Within a run, of the specifications that claim a file only its owner in
\* the ownership map decides it by operations that the check sees; what is
\* written behind the check (Strays) is left out, and only that.
THEOREM SingleWriter == Spec => []OneWriterPerRun
<1>1. Init => OwnersWrite
  BY DEF Init, OwnersWrite
<1>2. OwnersWrite => OneWriterPerRun
  BY DEF OwnersWrite, OneWriterPerRun
<1>3. QED
  BY <1>1, <1>2, NextWriter, StoredInvariant, PTL DEF Spec
-----------------------------------------------------------------------------
(***************************************************************************)
(* What the receipts call up to date.                                      *)
(***************************************************************************)

Hashes == SpecHashes(receipts)

\* The receipts show texts of specifications.
LEMMA HashesType ==
    ASSUME Stored
    PROVE  DOMAIN Hashes \subseteq Specs
BY DEF Hashes, SpecHashes, NewestHashes

\* A step other than a successful build changes no hash.
LEMMA HashesStay ==
    ASSUME Stored, [Next]_vars, ~BuildSucceeds
    PROVE  Hashes' = Hashes
<1>1. CASE receipts' = receipts
  BY <1>1 DEF Hashes
<1>2. ASSUME Running, NEW status \in {"failed", "torn"}, receipts' = <<Receipt(status)>> \o receipts
      PROVE  Hashes' = Hashes
  <2>1. Receipt(status) \in Receipts /\ Receipt(status).status # "success"
    BY <1>2, RunningHas DEF Receipt
  <2>2. QED
    BY <1>2, <2>1, HashesAfter DEF Stored, Hashes
<1>3. CASE BuildFails
  BY <1>1, <1>2, <1>3 DEF BuildFails
<1>4. CASE Crash
  BY <1>1, <1>2, <1>4 DEF Crash
<1>5. QED
  BY <1>1, <1>3, <1>4
     DEF Next, Edit, Load, LoadFails, StartAll, StartOne, vars

\* A successful build records the text that was loaded.
LEMMA HashesBuilt ==
    ASSUME Stored, BuildSucceeds
    PROVE  /\ DOMAIN Hashes' = DOMAIN Hashes \cup {Current}
           /\ Hashes'[Current] = loaded[Current]
           /\ \A s \in DOMAIN Hashes \ {Current} : Hashes'[s] = Hashes[s]
<1>1. /\ Receipt("success") \in Receipts /\ receipts' = <<Receipt("success")>> \o receipts
      /\ Receipt("success").status = "success" /\ Receipt("success").spec = Current
      /\ Receipt("success").hash = loaded[Current]
  BY RunningHas DEF BuildSucceeds, Receipt
<1>2. SpecHashes(<<Receipt("success")>> \o receipts) =
        [s \in DOMAIN Hashes \cup {Receipt("success").spec} |->
            IF s = Receipt("success").spec THEN Receipt("success").hash ELSE Hashes[s]]
  BY <1>1, HashesAfter DEF Stored, Hashes
<1>3. Hashes' = SpecHashes(<<Receipt("success")>> \o receipts)
  BY <1>1 DEF Hashes
<1>4. QED
  BY <1>1, <1>2, <1>3

\* Every file that a running or successful build of a specification declares
\* has been claimed by it, and what a receipt vouches for was decided by it:
\* the inductive strengthening of UpToDateMeansBuilt.
Claims ==
    /\ Running => \A s \in Specs : \A p \in Owned[loaded[s]] : s \in claimants[p]
    /\ \A s \in DOMAIN Hashes : \A p \in Owned[Hashes[s]] : s \in claimants[p]

Vouched ==
    \A s \in DOMAIN Hashes :
        /\ Hashes[s] \in Texts
        /\ \A p \in OwnFiles(s, Hashes[s]) :
              /\ stamps[p] # NotDecided
              /\ Regular(p) => stamps[p].by = s /\ stamps[p].text = Hashes[s]

\* The declared files of a text are paths.
LEMMA OwnedPaths == \A t \in Texts : Owned[t] \subseteq Paths
BY DEF Paths

\* Loading the specifications keeps what is vouched for.
LEMMA LoadVouched ==
    ASSUME Stored, Claims, Vouched, Load, Hashes' = Hashes
    PROVE  /\ \A s \in Specs : \A p \in Owned[loaded'[s]] : s \in claimants'[p]
           /\ \A s \in DOMAIN Hashes : \A p \in Owned[Hashes[s]] : s \in claimants'[p]
           /\ \A s \in DOMAIN Hashes : \A p \in OwnFiles(s, Hashes[s])' : p \in OwnFiles(s, Hashes[s])
           /\ Vouched'
<1>1. \A p \in Paths : claimants'[p] = claimants[p] \cup {s \in Specs : p \in Owned[text[s]]}
  BY DEF Load
<1>2. \A s \in Specs : text[s] \in Texts /\ loaded'[s] = text[s]
  BY DEF Load, Stored
<1>3. \A s \in DOMAIN Hashes : Hashes[s] \in Texts /\ Owned[Hashes[s]] \subseteq Paths
  BY OwnedPaths DEF Vouched
<1>4. \A s \in Specs : \A p \in Owned[loaded'[s]] : s \in claimants'[p]
  BY <1>1, <1>2, OwnedPaths
<1>5. \A s \in DOMAIN Hashes : \A p \in Owned[Hashes[s]] : s \in claimants'[p]
  BY <1>1, <1>3 DEF Claims
<1>6. ASSUME NEW s \in DOMAIN Hashes, NEW p \in Owned[Hashes[s]], claimants'[p] = {s}
      PROVE  claimants[p] = {s}
  BY <1>1, <1>3, <1>6 DEF Claims
<1>7. \A s \in DOMAIN Hashes : \A p \in OwnFiles(s, Hashes[s])' : p \in OwnFiles(s, Hashes[s])
  BY <1>6 DEF OwnFiles
<1>8. Vouched'
  <2> SUFFICES ASSUME NEW s \in DOMAIN Hashes, NEW p \in OwnFiles(s, Hashes[s])'
               PROVE  /\ stamps'[p] # NotDecided
                      /\ Regular(p)' => stamps'[p].by = s /\ stamps'[p].text = Hashes[s]
    BY <1>3 DEF Vouched
  <2>1. p \in OwnFiles(s, Hashes[s]) /\ p \in Paths
    BY <1>3, <1>7 DEF OwnFiles
  <2>2. stamps' = stamps
    BY DEF Load
  <2>3. QED
    BY <2>1, <2>2 DEF Vouched, Regular
<1>9. QED
  BY <1>4, <1>5, <1>7, <1>8

\* Every step keeps it.
LEMMA NextVouched ==
    ASSUME Stored, Claims, Vouched, [Next]_vars
    PROVE  Claims' /\ Vouched'
<1>1. CASE Load /\ ~BuildSucceeds
  BY <1>1, HashesStay, LoadVouched DEF Claims
<1>2. CASE BuildSucceeds
  <2>1. Running /\ claimants' = claimants /\ loaded' = loaded
    BY <1>2 DEF BuildSucceeds
  <2>0. PICK strays \in SUBSET Strays : Decide(OwnedNow, strays, TRUE)
    BY <1>2 DEF BuildSucceeds
  <2>2. /\ DOMAIN Hashes' = DOMAIN Hashes \cup {Current} /\ Hashes'[Current] = loaded[Current]
        /\ \A s \in DOMAIN Hashes \ {Current} : Hashes'[s] = Hashes[s]
        /\ DOMAIN Hashes \subseteq Specs
    BY <1>2, HashesBuilt, HashesType
  <2>3. Current \in Specs /\ loaded[Current] \in Texts
    BY <2>1, RunningHas
  <2>4. Claims'
    BY <2>1, <2>2, <2>3 DEF Claims
  <2>5. ASSUME NEW p \in Owned[loaded[Current]]
        PROVE  /\ stamps'[p] # NotDecided /\ stamps'[p].by = Current
               /\ stamps'[p].text = loaded[Current]
    <3>1. p \in OwnedNow /\ p \in Paths
      BY <2>3, OwnedPaths DEF OwnedNow
    <3>2. stamps'[p] = Stamp(Current, TRUE)
      BY <2>0, <2>1, <3>1 DEF Decide
    <3>3. QED
      BY <2>1, <3>2, StampHas
  <2>6. ASSUME NEW s \in DOMAIN Hashes \ {Current},
               NEW p \in Owned[Hashes[s]], claimants[p] = {s}
        PROVE  /\ stamps'[p] # NotDecided
               /\ Regular(p)' => stamps'[p].by = s /\ stamps'[p].text = Hashes[s]
    <3>1. Hashes[s] \in Texts /\ p \in OwnFiles(s, Hashes[s]) /\ p \in Paths
      BY <2>6, OwnedPaths DEF Vouched, OwnFiles
    <3>2. p \notin Owned[loaded[Current]]
      BY <2>1, <2>3, <2>6 DEF Claims
    <3>3. CASE p \in strays
      <4>1. stamps'[p] = Stamp(Current, TRUE)
        BY <2>0, <2>1, <3>1, <3>3 DEF Decide
      <4>2. stamps'[p] # NotDecided /\ stamps'[p].text = loaded[Current]
        BY <2>1, <4>1, StampHas
      <4>3. ~Regular(p)'
        BY <3>2, <4>2 DEF Regular
      <4>4. QED
        BY <4>2, <4>3
    <3>4. CASE p \notin strays
      <4>1. stamps'[p] = stamps[p]
        BY <2>0, <2>1, <3>1, <3>2, <3>4 DEF OwnedNow, Decide
      <4>2. QED
        BY <3>1, <4>1 DEF Vouched, Regular
    <3>5. QED
      BY <3>3, <3>4
  <2>7. QED
    BY <2>1, <2>2, <2>3, <2>4, <2>5, <2>6 DEF Vouched, OwnFiles
<1>3. CASE (BuildFails \/ Crash) /\ ~BuildSucceeds
  <2>1. PICK strays \in SUBSET Strays, files \in SUBSET OwnedNow : Decide(files, strays, FALSE)
    BY <1>3 DEF BuildFails, Crash, Unfinished
  <2>2. Running /\ claimants' = claimants /\ loaded' = loaded /\ queue' = <<>> /\ Hashes' = Hashes
    BY <1>3, HashesStay DEF BuildFails, Crash, Next
  <2>3. Claims'
    BY <2>2 DEF Claims, Running
  <2>4. ASSUME NEW s \in DOMAIN Hashes, NEW p \in Owned[Hashes[s]], claimants[p] = {s}
        PROVE  /\ stamps'[p] # NotDecided
               /\ Regular(p)' => stamps'[p].by = s /\ stamps'[p].text = Hashes[s]
    <3>1. p \in OwnFiles(s, Hashes[s]) /\ p \in Paths
      BY <2>4, OwnedPaths DEF Vouched, OwnFiles
    <3>2. CASE p \in files \cup strays
      <4>1. stamps'[p] = Stamp(Current, FALSE)
        BY <2>1, <2>2, <3>1, <3>2 DEF Decide
      <4>2. stamps'[p] # NotDecided /\ stamps'[p].whole = FALSE
        BY <2>2, <4>1, StampHas
      <4>3. QED
        BY <4>2 DEF Regular
    <3>3. CASE p \notin files \cup strays
      <4>1. stamps'[p] = stamps[p]
        BY <2>1, <2>2, <3>1, <3>3 DEF Decide
      <4>2. QED
        BY <3>1, <4>1 DEF Vouched, Regular
    <3>4. QED
      BY <3>2, <3>3
  <2>5. QED
    BY <2>2, <2>3, <2>4 DEF Vouched, OwnFiles
<1>4. CASE UNCHANGED <<stamps, claimants>> /\ ~BuildSucceeds /\ UNCHANGED <<loaded, queue>>
  BY <1>4, HashesStay DEF Claims, Vouched, OwnFiles, Running, Regular
<1>5. QED
  BY <1>1, <1>2, <1>3, <1>4
     DEF Next, Edit, LoadFails, StartAll, StartOne, vars, historyVars, runVars

LEMMA VouchedInvariant == Spec => [](Claims /\ Vouched)
<1>1. Init => Claims /\ Vouched
  <2> SUFFICES ASSUME Init PROVE Claims /\ Vouched
    OBVIOUS
  <2>1. Hashes = [s \in {} |-> receipts[Newest(ReceiptsOf(receipts, s, {"success"}))].hash]
    BY DEF Init, Hashes, SpecHashes, NewestHashes, ReceiptsOf
  <2>2. QED
    BY <2>1 DEF Init, Claims, Vouched, Running
<1>2. QED
  BY <1>1, NextVouched, StoredInvariant, PTL DEF Spec

\* What the receipts call up to date was built: each of its own files was
\* decided, and unless a stray write or an unfinished build has come after,
\* by a build of the specification as it is written now.
THEOREM UpToDateBuilt == Spec => []UpToDateMeansBuilt
<1>1. Stored /\ Vouched => UpToDateMeansBuilt
  <2> SUFFICES ASSUME Stored, Vouched, NEW s \in UpToDate
               PROVE  s \in DOMAIN Hashes /\ Hashes[s] = text[s]
    BY DEF UpToDateMeansBuilt, Vouched
  <2>1. QED
    BY DEF UpToDate, Stale, Hashes, Stored
<1>2. QED
  BY <1>1, StoredInvariant, VouchedInvariant, PTL
-----------------------------------------------------------------------------
(***************************************************************************)
(* The list of a run.                                                      *)
(***************************************************************************)

\* What is left of the list of a whole run holds all that is stale and all
\* that imports something of it, imports first: the strengthening of
\* ImportsBuiltFirst.
Queued ==
    Running /\ command = "all" =>
        /\ Stale(loaded, Hashes) \subseteq Listed(queue)
        /\ DependenciesFirst(ImportsIn(loaded), queue)
        /\ ClosedUnderImporters(ImportsIn(loaded), Listed(queue))

\* A whole run that came to its end has left nothing stale.
Finished == outcome = "completed" /\ command = "all" => Stale(loaded, Hashes) = {}

\* What a successful build leaves stale and listed.
LEMMA BuildLeaves ==
    ASSUME Stored, BuildSucceeds
    PROVE  /\ Running /\ Current \in Specs /\ loaded' = loaded /\ command' = command
           /\ Stale(loaded, Hashes)' \subseteq Stale(loaded, Hashes) \ {Current}
           /\ Listed(queue) = {Current} \cup Listed(Tail(queue))
           /\ queue' \in {<<>>, Tail(queue)}
           /\ outcome' = "completed" => Listed(Tail(queue)) = {}
<1>1. /\ Running /\ loaded' = loaded /\ command' = command /\ queue' \in {<<>>, Tail(queue)}
      /\ outcome' = "completed" => Len(queue) = 1
  BY DEF BuildSucceeds
<1>2. /\ Current \in Specs /\ Listed(queue) = {Current} \cup Listed(Tail(queue))
      /\ Len(queue) = 1 => Listed(Tail(queue)) = {}
  BY <1>1, ListSplits DEF Stored, Running, Current
<1>3. ASSUME NEW s \in Stale(loaded, Hashes)' PROVE s \in Stale(loaded, Hashes) \ {Current}
  <2>1. s \in DOMAIN loaded /\ (s \notin DOMAIN Hashes' \/ Hashes'[s] # loaded[s])
    BY <1>1, <1>3 DEF Stale
  <2>2. s # Current /\ (s \notin DOMAIN Hashes \/ Hashes[s] # loaded[s])
    BY <2>1, HashesBuilt
  <2>3. QED
    BY <2>1, <2>2 DEF Stale
<1>4. QED
  BY <1>1, <1>2, <1>3

\* Every step keeps the list right.
LEMMA NextQueued ==
    ASSUME Stored, Queued, Finished, [Next]_vars
    PROVE  Queued' /\ Finished'
<1>1. CASE BuildSucceeds
  <2>1. CASE queue' = <<>>
    <3>1. Queued'
      BY <2>1 DEF Queued, Running
    <3>2. ASSUME command = "all", outcome' = "completed" PROVE Stale(loaded, Hashes)' = {}
      BY <1>1, <3>2, BuildLeaves DEF Queued
    <3>3. QED
      BY <1>1, <3>1, <3>2, BuildLeaves DEF Finished
  <2>2. CASE queue' = Tail(queue)
    <3>1. ASSUME command = "all"
          PROVE  /\ Stale(loaded, Hashes)' \subseteq Listed(Tail(queue))
                 /\ DependenciesFirst(ImportsIn(loaded), Tail(queue))
                 /\ ClosedUnderImporters(ImportsIn(loaded), Listed(Tail(queue)))
      <4>1. Queued /\ Running
        BY <1>1 DEF BuildSucceeds
      <4>2. Stale(loaded, Hashes)' \subseteq Listed(Tail(queue))
        BY <1>1, <3>1, <4>1, BuildLeaves DEF Queued
      <4>3. /\ DependenciesFirst(ImportsIn(loaded), Tail(queue))
            /\ ImportsIn(loaded)[Current] \cap Listed(queue) = {}
        BY <3>1, <4>1, ListSplits DEF Queued, Running, Current, Stored
      <4>4. Listed(queue) = {Current} \cup Listed(Tail(queue))
        BY <1>1, BuildLeaves
      <4>5. ASSUME NEW s \in DOMAIN ImportsIn(loaded),
                   ImportsIn(loaded)[s] \cap Listed(Tail(queue)) # {}
            PROVE  s \in Listed(Tail(queue))
        BY <3>1, <4>1, <4>3, <4>4, <4>5 DEF Queued, ClosedUnderImporters
      <4>6. QED
        BY <4>2, <4>3, <4>5 DEF ClosedUnderImporters
    <3>2. Queued'
      <4>1. loaded' = loaded /\ command' = command
        BY <1>1, BuildLeaves
      <4>2. ImportsIn(loaded)' = ImportsIn(loaded) /\ Listed(queue)' = Listed(Tail(queue))
        BY <2>2, <4>1 DEF ImportsIn, Listed
      <4>3. QED
        BY <2>2, <3>1, <4>1, <4>2 DEF Queued, DependenciesFirst, ClosedUnderImporters
    <3>3. ASSUME command = "all", outcome' = "completed" PROVE Stale(loaded, Hashes)' = {}
      BY <1>1, <3>1, <3>3, BuildLeaves
    <3>4. QED
      BY <1>1, <3>2, <3>3, BuildLeaves DEF Finished
  <2>3. QED
    BY <1>1, <2>1, <2>2, BuildLeaves
<1>2. CASE StartAll /\ ~BuildSucceeds
  <2>1. loaded' = text /\ command' = "all" /\ outcome' # "completed" /\ Hashes' = Hashes
    BY <1>2, HashesStay DEF StartAll, Load, Next
  <2>2. CASE queue' = <<>>
    BY <2>1, <2>2 DEF Queued, Finished, Running
  <2>3. CASE queue' # <<>>
    <3>1. /\ Listed(queue') = Dirty(text, receipts)
          /\ DependenciesFirst(ImportsIn(text), queue')
          /\ Stale(text, Hashes) \subseteq Dirty(text, receipts)
          /\ ClosedUnderImporters(ImportsIn(text), Dirty(text, receipts))
      BY <1>2, <2>3, Chosen DEF Hashes
    <3>2. /\ Stale(loaded, Hashes)' = Stale(text, Hashes) /\ Listed(queue)' = Listed(queue')
          /\ ImportsIn(loaded)' = ImportsIn(text)
      BY <2>1 DEF Stale, Listed, ImportsIn
    <3>3. Queued'
      BY <3>1, <3>2 DEF Queued, DependenciesFirst, ClosedUnderImporters
    <3>4. QED
      BY <2>1, <3>3 DEF Finished
  <2>4. QED
    BY <2>2, <2>3
<1>3. ASSUME NEW s \in Specs, StartOne(s) PROVE Queued' /\ Finished'
  BY <1>3 DEF StartOne, Queued, Finished
<1>4. CASE UNCHANGED <<loaded, queue, command>> /\ ~BuildSucceeds /\ outcome' \in {outcome, "panicked"}
  <2>1. Hashes' = Hashes
    BY <1>4, HashesStay
  <2>2. /\ Stale(loaded, Hashes)' = Stale(loaded, Hashes) /\ Listed(queue)' = Listed(queue)
        /\ ImportsIn(loaded)' = ImportsIn(loaded)
    BY <1>4, <2>1 DEF Stale, Listed, ImportsIn
  <2>3. Queued'
    BY <1>4, <2>2 DEF Queued, Running, DependenciesFirst, ClosedUnderImporters
  <2>4. Finished'
    BY <1>4, <2>2 DEF Finished
  <2>5. QED
    BY <2>3, <2>4
<1>5. CASE queue' = <<>> /\ outcome' \in {"failed", "crashed"}
  BY <1>5 DEF Queued, Finished, Running
<1>6. QED
  BY <1>1, <1>2, <1>3, <1>4, <1>5
     DEF Next, Edit, LoadFails, BuildFails, Crash, vars, historyVars, runVars

LEMMA QueuedInvariant == Spec => [](Queued /\ Finished)
<1>1. Init => Queued /\ Finished
  BY DEF Init, Queued, Finished, Running
<1>2. QED
  BY <1>1, NextQueued, StoredInvariant, PTL DEF Spec

\* A whole run builds a specification only when each of its imports is built
\* from the text the run has loaded.
THEOREM ImportsFirst == Spec => []ImportsBuiltFirst
<1>1. Stored /\ Queued => ImportsBuiltFirst
  <2> SUFFICES ASSUME Stored, Queued, Running, command = "all",
                      NEW d \in Imports[loaded[Current]] \cap Specs
               PROVE  d \notin Stale(loaded, Hashes)
    BY DEF ImportsBuiltFirst, Hashes
  <2>1. Current \in Specs
    BY RunningHas
  <2>2. d \in ImportsIn(loaded)[Current]
    BY <2>1 DEF ImportsIn
  <2>3. ImportsIn(loaded)[Current] \cap Listed(queue) = {}
    BY ListSplits DEF Stored, Queued, Running, Current
  <2>4. QED
    BY <2>2, <2>3 DEF Queued
<1>2. QED
  BY <1>1, StoredInvariant, QueuedInvariant, PTL

\* A whole run that came to its end leaves nothing to do.
THEOREM NothingLeft == Spec => []CompletedLeavesNothingDirty
<1>1. Stored /\ Finished => CompletedLeavesNothingDirty
  <2> SUFFICES ASSUME Stored, Stale(text, Hashes) = {} PROVE Dirty(text, receipts) = {}
    BY DEF Finished, CompletedLeavesNothingDirty
  <2>1. QED
    BY DependentsClosed DEF Dirty, Hashes
<1>2. QED
  BY <1>1, StoredInvariant, QueuedInvariant, PTL
-----------------------------------------------------------------------------
(***************************************************************************)
(* What a run without anything to do leaves.                               *)
(***************************************************************************)

\* A file was decided against what the receipts say of the imports of a text.
Against(p, t) ==
    /\ DOMAIN stamps[p].imports = Imports[t] \cap Specs
    /\ \A d \in Imports[t] \cap Specs : d \in DOMAIN Hashes /\ stamps[p].imports[d] = Hashes[d]

\* As long as every run has built all that was dirty, what is not waiting to
\* be built was built against the last builds of its imports.
Fresh ==
    ~partial =>
        /\ Running => command = "all"
        /\ \A s \in DOMAIN Hashes \ Listed(queue) :
              \A p \in OwnFiles(s, Hashes[s]) : Regular(p) => Against(p, Hashes[s])

\* Nothing is listed between runs.
LEMMA NothingListed == Listed(<<>>) = {}
<1>1. Len(<<>>) = 0 /\ 1..0 = {}
  OBVIOUS
<1>2. QED
  BY <1>1 DEF Listed

\* Loading keeps what is fresh, whatever is to be built then.
LEMMA LoadFresh ==
    ASSUME Stored, Claims, Vouched, Fresh, ~partial, Load, Hashes' = Hashes,
           NEW s \in DOMAIN Hashes, NEW p \in Owned[Hashes[s]], claimants'[p] = {s},
           Regular(p)'
    PROVE  Against(p, Hashes[s])'
<1>1. p \in OwnFiles(s, Hashes[s])
  BY LoadVouched DEF OwnFiles
<1>2. stamps' = stamps /\ Regular(p)
  BY DEF Load, Regular
<1>3. Against(p, Hashes[s])
  BY <1>1, <1>2, NothingListed DEF Load, Running, Fresh
<1>4. QED
  BY <1>2, <1>3 DEF Against

\* A successful build keeps fresh what is not waiting.
LEMMA BuildFresh ==
    ASSUME Stored, Claims, Vouched, Queued, Fresh, ~partial, ~partial', BuildSucceeds,
           NEW s \in DOMAIN Hashes', s \notin Listed(Tail(queue)),
           NEW t, t = Hashes'[s], NEW p \in Owned[t], claimants[p] = {s}, Regular(p)'
    PROVE  Against(p, t)'
<1>0. PICK strays \in SUBSET Strays : Decide(OwnedNow, strays, TRUE)
  BY DEF BuildSucceeds
<1>1. /\ Running /\ Current \in Specs
      /\ Listed(queue) = {Current} \cup Listed(Tail(queue))
      /\ DOMAIN Hashes' = DOMAIN Hashes \cup {Current} /\ Hashes'[Current] = loaded[Current]
      /\ \A r \in DOMAIN Hashes \ {Current} : Hashes'[r] = Hashes[r]
      /\ DOMAIN Hashes \subseteq Specs
  BY BuildLeaves, HashesBuilt, HashesType DEF BuildSucceeds
\* The run is over all that is dirty.
<1>2. /\ Stale(loaded, Hashes) \subseteq Listed(queue)
      /\ DependenciesFirst(ImportsIn(loaded), queue)
      /\ ClosedUnderImporters(ImportsIn(loaded), Listed(queue))
  <2>1. command = "all"
    BY <1>1 DEF Fresh
  <2>2. QED
    BY <1>1, <2>1 DEF Queued
<1>3. ImportsIn(loaded)[Current] \cap Listed(queue) = {}
  BY <1>1, <1>2, ListSplits DEF Stored, Running, Current
<1>4. CASE s = Current
  <2>1. p \in OwnedNow /\ p \in Paths /\ t = loaded[Current]
    BY <1>1, <1>4, RunningHas DEF OwnedNow
  <2>2. stamps'[p].imports = [d \in Imports[t] \cap Specs |-> loaded[d]]
    BY <1>0, <1>1, <2>1, StampHas DEF Decide
  <2>3. ASSUME NEW d \in Imports[t] \cap Specs
        PROVE  d \in DOMAIN Hashes' /\ Hashes'[d] = loaded[d]
    <3>1. d \notin Listed(queue)
      BY <1>1, <1>3, <2>1 DEF ImportsIn
    <3>2. d \in DOMAIN Hashes /\ Hashes[d] = loaded[d]
      BY <1>2, <3>1 DEF Stale, Stored
    <3>3. QED
      BY <1>1, <3>1, <3>2
  <2>4. QED
    BY <2>2, <2>3 DEF Against
<1>5. CASE s # Current
  <2>1. s \in DOMAIN Hashes /\ s \notin Listed(queue) /\ t = Hashes[s] /\ s \in Specs
    BY <1>1, <1>5
  <2>2. t = loaded[s] /\ t \in Texts
    BY <1>2, <2>1 DEF Stale, Stored
  <2>3. p \in Paths /\ p \notin OwnedNow
    BY <1>1, <1>5, <2>2, OwnedPaths DEF Claims, OwnedNow
  <2>4. stamps'[p] = stamps[p]
    <3>1. CASE p \in strays
      <4>1. stamps'[p].text = loaded[Current]
        BY <1>0, <1>1, <2>3, <3>1, StampHas DEF Decide
      <4>2. QED
        BY <2>3, <4>1 DEF Regular, OwnedNow
    <3>2. CASE p \notin strays
      BY <1>0, <1>1, <2>3, <3>2 DEF Decide
    <3>3. QED
      BY <3>1, <3>2
  <2>5. Against(p, t)
    BY <2>1, <2>4 DEF Fresh, OwnFiles, Regular
  <2>6. Current \notin Imports[t]
    <3>1. DOMAIN ImportsIn(loaded) = Specs /\ ImportsIn(loaded)[s] = Imports[t] \cap Specs
      BY <2>1, <2>2 DEF ImportsIn
    <3>2. QED
      BY <1>1, <1>2, <2>1, <3>1 DEF ClosedUnderImporters
  <2>7. \A d \in Imports[t] \cap Specs :
          d \in DOMAIN Hashes' /\ Hashes'[d] = Hashes[d]
    BY <1>1, <2>5, <2>6 DEF Against
  <2>8. QED
    BY <2>4, <2>5, <2>7 DEF Against
<1>6. QED
  BY <1>4, <1>5

\* Every step keeps that.
LEMMA NextFresh ==
    ASSUME Stored, Claims, Vouched, Queued, Fresh, [Next]_vars
    PROVE  Fresh'
<1> SUFFICES ASSUME ~partial' PROVE Fresh'
  BY DEF Fresh
<1>1. CASE BuildSucceeds
  <2>1. /\ ~partial /\ queue' = Tail(queue) /\ claimants' = claimants /\ command' = command
    BY <1>1 DEF BuildSucceeds
  <2>2. Listed(queue)' = Listed(Tail(queue))
    BY <2>1 DEF Listed
  <2>3. \A s \in DOMAIN Hashes' \ Listed(queue)' :
          \A p \in Owned[Hashes'[s]] :
              claimants[p] = {s} /\ Regular(p)' => Against(p, Hashes[s])'
    <3> SUFFICES ASSUME NEW s \in DOMAIN Hashes' \ Listed(queue)', NEW t, t = Hashes'[s],
                        NEW p \in Owned[t], claimants[p] = {s}, Regular(p)'
                 PROVE  Against(p, t)'
      BY DEF Against
    <3>1. QED
      BY <1>1, <2>1, <2>2, BuildFresh
  <2>4. QED
    BY <1>1, <2>1, <2>3 DEF Fresh, OwnFiles, BuildSucceeds
<1>2. CASE StartAll /\ ~BuildSucceeds
  <2>1. ~partial /\ Load /\ Hashes' = Hashes /\ command' = "all"
    BY <1>2, HashesStay DEF StartAll, Next
  <2>2. \A s \in DOMAIN Hashes : \A p \in Owned[Hashes[s]] :
          claimants'[p] = {s} /\ Regular(p)' => Against(p, Hashes[s])'
    BY <2>1, LoadFresh
  <2>3. QED
    BY <2>1, <2>2 DEF Fresh, OwnFiles
<1>3. ASSUME NEW s \in Specs, StartOne(s) PROVE FALSE
  BY <1>3 DEF StartOne
<1>4. CASE /\ UNCHANGED <<stamps, claimants, partial, command, queue>> /\ ~BuildSucceeds
  <2>1. Hashes' = Hashes /\ Listed(queue)' = Listed(queue)
    BY <1>4, HashesStay DEF Listed
  <2>2. QED
    BY <1>4, <2>1 DEF Fresh, OwnFiles, Against, Running, Regular
<1>5. QED
  BY <1>1, <1>2, <1>3, <1>4
     DEF Next, Edit, LoadFails, BuildFails, Crash, vars, historyVars, runVars

LEMMA FreshInvariant == Spec => []Fresh
<1>1. Init => Fresh
  <2> SUFFICES ASSUME Init PROVE Fresh
    OBVIOUS
  <2>1. Hashes = [s \in {} |-> receipts[Newest(ReceiptsOf(receipts, s, {"success"}))].hash]
    BY DEF Init, Hashes, SpecHashes, NewestHashes, ReceiptsOf
  <2>2. QED
    BY <2>1 DEF Init, Fresh, Running
<1>2. QED
  BY <1>1, NextFresh, StoredInvariant, VouchedInvariant, QueuedInvariant, PTL DEF Spec

\* When a run would have nothing to do, everything was built against the
\* present text of its imports, provided that every run has built all that
\* was dirty, and but for files that a stray write has decided since.
THEOREM NothingDirtyFresh == Spec => []NothingDirtyMeansFresh
<1>1. Stored /\ Vouched /\ Fresh => NothingDirtyMeansFresh
  <2> SUFFICES ASSUME Stored, Vouched, Fresh, SkipsEverything, ~partial,
                      NEW s \in Specs, NEW p \in OwnFiles(s, text[s])
               PROVE  /\ stamps[p] # NotDecided
                      /\ Regular(p) => \A d \in DOMAIN stamps[p].imports : stamps[p].imports[d] = text[d]
    BY DEF NothingDirtyMeansFresh, EverythingFresh, BuiltAgainst
  <2>1. ~Running /\ Dirty(text, receipts) = {}
    BY DEF SkipsEverything
  <2>2. Stale(text, Hashes) \subseteq Specs /\ DOMAIN ImportsIn(text) = Specs
    BY DEF Stale, Stored, ImportsIn
  <2>3. Stale(text, Hashes) = {}
    BY <2>1, <2>2, DependentsClosed DEF Dirty, Hashes
  <2>4. \A r \in Specs : r \in DOMAIN Hashes /\ Hashes[r] = text[r]
    BY <2>3 DEF Stale, Stored
  <2>5. Regular(p) => Against(p, text[s])
    BY <2>1, <2>4, NothingListed DEF Fresh, Running
  <2>6. QED
    BY <2>4, <2>5 DEF Vouched, Against
<1>2. QED
  BY <1>1, StoredInvariant, VouchedInvariant, FreshInvariant, PTL
=============================================================================
