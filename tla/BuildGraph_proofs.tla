------------------------- MODULE BuildGraph_proofs --------------------------
(***************************************************************************)
(* What MarkDirty and TopologicalSort compute, for every graph and every   *)
(* set of receipts.                                                        *)
(***************************************************************************)
EXTENDS BuildGraph, SequenceTheorems, FiniteSetTheorems, TLAPS

\* An edge leads from a loaded specification to a loaded specification.
LEMMA EdgesType ==
    ASSUME NEW declared
    PROVE  AddEdges(declared) \in [Specs -> SUBSET Specs]
BY DEF AddEdges

\* A frame has the node and the imports of its call.
LEMMA FrameType ==
    ASSUME NEW s \in Specs, imports \in [Specs -> SUBSET Specs]
    PROVE  Frame(s) \in [node: Specs, deps: SUBSET Specs]
BY DEF Frame

\* A sequence of one element.
LEMMA SingletonSeq ==
    ASSUME NEW S, NEW e \in S
    PROVE  <<e>> \in Seq(S) /\ Len(<<e>>) = 1 /\ DOMAIN <<e>> = 1..1 /\ <<e>>[1] = e
OBVIOUS

Frames == [node: Specs, deps: SUBSET Specs]

\* The calls below the top, and the top with one import less, are frames.
LEMMA StackType ==
    ASSUME stack \in Seq(Frames), stack # <<>>
    PROVE  /\ Len(stack) \in Nat /\ Len(stack) >= 1
           /\ Top \in Frames
           /\ Callers \in Seq(Frames) /\ Len(Callers) = Len(stack) - 1
           /\ \A i \in 1..Len(stack) - 1 : Callers[i] = stack[i]
           /\ \A d \in Top.deps :
                /\ Continued(d) \in Seq(Frames) /\ Len(Continued(d)) = Len(stack)
                /\ \A i \in 1..Len(stack) - 1 : Continued(d)[i] = stack[i]
                /\ Continued(d)[Len(stack)] = [node |-> Top.node, deps |-> Top.deps \ {d}]
<1>1. Len(stack) \in Nat /\ Len(stack) >= 1 /\ DOMAIN stack = 1..Len(stack)
  BY EmptySeq, LenProperties
<1>2. Top \in Frames
  BY <1>1 DEF Top
<1>3. Callers \in Seq(Frames) /\ Len(Callers) = Len(stack) - 1
      /\ \A i \in 1..Len(stack) - 1 : Callers[i] = stack[i]
  BY <1>1, SubSeqProperties DEF Callers
<1>4. ASSUME NEW d \in Top.deps
      PROVE  /\ Continued(d) \in Seq(Frames) /\ Len(Continued(d)) = Len(stack)
             /\ \A i \in 1..Len(stack) - 1 : Continued(d)[i] = stack[i]
             /\ Continued(d)[Len(stack)] = [node |-> Top.node, deps |-> Top.deps \ {d}]
  <2> DEFINE rest == [node |-> Top.node, deps |-> Top.deps \ {d}]
  <2>1. rest \in Frames
    BY <1>2 DEF Frames
  <2>2. Continued(d) = Append(Callers, rest)
    BY DEF Continued
  <2> HIDE DEF rest
  <2>3. /\ Append(Callers, rest) \in Seq(Frames)
        /\ Len(Append(Callers, rest)) = Len(Callers) + 1
        /\ \A i \in 1..Len(Callers) : Append(Callers, rest)[i] = Callers[i]
        /\ Append(Callers, rest)[Len(Callers) + 1] = rest
    BY <1>3, <2>1, AppendProperties
  <2>4. Len(Callers) + 1 = Len(stack)
    BY <1>1, <1>3
  <2>5. \A i \in 1..Len(stack) - 1 : Append(Callers, rest)[i] = stack[i]
    BY <1>1, <1>3, <2>3, <2>4
  <2>6. /\ Append(Callers, rest) \in Seq(Frames)
        /\ Len(Append(Callers, rest)) = Len(stack)
        /\ Append(Callers, rest)[Len(stack)] = rest
    BY <2>3, <2>4
  <2>7. QED
    BY ONLY <2>2, <2>5, <2>6, Zenon DEF rest
<1>5. QED
  BY <1>1, <1>2, <1>3, <1>4

-----------------------------------------------------------------------------
(***************************************************************************)
(* Types.                                                                  *)
(***************************************************************************)

\* The initial values have their types.
LEMMA TypeInit == Init => TypeOK
<1> SUFFICES ASSUME Init PROVE TypeOK
  OBVIOUS
<1>1. imports \in [Specs -> SUBSET Specs]
  BY EdgesType DEF Init
<1>2. <<>> \in Seq(Specs) /\ <<>> \in Seq([node: Specs, deps: SUBSET Specs])
  BY EmptySeq
<1>3. stack \in Seq([node: Specs, deps: SUBSET Specs]) /\ result \in Seq(Specs) /\ toBuild \in Seq(Specs)
  BY <1>2, Zenon DEF Init
<1>4. /\ phase = "compare" /\ dirty \subseteq Specs /\ scan \subseteq Specs
      /\ changed \in BOOLEAN /\ visited \subseteq Specs /\ at \in Nat \ {0}
  <2>1. dirty = {} /\ scan = {} /\ changed = FALSE /\ visited = {} /\ at = 1 /\ phase = "compare"
    BY Zenon DEF Init
  <2>2. changed \in BOOLEAN
    BY <2>1, Zenon
  <2>3. at \in Nat \ {0}
    BY ONLY <2>1
  <2>4. dirty \subseteq Specs /\ scan \subseteq Specs /\ visited \subseteq Specs
    BY <2>1, Zenon
  <2>5. QED
    BY ONLY <2>1, <2>2, <2>3, <2>4, Zenon
<1>5. QED
  BY <1>1, <1>3, <1>4, Zenon DEF TypeOK

\* Every step keeps the types.
LEMMA TypeStep == TypeOK /\ [Next]_vars => TypeOK'
<1> SUFFICES ASSUME TypeOK, [Next]_vars PROVE TypeOK'
  OBVIOUS
<1> USE DEF TypeOK, markVars, sortVars, listVars
<1>1. CASE UNCHANGED vars
  BY <1>1 DEF vars
<1>2. CASE CompareHashes
  BY <1>2, BuildGraphAssumption DEF CompareHashes, Stale
<1>3. ASSUME NEW s \in Specs, PropagateTo(s) PROVE TypeOK'
  BY <1>3 DEF PropagateTo
<1>4. CASE EndPass
  BY <1>4 DEF EndPass
<1>5. ASSUME NEW s \in Specs, VisitRoot(s) PROVE TypeOK'
  <2>1. Frame(s) \in Frames
    BY FrameType DEF Frames
  <2>2. <<>> \in Seq(Frames) /\ <<Frame(s)>> \in Seq(Frames)
    BY <2>1, SingletonSeq, EmptySeq
  <2>3. stack' \in Seq(Frames)
    BY <1>5, <2>2 DEF VisitRoot
  <2>4. QED
    BY <1>5, <2>3 DEF VisitRoot, Frames
<1>6. ASSUME NEW d \in Specs, VisitDep(d) PROVE TypeOK'
  <2>1. Continued(d) \in Seq(Frames)
    BY <1>6, StackType DEF VisitDep, Frames
  <2>2. Append(Continued(d), Frame(d)) \in Seq(Frames)
    BY <2>1, FrameType, AppendProperties DEF Frames
  <2>3. stack' \in Seq(Frames)
    BY <1>6, <2>1, <2>2 DEF VisitDep, Frames
  <2>4. QED
    BY <1>6, <2>3 DEF VisitDep, Frames
<1>7. CASE Return
  <2>1. stack \in Seq(Frames) /\ stack # <<>>
    BY <1>7 DEF Return, Frames
  <2>2. Top \in Frames /\ Callers \in Seq(Frames)
    BY <2>1, StackType
  <2>3. Top.node \in Specs
    BY <2>2 DEF Frames
  <2>4. result' \in Seq(Specs)
    BY <1>7, <2>3, AppendProperties DEF Return
  <2>5. QED
    BY <1>7, <2>2, <2>3, <2>4 DEF Return, Frames
<1>8. CASE EndSort
  BY <1>8 DEF EndSort
<1>9. CASE SelectDirty
  <2>1. result[at] \in Specs
    <3>1. result \in Seq(Specs) /\ at \in 1..Len(result)
      BY <1>9, LenProperties DEF SelectDirty
    <3>2. QED
      BY <3>1, ElementOfSeq
  <2>2. toBuild' \in Seq(Specs)
    BY <1>9, <2>1, AppendProperties DEF SelectDirty
  <2>3. QED
    BY <1>9, <2>2 DEF SelectDirty
<1>10. CASE EndSelect
  BY <1>10 DEF EndSelect
<1>11. QED
  BY <1>1, <1>2, <1>3, <1>4, <1>5, <1>6, <1>7, <1>8, <1>9, <1>10 DEF Next

-----------------------------------------------------------------------------
(***************************************************************************)
(* MarkDirty.                                                              *)
(***************************************************************************)

\* Nothing is dirty at the start.
LEMMA PropagatingInit == Init => Propagating
<1> SUFFICES ASSUME Init PROVE Propagating
  OBVIOUS
<1>1. dirty = {} /\ phase = "compare"
  BY DEF Init
<1>2. QED
  BY <1>1 DEF Propagating, Sorting

\* Every step keeps what MarkDirty knows of the dirty nodes.
LEMMA PropagatingStep == TypeOK /\ Propagating /\ [Next]_vars => Propagating'
<1> SUFFICES ASSUME TypeOK, Propagating, [Next]_vars PROVE Propagating'
  OBVIOUS
<1> USE DEF markVars, sortVars, listVars
<1>1. DOMAIN imports = Specs /\ Stale(Hash, known) \subseteq Specs
  BY BuildGraphAssumption DEF TypeOK, Stale
<1>2. CASE UNCHANGED <<imports, known, dirty>> /\ phase # "compare" /\ phase' # "propagate"
           /\ (Sorting' => Sorting)
  BY <1>2 DEF Propagating
<1>3. CASE UNCHANGED vars
  BY <1>3 DEF vars, Propagating, Sorting
<1>4. CASE CompareHashes
  <2>1. Stale(Hash, known) \subseteq Dependents(imports, Stale(Hash, known))
    BY <1>1 DEF Dependents
  <2>2. QED
    BY <1>4, <2>1 DEF CompareHashes, Propagating, Sorting
<1>5. ASSUME NEW s \in Specs, PropagateTo(s) PROVE Propagating'
  <2>1. CASE s \notin dirty /\ imports[s] \cap dirty # {}
    <3>1. s \in Dependents(imports, Stale(Hash, known))
      <4> SUFFICES ASSUME NEW S \in SUBSET Specs, Stale(Hash, known) \subseteq S,
                          ClosedUnderImporters(imports, S)
                   PROVE  s \in S
        BY <1>1 DEF Dependents
      <4>1. dirty \subseteq S
        BY <1>1 DEF Propagating, Dependents
      <4>2. QED
        BY <1>1, <2>1, <4>1 DEF ClosedUnderImporters
    <3>2. QED
      BY <1>5, <2>1, <3>1 DEF PropagateTo, Propagating, Sorting
  <2>2. CASE ~(s \notin dirty /\ imports[s] \cap dirty # {})
    BY <1>5, <2>2 DEF PropagateTo, Propagating, Sorting
  <2>3. QED
    BY <2>1, <2>2
<1>6. CASE EndPass
  <2>1. CASE changed
    BY <1>6, <2>1 DEF EndPass, Propagating, Sorting
  <2>2. CASE ~changed
    <3>1. ClosedUnderImporters(imports, dirty)
      BY <1>1, <1>6, <2>2 DEF EndPass, Propagating, ClosedUnderImporters
    <3>2. QED
      BY <1>6, <2>2, <3>1 DEF EndPass, Propagating, Sorting
  <2>3. QED
    BY <2>1, <2>2
<1>7. ASSUME NEW s \in Specs, VisitRoot(s) PROVE Propagating'
  BY <1>2, <1>7 DEF VisitRoot, Sorting
<1>8. ASSUME NEW d \in Specs, VisitDep(d) PROVE Propagating'
  BY <1>2, <1>8 DEF VisitDep, Sorting
<1>9. CASE Return \/ EndSort \/ SelectDirty \/ EndSelect
  BY <1>2, <1>9 DEF Return, EndSort, SelectDirty, EndSelect, Sorting
<1>10. QED
  BY <1>3, <1>4, <1>5, <1>6, <1>7, <1>8, <1>9 DEF Next

\* A closed set between the stale specifications and what reaches them is all
\* that reaches them.
LEMMA PropagatingExact == TypeOK /\ Propagating => PropagationExact
<1> SUFFICES ASSUME TypeOK, Propagating, Sorting
             PROVE  dirty = Dependents(imports, Stale(Hash, known))
  BY DEF PropagationExact
<1>1. dirty \in SUBSET DOMAIN imports
  BY DEF TypeOK
<1>2. Stale(Hash, known) \subseteq dirty /\ ClosedUnderImporters(imports, dirty)
  BY DEF Propagating, Sorting
<1>3. Dependents(imports, Stale(Hash, known)) \subseteq dirty
  BY <1>1, <1>2 DEF Dependents
<1>4. QED
  BY <1>3 DEF Propagating

-----------------------------------------------------------------------------
(***************************************************************************)
(* TopologicalSort.                                                        *)
(***************************************************************************)

Sort == PathOnStack /\ VisitedClosed /\ ResultSorted /\ CyclesReported

\* The sort starts with nothing on the stack and nothing visited.
LEMMA SortInit == Init => Sort
<1> SUFFICES ASSUME Init PROVE Sort
  OBVIOUS
<1>1. stack = <<>> /\ result = <<>> /\ visited = {} /\ phase = "compare"
  BY Zenon DEF Init
<1>2. Len(<<>>) = 0 /\ DOMAIN <<>> = {}
  OBVIOUS
<1>3. PathOnStack /\ ResultSorted
  BY <1>1, <1>2 DEF PathOnStack, ResultSorted, DependenciesFirst
<1>4. VisitedClosed
  <2>1. {result[i] : i \in DOMAIN result} = {}
    BY <1>1, <1>2
  <2>2. QED
    BY <1>1, <2>1 DEF VisitedClosed, Sorting, Sorted
<1>5. CyclesReported
  BY <1>1 DEF CyclesReported, Sorted
<1>6. QED
  BY <1>3, <1>4, <1>5 DEF Sort

\* Steps that leave the sort where it is.
LEMMA SortUntouched ==
    ASSUME Sort, UNCHANGED <<imports, sortVars>>,
           \/ ~Sorting /\ ~Sorting'
           \/ ~Sorting /\ phase' = "sort" /\ scan' = Specs
           \/ Sorting /\ UNCHANGED <<phase, scan>>
           \/ Sorted /\ Sorted' /\ UNCHANGED scan
    PROVE  Sort'
<1> USE DEF sortVars
<1>1. PathOnStack' /\ ResultSorted'
  BY DEF Sort, PathOnStack, ResultSorted, DependenciesFirst, Top
<1>2. VisitedClosed'
  BY DEF Sort, VisitedClosed, Sorting, Sorted, InStack
<1>3. CyclesReported'
  BY DEF Sort, CyclesReported, Sorting, Sorted, Cyclic
<1>4. QED
  BY <1>1, <1>2, <1>3 DEF Sort

\* A root is the whole stack, or it is visited already.
LEMMA VisitRootSorts ==
    ASSUME TypeOK, Sort, NEW s \in Specs, VisitRoot(s)
    PROVE  Sort'
<1> USE DEF markVars, sortVars, listVars, VisitRoot
<1>1. imports \in [Specs -> SUBSET Specs] /\ imports' = imports /\ visited' = visited
      /\ result' = result /\ phase = "sort" /\ phase' = "sort" /\ stack = <<>>
  BY DEF TypeOK
<1>2. InStack = {}
  BY <1>1 DEF InStack
<1>3. ResultSorted' /\ CyclesReported'
  BY <1>1 DEF Sort, ResultSorted, DependenciesFirst, CyclesReported, Sorted
<1>4. CASE s \in visited
  <2>1. stack' = <<>>
    BY <1>4
  <2>2. PathOnStack'
    BY <1>1, <2>1 DEF Sort, PathOnStack
  <2>3. VisitedClosed'
    BY <1>1, <1>2, <1>4, <2>1 DEF Sort, VisitedClosed, Sorting, Sorted
  <2>4. QED
    BY <1>3, <2>2, <2>3 DEF Sort
<1>5. CASE s \notin visited
  <2>1. stack' = <<Frame(s)>>
    BY <1>5
  <2>2. DOMAIN stack' = 1..1 /\ Len(stack') = 1 /\ stack'[1] = [node |-> s, deps |-> imports[s]]
    BY <2>1, SingletonSeq DEF Frame
  <2>3. InStack' = {s}
    BY <2>2 DEF InStack
  <2>4. PathOnStack'
    BY <1>1, <1>5, <2>2 DEF PathOnStack, Top
  <2>5. VisitedClosed'
    BY <1>1, <1>2, <2>3 DEF Sort, VisitedClosed, Sorting, Sorted
  <2>6. QED
    BY <1>3, <2>4, <2>5 DEF Sort
<1>6. QED
  BY <1>4, <1>5

\* The calls from the one for d to the top are a cycle when the top imports d.
LEMMA PathCloses ==
    ASSUME TypeOK, PathOnStack, stack # <<>>, NEW d \in Top.deps, d \in InStack
    PROVE  Cyclic(imports)
<1>1. stack \in Seq(Frames) /\ imports \in [Specs -> SUBSET Specs]
  BY DEF TypeOK, Frames
<1>2. Len(stack) \in Nat /\ Len(stack) >= 1 /\ DOMAIN stack = 1..Len(stack)
      /\ \A i \in 1..Len(stack) : stack[i] \in Frames
  BY <1>1, EmptySeq, LenProperties, ElementOfSeq
<1>3. PICK k \in 1..Len(stack) : stack[k].node = d
  BY <1>2 DEF InStack
<1> DEFINE S == {stack[i].node : i \in k..Len(stack)}
<1>4. S \in (SUBSET DOMAIN imports) \ {{}}
  <2>1. stack[k].node \in S
    BY <1>2
  <2>2. \A i \in k..Len(stack) : stack[i].node \in Specs
    BY <1>2 DEF Frames
  <2>3. QED
    BY <1>1, <2>1, <2>2
<1>5. ASSUME NEW i \in k..Len(stack)
      PROVE  imports[stack[i].node] \cap S # {}
  <2>1. CASE i = Len(stack)
    <3>1. d \in imports[stack[i].node]
      BY <1>2, <2>1 DEF PathOnStack, Top
    <3>2. d \in S
      BY <1>2, <1>3
    <3>3. QED
      BY <3>1, <3>2
  <2>2. CASE i # Len(stack)
    <3>1. i \in 1..Len(stack) - 1 /\ i + 1 \in k..Len(stack)
      BY <1>2, <2>2
    <3>2. stack[i + 1].node \in imports[stack[i].node]
      BY <3>1 DEF PathOnStack
    <3>3. QED
      BY <3>1, <3>2
  <2>3. QED
    BY <2>1, <2>2
<1>6. \A s \in S : imports[s] \cap S # {}
  BY <1>5
<1>7. QED
  BY <1>4, <1>6 DEF Cyclic

\* What a step of a running call knows of the stack.
LEMMA StackFacts ==
    ASSUME TypeOK, PathOnStack, stack # <<>>
    PROVE  \E m \in Nat \ {0} :
             /\ stack \in Seq(Frames) /\ Len(stack) = m /\ DOMAIN stack = 1..m
             /\ Top = stack[m] /\ Top \in Frames
             /\ \A i \in 1..m : stack[i] \in Frames
             /\ \A i \in 1..m : stack[i].node \notin visited
                             /\ stack[i].deps \subseteq imports[stack[i].node]
             /\ \A i, j \in 1..m : stack[i].node = stack[j].node => i = j
             /\ \A i \in 1..m - 1 :
                  /\ stack[i + 1].node \in imports[stack[i].node]
                  /\ imports[stack[i].node] \ stack[i].deps \subseteq visited \cup {stack[i + 1].node}
             /\ imports[stack[m].node] \ stack[m].deps \subseteq visited
<1>1. stack \in Seq(Frames)
  BY DEF TypeOK, Frames
<1>2. Len(stack) \in Nat \ {0} /\ DOMAIN stack = 1..Len(stack) /\ Top = stack[Len(stack)]
      /\ \A i \in 1..Len(stack) : stack[i] \in Frames
  BY <1>1, EmptySeq, LenProperties, ElementOfSeq DEF Top
<1>3. PICK m \in Nat \ {0} : m = Len(stack)
  BY <1>2
<1>4. Top \in Frames
  BY <1>2, <1>3
<1>5. QED
  BY <1>1, <1>2, <1>3, <1>4 DEF PathOnStack

\* A dep prolongs the path on the stack, is done with, or closes a cycle.
LEMMA VisitDepSorts ==
    ASSUME TypeOK, Sort, NEW d \in Specs, VisitDep(d)
    PROVE  Sort'
<1> USE DEF markVars, sortVars, listVars
<1>1. /\ imports \in [Specs -> SUBSET Specs] /\ imports' = imports /\ visited' = visited
      /\ result' = result /\ scan' = scan /\ phase = "sort" /\ stack # <<>>
      /\ d \in Top.deps
  BY DEF TypeOK, VisitDep
<1>2. PathOnStack
  BY DEF Sort
<1>3. PICK m \in Nat \ {0} :
             /\ stack \in Seq(Frames) /\ Len(stack) = m /\ DOMAIN stack = 1..m
             /\ Top = stack[m] /\ Top \in Frames
             /\ \A i \in 1..m : stack[i] \in Frames
             /\ \A i \in 1..m : stack[i].node \notin visited
                             /\ stack[i].deps \subseteq imports[stack[i].node]
             /\ \A i, j \in 1..m : stack[i].node = stack[j].node => i = j
             /\ \A i \in 1..m - 1 :
                  /\ stack[i + 1].node \in imports[stack[i].node]
                  /\ imports[stack[i].node] \ stack[i].deps \subseteq visited \cup {stack[i + 1].node}
             /\ imports[stack[m].node] \ stack[m].deps \subseteq visited
  BY <1>1, <1>2, StackFacts
<1>4. ResultSorted'
  BY <1>1 DEF Sort, ResultSorted, DependenciesFirst
<1>5. CASE d \in InStack
  <2>1. phase' = "cycle" /\ stack' = stack
    BY <1>5 DEF VisitDep
  <2>2. PathOnStack' /\ VisitedClosed'
    BY <1>1, <2>1 DEF Sort, PathOnStack, VisitedClosed, Top, InStack, Sorting, Sorted
  <2>3. CyclesReported'
    BY <1>1, <1>2, <1>5, <2>1, PathCloses DEF CyclesReported, Sorted
  <2>4. QED
    BY <1>4, <2>2, <2>3 DEF Sort
<1>6. CASE d \notin InStack
  <2> DEFINE Less(i) == IF i = m THEN stack[i].deps \ {d} ELSE stack[i].deps
  <2>1. phase' = "sort" /\ CyclesReported'
    BY <1>1, <1>6 DEF VisitDep, CyclesReported, Sorted
  <2>2. /\ Continued(d) \in Seq(Frames) /\ Len(Continued(d)) = m
        /\ \A i \in 1..m - 1 : Continued(d)[i] = stack[i]
        /\ Continued(d)[m] = [node |-> stack[m].node, deps |-> stack[m].deps \ {d}]
    BY <1>1, <1>3, StackType
  <2>3. DOMAIN Continued(d) = 1..m
    BY <2>2, LenProperties
  <2>4. ASSUME NEW i \in 1..m
        PROVE  Continued(d)[i].node = stack[i].node /\ Continued(d)[i].deps = Less(i)
    <3>1. CASE i = m
      BY <2>2, <3>1
    <3>2. CASE i # m
      BY <2>2, <3>2
    <3>3. QED
      BY <3>1, <3>2
  <2>5. /\ d \in stack[m].deps /\ \A i \in 1..m : stack[i].node # d
        /\ \A i \in 1..m - 1 : i \in 1..m /\ i + 1 \in 1..m /\ i # m
    BY <1>1, <1>3, <1>6 DEF InStack
  <2> HIDE DEF Less
  <2>6. Less(m) = stack[m].deps \ {d} /\ \A i \in 1..m - 1 : Less(i) = stack[i].deps
    BY <2>5 DEF Less
  <2>7. CASE d \in visited
    <3>1. stack' = Continued(d)
      BY <1>6, <2>7 DEF VisitDep
    <3>2. Len(stack') = m /\ DOMAIN stack' = 1..m
      BY <2>2, <2>3, <3>1
    <3>3. \A i \in 1..m : stack'[i].node = stack[i].node /\ stack'[i].deps = Less(i)
      BY <2>4, <3>1
    <3>4. InStack' = InStack
      BY <1>3, <3>2, <3>3 DEF InStack
    <3>5. PathOnStack'
      <4>1. ASSUME NEW i \in 1..m
            PROVE  stack'[i].node \notin visited /\ stack'[i].deps \subseteq imports[stack'[i].node]
        <5>1. Less(i) \subseteq stack[i].deps
          BY DEF Less
        <5>2. stack'[i].node = stack[i].node /\ stack'[i].deps = Less(i)
          BY <3>3
        <5>3. stack[i].node \notin visited /\ stack[i].deps \subseteq imports[stack[i].node]
          BY <1>3
        <5>4. QED
          BY <5>1, <5>2, <5>3
      <4>2. \A i, j \in 1..m : stack'[i].node = stack'[j].node => i = j
        BY <1>3, <3>3
      <4>3. ASSUME NEW i \in 1..m - 1
            PROVE  /\ stack'[i + 1].node \in imports[stack'[i].node]
                   /\ imports[stack'[i].node] \ stack'[i].deps \subseteq visited \cup {stack'[i + 1].node}
        BY <1>3, <2>5, <2>6, <3>3
      <4>4. imports[stack'[m].node] \ stack'[m].deps \subseteq visited
        BY <1>3, <2>6, <2>7, <3>3
      <4>5. QED
        BY <1>1, <3>2, <4>1, <4>2, <4>3, <4>4 DEF PathOnStack, Top
    <3>6. VisitedClosed'
      BY <1>1, <2>1, <3>4 DEF Sort, VisitedClosed, Sorting, Sorted
    <3>7. QED
      BY <1>4, <2>1, <3>5, <3>6 DEF Sort
  <2>8. CASE d \notin visited
    <3>1. stack' = Append(Continued(d), Frame(d))
      BY <1>6, <2>8 DEF VisitDep
    <3>2. Frame(d) \in Frames
      BY <1>1, FrameType DEF Frames
    <3>3. /\ stack' \in Seq(Frames) /\ Len(stack') = m + 1
          /\ \A i \in 1..m : stack'[i] = Continued(d)[i]
          /\ stack'[m + 1] = Frame(d)
      BY <2>2, <3>1, <3>2, AppendProperties
    <3>4. DOMAIN stack' = 1..m + 1
      BY <3>3, LenProperties
    <3>5. \A i \in 1..m : stack'[i].node = stack[i].node /\ stack'[i].deps = Less(i)
      BY <2>4, <3>3
    <3>6. stack'[m + 1].node = d /\ stack'[m + 1].deps = imports[d]
      BY <3>3 DEF Frame
    <3>7. ASSUME NEW s \in InStack PROVE s \in InStack'
      <4>1. PICK i \in 1..m : s = stack[i].node
        BY <1>3 DEF InStack
      <4>2. i \in 1..m + 1 /\ s = stack'[i].node
        BY <3>5, <4>1
      <4>3. QED
        BY <3>4, <4>2 DEF InStack
    <3>8. PathOnStack'
      <4>1. \A i \in 1..m + 1 : i \in 1..m \/ i = m + 1
        OBVIOUS
      <4>2. \A i \in 1..m + 1 : stack'[i].node \notin visited
                             /\ stack'[i].deps \subseteq imports[stack'[i].node]
        <5>1. \A i \in 1..m : Less(i) \subseteq imports[stack[i].node]
          BY <1>3 DEF Less
        <5>2. ASSUME NEW i \in 1..m + 1, i # m + 1
              PROVE  stack'[i].node \notin visited /\ stack'[i].deps \subseteq imports[stack'[i].node]
          BY <1>3, <3>5, <4>1, <5>1, <5>2
        <5>3. QED
          BY <2>8, <3>6, <5>2
      <4>3. \A i, j \in 1..m + 1 : stack'[i].node = stack'[j].node => i = j
        BY <1>3, <2>5, <3>5, <3>6, <4>1
      <4>4. ASSUME NEW i \in 1..m
            PROVE  /\ stack'[i + 1].node \in imports[stack'[i].node]
                   /\ imports[stack'[i].node] \ stack'[i].deps \subseteq visited \cup {stack'[i + 1].node}
        <5>1. CASE i = m
          BY <1>3, <2>5, <2>6, <3>5, <3>6, <5>1
        <5>2. CASE i # m
          <6>1. i \in 1..m - 1
            BY <5>2
          <6>2. QED
            BY <1>3, <2>5, <2>6, <3>5, <6>1
        <5>3. QED
          BY <5>1, <5>2
      <4>5. imports[stack'[m + 1].node] \ stack'[m + 1].deps \subseteq visited
        BY <3>6
      <4>6. (m + 1) - 1 = m
        OBVIOUS
      <4>7. QED
        BY <1>1, <3>3, <3>4, <4>2, <4>3, <4>4, <4>5, <4>6 DEF PathOnStack, Top
    <3>9. VisitedClosed'
      BY <1>1, <2>1, <3>7 DEF Sort, VisitedClosed, Sorting, Sorted
    <3>10. QED
      BY <1>4, <2>1, <3>8, <3>9 DEF Sort
  <2>9. QED
    BY <2>7, <2>8
<1>7. QED
  BY <1>5, <1>6

\* A node that is left has all its imports visited and is none of them.
LEMMA ReturnSorts ==
    ASSUME TypeOK, Sort, Return
    PROVE  Sort'
<1> USE DEF markVars, sortVars, listVars
<1> DEFINE n == Top.node
<1>1. /\ imports \in [Specs -> SUBSET Specs] /\ imports' = imports /\ visited \subseteq Specs
      /\ scan' = scan /\ phase = "sort" /\ phase' = "sort" /\ stack # <<>> /\ Top.deps = {}
      /\ visited' = visited \cup {n} /\ result' = Append(result, n) /\ stack' = Callers
      /\ result \in Seq(Specs) /\ stack \in Seq(Frames)
  BY DEF TypeOK, Return, Frames
<1>2. PathOnStack /\ VisitedClosed /\ ResultSorted
  BY DEF Sort
<1>3. PICK m \in Nat \ {0} :
             /\ stack \in Seq(Frames) /\ Len(stack) = m /\ DOMAIN stack = 1..m
             /\ Top = stack[m] /\ Top \in Frames
             /\ \A i \in 1..m : stack[i] \in Frames
             /\ \A i \in 1..m : stack[i].node \notin visited
                             /\ stack[i].deps \subseteq imports[stack[i].node]
             /\ \A i, j \in 1..m : stack[i].node = stack[j].node => i = j
             /\ \A i \in 1..m - 1 :
                  /\ stack[i + 1].node \in imports[stack[i].node]
                  /\ imports[stack[i].node] \ stack[i].deps \subseteq visited \cup {stack[i + 1].node}
             /\ imports[stack[m].node] \ stack[m].deps \subseteq visited
  BY <1>1, <1>2, StackFacts
<1>4. n \in Specs /\ n \notin visited /\ imports[n] \subseteq visited /\ n = stack[m].node
  BY <1>1, <1>3 DEF Frames
<1> HIDE DEF n
<1>5. /\ stack' \in Seq(Frames) /\ Len(stack') = m - 1
      /\ \A i \in 1..m - 1 : stack'[i] = stack[i]
  BY <1>1, <1>3, StackType
<1>6. DOMAIN stack' = 1..m - 1
  BY <1>5, LenProperties
<1>7. PathOnStack'
  <2>1. \A i \in 1..m - 1 : i \in 1..m /\ i # m /\ m \in 1..m
    OBVIOUS
  <2>2. \A i \in 1..m - 1 : stack'[i].node \notin visited'
                         /\ stack'[i].deps \subseteq imports[stack'[i].node]
    BY <1>1, <1>3, <1>4, <1>5, <2>1
  <2>3. \A i, j \in 1..m - 1 : stack'[i].node = stack'[j].node => i = j
    BY <1>3, <1>5, <2>1
  <2>4. ASSUME NEW i \in 1..(m - 1) - 1
        PROVE  /\ stack'[i + 1].node \in imports[stack'[i].node]
               /\ imports[stack'[i].node] \ stack'[i].deps \subseteq visited' \cup {stack'[i + 1].node}
    <3>1. i \in 1..m - 1 /\ i + 1 \in 1..m - 1
      OBVIOUS
    <3>2. QED
      BY <1>1, <1>3, <1>5, <3>1
  <2>5. ASSUME stack' # <<>>
        PROVE  imports[stack'[m - 1].node] \ stack'[m - 1].deps \subseteq visited'
    <3>1. m - 1 \in 1..m - 1
      BY <1>5, <2>5, EmptySeq
    <3>2. (m - 1) + 1 = m
      OBVIOUS
    <3>3. QED
      BY <1>1, <1>3, <1>4, <1>5, <3>1, <3>2
  <2>6. QED
    BY <1>1, <1>5, <1>6, <2>2, <2>3, <2>4, <2>5 DEF PathOnStack, Top
<1>8. PICK l \in Nat :
        /\ Len(result) = l /\ DOMAIN result = 1..l /\ Len(result') = l + 1
        /\ DOMAIN result' = 1..l + 1
        /\ \A i \in 1..l : result'[i] = result[i]
        /\ result'[l + 1] = n
  <2>1. Len(result) \in Nat /\ DOMAIN result = 1..Len(result)
    BY <1>1, LenProperties
  <2>2. /\ result' \in Seq(Specs) /\ Len(result') = Len(result) + 1
        /\ \A i \in 1..Len(result) : result'[i] = result[i]
        /\ result'[Len(result) + 1] = n
    BY <1>1, <1>4, AppendProperties
  <2>3. DOMAIN result' = 1..Len(result')
    BY <2>2, LenProperties
  <2>4. QED
    BY <2>1, <2>2, <2>3
<1>9. /\ \A i \in 1..l + 1 : i \in 1..l \/ i = l + 1
      /\ \A i \in 1..l : i \in 1..l + 1 /\ i < l + 1
      /\ l + 1 \in 1..l + 1
  OBVIOUS
<1>10. /\ visited = {result[i] : i \in 1..l}
       /\ \A s \in visited : imports[s] \subseteq visited
       /\ \A S \in (SUBSET visited) \ {{}} : \E s \in S : imports[s] \cap S = {}
       /\ \A s \in Specs \ scan : s \in visited \cup InStack
  BY <1>1, <1>2, <1>8 DEF VisitedClosed, Sorting
<1>11. visited' = {result'[i] : i \in 1..l + 1}
  BY <1>1, <1>8, <1>9, <1>10
<1>12. \A s \in visited' : imports[s] \subseteq visited'
  BY <1>1, <1>4, <1>10
<1>13. ASSUME NEW S \in (SUBSET visited') \ {{}}
       PROVE  \E s \in S : imports[s] \cap S = {}
  <2>1. CASE S = {n}
    BY <1>4, <2>1
  <2>2. CASE S # {n}
    <3>1. S \ {n} \in (SUBSET visited) \ {{}}
      BY <1>1, <2>2
    <3>2. PICK s \in S \ {n} : imports[s] \cap (S \ {n}) = {}
      BY <1>10, <3>1
    <3>3. n \notin imports[s]
      BY <1>4, <1>10, <3>1, <3>2
    <3>4. QED
      BY <3>2, <3>3
  <2>3. QED
    BY <2>1, <2>2
<1>14. ASSUME NEW s \in Specs \ scan PROVE s \in visited' \cup InStack'
  <2>1. CASE s \in visited \/ s = n
    BY <1>1, <2>1
  <2>2. CASE s \notin visited /\ s # n
    <3>1. PICK i \in 1..m : s = stack[i].node
      BY <1>3, <1>10, <2>2 DEF InStack
    <3>2. i \in 1..m - 1
      BY <1>4, <2>2, <3>1
    <3>3. QED
      BY <1>5, <1>6, <3>1, <3>2 DEF InStack
  <2>3. QED
    BY <2>1, <2>2
<1>15. VisitedClosed'
  BY <1>1, <1>8, <1>11, <1>12, <1>13, <1>14 DEF VisitedClosed, Sorting, Sorted
<1>16. ResultSorted'
  <2>1. /\ \A i, j \in 1..l : result[j] \in imports[result[i]] => j < i
        /\ \A i \in 1..l : result[i] \in visited
    BY <1>2, <1>8, <1>10 DEF ResultSorted, DependenciesFirst
  <2>2. ASSUME NEW i \in 1..l + 1, NEW j \in 1..l + 1, result'[j] \in imports[result'[i]]
        PROVE  j < i
    <3>1. CASE i = l + 1
      <4>1. j # l + 1
        BY <1>4, <1>8, <2>2, <3>1
      <4>2. QED
        BY <1>9, <3>1, <4>1
    <3>2. CASE i # l + 1
      <4>1. i \in 1..l /\ result'[i] = result[i] /\ imports[result[i]] \subseteq visited
        BY <1>8, <1>9, <1>10, <2>1, <3>2
      <4>2. j \in 1..l
        BY <1>4, <1>8, <1>9, <2>2, <4>1
      <4>3. QED
        BY <1>8, <2>1, <2>2, <4>1, <4>2
    <3>3. QED
      BY <3>1, <3>2
  <2>3. \A i \in 1..l + 1 : imports[result'[i]] \subseteq {result'[j] : j \in 1..l + 1}
    BY <1>11, <1>12
  <2>4. QED
    BY <1>1, <1>8, <2>2, <2>3 DEF ResultSorted, DependenciesFirst
<1>17. CyclesReported'
  BY <1>1 DEF CyclesReported, Sorted
<1>18. QED
  BY <1>7, <1>15, <1>16, <1>17 DEF Sort

\* When nothing is left to visit, every specification is visited, so that no
\* set of them is a cycle.
LEMMA EndSortSorts ==
    ASSUME TypeOK, Sort, EndSort
    PROVE  Sort'
<1> USE DEF markVars, sortVars, listVars
<1>1. /\ imports \in [Specs -> SUBSET Specs] /\ imports' = imports /\ visited' = visited
      /\ result' = result /\ stack' = stack /\ scan' = scan /\ scan = {} /\ stack = <<>>
      /\ phase = "sort" /\ phase' = "select"
  BY DEF TypeOK, EndSort
<1>2. PathOnStack' /\ ResultSorted'
  BY <1>1 DEF Sort, PathOnStack, Top, ResultSorted, DependenciesFirst
<1>3. InStack = {}
  BY <1>1 DEF InStack
<1>4. Specs \subseteq visited
  BY <1>1, <1>3 DEF Sort, VisitedClosed, Sorting
<1>5. CyclesReported'
  <2>1. \A S \in (SUBSET DOMAIN imports) \ {{}} : S \in (SUBSET visited) \ {{}}
    BY <1>1, <1>4
  <2>2. ~Cyclic(imports)
    BY <2>1 DEF Sort, VisitedClosed, Cyclic
  <2>3. QED
    BY <1>1, <2>2 DEF CyclesReported
<1>6. VisitedClosed'
  BY <1>1, <1>4 DEF Sort, VisitedClosed, Sorting, Sorted
<1>7. QED
  BY <1>2, <1>5, <1>6 DEF Sort

\* Every step keeps what the sort knows.
LEMMA SortStep == TypeOK /\ Sort /\ [Next]_vars => Sort'
<1> SUFFICES ASSUME TypeOK, Sort, [Next]_vars PROVE Sort'
  OBVIOUS
<1> USE DEF markVars, sortVars, listVars
<1>1. CASE UNCHANGED vars
  <2>1. Sorting \/ (~Sorting /\ ~Sorting')
    BY <1>1 DEF vars, Sorting
  <2>2. QED
    BY <1>1, <2>1, SortUntouched DEF vars
<1>2. CASE CompareHashes
  BY <1>2, SortUntouched DEF CompareHashes, Sorting
<1>3. ASSUME NEW s \in Specs, PropagateTo(s) PROVE Sort'
  BY <1>3, SortUntouched DEF PropagateTo, Sorting
<1>4. CASE EndPass
  BY <1>4, SortUntouched DEF EndPass, Sorting
<1>5. CASE SelectDirty \/ EndSelect
  BY <1>5, SortUntouched DEF SelectDirty, EndSelect, Sorted
<1>6. QED
  BY <1>1, <1>2, <1>3, <1>4, <1>5, VisitRootSorts, VisitDepSorts, ReturnSorts, EndSortSorts DEF Next

-----------------------------------------------------------------------------
(***************************************************************************)
(* DirtyNodes.                                                             *)
(***************************************************************************)

\* The list starts empty.
LEMMA ListInit == Init => ListSoFar
<1> SUFFICES ASSUME Init PROVE ListSoFar
  OBVIOUS
<1>1. result = <<>> /\ toBuild = <<>> /\ at = 1 /\ phase = "compare"
  BY Zenon DEF Init
<1>2. Len(<<>>) = 0 /\ DOMAIN <<>> = {}
  OBVIOUS
<1>3. {toBuild[i] : i \in DOMAIN toBuild} = {} /\ {result[i] : i \in 1..at - 1} = {}
  BY <1>1, <1>2
<1>4. QED
  BY <1>1, <1>2, <1>3 DEF ListSoFar, DependenciesFirst, Sorted

\* Before the list is put together, a step that leaves the result alone.
LEMMA ListUntouched ==
    ASSUME TypeOK, ListSoFar, ~Sorted, phase' # "done", UNCHANGED <<imports, result, listVars>>
    PROVE  ListSoFar'
<1> USE DEF listVars
<1>1. at = 1 /\ at' = 1
  BY DEF ListSoFar
<1>2. 1..at - 1 = {}
  BY <1>1
<1>3. {result[i] : i \in 1..at - 1} = {}
  BY <1>2
<1>4. {toBuild'[i] : i \in DOMAIN toBuild'} = {result'[i] : i \in 1..at' - 1} \cap dirty'
  BY <1>1, <1>3 DEF ListSoFar
<1>5. QED
  BY <1>1, <1>4 DEF ListSoFar, DependenciesFirst, Sorted

\* A node comes into the result once.
LEMMA ReturnLists ==
    ASSUME TypeOK, Sort, ListSoFar, Return
    PROVE  ListSoFar'
<1> USE DEF markVars, sortVars, listVars
<1> DEFINE n == Top.node
<1>1. /\ imports' = imports /\ toBuild' = toBuild /\ at' = at /\ at = 1 /\ phase' = "sort"
      /\ stack # <<>> /\ dirty' = dirty
      /\ result' = Append(result, n) /\ result \in Seq(Specs) /\ stack \in Seq(Frames)
  BY DEF TypeOK, Return, Frames, ListSoFar, Sorted
<1>2. n \in Specs /\ n \notin visited
  <2>1. PathOnStack
    BY DEF Sort
  <2>2. Top \in Frames /\ Top.node \notin visited
    BY <1>1, <2>1, StackFacts
  <2>3. QED
    BY <2>2 DEF Frames
<1> HIDE DEF n
<1>3. PICK l \in Nat :
        /\ Len(result) = l /\ DOMAIN result = 1..l /\ Len(result') = l + 1
        /\ DOMAIN result' = 1..l + 1
        /\ \A i \in 1..l : result'[i] = result[i]
        /\ result'[l + 1] = n
  <2>1. Len(result) \in Nat /\ DOMAIN result = 1..Len(result)
    BY <1>1, LenProperties
  <2>2. /\ result' \in Seq(Specs) /\ Len(result') = Len(result) + 1
        /\ \A i \in 1..Len(result) : result'[i] = result[i]
        /\ result'[Len(result) + 1] = n
    BY <1>1, <1>2, AppendProperties
  <2>3. DOMAIN result' = 1..Len(result')
    BY <2>2, LenProperties
  <2>4. QED
    BY <2>1, <2>2, <2>3
<1>4. \A i \in 1..l : result[i] # n
  BY <1>2, <1>3 DEF Sort, VisitedClosed
<1>5. \A i \in 1..l + 1 : i \in 1..l \/ i = l + 1
  OBVIOUS
<1>6. \A i, j \in 1..l + 1 : result'[i] = result'[j] => i = j
  BY <1>3, <1>4, <1>5 DEF ListSoFar
<1>7. {result[i] : i \in 1..at - 1} = {} /\ {result'[i] : i \in 1..at - 1} = {}
  BY <1>1
<1>8. at' \in 1..Len(result') + 1
  BY <1>1, <1>3
<1>9. QED
  BY <1>1, <1>3, <1>6, <1>7, <1>8 DEF ListSoFar, DependenciesFirst, Sorted

\* The next dirty node comes after all it imports.
LEMMA SelectDirtyLists ==
    ASSUME TypeOK, Sort, ListSoFar, SelectDirty
    PROVE  ListSoFar'
<1> USE DEF markVars, sortVars, listVars
<1>1. /\ imports' = imports /\ dirty' = dirty /\ result' = result
      /\ phase = "select" /\ phase' = "select" /\ at \in Nat \ {0} /\ at <= Len(result)
      /\ at' = at + 1 /\ result \in Seq(Specs) /\ toBuild \in Seq(Specs)
  BY DEF TypeOK, SelectDirty
<1> DEFINE x == result[at]
<1>2. PICK l \in Nat : Len(result) = l /\ DOMAIN result = 1..l
  BY <1>1, LenProperties
<1>3. x \in Specs /\ at \in 1..l
  <2>1. at \in 1..Len(result)
    BY <1>1, <1>2
  <2>2. QED
    BY <1>1, <1>2, <2>1, ElementOfSeq
<1>4. /\ \A i, j \in 1..l : result[i] = result[j] => i = j
      /\ \A i, j \in 1..l : result[j] \in imports[result[i]] => j < i
  BY <1>2 DEF Sort, ResultSorted, ListSoFar, DependenciesFirst
<1>5. \A i \in 1..at - 1 : i \in 1..l /\ i # at /\ i < at
  BY <1>3
<1>6. {result[i] : i \in 1..at} = {result[i] : i \in 1..at - 1} \cup {x}
  <2>1. 1..at = (1..at - 1) \cup {at}
    BY <1>1
  <2>2. QED
    BY <2>1
<1>7. at' \in 1..Len(result') + 1 /\ at' - 1 = at
  BY <1>1, <1>2, <1>3
<1>8. {toBuild[i] : i \in DOMAIN toBuild} = {result[i] : i \in 1..at - 1} \cap dirty
  BY DEF ListSoFar
<1>9. /\ \A i, j \in DOMAIN result' : result'[i] = result'[j] => i = j
      /\ ~Sorted' => at' = 1
      /\ phase' = "done" => at' = Len(result') + 1
  BY <1>1, <1>2, <1>4 DEF Sorted
<1>10. CASE x \notin dirty
  <2>1. toBuild' = toBuild
    BY <1>10 DEF SelectDirty
  <2>2. {toBuild'[i] : i \in DOMAIN toBuild'} = {result'[i] : i \in 1..at' - 1} \cap dirty'
    BY <1>1, <1>6, <1>7, <1>8, <1>10, <2>1
  <2>3. QED
    BY <1>1, <1>7, <1>9, <2>1, <2>2 DEF ListSoFar, DependenciesFirst
<1>11. CASE x \in dirty
  <2>1. toBuild' = Append(toBuild, x)
    BY <1>11 DEF SelectDirty
  <2> HIDE DEF x
  <2>2. PICK k \in Nat :
          /\ DOMAIN toBuild = 1..k /\ DOMAIN toBuild' = 1..k + 1
          /\ \A i \in 1..k : toBuild'[i] = toBuild[i]
          /\ toBuild'[k + 1] = x
    <3>1. Len(toBuild) \in Nat /\ DOMAIN toBuild = 1..Len(toBuild)
      BY <1>1, LenProperties
    <3>2. /\ toBuild' \in Seq(Specs) /\ Len(toBuild') = Len(toBuild) + 1
          /\ \A i \in 1..Len(toBuild) : toBuild'[i] = toBuild[i]
          /\ toBuild'[Len(toBuild) + 1] = x
      BY <1>1, <1>3, <2>1, AppendProperties
    <3>3. DOMAIN toBuild' = 1..Len(toBuild')
      BY <3>2, LenProperties
    <3>4. QED
      BY ZenonT(20), <3>1, <3>2, <3>3
  <2>3. \A i \in 1..k + 1 : i \in 1..k \/ i = k + 1
    OBVIOUS
  <2>4. ASSUME NEW i \in 1..k
        PROVE  \E e \in 1..at - 1 : toBuild[i] = result[e]
    BY <1>8, <2>2
  <2>5. ASSUME NEW i \in 1..k
        PROVE  toBuild[i] # x /\ x \notin imports[toBuild[i]]
    <3>1. PICK e \in 1..at - 1 : toBuild[i] = result[e]
      BY <2>4
    <3>2. e \in 1..l /\ e < at /\ ~(at < e) /\ e # at
      BY <1>3, <1>5
    <3>3. QED
      BY <1>3, <1>4, <3>1, <3>2 DEF x
  <2>6. x \notin imports[x]
    BY <1>3, <1>4 DEF x
  <2>7. \A i, j \in 1..k + 1 : toBuild'[i] = toBuild'[j] => i = j
    BY <2>2, <2>3, <2>5 DEF ListSoFar
  <2>8. \A i, j \in 1..k + 1 : toBuild'[j] \in imports[toBuild'[i]] => j < i
    <3>1. \A i, j \in 1..k : toBuild[j] \in imports[toBuild[i]] => j < i
      BY <2>2 DEF ListSoFar, DependenciesFirst
    <3> SUFFICES ASSUME NEW i \in 1..k + 1, NEW j \in 1..k + 1,
                        toBuild'[j] \in imports[toBuild'[i]]
                 PROVE  j < i
      OBVIOUS
    <3>2. j # k + 1
      BY <2>2, <2>3, <2>5, <2>6
    <3>3. j \in 1..k /\ (i = k + 1 \/ i \in 1..k)
      BY <2>3, <3>2
    <3>4. CASE i = k + 1
      BY <3>3, <3>4
    <3>5. CASE i \in 1..k
      BY <2>2, <3>1, <3>3, <3>5
    <3>6. QED
      BY <3>3, <3>4, <3>5
  <2>9. {toBuild'[i] : i \in 1..k + 1} = {toBuild[i] : i \in 1..k} \cup {x}
    <3>1. ASSUME NEW y \in {toBuild'[i] : i \in 1..k + 1}
          PROVE  y \in {toBuild[i] : i \in 1..k} \cup {x}
      BY <2>2, <2>3
    <3>2. ASSUME NEW y \in {toBuild[i] : i \in 1..k} \cup {x}
          PROVE  y \in {toBuild'[i] : i \in 1..k + 1}
      <4>1. k + 1 \in 1..k + 1 /\ \A i \in 1..k : i \in 1..k + 1
        OBVIOUS
      <4>2. QED
        BY <2>2, <4>1
    <3>3. QED
      BY <3>1, <3>2
  <2>10. {toBuild'[i] : i \in DOMAIN toBuild'} = {result'[i] : i \in 1..at' - 1} \cap dirty'
    <3>1. {toBuild'[i] : i \in DOMAIN toBuild'} = {toBuild[i] : i \in DOMAIN toBuild} \cup {x}
      BY <2>2, <2>9
    <3>2. {result'[i] : i \in 1..at' - 1} = {result[i] : i \in 1..at - 1} \cup {x}
      BY <1>1, <1>6, <1>7
    <3>3. QED
      BY <1>1, <1>8, <1>11, <3>1, <3>2
  <2>11. QED
    BY <1>1, <1>7, <1>9, <2>2, <2>7, <2>8, <2>10 DEF ListSoFar, DependenciesFirst
<1>12. QED
  BY <1>10, <1>11

\* Every step keeps what is known of the list.
LEMMA ListStep == TypeOK /\ Sort /\ ListSoFar /\ [Next]_vars => ListSoFar'
<1> SUFFICES ASSUME TypeOK, Sort, ListSoFar, [Next]_vars PROVE ListSoFar'
  OBVIOUS
<1> USE DEF markVars, sortVars, listVars
<1>1. CASE UNCHANGED vars
  BY <1>1 DEF vars, ListSoFar, DependenciesFirst, Sorted
<1>2. CASE CompareHashes \/ EndPass \/ EndSort
  BY <1>2, ListUntouched DEF CompareHashes, EndPass, EndSort, Sorted
<1>3. ASSUME NEW s \in Specs, PropagateTo(s) \/ VisitRoot(s) \/ VisitDep(s) PROVE ListSoFar'
  BY <1>3, ListUntouched DEF PropagateTo, VisitRoot, VisitDep, Sorted
<1>4. CASE EndSelect
  <2>1. at \in 1..Len(result) + 1 /\ Len(result) \in Nat
    BY LenProperties DEF ListSoFar, TypeOK
  <2>2. at = Len(result) + 1
    BY <1>4, <2>1 DEF EndSelect
  <2>3. QED
    BY <1>4, <2>2 DEF EndSelect, ListSoFar, DependenciesFirst, Sorted
<1>5. QED
  BY <1>1, <1>2, <1>3, <1>4, ReturnLists, SelectDirtyLists DEF Next

\* A sequence without repetitions is as long as the set of its elements.
LEMMA LengthIsCardinality ==
    ASSUME NEW S, NEW seq \in Seq(S),
           \A i, j \in DOMAIN seq : seq[i] = seq[j] => i = j
    PROVE  Len(seq) = Cardinality({seq[i] : i \in DOMAIN seq})
<1> DEFINE T == {seq[i] : i \in DOMAIN seq}
<1>1. Len(seq) \in Nat /\ DOMAIN seq = 1..Len(seq) /\ seq \in [1..Len(seq) -> S]
  BY LenProperties
<1>2. seq \in Bijection(1..Len(seq), T)
  <2>1. seq \in [1..Len(seq) -> T]
    BY <1>1
  <2>2. seq \in Injection(1..Len(seq), T)
    BY <1>1, <2>1 DEF Injection, IsInjective
  <2>3. seq \in Surjection(1..Len(seq), T)
    BY <1>1, <2>1 DEF Surjection
  <2>4. QED
    BY <2>2, <2>3 DEF Bijection
<1>3. IsFiniteSet(1..Len(seq)) /\ Cardinality(1..Len(seq)) = Len(seq)
  BY SMTT(30), <1>1, FS_Interval
<1>4. QED
  BY <1>2, <1>3, FS_Bijection DEF ExistsBijection

\* At the end the list has passed all of the result, which is all nodes.
LEMMA ListRight == TypeOK /\ Sort /\ ListSoFar => BuildListRight
<1> SUFFICES ASSUME TypeOK, Sort, ListSoFar, phase = "done"
             PROVE  /\ {toBuild[i] : i \in DOMAIN toBuild} = dirty
                    /\ Len(toBuild) = Cardinality(dirty)
                    /\ DependenciesFirst(imports, toBuild)
  BY DEF BuildListRight
<1>1. Len(result) \in Nat /\ DOMAIN result = 1..Len(result) /\ toBuild \in Seq(Specs)
  BY LenProperties DEF TypeOK
<1>2. Specs \subseteq visited
  <2>1. scan = {} /\ stack = <<>>
    BY DEF Sort, VisitedClosed, Sorted
  <2>2. InStack = {}
    BY <2>1 DEF InStack
  <2>3. \A s \in Specs \ scan : s \in visited \cup InStack
    BY DEF Sort, VisitedClosed, Sorted
  <2>4. QED
    BY <2>1, <2>2, <2>3
<1>3. {toBuild[i] : i \in DOMAIN toBuild} = dirty
  <2>1. at - 1 = Len(result)
    BY <1>1 DEF ListSoFar
  <2>2. visited = {result[i] : i \in 1..at - 1}
    BY <1>1, <2>1 DEF Sort, VisitedClosed
  <2>3. QED
    BY <1>2, <2>2 DEF ListSoFar, TypeOK
<1>4. Len(toBuild) = Cardinality(dirty)
  BY <1>1, <1>3, LengthIsCardinality DEF ListSoFar
<1>5. QED
  BY <1>3, <1>4 DEF ListSoFar

-----------------------------------------------------------------------------
(***************************************************************************)
(* The choice, seen from outside.                                          *)
(***************************************************************************)

\* Nothing is chosen at the start.
LEMMA ChoiceInit == Init => Choice!Init
<1> SUFFICES ASSUME Init PROVE Choice!Init
  OBVIOUS
<1>1. phase = "compare" /\ imports \in {AddEdges(declared) : declared \in Declared} /\ known \in Receipts
  BY Zenon DEF Init
<1>2. Outcome = "none" /\ Given = <<>>
  BY <1>1 DEF Outcome, Given
<1>3. QED
  BY <1>1, <1>2, Zenon DEF Choice!Init

\* The abstract choice speaks of the same graphs.
LEMMA SameGraphs ==
    /\ \A deps : Choice!Cyclic(deps) <=> Cyclic(deps)
    /\ \A deps, S : Choice!Dependents(deps, S) = Dependents(deps, S)
    /\ \A deps, S : Choice!TopologicalOrders(deps, S) = TopologicalOrders(deps, S)
    /\ Choice!Stale(Hash, known) = Stale(Hash, known)
<1>1. \A deps : Choice!Cyclic(deps) <=> Cyclic(deps)
  BY DEF Cyclic, Choice!Cyclic
<1>2. \A deps, S : Choice!ClosedUnderImporters(deps, S) <=> ClosedUnderImporters(deps, S)
  BY DEF ClosedUnderImporters, Choice!ClosedUnderImporters
<1>3. \A deps, S : Choice!Dependents(deps, S) = Dependents(deps, S)
  BY <1>2 DEF Dependents, Choice!Dependents
<1>4. \A deps, order : Choice!DependenciesFirst(deps, order) <=> DependenciesFirst(deps, order)
  BY DEF DependenciesFirst, Choice!DependenciesFirst
<1>5. \A S : Choice!SetToSeqs(S) = SetToSeqs(S)
  <2>1. \A S : Choice!Cardinality(S) = Cardinality(S)
    BY DEF Cardinality, Choice!Cardinality
  <2>2. QED
    BY <2>1 DEF SetToSeqs, Choice!SetToSeqs
<1>6. \A deps, S : Choice!TopologicalOrders(deps, S) = TopologicalOrders(deps, S)
  BY <1>4, <1>5 DEF TopologicalOrders, Choice!TopologicalOrders
<1>7. Choice!Stale(Hash, known) = Stale(Hash, known)
  BY DEF Stale, Choice!Stale
<1>8. QED
  BY <1>1, <1>3, <1>6, <1>7

\* The list of DirtyNodes is one of the orders in which the dirty nodes may be
\* built.
LEMMA ListIsOrder ==
    TypeOK /\ Sort /\ ListSoFar /\ phase = "done" => toBuild \in TopologicalOrders(imports, dirty)
<1> SUFFICES ASSUME TypeOK, Sort, ListSoFar, phase = "done"
             PROVE  toBuild \in TopologicalOrders(imports, dirty)
  OBVIOUS
<1>1. /\ {toBuild[i] : i \in DOMAIN toBuild} = dirty
      /\ Len(toBuild) = Cardinality(dirty)
      /\ DependenciesFirst(imports, toBuild)
  BY ListRight DEF BuildListRight
<1>2. toBuild \in Seq(Specs) /\ \A i, j \in DOMAIN toBuild : toBuild[i] = toBuild[j] => i = j
  BY DEF TypeOK, ListSoFar
<1>3. DOMAIN toBuild = 1..Cardinality(dirty) /\ toBuild \in [DOMAIN toBuild -> Specs]
  BY <1>1, <1>2, LenProperties
<1>4. toBuild \in [1..Cardinality(dirty) -> dirty]
  BY <1>1, <1>3
<1>5. toBuild \in SetToSeqs(dirty)
  BY <1>2, <1>3, <1>4 DEF SetToSeqs
<1>6. QED
  BY <1>1, <1>5 DEF TopologicalOrders

\* A step is the choice, or nothing that is seen.
LEMMA StepChooses ==
    ASSUME TypeOK, Sort, ListSoFar, Propagating, TypeOK', Sort', ListSoFar', Propagating',
           [Next]_vars
    PROVE  [Choice!Next]_(Choice!vars)
<1> USE DEF markVars, sortVars, listVars
<1>1. CASE UNCHANGED vars
  BY <1>1 DEF vars, Choice!vars, Outcome, Given
<1>2. ASSUME UNCHANGED <<imports, known>>, phase \notin {"cycle", "done"}, phase' \notin {"cycle", "done"}
      PROVE  UNCHANGED Choice!vars
  BY <1>2 DEF Choice!vars, Outcome, Given
<1>3. CASE CompareHashes \/ EndPass \/ Return \/ EndSort \/ SelectDirty
  BY <1>2, <1>3 DEF CompareHashes, EndPass, Return, EndSort, SelectDirty
<1>4. ASSUME NEW s \in Specs, PropagateTo(s) \/ VisitRoot(s)
      PROVE  UNCHANGED Choice!vars
  BY <1>2, <1>4 DEF PropagateTo, VisitRoot
<1>5. ASSUME NEW d \in Specs, VisitDep(d)
      PROVE  [Choice!Next]_(Choice!vars)
  <2>1. phase = "sort" /\ UNCHANGED <<imports, known>>
    BY <1>5 DEF VisitDep
  <2>2. CASE d \in InStack
    <3>1. phase' = "cycle"
      BY <1>5, <2>2 DEF VisitDep
    <3>2. Cyclic(imports)
      BY <2>1, <3>1 DEF Sort, CyclesReported, Cyclic
    <3>3. Outcome = "none" /\ Outcome' = "refused" /\ Given' = Given
      BY <2>1, <3>1 DEF Outcome, Given
    <3>4. Choice!Refuse
      BY <2>1, <3>2, <3>3, SameGraphs, Zenon DEF Choice!Refuse
    <3>5. QED
      BY <3>4 DEF Choice!Next
  <2>3. CASE d \notin InStack
    <3>1. phase' = "sort"
      BY <1>5, <2>1, <2>3 DEF VisitDep
    <3>2. QED
      BY <1>2, <2>1, <3>1
  <2>4. QED
    BY <2>2, <2>3
<1>6. CASE EndSelect
  <2>1. /\ phase = "select" /\ phase' = "done" /\ UNCHANGED <<imports, known>>
        /\ dirty' = dirty /\ toBuild' = toBuild
    BY <1>6 DEF EndSelect
  <2>2. ~Cyclic(imports)
    BY <2>1 DEF Sort, CyclesReported, Sorted
  <2>3. dirty = Dependents(imports, Stale(Hash, known))
    BY <2>1, PropagatingExact DEF PropagationExact, Sorting
  <2>4. toBuild' \in TopologicalOrders(imports, dirty)
    <3>1. (TypeOK /\ Sort /\ ListSoFar /\ phase = "done"
             => toBuild \in TopologicalOrders(imports, dirty))'
      BY ListIsOrder, PTL
    <3>2. QED
      BY <2>1, <3>1
  <2>5. Outcome = "none" /\ Outcome' = "chosen" /\ Given' = toBuild'
    BY <2>1 DEF Outcome, Given
  <2>6. Choice!Choose
    BY <2>1, <2>2, <2>3, <2>4, <2>5, SameGraphs, Zenon DEF Choice!Choose
  <2>7. QED
    BY <2>6 DEF Choice!Next
<1>7. QED
  BY <1>1, <1>3, <1>4, <1>5, <1>6 DEF Next

-----------------------------------------------------------------------------
(***************************************************************************)
(* The loops advance.                                                      *)
(***************************************************************************)

\* A node that was to be visited is not any more.
LEMMA LeavesScan ==
    ASSUME NEW s \in scan, scan' = scan \ {s}
    PROVE  Grows(scan', scan)
BY DEF Grows

\* A pass visits a node, or marks one, or ends with the flag cleared.
LEMMA PassesAdvance ==
    ASSUME TypeOK, EndPass \/ \E s \in Specs : PropagateTo(s)
    PROVE  Advances
<1> USE DEF markVars, sortVars, listVars
<1>1. CASE EndPass
  <2>1. CASE changed
    BY <1>1, <2>1 DEF EndPass, Advances, PassAdvances, TypeOK
  <2>2. CASE ~changed
    BY <1>1, <2>2 DEF EndPass, Advances, PhaseAdvances
  <2>3. QED
    BY <2>1, <2>2
<1>2. ASSUME NEW s \in Specs, PropagateTo(s)
      PROVE  Advances
  <2>1. phase = "propagate" /\ phase' = phase /\ s \in scan /\ scan' = scan \ {s}
    BY <1>2 DEF PropagateTo
  <2>2. PassAdvances
    <3>1. CASE s \notin dirty /\ imports[s] \cap dirty # {}
      BY <1>2, <3>1 DEF PropagateTo, PassAdvances, Grows
    <3>2. CASE ~(s \notin dirty /\ imports[s] \cap dirty # {})
      BY <1>2, <2>1, <3>2, LeavesScan DEF PropagateTo, PassAdvances
    <3>3. QED
      BY <3>1, <3>2
  <2>3. QED
    BY <2>1, <2>2 DEF Advances
<1>3. QED
  BY <1>1, <1>2

\* A root is visited already, or it is a new call.
LEMMA RootAdvances ==
    ASSUME TypeOK, Sort, NEW s \in Specs, VisitRoot(s)
    PROVE  Advances
<1> USE DEF markVars, sortVars, listVars
<1>1. /\ phase = "sort" /\ phase' = phase /\ stack = <<>> /\ visited' = visited
      /\ s \in scan /\ scan' = scan \ {s}
  BY DEF VisitRoot
<1>2. Grows(scan', scan)
  BY <1>1, LeavesScan
<1>3. CASE s \in visited
  <2>1. stack' = stack
    BY <1>1, <1>3 DEF VisitRoot
  <2>2. InStack' = InStack /\ Pending' = Pending
    BY <2>1 DEF InStack, Pending
  <2>3. SortAdvances
    BY <1>1, <1>2, <2>2 DEF SortAdvances, Grows
  <2>4. QED
    BY <1>1, <2>3 DEF Advances
<1>4. CASE s \notin visited
  <2>1. stack' = <<Frame(s)>>
    BY <1>1, <1>4 DEF VisitRoot
  <2>2. DOMAIN stack' = 1..1 /\ stack'[1].node = s
    BY <2>1, SingletonSeq DEF Frame
  <2>3. InStack' = {s}
    BY <2>2 DEF InStack
  <2>4. InStack = {}
    BY <1>1 DEF InStack
  <2>5. SortAdvances
    BY <1>1, <2>3, <2>4 DEF SortAdvances, Grows
  <2>6. QED
    BY <1>1, <2>5 DEF Advances
<1>5. QED
  BY <1>3, <1>4

\* A dep closes a cycle, is taken off the list of what is to do, or is a new
\* call.
LEMMA DepAdvances ==
    ASSUME TypeOK, Sort, NEW d \in Specs, VisitDep(d)
    PROVE  Advances
<1> USE DEF markVars, sortVars, listVars
<1>1. /\ phase = "sort" /\ stack # <<>> /\ d \in Top.deps /\ visited' = visited /\ scan' = scan
  BY DEF VisitDep
<1>2. PathOnStack
  BY DEF Sort
<1>3. PICK m \in Nat \ {0} :
             /\ stack \in Seq(Frames) /\ Len(stack) = m /\ DOMAIN stack = 1..m
             /\ Top = stack[m] /\ Top \in Frames
             /\ \A i \in 1..m : stack[i] \in Frames
             /\ \A i, j \in 1..m : stack[i].node = stack[j].node => i = j
  BY <1>1, <1>2, StackFacts
<1>4. /\ Continued(d) \in Seq(Frames) /\ Len(Continued(d)) = m /\ DOMAIN Continued(d) = 1..m
      /\ \A i \in 1..m : Continued(d)[i].node = stack[i].node
      /\ \A i \in 1..m : i # m => Continued(d)[i].deps = stack[i].deps
      /\ Continued(d)[m].deps = stack[m].deps \ {d}
  <2>1. /\ Continued(d) \in Seq(Frames) /\ Len(Continued(d)) = m
        /\ \A i \in 1..m - 1 : Continued(d)[i] = stack[i]
        /\ Continued(d)[m] = [node |-> stack[m].node, deps |-> stack[m].deps \ {d}]
    BY <1>1, <1>3, StackType
  <2>2. DOMAIN Continued(d) = 1..m
    BY <2>1, LenProperties
  <2>3. \A i \in 1..m : i # m => i \in 1..m - 1
    OBVIOUS
  <2>4. Continued(d)[m].node = stack[m].node /\ Continued(d)[m].deps = stack[m].deps \ {d}
    BY <2>1
  <2>5. ASSUME NEW i \in 1..m
        PROVE  /\ Continued(d)[i].node = stack[i].node
               /\ i # m => Continued(d)[i].deps = stack[i].deps
    BY <2>1, <2>3, <2>4
  <2>6. QED
    BY <2>1, <2>2, <2>4, <2>5
<1>5. CASE d \in InStack
  BY <1>1, <1>5 DEF VisitDep, Advances, PhaseAdvances
<1>6. CASE d \notin InStack /\ d \in visited
  <2>1. phase' = phase /\ stack' = Continued(d)
    BY <1>6 DEF VisitDep
  <2>2. InStack' = InStack
    BY <1>3, <1>4, <2>1 DEF InStack
  <2>3. \A i \in 1..m : stack'[i].node = stack[i].node /\ stack'[i].deps \subseteq stack[i].deps
    BY <1>4, <2>1
  <2>4. Pending' \subseteq Pending
    BY <1>3, <1>4, <2>1, <2>3 DEF Pending
  <2>5. <<stack[m].node, d>> \in Pending
    <3>1. m \in 1..m /\ stack[m].node \in Specs /\ d \in stack[m].deps
      BY <1>1, <1>3 DEF Frames
    <3>2. QED
      BY <1>3, <3>1 DEF Pending
  <2>6. <<stack[m].node, d>> \notin Pending'
    <3> SUFFICES ASSUME NEW i \in 1..m, stack'[i].node = stack[m].node, d \in stack'[i].deps
                 PROVE  FALSE
      BY <1>4, <2>1 DEF Pending
    <3>1. i = m
      BY <1>3, <2>3
    <3>2. QED
      BY <1>4, <2>1, <3>1
  <2>7. SortAdvances
    BY <1>1, <2>2, <2>4, <2>5, <2>6 DEF SortAdvances
  <2>8. QED
    BY <1>1, <2>1, <2>7 DEF Advances
<1>7. CASE d \notin InStack /\ d \notin visited
  <2>1. phase' = phase /\ stack' = Append(Continued(d), Frame(d))
    BY <1>7 DEF VisitDep
  <2>2. Frame(d) \in Frames /\ Frame(d).node = d
    BY FrameType DEF TypeOK, Frames, Frame
  <2>3. /\ stack' \in Seq(Frames) /\ Len(stack') = m + 1
        /\ \A i \in 1..m : stack'[i] = Continued(d)[i]
        /\ stack'[m + 1] = Frame(d)
    BY <1>4, <2>1, <2>2, AppendProperties
  <2>4. DOMAIN stack' = 1..m + 1
    BY <2>3, LenProperties
  <2>5. d \in InStack'
    BY <2>2, <2>3, <2>4 DEF InStack
  <2>6. ASSUME NEW s \in InStack PROVE s \in InStack'
    <3>1. PICK i \in 1..m : s = stack[i].node
      BY <1>3 DEF InStack
    <3>2. i \in 1..m + 1 /\ s = stack'[i].node
      BY <1>4, <2>3, <3>1
    <3>3. QED
      BY <2>4, <3>2 DEF InStack
  <2>7. Grows(InStack, InStack')
    BY <1>7, <2>5, <2>6 DEF Grows
  <2>8. QED
    BY <1>1, <2>1, <2>7 DEF Advances, SortAdvances
<1>8. QED
  BY <1>5, <1>6, <1>7

\* A call that returns makes its node a visited one.
LEMMA ReturnAdvances ==
    ASSUME TypeOK, Sort, Return
    PROVE  Advances
<1>1. phase = "sort" /\ phase' = phase /\ stack # <<>> /\ visited' = visited \cup {Top.node}
  BY DEF Return
<1>2. Top.node \notin visited
  BY <1>1, StackFacts DEF Sort
<1>3. QED
  BY <1>1, <1>2 DEF Advances, SortAdvances, Grows

\* DirtyNodes moves on by one of the sorted nodes.
LEMMA SelectAdvances ==
    ASSUME TypeOK, SelectDirty
    PROVE  Advances
<1>1. phase = "select" /\ phase' = phase /\ at \in Nat /\ at' = at + 1 /\ at <= Len(result)
  BY DEF TypeOK, SelectDirty
<1>2. Len(result) \in Nat
  BY LenProperties DEF TypeOK
<1>3. at < at' /\ at' <= Len(result) + 1
  BY <1>1, <1>2
<1>4. QED
  BY <1>1, <1>3 DEF Advances

\* Every step advances.
LEMMA StepAdvances == TypeOK /\ Sort /\ Next => Advances
<1> SUFFICES ASSUME TypeOK, Sort, Next PROVE Advances
  OBVIOUS
<1>1. CASE CompareHashes \/ EndSort \/ EndSelect
  BY <1>1 DEF CompareHashes, EndSort, EndSelect, Advances, PhaseAdvances
<1>2. QED
  BY <1>1, PassesAdvance, RootAdvances, DepAdvances, ReturnAdvances, SelectAdvances DEF Next

-----------------------------------------------------------------------------
(***************************************************************************)
(* The theorems.                                                           *)
(***************************************************************************)

\* The variables always have their types.
THEOREM TypeCorrect == Spec => []TypeOK
BY TypeInit, TypeStep, PTL DEF Spec

\* MarkDirty marks what is stale and what reaches it, whatever order the maps
\* are ranged over in, on every graph.
THEOREM MarkDirtyExact == Spec => []PropagationExact
<1>1. Init => TypeOK /\ Propagating
  BY TypeInit, PropagatingInit
<1>2. TypeOK /\ Propagating /\ [Next]_vars => (TypeOK /\ Propagating)'
  BY TypeStep, PropagatingStep
<1>3. QED
  BY <1>1, <1>2, PropagatingExact, PTL DEF Spec

\* The invariant of the sort holds in every reachable state.
LEMMA SortHolds == Spec => []Sort
<1>1. Init => TypeOK /\ Sort
  BY TypeInit, SortInit
<1>2. TypeOK /\ Sort /\ [Next]_vars => (TypeOK /\ Sort)'
  BY TypeStep, SortStep
<1>3. QED
  BY <1>1, <1>2, PTL DEF Spec

\* TopologicalSort fails exactly on the graphs with a cycle.
THEOREM CyclesFound == Spec => []CyclesReported
<1>1. Sort => CyclesReported
  BY DEF Sort
<1>2. QED
  BY <1>1, SortHolds, PTL

\* What TopologicalSort has put in order has every import before its importers.
THEOREM TopologicalSortRight == Spec => []ResultSorted
<1>1. Sort => ResultSorted
  BY DEF Sort
<1>2. QED
  BY <1>1, SortHolds, PTL

\* DirtyNodes returns every dirty specification once, imports first.
THEOREM DirtyNodesRight == Spec => []BuildListRight
<1>1. Init => TypeOK /\ Sort /\ ListSoFar
  BY TypeInit, SortInit, ListInit
<1>2. TypeOK /\ Sort /\ ListSoFar /\ [Next]_vars => (TypeOK /\ Sort /\ ListSoFar)'
  BY TypeStep, SortStep, ListStep
<1>3. QED
  BY <1>1, <1>2, ListRight, PTL DEF Spec

\* MarkDirty, TopologicalSort and DirtyNodes together make the choice that
\* BuildChoice makes in one step.
THEOREM ChoiceMade == Spec => MakesChoice
<1> DEFINE Inv == TypeOK /\ Sort /\ ListSoFar /\ Propagating
<1>1. Init => Inv
  BY TypeInit, SortInit, ListInit, PropagatingInit
<1>2. Inv /\ [Next]_vars => Inv'
  BY TypeStep, SortStep, ListStep, PropagatingStep
<1>3. Inv /\ Inv' /\ [Next]_vars => [Choice!Next]_(Choice!vars)
  BY StepChooses
<1>4. QED
  BY <1>1, <1>2, <1>3, ChoiceInit, PTL DEF Spec, MakesChoice, Choice!Spec

\* No loop of the three functions repeats itself, on any graph.
THEOREM LoopsAdvance == Spec => EveryStepAdvances
<1>1. TypeOK /\ Sort /\ [Next]_vars => [Advances]_vars
  BY StepAdvances
<1>2. QED
  BY <1>1, TypeCorrect, SortHolds, PTL DEF Spec, EveryStepAdvances
=============================================================================
