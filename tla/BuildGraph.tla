----------------------------- MODULE BuildGraph -----------------------------
(***************************************************************************)
(* How a build decides what to build: MarkDirty, TopologicalSort and       *)
(* DirtyNodes (internal/graph/graph.go), one visit of a node at a time.    *)
(*                                                                         *)
(* All three range over a Go map, so the order of the visits is arbitrary, *)
(* and it differs from one pass of MarkDirty to the next.  The imports of  *)
(* a node are a list in the code and visited in any order here.            *)
(***************************************************************************)
EXTENDS SpecGraph

CONSTANTS Specs,     \* the ids of the loaded specifications
          Declared,  \* the import lists considered, unknown ids included
          Hash,      \* the hash of each specification's text
          Receipts   \* the maps SpecHashes may return

ASSUME BuildGraphAssumption ==
    /\ IsFiniteSet(Specs)
    /\ \A declared \in Declared : DOMAIN declared = Specs
    /\ DOMAIN Hash = Specs

VARIABLES
    phase,      \* the function and loop that is running
    imports,    \* Node.Deps
    known,      \* receiptHashes
    dirty,      \* the nodes with IsDirty
    scan,       \* the nodes the running loop has still to visit
    changed,    \* MarkDirty's flag
    stack,      \* the active calls of visit: a node and the deps still to do
    visited,    \* TopologicalSort's visited
    result,     \* TopologicalSort's result
    at,         \* where the loop of DirtyNodes is in the result
    toBuild     \* what it has put together

markVars == <<dirty, changed>>
sortVars == <<stack, visited, result>>
listVars == <<at, toBuild>>
vars == <<phase, imports, known, scan, markVars, sortVars, listVars>>

\* Mutant: an edge is added to whatever the import names.
AddAllEdges(declared) == declared

\* LoadSpecs adds an edge for every import that names a loaded specification.
AddEdges(declared) == [s \in Specs |-> declared[s] \cap Specs]

Init ==
    /\ phase = "compare"
    /\ imports \in {AddEdges(declared) : declared \in Declared}
    /\ known \in Receipts
    /\ dirty = {} /\ scan = {} /\ changed = FALSE
    /\ stack = <<>> /\ visited = {} /\ result = <<>>
    /\ at = 1 /\ toBuild = <<>>

-----------------------------------------------------------------------------
\* MarkDirty: the nodes without a successful receipt for their text.
CompareHashes ==
    /\ phase = "compare"
    /\ dirty' = Stale(Hash, known)
    /\ phase' = "propagate" /\ scan' = Specs /\ changed' = FALSE
    /\ UNCHANGED <<imports, known, sortVars, listVars>>

\* One node of one pass: it becomes dirty when one of its deps is.
PropagateTo(s) ==
    /\ phase = "propagate"
    /\ s \in scan /\ scan' = scan \ {s}
    /\ IF s \notin dirty /\ imports[s] \cap dirty # {}
       THEN dirty' = dirty \cup {s} /\ changed' = TRUE
       ELSE UNCHANGED markVars
    /\ UNCHANGED <<phase, imports, known, sortVars, listVars>>

\* Mutant: one pass is taken to be enough.
OnePassOnly ==
    /\ phase = "propagate" /\ scan = {}
    /\ phase' = "sort" /\ scan' = Specs
    /\ UNCHANGED <<imports, known, markVars, sortVars, listVars>>

\* Mutant: the flag is not cleared before the next pass.
EndPassKeepingFlag ==
    /\ phase = "propagate" /\ scan = {}
    /\ scan' = Specs
    /\ phase' = IF changed THEN "propagate" ELSE "sort"
    /\ UNCHANGED <<imports, known, markVars, sortVars, listVars>>

\* The end of a pass: another one if this one changed something.
EndPass ==
    /\ phase = "propagate" /\ scan = {}
    /\ scan' = Specs
    /\ IF changed THEN changed' = FALSE /\ UNCHANGED phase
                  ELSE phase' = "sort" /\ UNCHANGED changed
    /\ UNCHANGED <<imports, known, dirty, sortVars, listVars>>

-----------------------------------------------------------------------------
Frame(s) == [node |-> s, deps |-> imports[s]]
Top == stack[Len(stack)]
Callers == SubSeq(stack, 1, Len(stack) - 1)
InStack == {stack[i].node : i \in DOMAIN stack}

\* Mutant: the check of visited is missing.
VisitRootAgain(s) ==
    /\ phase = "sort" /\ stack = <<>>
    /\ s \in scan /\ scan' = scan \ {s}
    /\ stack' = <<Frame(s)>>
    /\ UNCHANGED <<phase, imports, known, markVars, visited, result, listVars>>

\* The loop over g.nodes calls visit, which returns at once when visited.
VisitRoot(s) ==
    /\ phase = "sort" /\ stack = <<>>
    /\ s \in scan /\ scan' = scan \ {s}
    /\ stack' = IF s \in visited THEN <<>> ELSE <<Frame(s)>>
    /\ UNCHANGED <<phase, imports, known, markVars, visited, result, listVars>>

Continued(d) == Append(Callers, [node |-> Top.node, deps |-> Top.deps \ {d}])

\* Mutant: a dependency that is on the stack counts as visited.
VisitDepOnce(d) ==
    /\ phase = "sort" /\ stack # <<>> /\ d \in Top.deps
    /\ stack' = IF d \in visited \cup InStack THEN Continued(d)
                ELSE Append(Continued(d), Frame(d))
    /\ UNCHANGED <<phase, imports, known, scan, markVars, visited, result, listVars>>

\* visit calls itself for a dep: an error if that call is already active.
VisitDep(d) ==
    /\ phase = "sort" /\ stack # <<>> /\ d \in Top.deps
    /\ IF d \in InStack
       THEN phase' = "cycle" /\ UNCHANGED stack
       ELSE /\ stack' = IF d \in visited THEN Continued(d)
                        ELSE Append(Continued(d), Frame(d))
            /\ UNCHANGED phase
    /\ UNCHANGED <<imports, known, scan, markVars, visited, result, listVars>>

\* Mutant: a node is put in front of the order.
ReturnInFront ==
    /\ phase = "sort" /\ stack # <<>> /\ Top.deps = {}
    /\ visited' = visited \cup {Top.node}
    /\ result' = <<Top.node>> \o result
    /\ stack' = Callers
    /\ UNCHANGED <<phase, imports, known, scan, markVars, listVars>>

\* Every dep is done: the node comes after all of them.
Return ==
    /\ phase = "sort" /\ stack # <<>> /\ Top.deps = {}
    /\ visited' = visited \cup {Top.node}
    /\ result' = Append(result, Top.node)
    /\ stack' = Callers
    /\ UNCHANGED <<phase, imports, known, scan, markVars, listVars>>

EndSort ==
    /\ phase = "sort" /\ stack = <<>> /\ scan = {}
    /\ phase' = "select"
    /\ UNCHANGED <<imports, known, scan, markVars, sortVars, listVars>>

-----------------------------------------------------------------------------
\* DirtyNodes keeps the dirty ones of the sorted nodes.
SelectDirty ==
    /\ phase = "select" /\ at <= Len(result)
    /\ at' = at + 1
    /\ toBuild' = IF result[at] \in dirty THEN Append(toBuild, result[at]) ELSE toBuild
    /\ UNCHANGED <<phase, imports, known, scan, markVars, sortVars>>

\* Mutant: the last of the sorted nodes is not looked at.
EndSelectEarly ==
    /\ phase = "select" /\ at >= Len(result)
    /\ phase' = "done"
    /\ UNCHANGED <<imports, known, scan, markVars, sortVars, listVars>>

EndSelect ==
    /\ phase = "select" /\ at > Len(result)
    /\ phase' = "done"
    /\ UNCHANGED <<imports, known, scan, markVars, sortVars, listVars>>

Next ==
    \/ CompareHashes \/ EndPass \/ Return
    \/ EndSort \/ SelectDirty \/ EndSelect
    \/ \E s \in Specs : PropagateTo(s) \/ VisitRoot(s) \/ VisitDep(s)

Spec == Init /\ [][Next]_vars

\* The functions are loops that run to their end.
FairSpec == Spec /\ WF_vars(Next)

-----------------------------------------------------------------------------
(***************************************************************************)
(* Properties.                                                             *)
(***************************************************************************)

\* The type invariant.
TypeOK ==
    /\ phase \in {"compare", "propagate", "sort", "cycle", "select", "done"}
    /\ imports \in [Specs -> SUBSET Specs]
    /\ dirty \subseteq Specs /\ scan \subseteq Specs /\ changed \in BOOLEAN
    /\ stack \in Seq([node: Specs, deps: SUBSET Specs])
    /\ visited \subseteq Specs
    /\ result \in Seq(Specs) /\ toBuild \in Seq(Specs)
    /\ at \in Nat \ {0}

Sorting == phase \in {"sort", "cycle", "select", "done"}
Sorted == phase \in {"select", "done"}

\* However the passes of MarkDirty visit the nodes, they stop with exactly
\* the stale specifications and those that reach one by imports: nothing
\* that needs a rebuild is missed and nothing else is built.
PropagationExact == Sorting => dirty = Dependents(imports, Stale(Hash, known))

\* The sort fails on a cycle of imports, wherever in the graph it is, and on
\* nothing else.
CyclesReported ==
    /\ phase = "cycle" => Cyclic(imports)
    /\ Sorted => ~Cyclic(imports)

\* The order is a topological order at every moment: what is in it comes
\* after everything it imports, and every import of it is in it.
ResultSorted ==
    /\ DependenciesFirst(imports, result)
    /\ \A i \in DOMAIN result : imports[result[i]] \subseteq {result[j] : j \in DOMAIN result}

\* A build is given every dirty specification once, dependencies first: what
\* MakesChoice says of the list at the end, in terms of the marks.
BuildListRight ==
    phase = "done" =>
        /\ {toBuild[i] : i \in DOMAIN toBuild} = dirty
        /\ Len(toBuild) = Cardinality(dirty)
        /\ DependenciesFirst(imports, toBuild)

\* What is seen of the choice from outside.
Outcome ==
    CASE phase = "cycle" -> "refused" [] phase = "done" -> "chosen" [] OTHER -> "none"
Given == IF phase = "done" THEN toBuild ELSE <<>>

Choice == INSTANCE BuildChoice WITH
    Graphs <- {AddEdges(declared) : declared \in Declared}, outcome <- Outcome, list <- Given

\* The three functions together make the choice that a build relies on: seen
\* from outside, one step that refuses a cyclic project or lists what to
\* build, whatever order the maps are ranged over in.
MakesChoice == Choice!Spec

\* The dependencies that the active calls of visit have still to do.
Pending ==
    {e \in Specs \X Specs : \E i \in DOMAIN stack : stack[i].node = e[1] /\ e[2] \in stack[i].deps}

Grows(S, T) == S \subseteq T /\ S # T

PassAdvances ==
    \/ Grows(dirty, dirty')
    \/ dirty' = dirty /\ changed /\ ~changed'
    \/ UNCHANGED markVars /\ Grows(scan', scan)

SortAdvances ==
    \/ Grows(visited, visited')
    \/ visited' = visited /\ Grows(InStack, InStack')
    \/ /\ visited' = visited /\ InStack' = InStack
       /\ Pending' \subseteq Pending /\ scan' \subseteq scan
       /\ Pending' # Pending \/ scan' # scan

PhaseAdvances ==
    <<phase, phase'>> \in {<<"compare", "propagate">>, <<"propagate", "sort">>, <<"sort", "cycle">>,
                          <<"sort", "select">>, <<"select", "done">>}

Advances ==
    \/ PhaseAdvances
    \/ phase' = phase /\ CASE phase = "propagate" -> PassAdvances
                           [] phase = "sort" -> SortAdvances
                           [] phase = "select" -> at < at' /\ at' <= Len(result) + 1
                           [] OTHER -> FALSE

\* No loop ever repeats itself: each pass of MarkDirty, each visit of the sort
\* and each step of DirtyNodes brings its loop closer to its end, on cyclic
\* graphs and on nodes that are reached again and again.
EveryStepAdvances == [][Advances]_vars

\* The propagation and the sort end on every graph, a cyclic one included.
Termination == <>(phase \in {"cycle", "done"})

\* The inductive strengthening of PropagationExact: what is dirty has a reason
\* to be, and a pass without a change has seen that the nodes it is done with
\* need none.
Propagating ==
    /\ dirty \subseteq Dependents(imports, Stale(Hash, known))
    /\ phase # "compare" => Stale(Hash, known) \subseteq dirty
    /\ phase = "propagate" /\ ~changed =>
         \A s \in Specs \ scan : imports[s] \cap dirty # {} => s \in dirty
    /\ Sorting => ClosedUnderImporters(imports, dirty)

\* The inductive strengthening of ResultSorted and CyclesReported: the stack
\* is a path of imports, disjoint from the visited nodes, and what each of its
\* calls is done with is visited or the call above it; the visited nodes are
\* closed under imports, and no subset of them is a cycle.
PathOnStack ==
    /\ \A i \in DOMAIN stack :
         /\ stack[i].node \notin visited
         /\ stack[i].deps \subseteq imports[stack[i].node]
    /\ \A i, j \in DOMAIN stack : stack[i].node = stack[j].node => i = j
    /\ \A i \in 1..Len(stack) - 1 :
         /\ stack[i + 1].node \in imports[stack[i].node]
         /\ imports[stack[i].node] \ stack[i].deps \subseteq visited \cup {stack[i + 1].node}
    /\ stack # <<>> => imports[Top.node] \ Top.deps \subseteq visited

VisitedClosed ==
    /\ visited = {result[i] : i \in DOMAIN result}
    /\ \A s \in visited : imports[s] \subseteq visited
    /\ \A S \in (SUBSET visited) \ {{}} : \E s \in S : imports[s] \cap S = {}
    /\ phase = "sort" \/ Sorted => \A s \in Specs \ scan : s \in visited \cup InStack
    /\ Sorted => scan = {} /\ stack = <<>>
    /\ ~Sorting => stack = <<>> /\ result = <<>>

\* The inductive strengthening of BuildListRight: nothing is in the result
\* twice, and the list has the dirty ones of what the loop has passed.
ListSoFar ==
    /\ \A i, j \in DOMAIN result : result[i] = result[j] => i = j
    /\ \A i, j \in DOMAIN toBuild : toBuild[i] = toBuild[j] => i = j
    /\ DependenciesFirst(imports, toBuild)
    /\ {toBuild[i] : i \in DOMAIN toBuild} = {result[i] : i \in 1..at - 1} \cap dirty
    /\ at \in 1..Len(result) + 1
    /\ ~Sorted => at = 1
    /\ phase = "done" => at = Len(result) + 1
=============================================================================
