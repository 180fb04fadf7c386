----------------------------- MODULE SpecGraph -----------------------------
(***************************************************************************)
(* The dependency graph of specifications (internal/graph), as data: a     *)
(* function `imports' from each loaded specification to the specifications *)
(* it imports.                                                             *)
(***************************************************************************)
EXTENDS Naturals, Sequences, FiniteSets, SequencesExt

\* Every specification that imports a member of S is a member of S.
ClosedUnderImporters(imports, S) ==
    \A s \in DOMAIN imports : imports[s] \cap S # {} => s \in S

\* The specifications that reach `sources' by imports, `sources' included:
\* the least closed set that contains them.
Dependents(imports, sources) ==
    {s \in DOMAIN imports :
        \A S \in SUBSET DOMAIN imports :
            sources \subseteq S /\ ClosedUnderImporters(imports, S) => s \in S}

\* A set in which everything imports something of the set contains a cycle.
Cyclic(imports) ==
    \E S \in (SUBSET DOMAIN imports) \ {{}} : \A s \in S : imports[s] \cap S # {}

\* No specification comes before one it imports.
DependenciesFirst(imports, order) ==
    \A i, j \in DOMAIN order : order[j] \in imports[order[i]] => j < i

\* The orders in which the members of S may be built.
TopologicalOrders(imports, S) ==
    {order \in SetToSeqs(S) : DependenciesFirst(imports, order)}

\* The specifications whose text is not the one of their last successful
\* build; `known' holds the hashes of those builds.
Stale(hash, known) ==
    {s \in DOMAIN hash : s \notin DOMAIN known \/ known[s] # hash[s]}
=============================================================================
