---------------------------- MODULE BuildChoice -----------------------------
(***************************************************************************)
(* What the choice of what to build promises, without the loops that make  *)
(* it: a build is refused when the imports form a cycle anywhere, and      *)
(* given, otherwise, all that is stale or depends on something stale, and  *)
(* nothing else, in an order that respects the imports.  The choice is     *)
(* made once, in one step: IncrementalBuild takes it so.                   *)
(***************************************************************************)
EXTENDS SpecGraph

CONSTANTS Graphs,    \* the graphs of loaded specifications
          Hash,      \* the hash of each specification's text
          Receipts   \* what the receipts may say

VARIABLES imports, known,
          outcome,   \* "none" before the choice, "refused" or "chosen"
          list       \* the specifications to build, one after the other

vars == <<imports, known, outcome, list>>

Init ==
    /\ imports \in Graphs /\ known \in Receipts
    /\ outcome = "none" /\ list = <<>>

Refuse ==
    /\ outcome = "none" /\ Cyclic(imports)
    /\ outcome' = "refused"
    /\ UNCHANGED <<imports, known, list>>

Choose ==
    /\ outcome = "none" /\ ~Cyclic(imports)
    /\ list' \in TopologicalOrders(imports, Dependents(imports, Stale(Hash, known)))
    /\ outcome' = "chosen"
    /\ UNCHANGED <<imports, known>>

Next == Refuse \/ Choose

Spec == Init /\ [][Next]_vars
=============================================================================
