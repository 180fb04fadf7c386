---------------------------- MODULE MCBuildGraph ----------------------------
(***************************************************************************)
(* Every graph over three specifications, with self-imports and cycles,    *)
(* one with imports of an unknown specification, and every set of stale    *)
(* ones: a receipt for the current text, for an older one, or none.        *)
(***************************************************************************)
EXTENDS BuildGraph

CONSTANTS a, b, c, unknown

MCSpecs == {a, b, c}
MCDeclared == [MCSpecs -> SUBSET MCSpecs] \cup {[s \in MCSpecs |-> {unknown}]}
MCHash == [s \in MCSpecs |-> 1]
MCReceipts == UNION {[S -> {0, 1}] : S \in SUBSET MCSpecs}
=============================================================================
