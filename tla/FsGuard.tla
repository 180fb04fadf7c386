------------------------------ MODULE FsGuard ------------------------------
(***************************************************************************)
(* File ownership: internal/workspace/fsguard.                             *)
(*                                                                         *)
(* An ownership map records which specification owns a path and which      *)
(* paths are shared or readonly.  Paths are names that filepath.Clean      *)
(* leaves alone, so two different paths are two different files.           *)
(***************************************************************************)

\* The three maps of OwnershipMap: `owned' is a partial function from paths
\* to specification ids, `shared' and `readonly' are sets of paths.
OwnershipMaps(Paths, Specs) ==
    [owned: UNION {[S -> Specs] : S \in SUBSET Paths},
     shared: SUBSET Paths, readonly: SUBSET Paths]

NewOwnershipMap ==
    [owned |-> [p \in {} |-> {}], shared |-> {}, readonly |-> {}]

\* A later registration of an owned path replaces the earlier owner, and
\* nothing reports it.
RegisterSpec(m, id, decl) ==
    [owned |-> [p \in decl.owned \cup DOMAIN m.owned |->
                    IF p \in decl.owned THEN id ELSE m.owned[p]],
     shared |-> m.shared \cup decl.shared,
     readonly |-> m.readonly \cup decl.readonly]

\* readonly is looked up before ownership and ownership before shared; a
\* path nobody declared is Unmanaged.  OutsideProject is never returned.
Classify(m, id, p) ==
    IF p \in m.readonly THEN "ReadOnly"
    ELSE IF p \in DOMAIN m.owned
         THEN IF m.owned[p] = id THEN "Owned" ELSE "OwnedByOtherSpec"
         ELSE IF p \in m.shared THEN "Shared" ELSE "Unmanaged"

\* The paths ValidatePatch refuses on behalf of `id'.
Refused(m, id) ==
    m.readonly \cup {p \in DOMAIN m.owned : m.owned[p] # id}

\* Mutant: only the files of other specifications are refused.
ValidateForeignOnly(m, id, paths) ==
    \A p \in paths : Classify(m, id, p) # "OwnedByOtherSpec"

\* ValidatePatch returns nil.
ValidatePatch(m, id, paths) ==
    \A p \in paths : Classify(m, id, p) \notin {"ReadOnly", "OwnedByOtherSpec"}
=============================================================================
