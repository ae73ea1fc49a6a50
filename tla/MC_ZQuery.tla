----------------------------- MODULE MC_ZQuery -----------------------------
(***************************************************************************)
(* Small instances of ZQuery.  Components and items are interchangeable,   *)
(* and the runs that use the symmetry check invariants only.               *)
(***************************************************************************)
EXTENDS ZQuery, TLC

Symmetry == Permutations(Components) \cup Permutations(Items)
=============================================================================
