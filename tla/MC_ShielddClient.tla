-------------------------- MODULE MC_ShielddClient --------------------------
(***************************************************************************)
(* A small instance of ShielddClient: two providers, two calls, two        *)
(* services and three connections.  All of them are interchangeable.       *)
(***************************************************************************)
EXTENDS ShielddClient, TLC

Symmetry == Permutations(Origins) \cup Permutations(Callers)
              \cup Permutations(Services) \cup Permutations(Conns)
=============================================================================
