---------------------------- MODULE MC_StatusStore ----------------------------
(* Up to three loads at a time, and two resets of the store. *)
EXTENDS StatusStore

MCMaxLoads == 3
MCMaxResets == 2
=============================================================================
