--------------------------- MODULE MC_PortStream ---------------------------
(***************************************************************************)
(* A small instance of PortStream.                                         *)
(***************************************************************************)
EXTENDS PortStream
=============================================================================
