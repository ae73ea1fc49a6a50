----------------------------- MODULE MC_Sessions -----------------------------
(***************************************************************************)
(* Small instances of Sessions.                                            *)
(***************************************************************************)
EXTENDS Sessions

CONSTANTS c1, u, s, o   \* a client, a unary and a streaming request, an origin

MCPage == [r \in Requests |-> c1]
MCOrigin == [c \in Clients |-> o]
=============================================================================
