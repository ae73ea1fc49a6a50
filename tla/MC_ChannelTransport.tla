------------------------ MODULE MC_ChannelTransport ------------------------
(***************************************************************************)
(* A small instance of ChannelTransport: a unary and a server-streaming    *)
(* call, both with timeouts.  A duplex call registers like the one and is  *)
(* answered like the other.                                                *)
(***************************************************************************)
EXTENDS ChannelTransport

CONSTANTS u, s   \* the unary and the server-streaming call

MCKind == [r \in Requests |-> IF r = u THEN "unary" ELSE "serverStreaming"]
=============================================================================
