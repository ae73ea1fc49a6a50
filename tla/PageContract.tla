---------------------------- MODULE PageContract ----------------------------
(***************************************************************************)
(* What a page may rely on from the message port its requests travel on,   *)
(* whatever carries them further: it is answered only what it has asked,   *)
(* at its own port, once (or with a stream and then the failure of the     *)
(* stream), and once its port has failed it hears nothing more             *)
(* (docs/sessions.md of packages/transport-chrome).                        *)
(***************************************************************************)
EXTENDS Naturals, Sequences

CONSTANTS
  Clients,    \* the pages, each with its client
  Requests,
  Page        \* the page of each request

VARIABLES
  asked,   \* requests that were posted
  heard,   \* what each page was told, in order
  over     \* pages whose port is closed or failed

vars == <<asked, heard, over>>

Init == asked = {} /\ heard = [c \in Clients |-> <<>>] /\ over = {}

Answers(e, r) == e.type # "fault" /\ e.id = r

Ask(r) ==
  /\ r \notin asked /\ Page[r] \notin over
  /\ asked' = asked \cup {r}
  /\ UNCHANGED <<heard, over>>

\* Nothing goes before an answer but the stream that it fails.
Answer(r, kind) ==
  LET c == Page[r] IN
  /\ r \in asked /\ c \notin over
  /\ \A i \in DOMAIN heard[c] :
       Answers(heard[c][i], r) =>
         heard[c][i].type = "stream" /\ kind = "error"
  /\ heard' = [heard EXCEPT ![c] = Append(@, [type |-> kind, id |-> r])]
  /\ UNCHANGED <<asked, over>>

Fault(c) ==
  /\ c \notin over
  /\ heard' = [heard EXCEPT ![c] = Append(@, [type |-> "fault"])]
  /\ over' = over \cup {c}
  /\ UNCHANGED asked

\* The page goes away, and is told nothing.
Leave(c) ==
  /\ c \notin over
  /\ over' = over \cup {c}
  /\ UNCHANGED <<asked, heard>>

Next ==
  \/ \E r \in Requests :
       Ask(r) \/ \E kind \in {"message", "stream", "error"} : Answer(r, kind)
  \/ \E c \in Clients : Fault(c) \/ Leave(c)

Safety == Init /\ [][Next]_vars
=============================================================================
