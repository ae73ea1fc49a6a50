------------------------------ MODULE Sessions ------------------------------
(***************************************************************************)
(* Session clients and the session manager, over the connections of the    *)
(* extension runtime, serving pages that post requests, abort them and     *)
(* close: docs/sessions.md of packages/transport-chrome, as the code does  *)
(* it.                                                                     *)
(***************************************************************************)
EXTENDS SessionClient, SessionManager

VARIABLE posted   \* the messages each page has posted

vars == <<portVars, clientVars, managerVars, posted>>

Init == PortsInit /\ ClientInit /\ ManagerInit /\ posted = {}

\* A page posts a request once, an abort of a request it has posted, and
\* nothing after `false`.
PagePosts(c, m) ==
  /\ Running(c)
  /\ \A i \in DOMAIN outbox[c] : outbox[c][i].type # "false"
  /\ \/ m.type = "request" /\ Page[m.id] = c
     \/ m.type = "abort" /\ [m EXCEPT !.type = "request"] \in posted
     \/ m.type = "false"
  /\ m \notin posted
  /\ posted' = IF m.type = "false" THEN posted ELSE posted \cup {m}
  /\ outbox' = [outbox EXCEPT ![c] = Append(@, m)]
  /\ UNCHANGED <<constructed, servicePort, active, closed, inbox>>
  /\ UNCHANGED <<portVars, managerVars>>

ClientStep(A)  == A /\ UNCHANGED <<managerVars, posted>>
ManagerStep(A) == A /\ UNCHANGED <<clientVars, posted>>

Next ==
  \/ \E c \in Clients, m \in Message : PagePosts(c, m)
  \/ ClientNext /\ UNCHANGED <<managerVars, posted>>
  \/ ManagerNext /\ UNCHANGED <<clientVars, posted>>

(***************************************************************************)
(* Event loops deliver what has arrived, a validation promise settles, a   *)
(* canceled handler rejects, and the timer of a sink expires.  Nothing     *)
(* obliges a page to post, a handler to answer or a stream to end, and     *)
(* nothing has to fail.                                                    *)
(***************************************************************************)
Fairness ==
  /\ \A c \in Clients :
       /\ WF_vars(ClientStep(ForwardEvent(c)))
       /\ WF_vars(ClientStep(ServiceListener(c)))
       /\ WF_vars(ClientStep(OnClientDisconnect(c)))
  /\ \A k \in Conns :
       /\ WF_vars(ManagerStep(OnConnect(k)))
       /\ WF_vars(ManagerStep(OnMessage(k)))
       /\ WF_vars(ManagerStep(OnDisconnect(k)))
       /\ WF_vars(ManagerStep(Validated(k) \/ ValidationFailed(k)))
  /\ \A r \in Requests :
       /\ WF_vars(ClientStep(SourceClosed(r)))
       /\ WF_vars(ManagerStep(r \in canceled /\ HandlerThrows(r)))
       /\ WF_vars(ManagerStep(OnSubConnect(r)))
       /\ WF_vars(ManagerStep(SubValidated(r) \/ SubInvalid(r)))
       /\ WF_vars(ManagerStep(OnSubDisconnect(r)))
       /\ WF_vars(ManagerStep(PipeBroken(r)))
       /\ WF_vars(ManagerStep(SinkTimeout(r)))

Spec == Init /\ [][Next]_vars /\ Fairness
-----------------------------------------------------------------------------
Has(s, e) == \E i \in DOMAIN s : s[i] = e

TypeOK ==
  /\ PortsTypeOK
  /\ ClientTypeOK
  /\ ManagerTypeOK
  /\ posted \subseteq Message

\* The manager's two maps and the open ports agree: a session is in the one map
\* and its port in the other exactly while its service end is open and its
\* signal has not fired, through aborts from either end, killOrigin and deaths
\* of the worker.
SessionsExact ==
  /\ \A c \in Clients :
       /\ Session(c) \in tracked <=> sessions[c] # 0
       /\ sessions[c] # 0 => /\ dialer[sessions[c]] = c
                             /\ sEnd[sessions[c]] = "open"
  /\ \A k \in Conns :
       sEnd[k] = "open" => k \notin dead /\ sessions[dialer[k]] = k

\* A client that reconnects "using the same session name" never meets its old
\* session: `Session collision` is not thrown, whoever cut the old connection.
NoCollision ==
  \A k \in Conns :
    dialer[k] # NoClient /\ sEnd[k] = "none" => sessions[dialer[k]] = 0

\* killOrigin finds every open sub-channel in the map of ports.
OpenIsTracked ==
  \A r \in Requests : subS[r] \in {"open", "final"} => Channel(r) \in tracked

\* A session that aborts cancels every request it took up while it lived and
\* has not finished.
AbortCancelsPending ==
  \A r \in Requests \ late : owner[r] \in dead /\ Live(r) => r \in canceled

\* A page is answered only what it asked, once or with a stream and then the
\* failure of the stream, whichever of its connections and sessions answer; and
\* never after its port has failed.
Asking(r) == [type |-> "request", id |-> r]
Contract ==
  INSTANCE PageContract WITH asked <- {r \in Requests : Asking(r) \in posted},
                             heard <- inbox, over <- closed
KeepsContract == Contract!Safety

\* However far it has come, a canceled request comes to an end: in its handler,
\* waiting for its sub-channel, or piping to a reader that never disconnects.
CanceledEnds ==
  \A r \in Requests : (r \in canceled) ~> (life[r] = "done")

\* A request that was forwarded over a connection, before or after its port was
\* validated, is taken up by the session, or the connection is given up; that a
\* later connection has a session to take it is NoCollision.
Carries(k, r) == Has(up[k], Asking(r))
RequestIsTaken ==
  \A k \in Conns, r \in Requests :
    Carries(k, r) ~> (life[r] # "none" \/ sEnd[k] = "closed")

-----------------------------------------------------------------------------
(* What the proofs need besides. *)

\* A connection has a service end once it was dialed, a validation once it was
\* accepted, and a session that is not aborted exactly while its end is open.
Accepted ==
  \A k \in Conns :
    /\ sEnd[k] # "none" => dialer[k] # NoClient
    /\ valid[k] # "none" \/ k \in dead => sEnd[k] # "none"
    /\ valid[k] # "none" /\ k \notin dead <=> sEnd[k] = "open"

\* Nothing but the service's own end cuts a connection: a client that finds
\* itself disconnected has an old session that is over.
CutByService ==
  \A k \in Conns : sEnd[k] # "closed" => down[k] \in Seq(DownMessage \ {Disc})

\* A client dials again only when its last connection is over.
OneDialed ==
  /\ \A k \in Conns : \/ dialer[k] = NoClient
                        \/ servicePort[dialer[k]] = k
                        \/ sEnd[k] \in {"closed", "ignored"}
  /\ \A c \in Clients \ constructed : servicePort[c] = 0

\* A request that was taken up has a session, and is on its map until it ends
\* or is canceled; only one that may stream gets as far as a sub-channel.
TakenUp ==
  \A r \in Requests :
    /\ Live(r) => owner[r] \in Conns /\ r \in inMap \cup canceled
    /\ Live(r) /\ life[r] # "handling" => r \in Streaming

\* A client has dialed its connection, and has none open once it is closed.
Dialed ==
  /\ \A c \in Clients : servicePort[c] # 0 => dialer[servicePort[c]] = c
  /\ \A c \in closed : /\ c \in constructed
                       /\ servicePort[c] = 0 \/ cEnd[servicePort[c]] # "open"

\* A request is in one place: with its client, on a connection of that client,
\* held back there, or taken up.
Once(s, e) == \A i, j \in DOMAIN s : s[i] = e /\ s[j] = e => i = j
Waiting(r) == life[r] = "none" /\ Asking(r) \in posted

InOutbox ==
  \A c \in Clients, r \in Requests :
    /\ Once(outbox[c], Asking(r))
    /\ Has(outbox[c], Asking(r)) => c = Page[r] /\ Waiting(r)
InTransit ==
  \A k \in Conns, r \in Requests :
    /\ Once(up[k], Asking(r))
    /\ Carries(k, r) => /\ dialer[k] = Page[r] /\ Waiting(r)
                        /\ ~Has(outbox[Page[r]], Asking(r))
                        /\ \A l \in Conns : Carries(l, r) => l = k
HeldBack ==
  \A k \in Conns, r \in Requests :
    Asking(r) \in held[k] =>
      /\ dialer[k] = Page[r] /\ Waiting(r)
      /\ ~Has(outbox[Page[r]], Asking(r))
      /\ \A l \in Conns : ~Carries(l, r) /\ (Asking(r) \in held[l] => l = k)
Taken ==
  \A r \in Requests :
    life[r] # "none" => /\ Asking(r) \in posted
                        /\ owner[r] \in Conns /\ dialer[owner[r]] = Page[r]

\* What is told of a request comes from the session that took it up and has
\* left its handler, goes to its page, and is no more than a stream while the
\* lifecycle goes on.
Answering(r) == life[r] \notin {"none", "handling"}
ToldOnWire ==
  \A k \in Conns : \A i \in DOMAIN down[k] : down[k][i] # Disc =>
    LET m == down[k][i] IN
    /\ Answering(m.id) /\ owner[m.id] = k
    /\ m.type # "channel" => life[m.id] = "done"
ToldPage ==
  \A c \in Clients : \A i \in DOMAIN inbox[c] : inbox[c][i].type # "fault" =>
    LET e == inbox[c][i] IN
    /\ Answering(e.id) /\ Page[e.id] = c
    /\ e.type # "stream" => life[e.id] = "done"

\* The failure of a stream follows the stream, on the wire, at the page and
\* from the one to the other.
WireOrdered ==
  \A k \in Conns : \A i, j \in DOMAIN down[k] :
    i < j /\ down[k][i] # Disc /\ down[k][j] # Disc
      /\ down[k][i].id = down[k][j].id =>
         down[k][i].type = "channel" /\ down[k][j].type = "error"
PageOrdered ==
  \A c \in Clients, k \in Conns :
    \A i \in DOMAIN inbox[c], j \in DOMAIN down[k] :
      inbox[c][i].type # "fault" /\ down[k][j] # Disc
        /\ inbox[c][i].id = down[k][j].id =>
           inbox[c][i].type = "stream" /\ down[k][j].type = "error"

Travels == InOutbox /\ InTransit /\ HeldBack /\ Taken
Told == ToldOnWire /\ ToldPage /\ WireOrdered /\ PageOrdered
Answered == Dialed /\ Travels /\ Told

IInv == /\ TypeOK /\ Accepted /\ CutByService /\ OneDialed /\ TakenUp
        /\ SessionsExact /\ NoCollision /\ OpenIsTracked /\ AbortCancelsPending

(***************************************************************************)
(* What the repository says and the code does not do.                      *)
(***************************************************************************)

\* "Abort will close the session channel, close all sub-channels, and cancel
\* all pending requests."
AbortCancelsAll ==
  \A r \in Requests : owner[r] \in dead /\ Live(r) => r \in canceled
=============================================================================
