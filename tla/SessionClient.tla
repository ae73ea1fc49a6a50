---------------------------- MODULE SessionClient ----------------------------
(***************************************************************************)
(* CRSessionClient of packages/transport-chrome/src/session-client.ts: the *)
(* content script's relay between the message port of a page and a         *)
(* connection to the extension's worker.                                   *)
(*                                                                         *)
(* `outbox` and `inbox` are the two directions of the page's message port. *)
(* A "fault" in the inbox stands for what fails the page's transport: the  *)
(* disconnect notice `false`, and an error without a request id.           *)
(***************************************************************************)
EXTENDS ChromePorts

VARIABLES
  constructed,  \* clients whose constructor has run
  servicePort,  \* this.servicePort: a connection, 0 for undefined
  active,       \* clients with this.active set
  closed,       \* clients that have closed the page's message port
  outbox,       \* per client, messages from its page
  inbox         \* per client, messages to its page

clientVars == <<constructed, servicePort, active, closed, outbox, inbox>>

Message == [type : {"request", "abort"}, id : Requests]
             \cup {[type |-> "false"]}
Event   == [type : {"message", "stream", "error"}, id : Requests]
             \cup {[type |-> "fault"]}

ClientInit ==
  /\ constructed = {}
  /\ servicePort = [c \in Clients |-> 0]
  /\ active = {}
  /\ closed = {}
  /\ outbox = [c \in Clients |-> <<>>]
  /\ inbox = [c \in Clients |-> <<>>]

Running(c) == c \in constructed /\ c \notin closed

\* An error loses the id of its request.
BugUnscoped(c, m) ==
  inbox' = [inbox EXCEPT ![c] = Append(@, [type |-> m.type])]

ToPage(c, m) == inbox' = [inbox EXCEPT ![c] = Append(@, m)]

\* connect(): a new connection under the client's permanent name, carrying
\* the messages ms.
Dial(c, ms) ==
  \E k \in Conns :
    /\ IsNext(k)
    /\ dialer' = [dialer EXCEPT ![k] = c]
    /\ cEnd' = [cEnd EXCEPT ![k] = "open"]
    /\ up' = [up EXCEPT ![k] = ms]
    /\ servicePort' = [servicePort EXCEPT ![c] = k]

\* this.servicePort?.disconnect(): nothing to do when it is already cut.
HangUp(c) ==
  LET k == servicePort[c] IN
  IF k # 0 /\ cEnd[k] = "open"
  THEN /\ cEnd' = [cEnd EXCEPT ![k] = "closed"]
       /\ up' = IF sEnd[k] = "closed" THEN up
                                      ELSE [up EXCEPT ![k] = Append(@, Disc)]
  ELSE UNCHANGED <<cEnd, up>>

\* close(): inform the page the connection is closed.
Close(c) ==
  /\ HangUp(c)
  /\ ToPage(c, [type |-> "fault"])
  /\ closed' = closed \cup {c}
-----------------------------------------------------------------------------
\* The constructor connects and starts to listen.
Construct(c) ==
  /\ c \notin constructed
  /\ constructed' = constructed \cup {c}
  /\ Dial(c, <<>>)
  /\ UNCHANGED <<active, closed, outbox, inbox, sEnd, down, subC, subS>>

\* clientListener, for a request or an abort: reconnect if disconnected, and
\* forward.  A port whose other end is gone swallows the message.
ForwardEvent(c) ==
  /\ Running(c)
  /\ outbox[c] # <<>>
  /\ outbox' = [outbox EXCEPT ![c] = Tail(@)]
  /\ LET m == Head(outbox[c])
         k == servicePort[c]
     IN /\ m.type # "false"
        /\ \/ /\ k # 0
              /\ up' = IF sEnd[k] = "closed" THEN up
                                             ELSE [up EXCEPT ![k] = Append(@, m)]
              /\ UNCHANGED <<dialer, cEnd, servicePort>>
           \/ k = 0 /\ Dial(c, <<m>>)
  /\ UNCHANGED <<constructed, active, closed, inbox, sEnd, down, subC, subS>>

\* clientListener, when connect() throws because the extension's context is
\* gone: the error is not scoped to a request, so the client is aborted.
ContextLost(c) ==
  /\ Running(c)
  /\ outbox[c] # <<>>
  /\ Head(outbox[c]).type # "false"
  /\ servicePort[c] = 0
  /\ outbox' = [outbox EXCEPT ![c] = Tail(@)]
  /\ ToPage(c, [type |-> "fault"])
  /\ closed' = closed \cup {c}
  /\ UNCHANGED <<constructed, servicePort, active>>
  /\ UNCHANGED portVars

\* clientListener, for `false`: the page announces that it has closed.
PageClosed(c) ==
  /\ Running(c)
  /\ outbox[c] # <<>>
  /\ Head(outbox[c]).type = "false"
  /\ outbox' = [outbox EXCEPT ![c] = Tail(@)]
  /\ Close(c)
  /\ UNCHANGED <<constructed, servicePort, active, dialer, sEnd, down, subC,
                 subS>>

\* CRSessionClient.end() closes the client.
End(c) ==
  /\ Running(c)
  /\ Close(c)
  /\ UNCHANGED <<constructed, servicePort, active, outbox, dialer, sEnd, down,
                 subC, subS>>

\* serviceListener: a response, or an error for some request, is forwarded; for
\* a response stream the client first connects to the sub-channel it names.
ServiceListener(c) ==
  LET k == servicePort[c] IN
  /\ k # 0
  /\ cEnd[k] = "open"
  /\ down[k] # <<>>
  /\ Head(down[k]) # Disc
  /\ active' = active \cup {c}
  /\ down' = [down EXCEPT ![k] = Tail(@)]
  /\ LET m == Head(down[k]) IN
     IF m.type = "channel"
     THEN /\ ToPage(c, [type |-> "stream", id |-> m.id])
          /\ subC' = [subC EXCEPT ![m.id] = "open"]
     ELSE ToPage(c, m) /\ UNCHANGED subC
  /\ UNCHANGED <<constructed, servicePort, closed, outbox, dialer, cEnd, sEnd,
                 up, subS>>

\* onDisconnect of the service port: a client that has ever heard the service
\* waits for the next event of its page to reconnect; another one closes.
OnClientDisconnect(c) ==
  LET k == servicePort[c] IN
  /\ k # 0
  /\ cEnd[k] = "open"
  /\ down[k] # <<>>
  /\ Head(down[k]) = Disc
  /\ cEnd' = [cEnd EXCEPT ![k] = "closed"]
  /\ down' = [down EXCEPT ![k] = Tail(@)]
  /\ IF c \in active
     THEN /\ servicePort' = [servicePort EXCEPT ![c] = 0]
          /\ active' = active \ {c}
          /\ UNCHANGED <<closed, inbox>>
     ELSE /\ ToPage(c, [type |-> "fault"])
          /\ closed' = closed \cup {c}
          /\ UNCHANGED <<servicePort, active>>
  /\ UNCHANGED <<constructed, outbox, dialer, sEnd, up, subC, subS>>
-----------------------------------------------------------------------------
(***************************************************************************)
(* The client's end of a sub-channel, a PortStreamSource: it disconnects   *)
(* at END and ABORT, when its reader cancels, and is cut by the other end. *)
(***************************************************************************)
SourceClosed(r) ==
  /\ subC[r] = "open"
  /\ subS[r] \in {"final", "closed"}
  /\ subC' = [subC EXCEPT ![r] = "closed"]
  /\ UNCHANGED clientVars
  /\ UNCHANGED <<dialer, cEnd, sEnd, up, down, subS>>

SourceCanceled(r) ==
  /\ subC[r] = "open"
  /\ subC' = [subC EXCEPT ![r] = "closed"]
  /\ UNCHANGED clientVars
  /\ UNCHANGED <<dialer, cEnd, sEnd, up, down, subS>>

\* The document goes away, and every port it holds with it.
Destroyed(c) ==
  /\ Running(c)
  /\ HangUp(c)
  /\ closed' = closed \cup {c}
  /\ subC' = [r \in Requests |->
                IF Page[r] = c /\ subC[r] = "open" THEN "closed" ELSE subC[r]]
  /\ UNCHANGED <<constructed, servicePort, active, outbox, inbox, dialer, sEnd,
                 down, subS>>

ClientNext ==
  \/ \E c \in Clients :
       \/ Construct(c) \/ ForwardEvent(c) \/ ContextLost(c) \/ PageClosed(c)
       \/ End(c) \/ ServiceListener(c) \/ OnClientDisconnect(c) \/ Destroyed(c)
  \/ \E r \in Requests : SourceClosed(r) \/ SourceCanceled(r)

ClientTypeOK ==
  /\ constructed \subseteq Clients
  /\ servicePort \in [Clients -> 0 .. MaxConns]
  /\ active \subseteq Clients
  /\ closed \subseteq Clients
  /\ outbox \in [Clients -> Seq(Message)]
  /\ inbox \in [Clients -> Seq(Event)]
=============================================================================
