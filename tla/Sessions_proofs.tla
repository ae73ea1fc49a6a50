--------------------------- MODULE Sessions_proofs ---------------------------
(***************************************************************************)
(* What the run of Sessions checks, for any clients, requests, origins and *)
(* numbers of connections and of deaths.  IInv is inductive: the two maps  *)
(* of the manager, reconnecting clients, aborted sessions.  On top of it   *)
(* Answered is: where a request may be, and what may be on its way to its  *)
(* page.  With both, each step is one that PageContract allows.            *)
(***************************************************************************)
EXTENDS Sessions, SequenceTheorems, TLAPS

UpEvent == [type : {"request", "abort"}, id : Requests]
Response == [type : {"message", "channel", "error"}, id : Requests]

\* The names of ports are those of their clients or requests.
LEMMA NamesDiffer ==
  /\ \A c, d : Session(c) = Session(d) => c = d
  /\ \A r, q : Channel(r) = Channel(q) => r = q
  /\ \A c, r : Session(c) # Channel(r)
BY DEF Session, Channel

\* A disconnect is no message.
LEMMA DiscIsNone ==
  DownMessage \ {Disc} = Response /\ UpMessage \ {Disc} = UpEvent
<1>1. Disc.type = "disconnect" BY DEF Disc
<1>2. \A m \in Response \cup UpEvent : m.type # "disconnect"
  BY DEF Response, UpEvent
<1> QED BY <1>1, <1>2 DEF DownMessage, UpMessage, Response, UpEvent

\* A response is put behind those that are there, unless the port is closed.
LEMMA PostDownKeeps ==
  ASSUME TypeOK, CutByService, NEW k \in Conns, NEW m \in Response,
         PostDown(k, <<m>>)
  PROVE  /\ down' \in [Conns -> Seq(DownMessage)]
         /\ \A j \in Conns :
              sEnd[j] # "closed" => down'[j] \in Seq(DownMessage \ {Disc})
<1>1. down \in [Conns -> Seq(DownMessage)] BY DEF TypeOK, PortsTypeOK
<1>2. m \in DownMessage \ {Disc} BY DiscIsNone
<1>3. <<m>> \in Seq(DownMessage) /\ <<m>> \in Seq(DownMessage \ {Disc})
  BY <1>2
<1>4. CASE sEnd[k] # "open" BY <1>1, <1>4 DEF PostDown, CutByService
<1>5. CASE sEnd[k] = "open"
  <2>1. down' = [down EXCEPT ![k] = @ \o <<m>>] BY <1>5 DEF PostDown
  <2>2. down[k] \o <<m>> \in Seq(DownMessage)
    BY <1>1, <1>3, ConcatProperties
  <2>3. down[k] \in Seq(DownMessage \ {Disc})
    BY <1>5 DEF CutByService
  <2>4. down[k] \o <<m>> \in Seq(DownMessage \ {Disc})
    BY <1>3, <2>3, ConcatProperties
  <2> QED BY <1>1, <2>1, <2>2, <2>4 DEF CutByService
<1> QED BY <1>4, <1>5

\* What DisconnectAll closes, and that a disconnect is behind it.
LEMMA DisconnectAllKeeps ==
  ASSUME TypeOK, CutByService, NEW K, DisconnectAll(K)
  PROVE  /\ sEnd' = [k \in Conns |-> IF k \in K /\ sEnd[k] = "open"
                                     THEN "closed" ELSE sEnd[k]]
         /\ sEnd' \in [Conns -> {"none", "open", "closed", "ignored"}]
         /\ down' \in [Conns -> Seq(DownMessage)]
         /\ CutByService'
<1>1. /\ down \in [Conns -> Seq(DownMessage)]
      /\ sEnd \in [Conns -> {"none", "open", "closed", "ignored"}]
  BY DEF TypeOK, PortsTypeOK
<1>2. sEnd' = [k \in Conns |-> IF k \in K /\ sEnd[k] = "open"
                               THEN "closed" ELSE sEnd[k]]
  <2>1. \A k \in Conns : k \in {j \in K : sEnd[j] = "open"}
                           <=> k \in K /\ sEnd[k] = "open"
    OBVIOUS
  <2> QED BY <2>1 DEF DisconnectAll
<1>3. \A k \in Conns : down'[k] \in Seq(DownMessage)
                       /\ (sEnd'[k] # "closed" => down'[k] = down[k])
  <2> SUFFICES ASSUME NEW k \in Conns
               PROVE  down'[k] \in Seq(DownMessage)
                      /\ (sEnd'[k] # "closed" => down'[k] = down[k])
    OBVIOUS
  <2>1. Disc \in DownMessage BY DEF DownMessage
  <2>2. Append(down[k], Disc) \in Seq(DownMessage) BY <1>1, <2>1
  <2> QED BY <1>1, <1>2, <2>2 DEF DisconnectAll
<1>4. down' = [k \in Conns |-> down'[k]] BY DEF DisconnectAll
<1>5. \A k \in Conns : sEnd'[k] # "closed" => sEnd[k] # "closed" BY <1>1, <1>2
<1> QED BY <1>1, <1>2, <1>3, <1>4, <1>5 DEF CutByService
-----------------------------------------------------------------------------
(* Types. *)

\* A page's step keeps the types.
LEMMA PageTypeStep ==
  ASSUME TypeOK, NEW c \in Clients, NEW m \in Message, PagePosts(c, m)
  PROVE  TypeOK'
BY DEF PagePosts, TypeOK, PortsTypeOK, ClientTypeOK, ManagerTypeOK, portVars,
       managerVars

\* Dialing keeps the types, if what it carries are messages.
LEMMA DialTypes ==
  ASSUME TypeOK, NEW c \in Clients, NEW ms \in Seq(UpMessage), Dial(c, ms)
  PROVE  /\ dialer' \in [Conns -> Clients \cup {NoClient}]
         /\ cEnd' \in [Conns -> {"none", "open", "closed"}]
         /\ up' \in [Conns -> Seq(UpMessage)]
         /\ servicePort' \in [Clients -> 0 .. MaxConns]
BY ConnsAssumption DEF Dial, TypeOK, PortsTypeOK, ClientTypeOK, Conns

\* So does hanging up.
LEMMA HangUpTypes ==
  ASSUME TypeOK, NEW c \in Clients, HangUp(c)
  PROVE  /\ cEnd' \in [Conns -> {"none", "open", "closed"}]
         /\ up' \in [Conns -> Seq(UpMessage)]
<1> DEFINE k == servicePort[c]
<1>1. Disc \in UpMessage BY DEF UpMessage
<1>2. CASE k # 0 /\ cEnd[k] = "open"
  <2>1. k \in Conns BY <1>2 DEF TypeOK, ClientTypeOK, Conns
  <2>2. Append(up[k], Disc) \in Seq(UpMessage)
    BY <1>1, <2>1 DEF TypeOK, PortsTypeOK
  <2> QED BY <1>2, <2>1, <2>2 DEF HangUp, TypeOK, PortsTypeOK
<1>3. CASE ~(k # 0 /\ cEnd[k] = "open")
  BY <1>3 DEF HangUp, TypeOK, PortsTypeOK
<1> QED BY <1>2, <1>3

\* And what is told to the page.
LEMMA ToPageTypes ==
  ASSUME TypeOK, NEW c \in Clients, NEW m \in Event, ToPage(c, m)
  PROVE  inbox' \in [Clients -> Seq(Event)]
BY DEF ToPage, TypeOK, ClientTypeOK

\* A client's step keeps the types.
LEMMA ClientTypeStep ==
  ASSUME TypeOK, ClientNext, UNCHANGED <<managerVars, posted>>
  PROVE  TypeOK'
<1> USE DEF TypeOK, PortsTypeOK, ClientTypeOK
<1>0. ManagerTypeOK' /\ posted' \subseteq Message
  BY DEF ManagerTypeOK, managerVars
<1>f. [type |-> "fault"] \in Event BY DEF Event
<1>1. ASSUME NEW c \in Clients, Construct(c) PROVE TypeOK'
  <2>1. <<>> \in Seq(UpMessage) OBVIOUS
  <2>2. Dial(c, <<>>) BY <1>1 DEF Construct
  <2> HIDE DEF TypeOK, PortsTypeOK, ClientTypeOK
  <2>3. /\ dialer' \in [Conns -> Clients \cup {NoClient}]
        /\ cEnd' \in [Conns -> {"none", "open", "closed"}]
        /\ up' \in [Conns -> Seq(UpMessage)]
        /\ servicePort' \in [Clients -> 0 .. MaxConns]
    BY <2>1, <2>2, DialTypes
  <2> QED BY <1>0, <1>1, <2>3 DEF Construct, TypeOK, PortsTypeOK, ClientTypeOK
<1>2. ASSUME NEW c \in Clients, ForwardEvent(c) PROVE TypeOK'
  <2> DEFINE m == Head(outbox[c])
             k == servicePort[c]
  <2>1. outbox' \in [Clients -> Seq(Message)] BY <1>2 DEF ForwardEvent
  <2>2. m \in UpMessage
    <3>1. m \in Message /\ m.type # "false" BY <1>2 DEF ForwardEvent
    <3> QED BY <3>1 DEF Message, UpMessage
  <2>3. CASE k # 0
    <3>1. k \in Conns BY <2>3 DEF Conns
    <3>2. Append(up[k], m) \in Seq(UpMessage) BY <2>2, <3>1
    <3>3. up' \in [Conns -> Seq(UpMessage)]
          /\ UNCHANGED <<dialer, cEnd, servicePort>>
      BY <1>2, <2>3, <3>1, <3>2 DEF ForwardEvent
    <3> QED BY <1>0, <1>2, <2>1, <3>3 DEF ForwardEvent
  <2>4. CASE k = 0
    <3>1. Dial(c, <<m>>) /\ <<m>> \in Seq(UpMessage)
      BY <1>2, <2>2, <2>4 DEF ForwardEvent
    <3> HIDE DEF TypeOK, PortsTypeOK, ClientTypeOK, m
    <3>3. /\ dialer' \in [Conns -> Clients \cup {NoClient}]
          /\ cEnd' \in [Conns -> {"none", "open", "closed"}]
          /\ up' \in [Conns -> Seq(UpMessage)]
          /\ servicePort' \in [Clients -> 0 .. MaxConns]
      BY <3>1, DialTypes
    <3> QED BY <1>0, <1>2, <2>1, <3>3
            DEF ForwardEvent, TypeOK, PortsTypeOK, ClientTypeOK
  <2> QED BY <2>3, <2>4
<1>3. ASSUME NEW c \in Clients, ContextLost(c) PROVE TypeOK'
  BY <1>0, <1>3, <1>f, ToPageTypes DEF ContextLost, portVars
<1>4. ASSUME NEW c \in Clients, PageClosed(c) PROVE TypeOK'
  BY <1>0, <1>4, <1>f, ToPageTypes, HangUpTypes DEF PageClosed, Close
<1>5. ASSUME NEW c \in Clients, End(c) PROVE TypeOK'
  BY <1>0, <1>5, <1>f, ToPageTypes, HangUpTypes DEF End, Close
<1>6. ASSUME NEW c \in Clients, ServiceListener(c) PROVE TypeOK'
  <2> DEFINE k == servicePort[c]
             m == Head(down[k])
  <2>1. k \in Conns BY <1>6 DEF ServiceListener, Conns
  <2>2. m \in Response
    <3>1. m \in DownMessage /\ m # Disc BY <1>6, <2>1 DEF ServiceListener
    <3> QED BY <3>1, DiscIsNone
  <2>3. down' \in [Conns -> Seq(DownMessage)]
    BY <1>6, <2>1 DEF ServiceListener
  <2>4. m.type # "channel" => m \in Event BY <2>2 DEF Response, Event
  <2>5. [type |-> "stream", id |-> m.id] \in Event /\ m.id \in Requests
    BY <2>2 DEF Response, Event
  <2>6. /\ inbox' \in [Clients -> Seq(Event)]
        /\ subC' \in [Requests -> {"none", "open", "closed"}]
    <3>1. CASE m.type = "channel"
      BY <1>6, <2>5, <3>1, ToPageTypes DEF ServiceListener
    <3>2. CASE m.type # "channel"
      BY <1>6, <2>4, <3>2, ToPageTypes DEF ServiceListener
    <3> QED BY <3>1, <3>2
  <2> QED BY <1>0, <1>6, <2>3, <2>6 DEF ServiceListener
<1>7. ASSUME NEW c \in Clients, OnClientDisconnect(c) PROVE TypeOK'
  <2> DEFINE k == servicePort[c]
  <2>1. k \in Conns BY <1>7 DEF OnClientDisconnect, Conns
  <2>2. down' \in [Conns -> Seq(DownMessage)]
        /\ cEnd' \in [Conns -> {"none", "open", "closed"}]
    BY <1>7, <2>1 DEF OnClientDisconnect
  <2>3. /\ inbox' \in [Clients -> Seq(Event)]
        /\ servicePort' \in [Clients -> 0 .. MaxConns]
        /\ active' \subseteq Clients /\ closed' \subseteq Clients
    <3>1. CASE c \in active
      <4>1. 0 \in 0 .. MaxConns BY ConnsAssumption
      <4>2. /\ servicePort' = [servicePort EXCEPT ![c] = 0]
            /\ active' = active \ {c} /\ UNCHANGED <<closed, inbox>>
        BY <1>7, <3>1 DEF OnClientDisconnect
      <4> QED BY <4>1, <4>2
    <3>2. CASE c \notin active
      BY <1>7, <1>f, <3>2, ToPageTypes DEF OnClientDisconnect
    <3> QED BY <3>1, <3>2
  <2> QED BY <1>0, <1>7, <2>2, <2>3 DEF OnClientDisconnect
<1>8. ASSUME NEW c \in Clients, Destroyed(c) PROVE TypeOK'
  BY <1>0, <1>8, HangUpTypes DEF Destroyed
<1>9. ASSUME NEW r \in Requests, SourceClosed(r) \/ SourceCanceled(r)
      PROVE  TypeOK'
  BY <1>0, <1>9 DEF SourceClosed, SourceCanceled, clientVars
<1> QED
  BY <1>1, <1>2, <1>3, <1>4, <1>5, <1>6, <1>7, <1>8, <1>9 DEF ClientNext

\* Canceling requests keeps the types.
LEMMA CancelTypes ==
  ASSUME TypeOK, NEW R \in SUBSET Requests, Cancel(R)
  PROVE  canceled' \subseteq Requests /\ life' \in [Requests -> Lives]
BY DEF Cancel, TypeOK, ManagerTypeOK, Lives

\* So do the sinks that abort.
LEMMA SinkTypes ==
  ASSUME TypeOK, NEW R \in SUBSET Requests, AbortSinks(R)
  PROVE  subS' \in [Requests -> {"none", "open", "final", "closed", "ignored"}]
BY DEF AbortSinks, TypeOK, PortsTypeOK

\* So do aborted sessions.
LEMMA AbortTypes ==
  ASSUME TypeOK, NEW K \in SUBSET Conns, AbortSessions(K)
  PROVE  /\ canceled' \subseteq Requests /\ life' \in [Requests -> Lives]
         /\ dead' \subseteq Conns /\ inMap' \subseteq Requests
         /\ tracked' \subseteq Names
         /\ sessions' \in [Clients -> 0 .. MaxConns]
<1>1. UNION {MapOf(k) : k \in K} \subseteq Requests
  BY DEF MapOf, TypeOK, ManagerTypeOK
<1>2. Cancel(UNION {MapOf(k) : k \in K}) BY DEF AbortSessions
<1>3. canceled' \subseteq Requests /\ life' \in [Requests -> Lives]
  BY <1>1, <1>2, CancelTypes
<1>4. sessions' \in [Clients -> 0 .. MaxConns]
  BY ConnsAssumption DEF AbortSessions, SessionsWithout, TypeOK, ManagerTypeOK
<1> QED BY <1>3, <1>4 DEF AbortSessions, TypeOK, ManagerTypeOK

\* The session of a request that is under way.
LEMMA OwnerIsConn ==
  ASSUME TakenUp, NEW r \in Requests, life[r] \notin {"none", "done"}
  PROVE  owner[r] \in Conns
BY DEF TakenUp, Live

\* A lifecycle that ends with an error keeps the types.
LEMMA FailTypes ==
  ASSUME TypeOK, CutByService, TakenUp, NEW r \in Requests,
         life[r] \notin {"none", "done"}, Fail(r)
  PROVE  /\ down' \in [Conns -> Seq(DownMessage)]
         /\ life' \in [Requests -> Lives] /\ inMap' \subseteq Requests
<1>1. [type |-> "error", id |-> r] \in Response BY DEF Response
<1>2. down' \in [Conns -> Seq(DownMessage)]
  BY <1>1, OwnerIsConn, PostDownKeeps DEF Fail
<1> QED BY <1>2 DEF Fail, Done, TypeOK, ManagerTypeOK, Lives

\* Handling a message keeps the types.
LEMMA HandleTypes ==
  ASSUME TypeOK, CutByService, NEW k \in Conns, NEW m \in UpEvent,
         Handle(k, m)
  PROVE  /\ down' \in [Conns -> Seq(DownMessage)]
         /\ life' \in [Requests -> Lives] /\ inMap' \subseteq Requests
         /\ canceled' \subseteq Requests
         /\ owner' \in [Requests -> 0 .. MaxConns]
         /\ subS' \in [Requests -> {"none", "open", "final", "closed",
                                   "ignored"}]
<1>0. m.id \in Requests BY DEF UpEvent
<1>1. CASE m.type = "request"
  <2>1. /\ life' = [life EXCEPT ![m.id] = "handling"]
        /\ owner' = [owner EXCEPT ![m.id] = k]
        /\ inMap' = inMap \cup {m.id}
        /\ UNCHANGED <<canceled, down, subS>>
    BY <1>1 DEF Handle
  <2>2. k \in 0 .. MaxConns BY DEF Conns
  <2>3. life' \in [Requests -> Lives] /\ inMap' \subseteq Requests
    BY <1>0, <2>1 DEF TypeOK, ManagerTypeOK, Lives
  <2>4. owner' \in [Requests -> 0 .. MaxConns]
    BY <1>0, <2>1, <2>2 DEF TypeOK, ManagerTypeOK
  <2> QED BY <2>1, <2>3, <2>4 DEF TypeOK, PortsTypeOK, ManagerTypeOK
<1>2. CASE m.type # "request"
  <2> DEFINE R == MapOf(k) \cap {m.id}
  <2>1. R \in SUBSET Requests BY <1>0
  <2>2. /\ Cancel(R) /\ AbortSinks(R)
        /\ inMap' = inMap \ R /\ UNCHANGED owner
        /\ IF Ending(R) = {} THEN UNCHANGED down
           ELSE PostDown(k, <<[type |-> "error", id |-> m.id]>>)
    BY <1>2 DEF Handle
  <2>3. [type |-> "error", id |-> m.id] \in Response BY <1>0 DEF Response
  <2>4. down' \in [Conns -> Seq(DownMessage)]
    BY <2>2, <2>3, PostDownKeeps DEF TypeOK, PortsTypeOK
  <2> HIDE DEF R
  <2>5. canceled' \subseteq Requests /\ life' \in [Requests -> Lives]
    BY <2>1, <2>2, CancelTypes
  <2>6. subS' \in [Requests -> {"none", "open", "final", "closed", "ignored"}]
    BY <2>1, <2>2, SinkTypes
  <2> QED BY <2>2, <2>4, <2>5, <2>6 DEF TypeOK, ManagerTypeOK
<1> QED BY <1>1, <1>2

\* A step at a connection keeps the types.
LEMMA ConnTypeStep ==
  ASSUME IInv, UNCHANGED <<clientVars, posted>>, NEW k \in Conns,
         \/ OnConnect(k) \/ OnMessage(k) \/ OnDisconnect(k)
         \/ Validated(k) \/ ValidationFailed(k)
  PROVE  TypeOK'
<1> USE DEF IInv
<1>0. ClientTypeOK' /\ posted' \subseteq Message
  BY DEF TypeOK, ClientTypeOK, clientVars
<1>1. CASE OnConnect(k)
  <2> DEFINE c == dialer[k]
  <2>1. c \in Clients /\ Session(c) \in Names
    BY <1>1 DEF OnConnect, TypeOK, PortsTypeOK, Names
  <2>2. k \in 0 .. MaxConns BY DEF Conns
  <2>3. sEnd' \in [Conns -> {"none", "open", "closed", "ignored"}]
    BY <1>1 DEF OnConnect, TypeOK, PortsTypeOK
  <2>4. /\ sessions' \in [Clients -> 0 .. MaxConns]
        /\ valid' \in [Conns -> {"none", "pending", "ok", "failed"}]
    BY <1>1, <2>1, <2>2 DEF OnConnect, TypeOK, ManagerTypeOK
  <2>5. tracked' \subseteq Names
    <3>1. tracked' \subseteq tracked \cup {Session(c)}
      BY <1>1 DEF OnConnect
    <3> QED BY <2>1, <3>1 DEF TypeOK, ManagerTypeOK
  <2>6. PortsTypeOK' BY <1>1, <2>3 DEF OnConnect, TypeOK, PortsTypeOK
  <2>7. ManagerTypeOK'
    BY <1>1, <2>4, <2>5 DEF OnConnect, TypeOK, ManagerTypeOK
  <2> QED BY <1>0, <2>6, <2>7 DEF TypeOK
<1>2. CASE OnMessage(k)
  <2> DEFINE m == Head(up[k])
  <2>1. m \in UpEvent /\ up' \in [Conns -> Seq(UpMessage)]
    <3>1. m \in UpMessage /\ m # Disc /\ up' \in [Conns -> Seq(UpMessage)]
      BY <1>2 DEF OnMessage, TypeOK, PortsTypeOK
    <3> QED BY <3>1, DiscIsNone
  <2>2. CASE Handle(k, m) /\ UNCHANGED held
    <3> HIDE DEF m
    <3>1. /\ down' \in [Conns -> Seq(DownMessage)]
          /\ life' \in [Requests -> Lives] /\ inMap' \subseteq Requests
          /\ canceled' \subseteq Requests
          /\ owner' \in [Requests -> 0 .. MaxConns]
          /\ subS' \in [Requests -> {"none", "open", "final", "closed",
                                    "ignored"}]
      BY <2>1, <2>2, HandleTypes
    <3> QED BY <1>0, <1>2, <2>1, <2>2, <3>1
            DEF OnMessage, TypeOK, PortsTypeOK, ManagerTypeOK
  <2>3. CASE /\ held' = [held EXCEPT ![k] = @ \cup {m}]
             /\ UNCHANGED <<life, owner, inMap, canceled, down, subS>>
    <3>1. held' \in [Conns -> SUBSET [type : {"request", "abort"},
                                     id : Requests]]
      BY <2>1, <2>3 DEF TypeOK, ManagerTypeOK, UpEvent
    <3> QED BY <1>0, <1>2, <2>1, <2>3, <3>1
            DEF OnMessage, TypeOK, PortsTypeOK, ManagerTypeOK
  <2> QED BY <1>2, <2>2, <2>3 DEF OnMessage
<1>3. CASE OnDisconnect(k)
  <2>1. AbortSessions({k}) /\ AbortSinks(MapOf(k)) BY <1>3 DEF OnDisconnect
  <2>2. MapOf(k) \in SUBSET Requests BY DEF MapOf, TypeOK, ManagerTypeOK
  <2>3. subS' \in [Requests -> {"none", "open", "final", "closed", "ignored"}]
    BY <2>1, <2>2, SinkTypes
  <2>4. /\ canceled' \subseteq Requests /\ life' \in [Requests -> Lives]
        /\ dead' \subseteq Conns /\ inMap' \subseteq Requests
        /\ tracked' \subseteq Names
        /\ sessions' \in [Clients -> 0 .. MaxConns]
    BY <2>1, AbortTypes
  <2> QED BY <1>0, <1>3, <2>3, <2>4
          DEF OnDisconnect, TypeOK, PortsTypeOK, ManagerTypeOK
<1>4. CASE Validated(k)
  BY <1>0, <1>4, ConnsAssumption
     DEF Validated, TypeOK, PortsTypeOK, ManagerTypeOK, Lives, Conns, portVars
<1>5. CASE ValidationFailed(k)
  <2>1. /\ valid' = [valid EXCEPT ![k] = "failed"]
        /\ held' = [held EXCEPT ![k] = {}]
    BY <1>5 DEF ValidationFailed
  <2>2. CASE k \in dead
    BY <1>0, <1>5, <2>1, <2>2
       DEF ValidationFailed, TypeOK, PortsTypeOK, ManagerTypeOK
  <2>3. CASE k \notin dead
    <3>1. AbortSessions({k}) /\ AbortSinks(MapOf(k)) /\ DisconnectAll({k})
      BY <1>5, <2>3 DEF ValidationFailed
    <3>2. MapOf(k) \in SUBSET Requests BY DEF MapOf, TypeOK, ManagerTypeOK
    <3>3. subS' \in [Requests -> {"none", "open", "final", "closed", "ignored"}]
      BY <3>1, <3>2, SinkTypes
    <3>4. /\ canceled' \subseteq Requests /\ life' \in [Requests -> Lives]
          /\ dead' \subseteq Conns /\ inMap' \subseteq Requests
          /\ tracked' \subseteq Names
          /\ sessions' \in [Clients -> 0 .. MaxConns]
      BY <3>1, AbortTypes
    <3>5. /\ sEnd' \in [Conns -> {"none", "open", "closed", "ignored"}]
          /\ down' \in [Conns -> Seq(DownMessage)]
      BY <3>1, DisconnectAllKeeps
    <3> QED BY <1>0, <1>5, <2>1, <3>3, <3>4, <3>5
            DEF ValidationFailed, TypeOK, PortsTypeOK, ManagerTypeOK
  <2> QED BY <2>2, <2>3
<1> QED BY <1>1, <1>2, <1>3, <1>4, <1>5

\* So does the end of all sessions of an origin.
LEMMA OriginTypeStep ==
  ASSUME IInv, UNCHANGED <<clientVars, posted>>, NEW o, KillOrigin(o)
  PROVE  TypeOK'
<1> USE DEF IInv
<1> DEFINE C == {c \in Clients : Origin[c] = o}
           K == {sessions[c] : c \in C} \ {0}
           R == UNION {MapOf(k) : k \in K}
<1>0. ClientTypeOK' /\ posted' \subseteq Message
  BY DEF TypeOK, ClientTypeOK, clientVars
<1>1. K \subseteq Conns BY DEF TypeOK, ManagerTypeOK, Conns
<1>2. R \in SUBSET Requests BY DEF MapOf, TypeOK, ManagerTypeOK
<1>3. /\ Cancel(R) /\ DisconnectAll(K)
      /\ dead' = dead \cup K /\ inMap' = inMap \ Ending(R)
      /\ sessions' = SessionsWithout(K)
  BY DEF KillOrigin
<1>4. tracked' \subseteq tracked BY DEF KillOrigin
<1>5. subS' \in [Requests -> {"none", "open", "final", "closed", "ignored"}]
  BY DEF KillOrigin, TypeOK, PortsTypeOK
<1>6. UNCHANGED <<valid, held, owner, late, deaths, dialer, cEnd, up, subC>>
  BY DEF KillOrigin
<1> HIDE DEF R, K
<1>7. canceled' \subseteq Requests /\ life' \in [Requests -> Lives]
  BY <1>2, <1>3, CancelTypes
<1>8. /\ sEnd' \in [Conns -> {"none", "open", "closed", "ignored"}]
      /\ down' \in [Conns -> Seq(DownMessage)]
  BY <1>3, DisconnectAllKeeps
<1>9. sessions' \in [Clients -> 0 .. MaxConns]
  BY <1>3, ConnsAssumption DEF SessionsWithout, TypeOK, ManagerTypeOK
<1>10. PortsTypeOK' BY <1>5, <1>6, <1>8 DEF TypeOK, PortsTypeOK
<1>11. ManagerTypeOK'
  BY <1>1, <1>3, <1>4, <1>6, <1>7, <1>9 DEF TypeOK, ManagerTypeOK
<1> QED BY <1>0, <1>10, <1>11 DEF TypeOK

\* So does the death of the worker.
LEMMA DeathTypeStep ==
  ASSUME IInv, UNCHANGED <<clientVars, posted>>, WorkerKilled
  PROVE  TypeOK'
<1> USE DEF IInv
<1>0. ClientTypeOK' /\ posted' \subseteq Message
  BY DEF TypeOK, ClientTypeOK, clientVars
<1>1. /\ sEnd' \in [Conns -> {"none", "open", "closed", "ignored"}]
      /\ down' \in [Conns -> Seq(DownMessage)]
  BY DisconnectAllKeeps DEF WorkerKilled
<1>2. deaths' \in 0 .. MaxDeaths /\ sessions' \in [Clients -> 0 .. MaxConns]
  BY DeathsAssumption, ConnsAssumption DEF WorkerKilled, TypeOK, ManagerTypeOK
<1>3. /\ life' \in [Requests -> Lives]
      /\ valid' \in [Conns -> {"none", "pending", "ok", "failed"}]
      /\ dead' \subseteq Conns
      /\ subS' \in [Requests -> {"none", "open", "final", "closed", "ignored"}]
  BY DEF WorkerKilled, TypeOK, PortsTypeOK, ManagerTypeOK, Lives
<1> QED BY <1>0, <1>1, <1>2, <1>3
        DEF WorkerKilled, TypeOK, PortsTypeOK, ManagerTypeOK

\* A step of a request keeps the types.
LEMMA RequestTypeStep ==
  ASSUME IInv, UNCHANGED <<clientVars, posted>>, NEW r \in Requests,
         \/ HandlerReturns(r) \/ HandlerStreams(r) \/ HandlerThrows(r)
         \/ OnSubConnect(r) \/ SubValidated(r) \/ SubInvalid(r)
         \/ ResponseEnds(r) \/ OnSubDisconnect(r) \/ PipeBroken(r)
         \/ SinkTimeout(r)
  PROVE  TypeOK'
<1> USE DEF IInv
<1>0. ClientTypeOK' /\ posted' \subseteq Message
  BY DEF TypeOK, ClientTypeOK, clientVars
<1>1. CASE HandlerReturns(r)
  <2>1. [type |-> "message", id |-> r] \in Response BY DEF Response
  <2>2. down' \in [Conns -> Seq(DownMessage)]
    BY <1>1, <2>1, OwnerIsConn, PostDownKeeps DEF HandlerReturns
  <2> QED BY <1>0, <1>1, <2>2
          DEF HandlerReturns, Done, TypeOK, PortsTypeOK, ManagerTypeOK, Lives
<1>2. CASE HandlerStreams(r)
  <2>1. [type |-> "channel", id |-> r] \in Response BY DEF Response
  <2>2. down' \in [Conns -> Seq(DownMessage)]
    BY <1>2, <2>1, OwnerIsConn, PostDownKeeps DEF HandlerStreams
  <2> QED BY <1>0, <1>2, <2>2
          DEF HandlerStreams, TypeOK, PortsTypeOK, ManagerTypeOK, Lives
<1>3. CASE HandlerThrows(r) \/ SubInvalid(r) \/ PipeBroken(r) \/ SinkTimeout(r)
  <2>1. Fail(r) /\ life[r] \notin {"none", "done"}
    BY <1>3 DEF HandlerThrows, SubInvalid, PipeBroken, SinkTimeout
  <2>2. /\ down' \in [Conns -> Seq(DownMessage)]
        /\ life' \in [Requests -> Lives] /\ inMap' \subseteq Requests
    BY <2>1, FailTypes
  <2>3. subS' \in [Requests -> {"none", "open", "final", "closed", "ignored"}]
    BY <1>3 DEF HandlerThrows, SubInvalid, PipeBroken, SinkTimeout, TypeOK,
                PortsTypeOK
  <2> QED BY <1>0, <1>3, <2>2, <2>3
          DEF HandlerThrows, SubInvalid, PipeBroken, SinkTimeout, TypeOK,
              PortsTypeOK, ManagerTypeOK
<1>4. CASE OnSubConnect(r)
  <2>1. life[r] = "offering" => Channel(r) \in Names
    BY DEF TakenUp, Live, Names
  <2>2. tracked' \subseteq Names
    <3>1. \/ life[r] = "offering" /\ tracked' = tracked \cup {Channel(r)}
          \/ tracked' = tracked
      BY <1>4 DEF OnSubConnect
    <3> QED BY <2>1, <3>1 DEF TypeOK, ManagerTypeOK
  <2>3. /\ life' \in [Requests -> Lives]
        /\ subS' \in [Requests -> {"none", "open", "final", "closed",
                                  "ignored"}]
    BY <1>4 DEF OnSubConnect, TypeOK, PortsTypeOK, ManagerTypeOK, Lives
  <2>4. PortsTypeOK' BY <1>4, <2>3 DEF OnSubConnect, TypeOK, PortsTypeOK
  <2>5. ManagerTypeOK'
    BY <1>4, <2>2, <2>3 DEF OnSubConnect, TypeOK, ManagerTypeOK
  <2> QED BY <1>0, <2>4, <2>5 DEF TypeOK
<1>5. CASE SubValidated(r)
  BY <1>0, <1>5
     DEF SubValidated, TypeOK, PortsTypeOK, ManagerTypeOK, Lives, portVars
<1>6. CASE ResponseEnds(r)
  BY <1>0, <1>6 DEF ResponseEnds, TypeOK, PortsTypeOK, ManagerTypeOK, Lives
<1>7. CASE OnSubDisconnect(r)
  <2>1. /\ down' \in [Conns -> Seq(DownMessage)]
        /\ life' \in [Requests -> Lives] /\ inMap' \subseteq Requests
    <3>1. CASE life[r] \in {"piping", "draining"}
      BY <1>7, <3>1, FailTypes DEF OnSubDisconnect
    <3>2. CASE life[r] \notin {"piping", "draining"}
      BY <1>7, <3>2
         DEF OnSubDisconnect, Done, TypeOK, PortsTypeOK, ManagerTypeOK, Lives
    <3> QED BY <3>1, <3>2
  <2> QED BY <1>0, <1>7, <2>1
          DEF OnSubDisconnect, TypeOK, PortsTypeOK, ManagerTypeOK
<1> QED BY <1>1, <1>2, <1>3, <1>4, <1>5, <1>6, <1>7

\* Every step keeps the types.
LEMMA TypeStep ==
  ASSUME IInv, [Next]_vars PROVE TypeOK'
<1>1. ASSUME NEW c \in Clients, NEW m \in Message, PagePosts(c, m)
      PROVE  TypeOK'
  BY <1>1, PageTypeStep DEF IInv
<1>2. CASE ClientNext /\ UNCHANGED <<managerVars, posted>>
  BY <1>2, ClientTypeStep DEF IInv
<1>3. CASE ManagerNext /\ UNCHANGED <<clientVars, posted>>
  BY <1>3, ConnTypeStep, OriginTypeStep, DeathTypeStep, RequestTypeStep
     DEF ManagerNext
<1>4. CASE UNCHANGED vars
  BY <1>4 DEF IInv, vars, portVars, clientVars, managerVars, TypeOK,
              PortsTypeOK, ClientTypeOK, ManagerTypeOK
<1> QED BY <1>1, <1>2, <1>3, <1>4 DEF Next
-----------------------------------------------------------------------------
(* The two maps of the manager. *)

Maps == Accepted /\ OneDialed /\ SessionsExact /\ NoCollision

\* What the maps depend on.
MapsUnchanged ==
  /\ UNCHANGED <<sessions, dead, dialer, sEnd, servicePort, constructed>>
  /\ \A c \in Clients : Session(c) \in tracked' <=> Session(c) \in tracked
  /\ \A k \in Conns : valid'[k] = "none" <=> valid[k] = "none"

\* A step that leaves that alone keeps them.
LEMMA MapsStay ==
  ASSUME TypeOK, Maps, MapsUnchanged PROVE Maps'
<1> USE DEF MapsUnchanged, Maps
<1>1. Accepted' BY DEF Accepted
<1>2. OneDialed' BY DEF OneDialed
<1>3. SessionsExact' BY DEF SessionsExact
<1>4. NoCollision' BY DEF NoCollision
<1> QED BY <1>1, <1>2, <1>3, <1>4

\* The end of the sessions K keeps them: they leave both.
LEMMA CutKeeps ==
  ASSUME TypeOK, Maps, NEW K \in SUBSET Conns,
         \A k \in K : sEnd[k] = "open",
         sEnd' = [k \in Conns |-> IF k \in K THEN "closed" ELSE sEnd[k]],
         sessions' = [c \in Clients |-> IF sessions[c] \in K THEN 0
                                                       ELSE sessions[c]],
         dead' = dead \cup K,
         \A c \in Clients :
           Session(c) \in tracked'
             <=> Session(c) \in tracked /\ sessions[c] \notin K,
         \A k \in Conns : valid'[k] = "none" <=> valid[k] = "none",
         UNCHANGED <<dialer, servicePort, constructed>>
  PROVE  Maps'
<1> USE DEF Maps
<1>1. Accepted' BY DEF Accepted
<1>2. OneDialed' BY DEF OneDialed
<1>3. SessionsExact'
  <2>1. ASSUME NEW c \in Clients
        PROVE  /\ Session(c) \in tracked' <=> sessions'[c] # 0
               /\ sessions'[c] # 0 => /\ dialer'[sessions'[c]] = c
                                      /\ sEnd'[sessions'[c]] = "open"
    <3>1. sessions[c] # 0 => sessions[c] \in Conns
      BY DEF TypeOK, ManagerTypeOK, Conns
    <3>2. 0 \notin K BY DEF Conns
    <3> QED BY <3>1, <3>2 DEF SessionsExact
  <2>2. ASSUME NEW k \in Conns, sEnd'[k] = "open"
        PROVE  k \notin dead' /\ sessions'[dialer'[k]] = k
    <3>1. sEnd[k] = "open" /\ k \notin K BY <2>2
    <3>2. dialer[k] \in Clients
      BY <3>1 DEF Accepted, TypeOK, PortsTypeOK
    <3> QED BY <3>1, <3>2 DEF SessionsExact
  <2> QED BY <2>1, <2>2 DEF SessionsExact
<1>4. NoCollision' BY DEF NoCollision, TypeOK, PortsTypeOK
<1> QED BY <1>1, <1>2, <1>3, <1>4

\* A client that dials when it has no connection has no session.
LEMMA DialKeeps ==
  ASSUME TypeOK, Maps, NEW c \in Clients, NEW ms, Dial(c, ms),
         servicePort[c] = 0, c \in constructed',
         constructed' = constructed \cup {c},
         UNCHANGED <<sEnd, managerVars>>
  PROVE  Maps'
<1> USE DEF Maps
<1>1. PICK k \in Conns : /\ dialer[k] = NoClient
                         /\ dialer' = [dialer EXCEPT ![k] = c]
                         /\ servicePort' = [servicePort EXCEPT ![c] = k]
  BY DEF Dial, IsNext
<1>2. UNCHANGED <<sessions, tracked, valid, dead>> BY DEF managerVars
<1>3. sEnd[k] = "none" BY <1>1 DEF Accepted
<1>4. sessions[c] = 0
  <2> SUFFICES ASSUME sessions[c] # 0 PROVE FALSE OBVIOUS
  <2>1. sessions[c] \in Conns BY DEF TypeOK, ManagerTypeOK, Conns
  <2>2. dialer[sessions[c]] = c /\ sEnd[sessions[c]] = "open"
    BY DEF SessionsExact
  <2>3. servicePort[c] = sessions[c]
    BY <2>1, <2>2, NoClientAssumption DEF OneDialed
  <2> QED BY <2>1, <2>3 DEF Conns
<1>5. dialer \in [Conns -> Clients \cup {NoClient}]
      /\ servicePort \in [Clients -> 0 .. MaxConns]
  BY DEF TypeOK, PortsTypeOK, ClientTypeOK
<1>6. \A j \in Conns : dialer'[j] = IF j = k THEN c ELSE dialer[j]
  BY <1>1, <1>5
<1>7. Accepted' BY <1>2, <1>6, NoClientAssumption DEF Accepted
<1>8. OneDialed'
  <2>1. \A j \in Conns : j # 0 BY DEF Conns
  <2>2. \A d \in Clients : servicePort'[d] = IF d = c THEN k ELSE servicePort[d]
    BY <1>1, <1>5
  <2>3. ASSUME NEW j \in Conns
        PROVE  \/ dialer'[j] = NoClient
               \/ servicePort'[dialer'[j]] = j
               \/ sEnd'[j] \in {"closed", "ignored"}
    <3>1. CASE j = k BY <1>6, <2>2, <3>1
    <3>2. CASE j # k /\ dialer[j] = c
      BY <1>6, <2>1, <3>2, NoClientAssumption DEF OneDialed
    <3>3. CASE j # k /\ dialer[j] # c
      BY <1>5, <1>6, <2>2, <3>3 DEF OneDialed
    <3> QED BY <3>1, <3>2, <3>3
  <2>4. \A d \in Clients \ constructed' : servicePort'[d] = 0
    BY <2>2 DEF OneDialed
  <2> QED BY <2>3, <2>4 DEF OneDialed
<1>9. SessionsExact'
  <2>1. ASSUME NEW d \in Clients
        PROVE  /\ Session(d) \in tracked' <=> sessions'[d] # 0
               /\ sessions'[d] # 0 => /\ dialer'[sessions'[d]] = d
                                      /\ sEnd'[sessions'[d]] = "open"
    <3>1. sessions[d] # 0 => sessions[d] \in Conns
      BY DEF TypeOK, ManagerTypeOK, Conns
    <3> QED BY <1>2, <1>3, <1>6, <3>1 DEF SessionsExact
  <2>2. ASSUME NEW j \in Conns, sEnd'[j] = "open"
        PROVE  j \notin dead' /\ sessions'[dialer'[j]] = j
    BY <1>2, <1>3, <1>6, <2>2 DEF SessionsExact
  <2> QED BY <2>1, <2>2 DEF SessionsExact
<1>10. NoCollision' BY <1>2, <1>4, <1>6 DEF NoCollision
<1> QED BY <1>7, <1>8, <1>9, <1>10

\* A step that posts nothing to a client, and reopens nothing.
LEMMA DownStays ==
  ASSUME CutByService, UNCHANGED down,
         \A k \in Conns : sEnd'[k] # "closed" => sEnd[k] # "closed"
  PROVE  CutByService'
BY DEF CutByService

\* A client's step keeps the maps.
LEMMA ClientMapsStep ==
  ASSUME TypeOK, Maps, CutByService, ClientNext,
         UNCHANGED <<managerVars, posted>>
  PROVE  Maps' /\ CutByService'
<1>m. UNCHANGED <<sessions, tracked, valid, dead>> BY DEF managerVars
<1>s. UNCHANGED <<dialer, sEnd, servicePort, constructed>> => Maps'
  BY <1>m, MapsStay DEF MapsUnchanged
<1>d. UNCHANGED <<down, sEnd>> => CutByService' BY DownStays
<1>1. ASSUME NEW c \in Clients, Construct(c) PROVE Maps' /\ CutByService'
  <2>1. servicePort[c] = 0 BY <1>1 DEF Construct, Maps, OneDialed
  <2>2. Maps' BY <1>1, <2>1, DialKeeps DEF Construct
  <2> QED BY <1>1, <1>d, <2>2 DEF Construct
<1>2. ASSUME NEW c \in Clients, ForwardEvent(c) PROVE Maps' /\ CutByService'
  <2>1. CASE servicePort[c] # 0 /\ UNCHANGED <<dialer, servicePort>>
    BY <1>2, <1>s, <1>d, <2>1 DEF ForwardEvent
  <2>2. CASE servicePort[c] = 0 /\ Dial(c, <<Head(outbox[c])>>)
    <3>1. constructed' = constructed \cup {c} /\ c \in constructed'
      BY <1>2 DEF ForwardEvent, Running
    <3>2. Maps' BY <1>2, <2>2, <3>1, DialKeeps DEF ForwardEvent
    <3> QED BY <1>2, <1>d, <3>2 DEF ForwardEvent
  <2> QED BY <1>2, <2>1, <2>2 DEF ForwardEvent
<1>3. ASSUME NEW c \in Clients,
             \/ ContextLost(c) \/ PageClosed(c) \/ End(c) \/ Destroyed(c)
      PROVE  Maps' /\ CutByService'
  BY <1>3, <1>s, <1>d
     DEF ContextLost, PageClosed, End, Destroyed, portVars
<1>4. ASSUME NEW c \in Clients, ServiceListener(c)
      PROVE  Maps' /\ CutByService'
  <2> DEFINE k == servicePort[c]
  <2>1. k \in Conns BY <1>4 DEF ServiceListener, TypeOK, ClientTypeOK, Conns
  <2>2. down[k] # <<>> /\ down' = [down EXCEPT ![k] = Tail(@)]
        /\ UNCHANGED sEnd
    BY <1>4 DEF ServiceListener
  <2>3. sEnd[k] # "closed" => Tail(down[k]) \in Seq(DownMessage \ {Disc})
    BY <2>1, <2>2 DEF CutByService
  <2>4. CutByService'
    BY <2>1, <2>2, <2>3 DEF CutByService, TypeOK, PortsTypeOK
  <2> QED BY <1>4, <1>s, <2>4 DEF ServiceListener
<1>5. ASSUME NEW c \in Clients, OnClientDisconnect(c)
      PROVE  Maps' /\ CutByService'
  <2> DEFINE k == servicePort[c]
  <2>1. k \in Conns
    BY <1>5 DEF OnClientDisconnect, TypeOK, ClientTypeOK, Conns
  <2>2. /\ down[k] # <<>> /\ Head(down[k]) = Disc
        /\ down' = [down EXCEPT ![k] = Tail(@)]
        /\ UNCHANGED <<sEnd, dialer, constructed>>
    BY <1>5 DEF OnClientDisconnect
  <2>3. sEnd[k] = "closed"
    <3> SUFFICES ASSUME sEnd[k] # "closed" PROVE FALSE OBVIOUS
    <3>1. down[k] \in Seq(DownMessage \ {Disc}) BY <2>1 DEF CutByService
    <3>2. Head(down[k]) \in DownMessage \ {Disc} BY <2>2, <3>1
    <3> QED BY <2>2, <3>2
  <2>4. CutByService'
    BY <2>1, <2>2, <2>3 DEF CutByService, TypeOK, PortsTypeOK
  <2>5. CASE UNCHANGED servicePort BY <1>s, <2>2, <2>4, <2>5
  <2>6. CASE servicePort' = [servicePort EXCEPT ![c] = 0]
    <3>1. servicePort \in [Clients -> 0 .. MaxConns]
          /\ dialer \in [Conns -> Clients \cup {NoClient}]
      BY DEF TypeOK, ClientTypeOK, PortsTypeOK
    <3>2. \A d \in Clients :
             servicePort'[d] = IF d = c THEN 0 ELSE servicePort[d]
      BY <2>6, <3>1
    <3>3. OneDialed'
      <4>1. ASSUME NEW j \in Conns, dialer[j] # NoClient,
                   sEnd[j] \notin {"closed", "ignored"}
            PROVE  servicePort'[dialer[j]] = j
        <5>1. dialer[j] \in Clients /\ servicePort[dialer[j]] = j
          BY <3>1, <4>1 DEF Maps, OneDialed
        <5>2. dialer[j] # c BY <2>3, <4>1, <5>1
        <5> QED BY <3>2, <5>1, <5>2
      <4>2. \A d \in Clients \ constructed : servicePort'[d] = 0
        BY <3>2 DEF Maps, OneDialed
      <4> QED BY <2>2, <4>1, <4>2 DEF OneDialed
    <3>4. Accepted' /\ SessionsExact' /\ NoCollision'
      BY <1>m, <2>2 DEF Maps, Accepted, SessionsExact, NoCollision
    <3> QED BY <2>4, <3>3, <3>4 DEF Maps
  <2> QED BY <1>5, <2>5, <2>6 DEF OnClientDisconnect
<1>6. ASSUME NEW r \in Requests, SourceClosed(r) \/ SourceCanceled(r)
      PROVE  Maps' /\ CutByService'
  BY <1>6, <1>s, <1>d DEF SourceClosed, SourceCanceled, clientVars
<1> QED BY <1>1, <1>2, <1>3, <1>4, <1>5, <1>6 DEF ClientNext

\* Aborting sessions whose ends were open, and are closed, keeps the maps.
LEMMA AbortKeepsMaps ==
  ASSUME TypeOK, Maps, NEW k \in Conns, sEnd[k] = "open", AbortSessions({k}),
         sEnd' = [j \in Conns |-> IF j = k THEN "closed" ELSE sEnd[j]],
         \A j \in Conns : valid'[j] = "none" <=> valid[j] = "none",
         UNCHANGED <<dialer, servicePort, constructed>>
  PROVE  Maps'
<1>1. sEnd' = [j \in Conns |-> IF j \in {k} THEN "closed" ELSE sEnd[j]]
  OBVIOUS
<1>2. sessions' = [c \in Clients |-> IF sessions[c] \in {k} THEN 0
                                                       ELSE sessions[c]]
  BY DEF AbortSessions, SessionsWithout
<1>3. dead' = dead \cup {k} BY DEF AbortSessions
<1>4. \A c \in Clients :
        Session(c) \in tracked'
          <=> Session(c) \in tracked /\ sessions[c] \notin {k}
  <2>1. tracked' = tracked \ {Session(dialer[j]) : j \in {k}}
    BY DEF AbortSessions
  <2>2. \A c \in Clients : Session(c) \in tracked'
                             <=> Session(c) \in tracked /\ c # dialer[k]
    BY <2>1, NamesDiffer
  <2>3. sessions[dialer[k]] = k BY DEF Maps, SessionsExact
  <2>4. \A c \in Clients : sessions[c] = k => dialer[k] = c
    BY DEF Maps, SessionsExact, Conns
  <2> QED BY <2>2, <2>3, <2>4
<1>5. {k} \in SUBSET Conns /\ \A j \in {k} : sEnd[j] = "open" OBVIOUS
<1> QED BY <1>1, <1>2, <1>3, <1>4, <1>5, CutKeeps

\* A step of the manager that leaves sessions and ports of sessions alone.
LEMMA ManagerStays ==
  ASSUME TypeOK, Maps, UNCHANGED clientVars,
         UNCHANGED <<sessions, dead, dialer, sEnd>>,
         \A k \in Conns : valid'[k] = "none" <=> valid[k] = "none",
         \A c \in Clients : Session(c) \in tracked' <=> Session(c) \in tracked
  PROVE  Maps'
BY MapsStay DEF MapsUnchanged, clientVars

\* A step at a connection keeps the maps.
LEMMA ConnMapsStep ==
  ASSUME IInv, UNCHANGED <<clientVars, posted>>, NEW k \in Conns,
         \/ OnConnect(k) \/ OnMessage(k) \/ OnDisconnect(k)
         \/ Validated(k) \/ ValidationFailed(k)
  PROVE  Maps' /\ CutByService'
<1>i. TypeOK /\ Maps /\ CutByService BY DEF IInv, Maps
<1>t. /\ dialer \in [Conns -> Clients \cup {NoClient}]
      /\ sEnd \in [Conns -> {"none", "open", "closed", "ignored"}]
      /\ sessions \in [Clients -> 0 .. MaxConns]
      /\ valid \in [Conns -> {"none", "pending", "ok", "failed"}]
  BY <1>i DEF TypeOK, PortsTypeOK, ManagerTypeOK
<1>c. UNCHANGED <<servicePort, constructed>> BY DEF clientVars
<1>1. CASE OnConnect(k)
  <2> DEFINE c == dialer[k]
  <2>1. c \in Clients /\ sEnd[k] = "none" /\ UNCHANGED <<down, dead, dialer>>
    BY <1>1, <1>t DEF OnConnect
  <2>2. sessions[c] = 0
    BY <1>i, <2>1, NoClientAssumption DEF Maps, NoCollision
  <2>3. /\ sEnd' = [sEnd EXCEPT ![k] = "open"]
        /\ sessions' = [sessions EXCEPT ![c] = k]
        /\ tracked' = tracked \cup {Session(c)}
        /\ valid' = [valid EXCEPT ![k] = "pending"]
    BY <1>1, <2>2 DEF OnConnect
  <2>4. CutByService' BY <1>i, <1>t, <2>1, <2>3, DownStays
  <2>5. \A j \in Conns : /\ sEnd'[j] = IF j = k THEN "open" ELSE sEnd[j]
                         /\ valid'[j] = IF j = k THEN "pending" ELSE valid[j]
    BY <1>t, <2>3
  <2>6. \A d \in Clients : sessions'[d] = IF d = c THEN k ELSE sessions[d]
    BY <1>t, <2>1, <2>3
  <2>7. \A d \in Clients :
           Session(d) \in tracked' <=> Session(d) \in tracked \/ d = c
    BY <2>3, NamesDiffer
  <2>8. Accepted'
    BY <1>i, <2>1, <2>5, NoClientAssumption DEF Maps, Accepted
  <2>9. OneDialed' BY <1>i, <1>c, <2>1, <2>5 DEF Maps, OneDialed
  <2>10. SessionsExact'
    <3>1. ASSUME NEW d \in Clients
          PROVE  /\ Session(d) \in tracked' <=> sessions'[d] # 0
                 /\ sessions'[d] # 0 => /\ dialer'[sessions'[d]] = d
                                        /\ sEnd'[sessions'[d]] = "open"
      <4>1. k # 0 /\ (sessions[d] # 0 => sessions[d] \in Conns)
        BY <1>t DEF Conns
      <4> QED BY <1>i, <2>1, <2>5, <2>6, <2>7, <4>1 DEF Maps, SessionsExact
    <3>2. ASSUME NEW j \in Conns, sEnd'[j] = "open"
          PROVE  j \notin dead' /\ sessions'[dialer'[j]] = j
      <4>1. CASE j = k
        <5>1. k \notin dead BY <1>i, <2>1 DEF Maps, Accepted
        <5> QED BY <2>1, <2>6, <4>1, <5>1
      <4>2. CASE j # k
        <5>1. sEnd[j] = "open" /\ dialer[j] \in Clients
          BY <1>i, <1>t, <2>5, <3>2, <4>2 DEF Maps, Accepted
        <5>2. j \notin dead /\ sessions[dialer[j]] = j
          BY <1>i, <5>1 DEF Maps, SessionsExact
        <5>3. dialer[j] # c BY <2>2, <5>2 DEF Conns
        <5> QED BY <2>1, <2>6, <5>1, <5>2, <5>3
      <4> QED BY <4>1, <4>2
    <3> QED BY <3>1, <3>2 DEF SessionsExact
  <2>11. NoCollision'
    <3>1. ASSUME NEW j \in Conns, dialer[j] # NoClient, sEnd'[j] = "none"
          PROVE  sessions'[dialer[j]] = 0
      <4>1. j # k /\ sEnd[j] = "none" /\ dialer[j] \in Clients
        BY <1>t, <2>5, <3>1
      <4>2. servicePort[dialer[j]] = j /\ servicePort[c] = k
        BY <1>i, <2>1, <4>1, NoClientAssumption DEF Maps, OneDialed
      <4>3. dialer[j] # c BY <4>1, <4>2
      <4> QED BY <1>i, <2>6, <3>1, <4>1, <4>3 DEF Maps, NoCollision
    <3> QED BY <2>1, <3>1 DEF NoCollision
  <2> QED BY <2>4, <2>8, <2>9, <2>10, <2>11 DEF Maps
<1>2. CASE OnMessage(k)
  <2>1. UNCHANGED <<sessions, tracked, valid, dead, dialer, sEnd>>
    BY <1>2 DEF OnMessage
  <2>2. Maps' BY <1>i, <2>1, ManagerStays
  <2>3. CutByService'
    <3>1. CASE UNCHANGED down BY <1>i, <2>1, <3>1, DownStays
    <3>2. CASE /\ Handle(k, Head(up[k])) /\ ~UNCHANGED down
      <4> DEFINE m == Head(up[k])
      <4>1. m \in UpEvent
        <5>1. m \in UpMessage /\ m # Disc
          BY <1>2, <1>i DEF OnMessage, TypeOK, PortsTypeOK
        <5> QED BY <5>1, DiscIsNone
      <4>2. PostDown(k, <<[type |-> "error", id |-> m.id]>>)
        BY <3>2 DEF Handle
      <4>3. [type |-> "error", id |-> m.id] \in Response
        BY <4>1 DEF UpEvent, Response
      <4>4. \A j \in Conns :
               sEnd[j] # "closed" => down'[j] \in Seq(DownMessage \ {Disc})
        BY <1>i, <4>2, <4>3, PostDownKeeps
      <4> QED BY <2>1, <4>4 DEF CutByService
    <3> QED BY <1>2, <3>1, <3>2 DEF OnMessage
  <2> QED BY <2>2, <2>3
<1>3. CASE OnDisconnect(k)
  <2>1. /\ sEnd[k] = "open" /\ sEnd' = [sEnd EXCEPT ![k] = "closed"]
        /\ AbortSessions({k}) /\ UNCHANGED <<valid, dialer, down>>
    BY <1>3 DEF OnDisconnect
  <2>2. sEnd' = [j \in Conns |-> IF j = k THEN "closed" ELSE sEnd[j]]
    BY <1>t, <2>1
  <2>3. Maps' BY <1>i, <1>c, <2>1, <2>2, AbortKeepsMaps
  <2> QED BY <1>i, <2>1, <2>2, <2>3, DownStays
<1>4. CASE Validated(k)
  <2>1. /\ valid[k] = "pending" /\ valid' = [valid EXCEPT ![k] = "ok"]
        /\ UNCHANGED <<sessions, tracked, dead>> /\ UNCHANGED portVars
    BY <1>4 DEF Validated
  <2>2. \A j \in Conns : valid'[j] = "none" <=> valid[j] = "none"
    BY <1>t, <2>1
  <2>3. UNCHANGED <<dialer, sEnd, down>> BY <2>1 DEF portVars
  <2> QED BY <1>i, <2>1, <2>2, <2>3, ManagerStays, DownStays
<1>5. CASE ValidationFailed(k)
  <2>1. /\ valid[k] = "pending" /\ valid' = [valid EXCEPT ![k] = "failed"]
        /\ UNCHANGED dialer
    BY <1>5 DEF ValidationFailed
  <2>2. \A j \in Conns : valid'[j] = "none" <=> valid[j] = "none"
    BY <1>t, <2>1
  <2>3. CASE k \in dead
    <3>1. UNCHANGED <<sessions, tracked, dead, sEnd, down>>
      BY <1>5, <2>3 DEF ValidationFailed
    <3> QED BY <1>i, <2>1, <2>2, <3>1, ManagerStays, DownStays
  <2>4. CASE k \notin dead
    <3>1. AbortSessions({k}) /\ DisconnectAll({k})
      BY <1>5, <2>4 DEF ValidationFailed
    <3>2. sEnd[k] = "open" BY <1>i, <2>1, <2>4 DEF Maps, Accepted
    <3>3. sEnd' = [j \in Conns |-> IF j = k THEN "closed" ELSE sEnd[j]]
      <4>1. sEnd' = [j \in Conns |-> IF j \in {k} /\ sEnd[j] = "open"
                                     THEN "closed" ELSE sEnd[j]]
        BY <1>i, <3>1, DisconnectAllKeeps
      <4> QED BY <3>2, <4>1
    <3>4. CutByService' BY <1>i, <3>1, DisconnectAllKeeps
    <3>5. Maps' BY <1>i, <1>c, <2>1, <2>2, <3>1, <3>2, <3>3, AbortKeepsMaps
    <3> QED BY <3>4, <3>5
  <2> QED BY <2>3, <2>4
<1> QED BY <1>1, <1>2, <1>3, <1>4, <1>5

\* So does the end of all sessions of an origin.
LEMMA OriginMapsStep ==
  ASSUME IInv, UNCHANGED <<clientVars, posted>>, NEW o, KillOrigin(o)
  PROVE  Maps' /\ CutByService'
<1> DEFINE C == {c \in Clients : Origin[c] = o}
           K == {sessions[c] : c \in C} \ {0}
           S == {r \in Streaming : Channel(r) \in tracked
                                     /\ Origin[Page[r]] = o}
<1>i. TypeOK /\ Maps /\ CutByService BY DEF IInv, Maps
<1>c. UNCHANGED <<servicePort, constructed>> BY DEF clientVars
<1>1. /\ DisconnectAll(K) /\ dead' = dead \cup K
      /\ tracked' = tracked \ ({Session(c) : c \in C}
                                \cup {Channel(r) : r \in S})
      /\ sessions' = SessionsWithout(K)
      /\ UNCHANGED <<valid, dialer>>
  BY DEF KillOrigin
<1>2. K \in SUBSET Conns BY <1>i DEF TypeOK, ManagerTypeOK, Conns
<1>3. \A k \in K : sEnd[k] = "open"
  BY <1>i DEF Maps, SessionsExact
<1>4. \A c \in Clients :
        Session(c) \in tracked'
          <=> Session(c) \in tracked /\ sessions[c] \notin K
  <2>1. ASSUME NEW c \in Clients
        PROVE  sessions[c] \in K <=> sessions[c] # 0 /\ c \in C
    <3>1. ASSUME NEW d \in C, sessions[d] # 0, sessions[c] = sessions[d]
          PROVE  c = d
      BY <1>i, <3>1 DEF Maps, SessionsExact
    <3> QED BY <3>1
  <2>2. \A c \in Clients : Session(c) \in tracked <=> sessions[c] # 0
    BY <1>i DEF Maps, SessionsExact
  <2>3. \A c \in Clients :
          Session(c) \in tracked' <=> Session(c) \in tracked /\ c \notin C
    BY <1>1, NamesDiffer
  <2> HIDE DEF K, C
  <2> QED BY <2>1, <2>2, <2>3
<1> HIDE DEF K
<1>5. /\ CutByService'
      /\ sEnd' = [k \in Conns |-> IF k \in K /\ sEnd[k] = "open"
                                  THEN "closed" ELSE sEnd[k]]
  BY <1>i, <1>1, DisconnectAllKeeps
<1>6. sEnd' = [k \in Conns |-> IF k \in K THEN "closed" ELSE sEnd[k]]
  BY <1>3, <1>5
<1>7. sessions' = [c \in Clients |-> IF sessions[c] \in K THEN 0
                                                     ELSE sessions[c]]
  BY <1>1 DEF SessionsWithout
<1>8. Maps'
  BY <1>i, <1>c, <1>1, <1>2, <1>3, <1>4, <1>6, <1>7, CutKeeps
<1> QED BY <1>5, <1>8

\* So does the death of the worker: it cuts every session.
LEMMA DeathMapsStep ==
  ASSUME IInv, UNCHANGED <<clientVars, posted>>, WorkerKilled
  PROVE  Maps' /\ CutByService'
<1> DEFINE K == {k \in Conns : sEnd[k] = "open"}
<1>i. TypeOK /\ Maps /\ CutByService BY DEF IInv, Maps
<1>t. /\ sessions \in [Clients -> 0 .. MaxConns]
      /\ valid \in [Conns -> {"none", "pending", "ok", "failed"}]
      /\ dead \subseteq Conns
  BY <1>i DEF TypeOK, ManagerTypeOK
<1>c. UNCHANGED <<servicePort, constructed>> BY DEF clientVars
<1>1. /\ DisconnectAll(K) /\ tracked' = {}
      /\ sessions' = [c \in Clients |-> 0]
      /\ dead' = dead \cup {k \in Conns : valid[k] # "none"}
      /\ valid' = [k \in Conns |->
                     IF valid[k] = "pending" THEN "failed" ELSE valid[k]]
      /\ UNCHANGED dialer
  BY DEF WorkerKilled
<1>2. K \in SUBSET Conns /\ \A k \in K : sEnd[k] = "open" OBVIOUS
<1>3. \A c \in Clients : sessions[c] # 0 => sessions[c] \in K
  BY <1>i, <1>t DEF Maps, SessionsExact, Conns
<1>4. dead' = dead \cup K
  <2>1. \A k \in Conns : valid[k] # "none" /\ k \notin dead <=> sEnd[k] = "open"
    BY <1>i DEF Maps, Accepted
  <2> QED BY <1>1, <2>1
<1>5. \A c \in Clients :
        Session(c) \in tracked'
          <=> Session(c) \in tracked /\ sessions[c] \notin K
  BY <1>i, <1>1, <1>3 DEF Maps, SessionsExact
<1>6. sessions' = [c \in Clients |-> IF sessions[c] \in K THEN 0
                                                     ELSE sessions[c]]
  BY <1>1, <1>3
<1>7. \A k \in Conns : valid'[k] = "none" <=> valid[k] = "none"
  BY <1>1, <1>t
<1> HIDE DEF K
<1>8. /\ CutByService'
      /\ sEnd' = [k \in Conns |-> IF k \in K /\ sEnd[k] = "open"
                                  THEN "closed" ELSE sEnd[k]]
  BY <1>i, <1>1, DisconnectAllKeeps
<1>9. sEnd' = [k \in Conns |-> IF k \in K THEN "closed" ELSE sEnd[k]]
  BY <1>2, <1>8
<1>10. Maps'
  BY <1>i, <1>c, <1>1, <1>2, <1>4, <1>5, <1>6, <1>7, <1>9, CutKeeps
<1> QED BY <1>8, <1>10

\* A step of a request leaves the maps alone but for its own sub-channel.
LEMMA RequestMapsStep ==
  ASSUME IInv, UNCHANGED <<clientVars, posted>>, NEW r \in Requests,
         \/ HandlerReturns(r) \/ HandlerStreams(r) \/ HandlerThrows(r)
         \/ OnSubConnect(r) \/ SubValidated(r) \/ SubInvalid(r)
         \/ ResponseEnds(r) \/ OnSubDisconnect(r) \/ PipeBroken(r)
         \/ SinkTimeout(r)
  PROVE  Maps' /\ CutByService'
<1>i. TypeOK /\ Maps /\ CutByService BY DEF IInv, Maps
<1>1. UNCHANGED <<sessions, dead, dialer, sEnd, valid>>
  BY DEF HandlerReturns, HandlerStreams, HandlerThrows, OnSubConnect,
         SubValidated, SubInvalid, ResponseEnds, OnSubDisconnect, PipeBroken,
         SinkTimeout, portVars
<1>2. \/ tracked' = tracked \/ tracked' = tracked \cup {Channel(r)}
      \/ tracked' = tracked \ {Channel(r)}
  BY DEF HandlerReturns, HandlerStreams, HandlerThrows, OnSubConnect,
         SubValidated, SubInvalid, ResponseEnds, OnSubDisconnect, PipeBroken,
         SinkTimeout
<1>3. Maps' BY <1>i, <1>1, <1>2, NamesDiffer, ManagerStays
<1>4. \/ UNCHANGED down
      \/ /\ Live(r)
         /\ \E t \in {"message", "channel", "error"} :
              PostDown(owner[r], <<[type |-> t, id |-> r]>>)
  BY DEF HandlerReturns, HandlerStreams, HandlerThrows, OnSubConnect,
         SubValidated, SubInvalid, ResponseEnds, OnSubDisconnect, PipeBroken,
         SinkTimeout, portVars, Fail, Live
<1>5. ASSUME NEW t \in {"message", "channel", "error"}, Live(r),
             PostDown(owner[r], <<[type |-> t, id |-> r]>>)
      PROVE  CutByService'
  <2>1. [type |-> t, id |-> r] \in Response BY DEF Response
  <2>2. owner[r] \in Conns BY <1>5 DEF IInv, TakenUp
  <2>3. \A k \in Conns :
           sEnd[k] # "closed" => down'[k] \in Seq(DownMessage \ {Disc})
    BY <1>i, <1>5, <2>1, <2>2, PostDownKeeps
  <2> QED BY <1>1, <2>3 DEF CutByService
<1> QED BY <1>i, <1>1, <1>3, <1>4, <1>5, DownStays

\* Every step keeps the maps.
LEMMA MapsStep ==
  ASSUME IInv, [Next]_vars PROVE Maps' /\ CutByService'
<1>i. TypeOK /\ Maps /\ CutByService BY DEF IInv, Maps
<1>1. ASSUME NEW c \in Clients, NEW m \in Message, PagePosts(c, m)
      PROVE  Maps' /\ CutByService'
  <2>1. UNCHANGED <<sessions, tracked, valid, dead, dialer, sEnd, down,
                    servicePort, constructed>>
    BY <1>1 DEF PagePosts, portVars, managerVars
  <2> QED BY <1>i, <2>1, MapsStay, DownStays DEF MapsUnchanged
<1>2. CASE ClientNext /\ UNCHANGED <<managerVars, posted>>
  BY <1>2, <1>i, ClientMapsStep
<1>3. CASE ManagerNext /\ UNCHANGED <<clientVars, posted>>
  BY <1>3, ConnMapsStep, OriginMapsStep, DeathMapsStep, RequestMapsStep
     DEF ManagerNext
<1>4. CASE UNCHANGED vars
  <2>1. UNCHANGED <<sessions, tracked, valid, dead, dialer, sEnd, down,
                    servicePort, constructed>>
    BY <1>4 DEF vars, portVars, managerVars, clientVars
  <2> QED BY <1>i, <2>1, MapsStay, DownStays DEF MapsUnchanged
<1> QED BY <1>1, <1>2, <1>3, <1>4 DEF Next
-----------------------------------------------------------------------------
(* The requests. *)

Pending == TakenUp /\ AbortCancelsPending

\* A step that leaves the lifecycles alone keeps what holds of the requests.
LEMMA PendingStays ==
  ASSUME Pending, UNCHANGED <<life, owner, inMap, canceled, dead, late>>
  PROVE  Pending'
BY DEF Pending, TakenUp, AbortCancelsPending, Live

\* A sub-channel that is open stays tracked, if its port and its name do.
LEMMA OpenStays ==
  ASSUME OpenIsTracked,
         \A r \in Requests : subS'[r] \in {"open", "final"}
                               => subS[r] \in {"open", "final"},
         \A r \in Requests : Channel(r) \in tracked => Channel(r) \in tracked'
  PROVE  OpenIsTracked'
BY DEF OpenIsTracked

\* Sinks that abort are not closed.
LEMMA SinksStayOpen ==
  ASSUME NEW R, AbortSinks(R), NEW r \in Requests,
         subS'[r] \in {"open", "final"}
  PROVE  subS[r] \in {"open", "final"}
BY DEF AbortSinks, Aborting

\* Ending the sessions K cancels what is on their maps.
LEMMA CancelKeeps ==
  ASSUME TypeOK, Pending, NEW K,
         NEW R, R = UNION {MapOf(k) : k \in K}, Cancel(R),
         inMap' = inMap \ Ending(R), dead' = dead \cup K,
         UNCHANGED <<owner, late>>
  PROVE  Pending'
<1>1. \A r \in Requests :
        Live(r)' => /\ Live(r) /\ r \notin Ending(R)
                    /\ life'[r] = "handling" <=> life[r] = "handling"
  BY DEF Cancel, Live, Ending, Aborting
<1>2. canceled' = canceled \cup R BY DEF Cancel
<1>3. TakenUp' BY <1>1, <1>2 DEF Pending, TakenUp
<1>4. AbortCancelsPending'
  <2> SUFFICES ASSUME NEW r \in Requests, r \notin late,
                      owner[r] \in dead \cup K, Live(r), r \notin canceled
               PROVE  r \in R
    BY <1>1, <1>2 DEF AbortCancelsPending
  <2>1. owner[r] \in K BY DEF Pending, AbortCancelsPending
  <2>2. r \in MapOf(owner[r]) BY DEF Pending, TakenUp, MapOf
  <2> QED BY <2>1, <2>2
<1> QED BY <1>3, <1>4 DEF Pending

\* The names of sub-channels outlive their session.
LEMMA AbortKeepsRequests ==
  ASSUME TypeOK, Pending, OpenIsTracked, NEW k \in Conns, AbortSessions({k}),
         AbortSinks(MapOf(k)), UNCHANGED <<owner, late>>
  PROVE  Pending' /\ OpenIsTracked'
<1>1. Pending'
  <2> DEFINE R == UNION {MapOf(j) : j \in {k}}
  <2>1. /\ Cancel(R) /\ inMap' = inMap \ Ending(R) /\ dead' = dead \cup {k}
    BY DEF AbortSessions
  <2> QED BY <2>1, CancelKeeps
<1>2. \A r \in Requests : Channel(r) \in tracked => Channel(r) \in tracked'
  BY NamesDiffer DEF AbortSessions
<1>3. OpenIsTracked' BY <1>2, OpenStays, SinksStayOpen
<1> QED BY <1>1, <1>3

\* A step at a connection.
LEMMA ConnPendingStep ==
  ASSUME IInv, UNCHANGED <<clientVars, posted>>, NEW k \in Conns,
         \/ OnConnect(k) \/ OnMessage(k) \/ OnDisconnect(k)
         \/ Validated(k) \/ ValidationFailed(k)
  PROVE  Pending' /\ OpenIsTracked'
<1>i. TypeOK /\ Pending /\ OpenIsTracked BY DEF IInv, Pending
<1>t. /\ life \in [Requests -> Lives] /\ owner \in [Requests -> 0 .. MaxConns]
      /\ subS \in [Requests -> {"none", "open", "final", "closed", "ignored"}]
  BY <1>i DEF TypeOK, PortsTypeOK, ManagerTypeOK
<1>1. CASE OnConnect(k)
  <2>1. UNCHANGED <<life, owner, inMap, canceled, dead, late, subS>>
        /\ tracked \subseteq tracked'
    BY <1>1 DEF OnConnect
  <2> QED BY <1>i, <2>1, PendingStays, OpenStays
<1>2. CASE OnMessage(k)
  <2> DEFINE m == Head(up[k])
  <2>1. /\ sEnd[k] = "open" /\ UNCHANGED <<tracked, dead, late>>
    BY <1>2 DEF OnMessage
  <2>2. k \notin dead BY <2>1 DEF IInv, SessionsExact
  <2>3. CASE UNCHANGED <<life, owner, inMap, canceled, subS>>
    BY <1>i, <2>1, <2>3, PendingStays, OpenStays
  <2>4. CASE Handle(k, m) /\ m.type = "request"
    <3>1. /\ life' = [life EXCEPT ![m.id] = "handling"]
          /\ owner' = [owner EXCEPT ![m.id] = k]
          /\ inMap' = inMap \cup {m.id} /\ UNCHANGED <<canceled, subS>>
      BY <2>4 DEF Handle
    <3>2. OpenIsTracked' BY <1>i, <2>1, <3>1, OpenStays
    <3>3. \A r \in Requests : r # m.id => /\ Live(r)' <=> Live(r)
                                          /\ life'[r] = life[r]
                                          /\ owner'[r] = owner[r]
      BY <1>t, <3>1 DEF Live
    <3>4. \A r \in Requests : r = m.id => /\ life'[r] = "handling"
                                          /\ owner'[r] = k
      BY <1>t, <3>1
    <3>5. TakenUp' BY <1>i, <3>1, <3>3, <3>4 DEF Pending, TakenUp
    <3>6. AbortCancelsPending'
      BY <1>i, <2>1, <2>2, <3>1, <3>3, <3>4 DEF Pending, AbortCancelsPending
    <3> QED BY <3>2, <3>5, <3>6 DEF Pending
  <2>5. CASE Handle(k, m) /\ m.type # "request"
    <3> DEFINE R == MapOf(k) \cap {m.id}
    <3>1. /\ Cancel(R) /\ AbortSinks(R) /\ inMap' = inMap \ R
          /\ UNCHANGED owner
      BY <2>5 DEF Handle
    <3> HIDE DEF R
    <3>2. OpenIsTracked' BY <1>i, <2>1, <3>1, OpenStays, SinksStayOpen
    <3>3. \A r \in Requests :
            Live(r)' => /\ Live(r)
                        /\ life'[r] = "handling" <=> life[r] = "handling"
      BY <3>1 DEF Cancel, Live, Ending, Aborting
    <3>4. canceled' = canceled \cup R BY <3>1 DEF Cancel
    <3>5. TakenUp' BY <1>i, <3>1, <3>3, <3>4 DEF Pending, TakenUp
    <3>6. AbortCancelsPending'
      BY <1>i, <2>1, <3>1, <3>3, <3>4 DEF Pending, AbortCancelsPending
    <3> QED BY <3>2, <3>5, <3>6 DEF Pending
  <2> QED BY <1>2, <2>3, <2>4, <2>5 DEF OnMessage
<1>3. CASE OnDisconnect(k)
  BY <1>i, <1>3, AbortKeepsRequests DEF OnDisconnect
<1>4. CASE Validated(k)
  <2> DEFINE ids(t) == {r \in Requests : [type |-> t, id |-> r] \in held[k]}
             Q == ids("request")
             A == ids("abort")
  <2>1. /\ life' = [r \in Requests |-> IF r \in Q THEN "handling" ELSE life[r]]
        /\ owner' = [r \in Requests |-> IF r \in Q THEN k ELSE owner[r]]
        /\ inMap' = inMap \cup (Q \ A)
        /\ canceled' = canceled \cup (Q \cap A)
        /\ late' = IF k \in dead THEN late \cup Q ELSE late
        /\ UNCHANGED <<tracked, dead>> /\ UNCHANGED portVars
    BY <1>4 DEF Validated
  <2> HIDE DEF Q, A
  <2>2. OpenIsTracked'
    <3>1. UNCHANGED subS BY <2>1 DEF portVars
    <3> QED BY <1>i, <2>1, <3>1, OpenStays
  <2>3. \A r \in Requests : r \notin Q => /\ Live(r)' <=> Live(r)
                                          /\ life'[r] = life[r]
                                          /\ owner'[r] = owner[r]
    BY <2>1 DEF Live
  <2>4. \A r \in Requests : r \in Q => life'[r] = "handling" /\ owner'[r] = k
    BY <2>1
  <2>5. TakenUp' BY <1>i, <2>1, <2>3, <2>4 DEF Pending, TakenUp
  <2>6. AbortCancelsPending'
    <3> SUFFICES ASSUME NEW r \in Requests, r \notin late', owner'[r] \in dead,
                        Live(r)'
                 PROVE  r \in canceled'
      BY <2>1 DEF AbortCancelsPending
    <3>1. r \notin Q BY <2>1, <2>4
    <3>2. r \notin late /\ Live(r) /\ owner[r] \in dead
      BY <2>1, <2>3, <3>1
    <3> QED BY <1>i, <2>1, <3>2 DEF Pending, AbortCancelsPending
  <2> QED BY <2>2, <2>5, <2>6 DEF Pending
<1>5. CASE ValidationFailed(k)
  <2>1. CASE k \in dead
    <3>1. UNCHANGED <<tracked, dead, life, inMap, canceled, subS, owner, late>>
      BY <1>5, <2>1 DEF ValidationFailed
    <3> QED BY <1>i, <3>1, PendingStays, OpenStays
  <2>2. CASE k \notin dead
    BY <1>i, <1>5, <2>2, AbortKeepsRequests DEF ValidationFailed
  <2> QED BY <2>1, <2>2
<1> QED BY <1>1, <1>2, <1>3, <1>4, <1>5

\* The end of all sessions of an origin closes what it forgets.
LEMMA OriginPendingStep ==
  ASSUME IInv, NEW o, KillOrigin(o) PROVE Pending' /\ OpenIsTracked'
<1> DEFINE C == {c \in Clients : Origin[c] = o}
           K == {sessions[c] : c \in C} \ {0}
           S == {r \in Streaming : Channel(r) \in tracked
                                     /\ Origin[Page[r]] = o}
           R == UNION {MapOf(k) : k \in K}
<1>i. TypeOK /\ Pending /\ OpenIsTracked BY DEF IInv, Pending
<1>1. /\ Cancel(R) /\ inMap' = inMap \ Ending(R) /\ dead' = dead \cup K
      /\ tracked' = tracked \ ({Session(c) : c \in C}
                                \cup {Channel(r) : r \in S})
      /\ subS' = [r \in Requests |-> IF r \in S THEN "closed" ELSE subS[r]]
      /\ UNCHANGED <<owner, late>>
  BY DEF KillOrigin
<1> HIDE DEF C, K, S
<1>2. Pending' BY <1>i, <1>1, CancelKeeps
<1>3. \A r \in Requests :
         r \notin S => (Channel(r) \in tracked => Channel(r) \in tracked')
  BY <1>1, NamesDiffer
<1>4. OpenIsTracked' BY <1>i, <1>1, <1>3 DEF OpenIsTracked
<1> QED BY <1>2, <1>4

\* The death of the worker ends every lifecycle and every sub-channel.
LEMMA DeathPendingStep ==
  ASSUME WorkerKilled PROVE Pending' /\ OpenIsTracked'
<1>1. \A r \in Requests : ~Live(r)' BY DEF WorkerKilled, Live
<1>2. \A r \in Requests : subS'[r] \notin {"open", "final"} BY DEF WorkerKilled
<1> QED BY <1>1, <1>2
        DEF Pending, TakenUp, AbortCancelsPending, OpenIsTracked

\* A lifecycle that goes on is that of a request taken up.
LEMMA LifeGoesOn ==
  ASSUME TypeOK, Pending, NEW r \in Requests, Live(r), NEW s \in Lives,
         s # "handling", s # "done" => life[r] # "handling" \/ r \in Streaming,
         life' = [life EXCEPT ![r] = s],
         inMap' = IF s = "done" THEN inMap \ {r} ELSE inMap,
         UNCHANGED <<owner, canceled, dead, late>>
  PROVE  Pending'
<1>1. life \in [Requests -> Lives] BY DEF TypeOK, ManagerTypeOK
<1>2. \A q \in Requests : life'[q] = IF q = r THEN s ELSE life[q] BY <1>1
<1>3. \A q \in Requests : Live(q)' => Live(q) BY <1>2 DEF Live
<1>4. TakenUp'
  <2> SUFFICES ASSUME NEW q \in Requests, Live(q)'
               PROVE  /\ owner[q] \in Conns /\ q \in inMap' \cup canceled
                      /\ life'[q] # "handling" => q \in Streaming
    BY DEF TakenUp
  <2>1. CASE q = r
    BY <1>2, <1>3, <2>1 DEF Pending, TakenUp, Live
  <2>2. CASE q # r BY <1>2, <1>3, <2>2 DEF Pending, TakenUp
  <2> QED BY <2>1, <2>2
<1>5. AbortCancelsPending' BY <1>3 DEF Pending, AbortCancelsPending
<1> QED BY <1>4, <1>5 DEF Pending

\* A step of a request.
LEMMA RequestPendingStep ==
  ASSUME IInv, NEW r \in Requests,
         \/ HandlerReturns(r) \/ HandlerStreams(r) \/ HandlerThrows(r)
         \/ OnSubConnect(r) \/ SubValidated(r) \/ SubInvalid(r)
         \/ ResponseEnds(r) \/ OnSubDisconnect(r) \/ PipeBroken(r)
         \/ SinkTimeout(r)
  PROVE  Pending' /\ OpenIsTracked'
<1>i. TypeOK /\ Pending /\ OpenIsTracked BY DEF IInv, Pending
<1>t. /\ life \in [Requests -> Lives]
      /\ subS \in [Requests -> {"none", "open", "final", "closed", "ignored"}]
  BY <1>i DEF TypeOK, PortsTypeOK, ManagerTypeOK
<1>l. \A s \in {"none", "offering", "opening", "piping", "finishing",
                "draining", "done"} : s \in Lives
  BY DEF Lives
<1>1. CASE HandlerReturns(r) \/ HandlerThrows(r) \/ SubInvalid(r)
           \/ PipeBroken(r)
  <2>1. /\ Live(r) /\ Done(r)
        /\ UNCHANGED <<owner, canceled, dead, late, tracked, subS>>
    BY <1>1 DEF HandlerReturns, HandlerThrows, SubInvalid, PipeBroken, Fail,
                Live
  <2>2. Pending' BY <1>i, <1>l, <2>1, LifeGoesOn DEF Done
  <2>3. OpenIsTracked' BY <1>i, <2>1, OpenStays
  <2> QED BY <2>2, <2>3
<1>2. CASE HandlerStreams(r) \/ SubValidated(r)
  <2>1. /\ Live(r) /\ UNCHANGED <<inMap, owner, canceled, dead, late, tracked>>
        /\ UNCHANGED subS
        /\ \/ r \in Streaming /\ life' = [life EXCEPT ![r] = "offering"]
           \/ /\ life[r] # "handling"
              /\ life' = [life EXCEPT ![r] = "piping"]
    BY <1>2 DEF HandlerStreams, SubValidated, Live, portVars
  <2>2. Pending' BY <1>i, <1>l, <2>1, LifeGoesOn
  <2>3. OpenIsTracked' BY <1>i, <2>1, OpenStays
  <2> QED BY <2>2, <2>3
<1>3. CASE OnSubConnect(r)
  <2>1. CASE life[r] = "offering"
    <3>1. /\ subS' = [subS EXCEPT ![r] = "open"]
          /\ tracked' = tracked \cup {Channel(r)}
          /\ life' = [life EXCEPT ![r] = "opening"]
          /\ UNCHANGED <<owner, inMap, canceled, dead, late>>
      BY <1>3, <2>1 DEF OnSubConnect
    <3>2. Pending' BY <1>i, <1>l, <2>1, <3>1, LifeGoesOn DEF Live
    <3>3. OpenIsTracked' BY <1>i, <1>t, <3>1 DEF OpenIsTracked
    <3> QED BY <3>2, <3>3
  <2>2. CASE life[r] # "offering"
    <3>1. /\ subS' = [subS EXCEPT ![r] = "ignored"]
          /\ UNCHANGED <<tracked, life, owner, inMap, canceled, dead, late>>
      BY <1>3, <2>2 DEF OnSubConnect
    <3>2. OpenIsTracked' BY <1>i, <1>t, <3>1 DEF OpenIsTracked
    <3> QED BY <1>i, <3>1, <3>2, PendingStays
  <2> QED BY <2>1, <2>2
<1>4. CASE ResponseEnds(r)
  <2>1. PICK s \in {"finishing", "draining"} : life' = [life EXCEPT ![r] = s]
    BY <1>4 DEF ResponseEnds
  <2>2. /\ life[r] = "piping" /\ subS[r] = "open"
        /\ subS' = [subS EXCEPT ![r] = "final"]
        /\ UNCHANGED <<tracked, owner, inMap, canceled, dead, late>>
    BY <1>4 DEF ResponseEnds
  <2>3. Pending' BY <1>i, <1>l, <2>1, <2>2, LifeGoesOn DEF Live
  <2>4. OpenIsTracked' BY <1>i, <1>t, <2>2 DEF OpenIsTracked
  <2> QED BY <2>3, <2>4
<1>5. CASE OnSubDisconnect(r) \/ SinkTimeout(r)
  <2>1. /\ subS' = [subS EXCEPT ![r] = "closed"]
        /\ tracked' = tracked \/ tracked' = tracked \ {Channel(r)}
        /\ UNCHANGED <<owner, canceled, dead, late>>
        /\ \/ UNCHANGED <<life, inMap>>
           \/ Live(r) /\ Done(r)
    BY <1>5 DEF OnSubDisconnect, SinkTimeout, Fail, Live
  <2>2. Pending'
    <3>1. CASE UNCHANGED <<life, inMap>> BY <1>i, <2>1, <3>1, PendingStays
    <3>2. CASE Live(r) /\ Done(r)
      BY <1>i, <1>l, <2>1, <3>2, LifeGoesOn DEF Done
    <3> QED BY <2>1, <3>1, <3>2
  <2>3. \A q \in Requests : q # r => Channel(q) # Channel(r) BY NamesDiffer
  <2>4. OpenIsTracked' BY <1>i, <1>t, <2>1, <2>3 DEF OpenIsTracked
  <2> QED BY <2>2, <2>4
<1> QED BY <1>1, <1>2, <1>3, <1>4, <1>5

\* Every step keeps what holds of the requests.
LEMMA PendingStep ==
  ASSUME IInv, [Next]_vars PROVE Pending' /\ OpenIsTracked'
<1>i. Pending /\ OpenIsTracked BY DEF IInv, Pending
<1>s. ASSUME UNCHANGED <<managerVars, subS>> PROVE Pending' /\ OpenIsTracked'
  BY <1>i, <1>s, PendingStays, OpenStays DEF managerVars
<1>1. ASSUME NEW c \in Clients, NEW m \in Message, PagePosts(c, m)
      PROVE  Pending' /\ OpenIsTracked'
  BY <1>1, <1>s DEF PagePosts, portVars
<1>2. CASE ClientNext /\ UNCHANGED <<managerVars, posted>>
  <2>1. UNCHANGED subS
    BY <1>2 DEF ClientNext, Construct, ForwardEvent, ContextLost, PageClosed,
                End, ServiceListener, OnClientDisconnect, Destroyed,
                SourceClosed, SourceCanceled, portVars
  <2> QED BY <1>2, <1>s, <2>1
<1>3. CASE ManagerNext /\ UNCHANGED <<clientVars, posted>>
  BY <1>3, ConnPendingStep, OriginPendingStep, DeathPendingStep,
     RequestPendingStep DEF ManagerNext
<1>4. CASE UNCHANGED vars BY <1>4, <1>s DEF vars, portVars
<1> QED BY <1>1, <1>2, <1>3, <1>4 DEF Next
-----------------------------------------------------------------------------
(* What they give. *)

\* The invariant holds at first.
LEMMA InitHolds == ASSUME Init PROVE IInv
<1> USE DEF Init, PortsInit, ClientInit, ManagerInit
<1>1. TypeOK
  BY ConnsAssumption, DeathsAssumption
     DEF TypeOK, PortsTypeOK, ClientTypeOK, ManagerTypeOK, Lives
<1>2. Accepted /\ CutByService /\ OneDialed
  BY DEF Accepted, CutByService, OneDialed
<1>3. SessionsExact /\ NoCollision
  BY DEF SessionsExact, NoCollision
<1>4. TakenUp /\ OpenIsTracked /\ AbortCancelsPending
  BY DEF TakenUp, OpenIsTracked, AbortCancelsPending, Live
<1> QED BY <1>1, <1>2, <1>3, <1>4 DEF IInv

\* It holds throughout.
THEOREM InvariantHolds == Spec => []IInv
<1>1. IInv /\ [Next]_vars => IInv'
  BY TypeStep, MapsStep, PendingStep DEF IInv, Maps, Pending
<1> QED BY <1>1, InitHolds, PTL DEF Spec

\* Every variable has its type: ports, sessions and lifecycles are in the
\* states the code knows.
THEOREM TypeCorrect == Spec => []TypeOK
BY InvariantHolds, PTL DEF IInv

\* The manager's map of sessions, its map of ports and the open ports agree,
\* through aborts, killOrigin, failed validations and deaths of the worker.
THEOREM SessionsAreExact == Spec => []SessionsExact
BY InvariantHolds, PTL DEF IInv

\* A client that reconnects under its old name never collides with its old
\* session.
THEOREM NeverCollides == Spec => []NoCollision
BY InvariantHolds, PTL DEF IInv

\* killOrigin finds every open sub-channel in the map of ports.
THEOREM OpenAreTracked == Spec => []OpenIsTracked
BY InvariantHolds, PTL DEF IInv

\* An aborted session cancels every request it took up while it lived and has
\* not finished.
THEOREM AbortsCancelPending == Spec => []AbortCancelsPending
BY InvariantHolds, PTL DEF IInv
-----------------------------------------------------------------------------
(* Requests travel. *)

\* What is left of a queue, and in what order, when its head is taken.
LEMMA HasTail ==
  ASSUME NEW S, NEW s \in Seq(S), s # <<>>, NEW e
  PROVE  /\ Has(Tail(s), e) => Has(s, e)
         /\ Once(s, e) => Once(Tail(s), e)
         /\ Once(s, e) /\ Head(s) = e => ~Has(Tail(s), e)
<1>1. /\ Len(s) \in Nat /\ DOMAIN s = 1 .. Len(s)
      /\ DOMAIN Tail(s) = 1 .. (Len(s) - 1) /\ Head(s) = s[1]
      /\ \A i \in 1 .. (Len(s) - 1) : Tail(s)[i] = s[i + 1]
      /\ Len(s) > 0
  OBVIOUS
<1> QED BY <1>1 DEF Has, Once

\* And when an element is put behind it.
LEMMA HasAppend ==
  ASSUME NEW S, NEW s \in Seq(S), NEW m \in S, NEW e
  PROVE  /\ Has(Append(s, m), e) <=> Has(s, e) \/ m = e
         /\ Once(s, e) /\ (m = e => ~Has(s, e)) => Once(Append(s, m), e)
<1>1. /\ Len(s) \in Nat /\ DOMAIN s = 1 .. Len(s)
      /\ DOMAIN Append(s, m) = 1 .. (Len(s) + 1)
      /\ Append(s, m)[Len(s) + 1] = m
      /\ \A i \in 1 .. Len(s) : Append(s, m)[i] = s[i]
  OBVIOUS
<1>2. \A i \in 1 .. (Len(s) + 1) : i \in 1 .. Len(s) \/ i = Len(s) + 1
  BY <1>1
<1> QED BY <1>1, <1>2 DEF Has, Once

\* A request is a message of its page, and no disconnect.
LEMMA AskingIs ==
  ASSUME NEW r \in Requests
  PROVE  /\ Asking(r) \in Message /\ Asking(r) \in UpMessage
         /\ Asking(r) # Disc /\ Asking(r).type = "request"
         /\ Asking(r).id = r
         /\ \A q \in Requests : Asking(q) = Asking(r) => q = r
         /\ \A m \in Message \cup UpMessage :
              m.type = "request" => m = Asking(m.id) /\ m.id \in Requests
BY DEF Asking, Message, UpMessage, Disc

\* The page of a request is a client, hence no missing one.
LEMMA PageIs ==
  ASSUME NEW r \in Requests PROVE Page[r] \in Clients /\ Page[r] # NoClient
BY PageAssumption, NoClientAssumption

\* No request is posted, put on a connection or held back, though some may be
\* taken or dropped.
LEMMA TravelsStays ==
  ASSUME TypeOK, Travels, posted \subseteq posted',
         \A r \in Requests : /\ life'[r] = "none" <=> life[r] = "none"
                             /\ life[r] # "none" => owner'[r] = owner[r],
         \A k \in Conns : dialer[k] # NoClient => dialer'[k] = dialer[k],
         \A c \in Clients, r \in Requests :
           /\ Has(outbox'[c], Asking(r)) => Has(outbox[c], Asking(r))
           /\ Once(outbox'[c], Asking(r)),
         \A k \in Conns, r \in Requests :
           /\ Has(up'[k], Asking(r)) => Has(up[k], Asking(r))
           /\ Once(up'[k], Asking(r)),
         \A k \in Conns, r \in Requests :
           Asking(r) \in held'[k] => Asking(r) \in held[k]
  PROVE  Travels'
<1>1. \A r \in Requests : Waiting(r) => Waiting(r)' BY DEF Waiting
<1>2. InOutbox' BY <1>1 DEF Travels, InOutbox
<1>3. InTransit' BY <1>1, PageIs DEF Travels, InTransit, Carries
<1>4. HeldBack' BY <1>1, PageIs DEF Travels, HeldBack, Carries
<1>5. Taken' BY PageIs DEF Travels, Taken
<1> QED BY <1>2, <1>3, <1>4, <1>5 DEF Travels

\* A page posts a request it has not posted.
LEMMA PostTravels ==
  ASSUME TypeOK, Travels, NEW c \in Clients, NEW m \in Message,
         PagePosts(c, m)
  PROVE  Travels'
<1>t. outbox \in [Clients -> Seq(Message)] BY DEF TypeOK, ClientTypeOK
<1>1. /\ outbox' = [outbox EXCEPT ![c] = Append(@, m)]
      /\ posted \subseteq posted' /\ UNCHANGED <<dialer, up, life, owner, held>>
  BY DEF PagePosts, portVars, managerVars
<1>2. \A d \in Clients : outbox'[d] = IF d = c THEN Append(outbox[c], m)
                                      ELSE outbox[d]
  BY <1>t, <1>1
<1>3. \A d \in Clients : \A e :
        /\ Has(outbox'[d], e) <=> Has(outbox[d], e) \/ (d = c /\ m = e)
        /\ Once(outbox[d], e) /\ (d = c /\ m = e => ~Has(outbox[d], e))
             => Once(outbox'[d], e)
  BY <1>t, <1>2, HasAppend
<1>4. CASE m.type # "request"
  <2>1. \A r \in Requests : m # Asking(r) BY <1>4 DEF Asking
  <2>2. \A d \in Clients, r \in Requests :
          /\ Has(outbox'[d], Asking(r)) => Has(outbox[d], Asking(r))
          /\ Once(outbox'[d], Asking(r))
    BY <1>3, <2>1 DEF Travels, InOutbox
  <2>3. \A k \in Conns, r \in Requests : Once(up'[k], Asking(r))
    BY <1>1 DEF Travels, InTransit
  <2> QED BY <1>1, <2>2, <2>3, TravelsStays
<1>5. CASE m.type = "request"
  <2> DEFINE q == m.id
  <2>1. /\ q \in Requests /\ m = Asking(q) /\ Page[q] = c
        /\ Asking(q) \notin posted /\ Asking(q) \in posted'
    BY <1>5 DEF PagePosts, Message, Asking
  <2> HIDE DEF q
  <2>2. /\ life[q] = "none" /\ \A d \in Clients : ~Has(outbox[d], Asking(q))
        /\ \A k \in Conns : ~Carries(k, q) /\ Asking(q) \notin held[k]
    BY <2>1 DEF Travels, InOutbox, InTransit, HeldBack, Taken, Waiting
  <2>3. \A r \in Requests : /\ Waiting(r) => Waiting(r)'
                            /\ Asking(r) = Asking(q) => r = q
    BY <1>1, <2>1, AskingIs DEF Waiting
  <2>4. InOutbox'
    <3> SUFFICES ASSUME NEW d \in Clients, NEW r \in Requests
                 PROVE  /\ Once(outbox'[d], Asking(r))
                        /\ Has(outbox'[d], Asking(r)) =>
                             d = Page[r] /\ Waiting(r)'
      BY DEF InOutbox
    <3>1. Once(outbox'[d], Asking(r))
      BY <1>3, <2>1, <2>2, <2>3 DEF Travels, InOutbox
    <3>2. ASSUME Has(outbox'[d], Asking(r)) PROVE d = Page[r] /\ Waiting(r)'
      <4>1. CASE r = q BY <1>1, <1>3, <2>1, <2>2, <3>2, <4>1 DEF Waiting
      <4>2. CASE r # q
        BY <1>3, <2>1, <2>3, <3>2, <4>2 DEF Travels, InOutbox
      <4> QED BY <4>1, <4>2
    <3> QED BY <3>1, <3>2
  <2>5. \A r \in Requests : r # q =>
          (Has(outbox'[Page[r]], Asking(r)) => Has(outbox[Page[r]], Asking(r)))
    BY <1>3, <2>1, <2>3, PageIs
  <2>6. InTransit' BY <1>1, <2>2, <2>3, <2>5 DEF Travels, InTransit, Carries
  <2>7. HeldBack' BY <1>1, <2>2, <2>3, <2>5 DEF Travels, HeldBack, Carries
  <2>8. Taken' BY <1>1 DEF Travels, Taken
  <2> QED BY <2>4, <2>6, <2>7, <2>8 DEF Travels
<1> QED BY <1>4, <1>5

\* A message taken from a queue leaves it with no more requests.
LEMMA TakenStays ==
  ASSUME TypeOK, Travels, NEW k \in Conns, up[k] # <<>>,
         up' = [up EXCEPT ![k] = Tail(@)]
  PROVE  /\ \A l \in Conns, r \in Requests :
              /\ Has(up'[l], Asking(r)) => Has(up[l], Asking(r))
              /\ Once(up'[l], Asking(r))
         /\ \A r \in Requests :
              Head(up[k]) = Asking(r) => ~Has(up'[k], Asking(r))
<1>1. up \in [Conns -> Seq(UpMessage)] BY DEF TypeOK, PortsTypeOK
<1>2. \A l \in Conns : up'[l] = IF l = k THEN Tail(up[k]) ELSE up[l] BY <1>1
<1>3. \A l \in Conns, r \in Requests : Once(up[l], Asking(r))
  BY DEF Travels, InTransit
<1> QED BY <1>1, <1>2, <1>3, HasTail

\* Nothing is taken from a queue.
LEMMA NothingTaken ==
  ASSUME Travels
  PROVE  /\ UNCHANGED up => \A k \in Conns, r \in Requests :
              /\ Has(up'[k], Asking(r)) => Has(up[k], Asking(r))
              /\ Once(up'[k], Asking(r))
         /\ UNCHANGED outbox => \A c \in Clients, r \in Requests :
              /\ Has(outbox'[c], Asking(r)) => Has(outbox[c], Asking(r))
              /\ Once(outbox'[c], Asking(r))
BY DEF Travels, InOutbox, InTransit

\* Hanging up takes nothing.
LEMMA HangUpTravels ==
  ASSUME TypeOK, Travels, NEW c \in Clients, HangUp(c)
  PROVE  \A k \in Conns, r \in Requests :
           /\ Has(up'[k], Asking(r)) => Has(up[k], Asking(r))
           /\ Once(up'[k], Asking(r))
<1> DEFINE k == servicePort[c]
<1>1. /\ up \in [Conns -> Seq(UpMessage)] /\ Disc \in UpMessage
      /\ k # 0 => k \in Conns
  BY DEF TypeOK, PortsTypeOK, ClientTypeOK, UpMessage, Conns
<1>2. \/ UNCHANGED up
      \/ k # 0 /\ up' = [up EXCEPT ![k] = Append(@, Disc)]
  BY DEF HangUp
<1>3. CASE k # 0 /\ up' = [up EXCEPT ![k] = Append(@, Disc)]
  <2>1. \A l \in Conns : up'[l] = IF l = k THEN Append(up[k], Disc) ELSE up[l]
    BY <1>1, <1>3
  <2>2. \A l \in Conns, r \in Requests : Once(up[l], Asking(r))
    BY DEF Travels, InTransit
  <2> QED BY <1>1, <1>3, <2>1, <2>2, HasAppend, AskingIs
<1> QED BY <1>2, <1>3, NothingTaken

\* The message a client takes from its page.
LEMMA OutboxTaken ==
  ASSUME TypeOK, Travels, NEW c \in Clients, outbox[c] # <<>>,
         outbox' = [outbox EXCEPT ![c] = Tail(@)]
  PROVE  /\ \A d \in Clients, r \in Requests :
              /\ Has(outbox'[d], Asking(r)) => Has(outbox[d], Asking(r))
              /\ Once(outbox'[d], Asking(r))
         /\ \A r \in Requests : Head(outbox[c]) = Asking(r) =>
              /\ Has(outbox[c], Asking(r)) /\ ~Has(outbox'[c], Asking(r))
<1>1. outbox \in [Clients -> Seq(Message)] BY DEF TypeOK, ClientTypeOK
<1>2. \A d \in Clients :
        outbox'[d] = IF d = c THEN Tail(outbox[c]) ELSE outbox[d]
  BY <1>1
<1>3. \A d \in Clients, r \in Requests : Once(outbox[d], Asking(r))
  BY DEF Travels, InOutbox
<1>4. \A r \in Requests :
        Head(outbox[c]) = Asking(r) => Has(outbox[c], Asking(r))
  BY <1>1 DEF Has
<1> QED BY <1>1, <1>2, <1>3, <1>4, HasTail

\* What a client forwards, if it is a request, is then on the connection, or
\* lost.
LEMMA ForwardTravels ==
  ASSUME TypeOK, Dialed, Travels, NEW c \in Clients, ForwardEvent(c),
         UNCHANGED <<managerVars, posted>>
  PROVE  Travels'
<1> DEFINE m == Head(outbox[c])
<1>t. /\ up \in [Conns -> Seq(UpMessage)] /\ outbox[c] \in Seq(Message)
      /\ dialer \in [Conns -> Clients \cup {NoClient}]
      /\ servicePort[c] \in 0 .. MaxConns
  BY DEF TypeOK, PortsTypeOK, ClientTypeOK
<1>u. UNCHANGED <<life, owner, held, posted>> BY DEF managerVars
<1>m. m \in Message /\ m.type # "false" /\ m \in UpMessage
  BY <1>t DEF ForwardEvent, Message, UpMessage
<1>1. /\ \A d \in Clients, r \in Requests :
           /\ Has(outbox'[d], Asking(r)) => Has(outbox[d], Asking(r))
           /\ Once(outbox'[d], Asking(r))
      /\ \A r \in Requests : m = Asking(r) =>
           /\ Has(outbox[c], Asking(r)) /\ ~Has(outbox'[c], Asking(r))
  BY OutboxTaken DEF ForwardEvent
<1> HIDE DEF m
<1>2. CASE UNCHANGED <<up, dialer>>
  BY <1>1, <1>2, <1>u, TravelsStays, NothingTaken
<1>3. ASSUME NEW k \in Conns,
             \/ dialer[k] = c /\ UNCHANGED dialer /\ up'[k] = Append(up[k], m)
             \/ /\ dialer[k] = NoClient /\ dialer' = [dialer EXCEPT ![k] = c]
                /\ up'[k] = <<m>>,
             \A l \in Conns : l # k => up'[l] = up[l]
      PROVE  Travels'
  <2>1. \A l \in Conns : \A e :
          /\ Has(up'[l], e) => Has(up[l], e) \/ (l = k /\ m = e)
          /\ Once(up[l], e) /\ (l = k /\ m = e => ~Has(up[l], e))
               => Once(up'[l], e)
    <3>1. CASE up'[k] = Append(up[k], m)
      <4>1. \A e : /\ Has(up'[k], e) <=> Has(up[k], e) \/ m = e
                   /\ Once(up[k], e) /\ (m = e => ~Has(up[k], e))
                        => Once(up'[k], e)
        BY <1>t, <1>m, <3>1, HasAppend
      <4> QED BY <1>3, <4>1
    <3>2. CASE up'[k] = <<m>>
      <4>1. \A e : (Has(<<m>>, e) => m = e) /\ Once(<<m>>, e)
        BY DEF Has, Once
      <4> QED BY <1>3, <3>2, <4>1
    <3> QED BY <1>3, <3>1, <3>2
  <2>2. \A l \in Conns : /\ dialer[l] # NoClient => dialer'[l] = dialer[l]
                         /\ dialer'[k] = c
    BY <1>t, <1>3
  <2>3. CASE \E r \in Requests : m = Asking(r)
    <3>1. PICK q \in Requests : m = Asking(q) BY <2>3
    <3>2. /\ c = Page[q] /\ Waiting(q) /\ ~Has(outbox'[c], Asking(q))
          /\ Waiting(q)'
          /\ \A l \in Conns : ~Has(up[l], Asking(q)) /\ Asking(q) \notin held[l]
      BY <1>1, <1>u, <3>1
         DEF Travels, InOutbox, InTransit, HeldBack, Carries, Waiting
    <3>3. \A r \in Requests : /\ Waiting(r) => Waiting(r)'
                              /\ Asking(r) = Asking(q) => r = q
      BY <1>u, AskingIs DEF Waiting
    <3>4. InOutbox' BY <1>1, <3>3 DEF Travels, InOutbox
    <3>5. InTransit'
      <4> SUFFICES ASSUME NEW l \in Conns, NEW r \in Requests
                   PROVE  /\ Once(up'[l], Asking(r))
                          /\ Has(up'[l], Asking(r)) =>
                               /\ dialer'[l] = Page[r] /\ Waiting(r)'
                               /\ ~Has(outbox'[Page[r]], Asking(r))
                               /\ \A j \in Conns :
                                    Has(up'[j], Asking(r)) => j = l
        BY DEF InTransit, Carries
      <4>1. CASE r = q
        BY <2>1, <2>2, <3>1, <3>2, <3>3, <4>1 DEF Travels, InTransit
      <4>2. CASE r # q
        <5>1. \A j \in Conns :
                /\ Has(up'[j], Asking(r)) => Has(up[j], Asking(r))
                /\ Once(up'[j], Asking(r))
          BY <2>1, <3>1, <3>3, <4>2 DEF Travels, InTransit
        <5> QED BY <1>1, <2>2, <3>3, <5>1, PageIs
                DEF Travels, InTransit, Carries
      <4> QED BY <4>1, <4>2
    <3>6. HeldBack'
      <4>1. \A r \in Requests, l \in Conns : r # q =>
              (Has(up'[l], Asking(r)) => Has(up[l], Asking(r)))
        BY <2>1, <3>1, <3>3
      <4> QED BY <1>1, <1>u, <2>2, <3>2, <3>3, <4>1, PageIs
              DEF Travels, HeldBack, Carries
    <3>7. Taken' BY <1>u, <2>2, PageIs DEF Travels, Taken
    <3> QED BY <3>4, <3>5, <3>6, <3>7 DEF Travels
  <2>4. CASE ~ \E r \in Requests : m = Asking(r)
    <3>1. \A l \in Conns, r \in Requests :
            /\ Has(up'[l], Asking(r)) => Has(up[l], Asking(r))
            /\ Once(up'[l], Asking(r))
      BY <2>1, <2>4 DEF Travels, InTransit
    <3> QED BY <1>1, <1>u, <2>2, <3>1, TravelsStays
  <2> QED BY <2>3, <2>4
<1>4. CASE servicePort[c] # 0
  <2> DEFINE k == servicePort[c]
  <2>1. k \in Conns /\ dialer[k] = c BY <1>t, <1>4 DEF Conns, Dialed
  <2>2. /\ up' = (IF sEnd[k] = "closed" THEN up
                  ELSE [up EXCEPT ![k] = Append(@, m)])
        /\ UNCHANGED dialer
    BY <1>4 DEF ForwardEvent, m
  <2> HIDE DEF k
  <2> QED BY <1>2, <1>3, <1>t, <2>1, <2>2
<1>5. CASE servicePort[c] = 0
  <2>1. Dial(c, <<m>>) BY <1>5 DEF ForwardEvent, m
  <2>2. PICK k \in Conns : /\ IsNext(k)
                           /\ dialer' = [dialer EXCEPT ![k] = c]
                           /\ up' = [up EXCEPT ![k] = <<m>>]
    BY <2>1 DEF Dial
  <2> QED BY <1>3, <1>t, <2>2 DEF IsNext
<1> QED BY <1>4, <1>5

\* A step of a client.
LEMMA ClientTravels ==
  ASSUME TypeOK, Dialed, Travels, ClientNext, UNCHANGED <<managerVars, posted>>
  PROVE  Travels'
<1>u. UNCHANGED <<life, owner, held, posted>> BY DEF managerVars
<1>s. ASSUME UNCHANGED dialer, UNCHANGED up, UNCHANGED outbox PROVE Travels'
  BY <1>s, <1>u, NothingTaken, TravelsStays
<1>1. ASSUME NEW c \in Clients, Construct(c) PROVE Travels'
  <2>1. PICK k \in Conns : /\ IsNext(k)
                           /\ dialer' = [dialer EXCEPT ![k] = c]
                           /\ up' = [up EXCEPT ![k] = <<>>]
    BY <1>1 DEF Construct, Dial
  <2>2. \A l \in Conns : /\ dialer[l] # NoClient => dialer'[l] = dialer[l]
                         /\ up'[l] = IF l = k THEN <<>> ELSE up[l]
    BY <2>1 DEF IsNext, TypeOK, PortsTypeOK
  <2>3. \A e : ~Has(<<>>, e) /\ Once(<<>>, e) BY DEF Has, Once
  <2>4. \A l \in Conns, r \in Requests :
          /\ Has(up'[l], Asking(r)) => Has(up[l], Asking(r))
          /\ Once(up'[l], Asking(r))
    BY <2>2, <2>3 DEF Travels, InTransit
  <2>5. UNCHANGED outbox BY <1>1 DEF Construct
  <2> QED BY <1>u, <2>2, <2>4, <2>5, NothingTaken, TravelsStays
<1>2. ASSUME NEW c \in Clients, ForwardEvent(c) PROVE Travels'
  BY <1>2, ForwardTravels
<1>3. ASSUME NEW c \in Clients, ContextLost(c) PROVE Travels'
  BY <1>3, <1>u, OutboxTaken, NothingTaken, TravelsStays
     DEF ContextLost, portVars
<1>4. ASSUME NEW c \in Clients, PageClosed(c) PROVE Travels'
  BY <1>4, <1>u, OutboxTaken, HangUpTravels, TravelsStays
     DEF PageClosed, Close
<1>5. ASSUME NEW c \in Clients, End(c) \/ Destroyed(c) PROVE Travels'
  BY <1>5, <1>u, NothingTaken, HangUpTravels, TravelsStays
     DEF End, Close, Destroyed
<1>6. ASSUME NEW c \in Clients, ServiceListener(c) \/ OnClientDisconnect(c)
      PROVE  Travels'
  BY <1>6, <1>s DEF ServiceListener, OnClientDisconnect
<1>7. ASSUME NEW r \in Requests, SourceClosed(r) \/ SourceCanceled(r)
      PROVE  Travels'
  BY <1>7, <1>s DEF SourceClosed, SourceCanceled, clientVars
<1> QED BY <1>1, <1>2, <1>3, <1>4, <1>5, <1>6, <1>7 DEF ClientNext

\* Canceled requests have been taken up.
LEMMA CancelTravels ==
  ASSUME NEW R, Cancel(R)
  PROVE  \A r \in Requests : life'[r] = "none" <=> life[r] = "none"
BY DEF Cancel, Ending, Aborting

\* A request arrives and is held back, or taken up.
LEMMA MessageTravels ==
  ASSUME IInv, Travels, NEW k \in Conns, OnMessage(k),
         UNCHANGED <<clientVars, posted>>
  PROVE  Travels'
<1> DEFINE m == Head(up[k])
<1>t. /\ up \in [Conns -> Seq(UpMessage)] /\ TypeOK
      /\ held \in [Conns -> SUBSET [type : {"request", "abort"}, id : Requests]]
      /\ life \in [Requests -> Lives] /\ owner \in [Requests -> 0 .. MaxConns]
  BY DEF IInv, TypeOK, PortsTypeOK, ManagerTypeOK
<1>u. /\ UNCHANGED <<dialer, posted, outbox>> /\ up[k] # <<>> /\ m # Disc
      /\ up' = [up EXCEPT ![k] = Tail(@)]
  BY DEF OnMessage, clientVars
<1>m. m \in UpEvent /\ Has(up[k], m)
  <2>1. m \in UpMessage /\ Has(up[k], m) BY <1>t, <1>u DEF Has
  <2> QED BY <1>u, <2>1, DiscIsNone
<1>1. /\ \A l \in Conns, r \in Requests :
           /\ Has(up'[l], Asking(r)) => Has(up[l], Asking(r))
           /\ Once(up'[l], Asking(r))
      /\ \A r \in Requests : m = Asking(r) => ~Has(up'[k], Asking(r))
  BY <1>t, <1>u, TakenStays
<1>2. \A q \in Requests : m = Asking(q) =>
        /\ dialer[k] = Page[q] /\ Waiting(q)
        /\ ~Has(outbox[Page[q]], Asking(q))
        /\ \A l \in Conns : ~Has(up'[l], Asking(q)) /\ Asking(q) \notin held[l]
  BY <1>m, <1>1 DEF Travels, InTransit, HeldBack, Carries
<1>3. CASE held' = [held EXCEPT ![k] = @ \cup {m}] /\ UNCHANGED <<life, owner>>
  <2>1. \A l \in Conns, r \in Requests :
          Asking(r) \in held'[l] => \/ Asking(r) \in held[l]
                                    \/ l = k /\ m = Asking(r)
    BY <1>t, <1>3
  <2>2. CASE ~ \E r \in Requests : m = Asking(r)
    BY <1>t, <1>u, <1>1, <1>3, <2>1, <2>2, NothingTaken, TravelsStays
  <2>3. CASE \E r \in Requests : m = Asking(r)
    <3>1. PICK q \in Requests : m = Asking(q) BY <2>3
    <3>2. \A r \in Requests : /\ Waiting(r) <=> Waiting(r)'
                              /\ Asking(r) = Asking(q) => r = q
      BY <1>3, <1>u, AskingIs DEF Waiting
    <3>3. InOutbox' BY <1>u, <3>2 DEF Travels, InOutbox
    <3>4. InTransit' BY <1>u, <1>1, <3>2 DEF Travels, InTransit, Carries
    <3>5. HeldBack'
      <4> SUFFICES ASSUME NEW j \in Conns, NEW r \in Requests,
                          Asking(r) \in held'[j]
                   PROVE  /\ dialer[j] = Page[r] /\ Waiting(r)
                          /\ ~Has(outbox[Page[r]], Asking(r))
                          /\ \A l \in Conns :
                               /\ ~Has(up'[l], Asking(r))
                               /\ Asking(r) \in held'[l] => l = j
        BY <1>u, <3>2 DEF HeldBack, Carries
      <4>1. CASE r = q BY <1>2, <2>1, <3>1, <4>1
      <4>2. CASE r # q
        BY <1>1, <2>1, <3>1, <3>2, <4>2 DEF Travels, HeldBack, Carries
      <4> QED BY <4>1, <4>2
    <3>6. Taken' BY <1>3, <1>u DEF Travels, Taken
    <3> QED BY <3>3, <3>4, <3>5, <3>6 DEF Travels
  <2> QED BY <2>2, <2>3
<1>4. CASE Handle(k, m) /\ m.type = "request" /\ UNCHANGED held
  <2>1. PICK q \in Requests : m = Asking(q)
    BY <1>m, <1>4 DEF UpEvent, Asking
  <2>2. /\ life' = [life EXCEPT ![q] = "handling"]
        /\ owner' = [owner EXCEPT ![q] = k]
    BY <1>4, <2>1 DEF Handle, Asking
  <2>3. \A r \in Requests : r # q => /\ life'[r] = life[r]
                                     /\ owner'[r] = owner[r]
                                     /\ Waiting(r) <=> Waiting(r)'
    BY <1>t, <1>u, <2>2 DEF Waiting
  <2>4. \A l \in Conns : /\ ~Has(up'[l], Asking(q)) /\ Asking(q) \notin held[l]
                         /\ \A d \in Clients : ~Has(outbox[d], Asking(q))
    BY <1>2, <2>1 DEF Travels, InOutbox
  <2>5. InOutbox' BY <1>u, <2>3, <2>4 DEF Travels, InOutbox
  <2>6. InTransit' BY <1>u, <1>1, <2>3, <2>4 DEF Travels, InTransit, Carries
  <2>7. HeldBack' BY <1>u, <1>1, <1>4, <2>3, <2>4
                  DEF Travels, HeldBack, Carries
  <2>8. Taken'
    <3>1. /\ Asking(q) \in posted /\ dialer[k] = Page[q]
          /\ life'[q] = "handling" /\ owner'[q] = k
      BY <1>t, <1>2, <2>1, <2>2 DEF Waiting
    <3> QED BY <1>u, <2>3, <3>1 DEF Travels, Taken
  <2> QED BY <2>5, <2>6, <2>7, <2>8 DEF Travels
<1>5. CASE Handle(k, m) /\ m.type # "request" /\ UNCHANGED held
  <2> DEFINE R == MapOf(k) \cap {m.id}
  <2>1. Cancel(R) /\ UNCHANGED owner BY <1>5 DEF Handle
  <2> HIDE DEF R
  <2> QED BY <1>t, <1>u, <1>1, <1>5, <2>1, CancelTravels, NothingTaken,
             TravelsStays
<1>6. \/ held' = [held EXCEPT ![k] = @ \cup {m}] /\ UNCHANGED <<life, owner>>
      \/ Handle(k, m) /\ UNCHANGED held
  BY DEF OnMessage
<1> QED BY <1>3, <1>4, <1>5, <1>6

\* What was held back is taken up.
LEMMA ValidatedTravels ==
  ASSUME TypeOK, Travels, NEW k \in Conns, Validated(k),
         UNCHANGED <<clientVars, posted>>
  PROVE  Travels'
<1> DEFINE Q == {r \in Requests : Asking(r) \in held[k]}
<1>t. held \in [Conns -> SUBSET [type : {"request", "abort"}, id : Requests]]
  BY DEF TypeOK, ManagerTypeOK
<1>1. /\ UNCHANGED <<dialer, posted, outbox, up>>
      /\ held' = [held EXCEPT ![k] = {}]
      /\ life' = [r \in Requests |-> IF r \in Q THEN "handling" ELSE life[r]]
      /\ owner' = [r \in Requests |-> IF r \in Q THEN k ELSE owner[r]]
  BY DEF Validated, clientVars, portVars, Asking
<1>2. \A r \in Q : /\ dialer[k] = Page[r] /\ Asking(r) \in posted
                   /\ \A c \in Clients : ~Has(outbox[c], Asking(r))
                   /\ \A l \in Conns : /\ ~Carries(l, r)
                                       /\ Asking(r) \notin held'[l]
  BY <1>t, <1>1 DEF Travels, InOutbox, HeldBack, Waiting
<1>3. \A r \in Requests \ Q : /\ Waiting(r) <=> Waiting(r)'
                              /\ life'[r] = life[r] /\ owner'[r] = owner[r]
  BY <1>1 DEF Waiting
<1>h. \A l \in Conns : held'[l] \subseteq held[l] BY <1>t, <1>1
<1> HIDE DEF Q
<1>4. InOutbox' BY <1>1, <1>2, <1>3 DEF Travels, InOutbox
<1>5. InTransit' BY <1>1, <1>2, <1>3 DEF Travels, InTransit, Carries
<1>6. HeldBack' BY <1>1, <1>2, <1>3, <1>h DEF Travels, HeldBack, Carries
<1>7. Taken' BY <1>1, <1>2, <1>3 DEF Travels, Taken
<1> QED BY <1>4, <1>5, <1>6, <1>7 DEF Travels

\* A step of the manager.
LEMMA ManagerTravels ==
  ASSUME IInv, Travels, ManagerNext, UNCHANGED <<clientVars, posted>>
  PROVE  Travels'
<1>t. /\ TypeOK
      /\ held \in [Conns -> SUBSET [type : {"request", "abort"}, id : Requests]]
      /\ life \in [Requests -> Lives]
  BY DEF IInv, TypeOK, ManagerTypeOK
<1>u. UNCHANGED <<outbox, posted>> BY DEF clientVars
<1>s. ASSUME UNCHANGED <<dialer, up, owner>>,
             \A k \in Conns : held'[k] \subseteq held[k],
             \A r \in Requests : life'[r] = "none" <=> life[r] = "none"
      PROVE  Travels'
  BY <1>t, <1>u, <1>s, NothingTaken, TravelsStays
<1>1. ASSUME NEW k \in Conns, OnConnect(k) PROVE Travels'
  BY <1>1, <1>s DEF OnConnect
<1>2. ASSUME NEW k \in Conns, OnMessage(k) PROVE Travels'
  BY <1>2, MessageTravels
<1>3. ASSUME NEW k \in Conns, OnDisconnect(k) PROVE Travels'
  <2>1. /\ up[k] # <<>> /\ up' = [up EXCEPT ![k] = Tail(@)]
        /\ UNCHANGED <<dialer, owner, held>>
        /\ Cancel(UNION {MapOf(j) : j \in {k}})
    BY <1>3 DEF OnDisconnect, AbortSessions
  <2> QED BY <1>t, <1>u, <2>1, CancelTravels, TakenStays, NothingTaken,
             TravelsStays
<1>4. ASSUME NEW k \in Conns, Validated(k) PROVE Travels'
  BY <1>t, <1>4, ValidatedTravels
<1>5. ASSUME NEW k \in Conns, ValidationFailed(k) PROVE Travels'
  <2>1. /\ held' = [held EXCEPT ![k] = {}] /\ UNCHANGED <<dialer, up, owner>>
        /\ UNCHANGED life \/ Cancel(UNION {MapOf(j) : j \in {k}})
    BY <1>5 DEF ValidationFailed, AbortSessions
  <2> QED BY <1>t, <1>s, <2>1, CancelTravels
<1>6. ASSUME NEW o, KillOrigin(o) PROVE Travels'
  <2>1. PICK R : Cancel(R) BY <1>6 DEF KillOrigin
  <2> QED BY <1>6, <1>s, <2>1, CancelTravels DEF KillOrigin
<1>7. ASSUME NEW r \in Requests,
             \/ HandlerReturns(r) \/ HandlerStreams(r) \/ HandlerThrows(r)
             \/ OnSubConnect(r) \/ SubValidated(r) \/ SubInvalid(r)
             \/ ResponseEnds(r) \/ OnSubDisconnect(r) \/ PipeBroken(r)
             \/ SinkTimeout(r)
      PROVE  Travels'
  <2>1. /\ UNCHANGED <<dialer, up, owner, held>>
        /\ \/ UNCHANGED life
           \/ /\ life[r] # "none"
              /\ \E v \in Lives \ {"none"} : life' = [life EXCEPT ![r] = v]
    BY <1>7 DEF HandlerReturns, HandlerStreams, HandlerThrows, OnSubConnect,
       SubValidated, SubInvalid, ResponseEnds, OnSubDisconnect, PipeBroken,
       SinkTimeout, Fail, Done, Lives, portVars
  <2> QED BY <1>t, <1>s, <2>1
<1>8. CASE WorkerKilled
  <2>1. /\ UNCHANGED <<dialer, up, owner>>
        /\ held' = [k \in Conns |-> {}]
        /\ life' = [r \in Requests |-> IF Live(r) THEN "done" ELSE life[r]]
    BY <1>8 DEF WorkerKilled
  <2> QED BY <1>s, <2>1 DEF Live
<1> QED BY <1>1, <1>2, <1>3, <1>4, <1>5, <1>6, <1>7, <1>8 DEF ManagerNext
-----------------------------------------------------------------------------
(* What is told of a request. *)

\* A client has dialed the connection it holds.
LEMMA DialedStep ==
  ASSUME IInv, Dialed, [Next]_vars PROVE Dialed'
<1>t. /\ dialer \in [Conns -> Clients \cup {NoClient}]
      /\ cEnd \in [Conns -> {"none", "open", "closed"}]
      /\ servicePort \in [Clients -> 0 .. MaxConns] /\ closed \subseteq Clients
      /\ \A c \in Clients : servicePort[c] # 0 => servicePort[c] \in Conns
  BY DEF IInv, TypeOK, PortsTypeOK, ClientTypeOK, Conns
<1>s. ASSUME UNCHANGED <<dialer, servicePort, closed, constructed, cEnd>>
      PROVE  Dialed'
  BY <1>s DEF Dialed
<1>d. ASSUME NEW c \in Clients, NEW ms, Dial(c, ms), c \notin closed,
             UNCHANGED closed, constructed \subseteq constructed'
      PROVE  Dialed'
  <2>1. PICK k \in Conns : /\ IsNext(k)
                           /\ dialer' = [dialer EXCEPT ![k] = c]
                           /\ cEnd' = [cEnd EXCEPT ![k] = "open"]
                           /\ servicePort' = [servicePort EXCEPT ![c] = k]
    BY <1>d DEF Dial
  <2>2. \A e \in Clients : servicePort[e] # 0 => servicePort[e] # k
    BY <2>1, NoClientAssumption DEF IsNext, Dialed
  <2>3. k # 0 BY DEF Conns
  <2> QED BY <1>t, <1>d, <2>1, <2>2, <2>3 DEF Dialed
<1>h. ASSUME NEW c \in Clients, HangUp(c), c \in constructed,
             closed' = closed \cup {c},
             UNCHANGED <<dialer, servicePort, constructed>>
      PROVE  Dialed'
  <2>1. \A k \in Conns : cEnd'[k] = "open" => cEnd[k] = "open"
    BY <1>t, <1>h DEF HangUp
  <2>2. servicePort[c] # 0 => cEnd'[servicePort[c]] # "open"
    BY <1>t, <1>h DEF HangUp
  <2> QED BY <1>t, <1>h, <2>1, <2>2 DEF Dialed
<1>1. ASSUME NEW c \in Clients, NEW m \in Message, PagePosts(c, m)
      PROVE  Dialed'
  BY <1>1, <1>s DEF PagePosts, portVars
<1>2. ASSUME NEW c \in Clients, Construct(c) PROVE Dialed'
  BY <1>2, <1>d DEF Construct, Dialed
<1>3. ASSUME NEW c \in Clients, ForwardEvent(c) PROVE Dialed'
  <2>1. CASE servicePort[c] # 0 BY <1>3, <1>s, <2>1 DEF ForwardEvent
  <2>2. CASE servicePort[c] = 0
    BY <1>3, <1>d, <2>2 DEF ForwardEvent, Running
  <2> QED BY <2>1, <2>2
<1>4. ASSUME NEW c \in Clients, ContextLost(c) PROVE Dialed'
  BY <1>t, <1>4 DEF ContextLost, Running, Dialed, portVars
<1>5. ASSUME NEW c \in Clients, PageClosed(c) \/ End(c) \/ Destroyed(c)
      PROVE  Dialed'
  BY <1>5, <1>h DEF PageClosed, End, Destroyed, Close, Running
<1>6. ASSUME NEW c \in Clients, ServiceListener(c) PROVE Dialed'
  BY <1>6, <1>s DEF ServiceListener
<1>7. ASSUME NEW c \in Clients, OnClientDisconnect(c) PROVE Dialed'
  <2> DEFINE k == servicePort[c]
  <2>1. k # 0 /\ k \in Conns /\ cEnd' = [cEnd EXCEPT ![k] = "closed"]
        /\ UNCHANGED <<dialer, constructed>>
    BY <1>t, <1>7 DEF OnClientDisconnect
  <2>2. \A d \in Clients : servicePort[d] # 0 =>
          /\ cEnd'[servicePort[d]] = "open" => cEnd[servicePort[d]] = "open"
          /\ d = c => cEnd'[servicePort[d]] # "open"
    BY <1>t, <2>1
  <2>3. CASE c \in active
    BY <1>t, <1>7, <2>1, <2>2, <2>3 DEF OnClientDisconnect, Dialed
  <2>4. CASE c \notin active
    <3>1. UNCHANGED servicePort /\ closed' = closed \cup {c}
      BY <1>7, <2>4 DEF OnClientDisconnect
    <3>2. c \in constructed BY <2>1 DEF IInv, OneDialed
    <3> QED BY <1>t, <2>1, <2>2, <3>1, <3>2 DEF Dialed
  <2> QED BY <2>3, <2>4
<1>8. ASSUME NEW r \in Requests, SourceClosed(r) \/ SourceCanceled(r)
      PROVE  Dialed'
  BY <1>8, <1>s DEF SourceClosed, SourceCanceled, clientVars
<1>9. CASE ManagerNext /\ UNCHANGED <<clientVars, posted>>
  <2>1. UNCHANGED <<dialer, cEnd>>
    BY <1>9 DEF ManagerNext, OnConnect, OnMessage, OnDisconnect, Validated,
       ValidationFailed, KillOrigin, HandlerReturns, HandlerStreams,
       HandlerThrows, OnSubConnect, SubValidated, SubInvalid, ResponseEnds,
       OnSubDisconnect, PipeBroken, SinkTimeout, WorkerKilled, portVars
  <2> QED BY <1>9, <1>s, <2>1 DEF clientVars
<1>10. CASE UNCHANGED vars BY <1>10, <1>s DEF vars, portVars, clientVars
<1> QED BY <1>1, <1>2, <1>3, <1>4, <1>5, <1>6, <1>7, <1>8, <1>9, <1>10
        DEF Next, ClientNext

\* Nothing is told, or dropped, of any request but a disconnect.
LEMMA ToldStays ==
  ASSUME Told, UNCHANGED inbox,
         \A r \in Requests : Answering(r) =>
           /\ Answering(r)' /\ owner'[r] = owner[r]
           /\ life[r] = "done" => life'[r] = "done",
         down \in [Conns -> Seq(DownMessage)],
         inbox \in [Clients -> Seq(Event)],
         \A k \in Conns : \A i \in DOMAIN down'[k] : down'[k][i] # Disc =>
           i \in DOMAIN down[k] /\ down'[k][i] = down[k][i]
  PROVE  Told'
<1>1. \A k \in Conns : \A i \in DOMAIN down[k] : down[k][i] # Disc =>
        down[k][i].id \in Requests
  BY DEF DownMessage
<1>2. \A c \in Clients : \A i \in DOMAIN inbox[c] :
        inbox[c][i].type # "fault" => inbox[c][i].id \in Requests
  BY DEF Event
<1>3. ToldOnWire' BY <1>1 DEF Told, ToldOnWire
<1>4. ToldPage' BY <1>2 DEF Told, ToldPage
<1>5. WireOrdered' BY DEF Told, WireOrdered
<1>6. PageOrdered' BY DEF Told, PageOrdered
<1> QED BY <1>3, <1>4, <1>5, <1>6 DEF Told

\* An answer is posted: the first to a request, or the failure of its stream.
LEMMA ToldMore ==
  ASSUME IInv, Told, Taken, NEW r \in Requests, Live(r), UNCHANGED inbox,
         NEW m \in Response, m.id = r, PostDown(owner[r], <<m>>),
         life[r] # "handling" => m.type = "error",
         life'[r] = (IF m.type = "channel" THEN "offering" ELSE "done"),
         \A q \in Requests : q # r => life'[q] = life[q],
         UNCHANGED owner
  PROVE  Told'
<1> DEFINE k == owner[r]
<1>t. /\ life \in [Requests -> Lives] /\ down \in [Conns -> Seq(DownMessage)]
      /\ inbox \in [Clients -> Seq(Event)] /\ k \in Conns /\ m # Disc
      /\ life[r] \notin {"none", "done"}
  <2>1. k \in Conns BY DEF Live, Taken
  <2>2. m # Disc BY DiscIsNone
  <2> QED BY <2>1, <2>2
          DEF IInv, TypeOK, PortsTypeOK, ClientTypeOK, ManagerTypeOK, Live
<1>1. /\ \A q \in Requests : q # r => life'[q] = life[q]
      /\ life'[r] = IF m.type = "channel" THEN "offering" ELSE "done"
  OBVIOUS
<1>2. \A q \in Requests : Answering(q) =>
        /\ Answering(q)' /\ (life[q] = "done" => life'[q] = "done")
  BY <1>t, <1>1 DEF Answering
<1>3. CASE sEnd[k] # "open"
  <2>1. UNCHANGED down BY <1>3 DEF PostDown
  <2> QED BY <1>t, <1>2, <2>1, ToldStays
<1>4. CASE sEnd[k] = "open"
  <2> DEFINE n == Len(down[k]) + 1
  <2>0. /\ down[k] \in Seq(DownMessage) /\ m \in DownMessage
        /\ Len(down[k]) \in Nat /\ DOMAIN down[k] = 1 .. Len(down[k])
    BY <1>t, DiscIsNone
  <2>1. /\ down' = [down EXCEPT ![k] = @ \o <<m>>]
        /\ DOMAIN down'[k] = 1 .. n /\ n \in Nat
        /\ down'[k][n] = m
        /\ \A i \in 1 .. n : i # n => i \in DOMAIN down[k]
                                       /\ down'[k][i] = down[k][i]
        /\ \A l \in Conns : l # k => down'[l] = down[l]
    BY <1>t, <1>4, <2>0 DEF PostDown
  <2> HIDE DEF n
  <2>2. \A l \in Conns : \A i \in DOMAIN down'[l] : down'[l][i] # Disc =>
          \/ i \in DOMAIN down[l] /\ down'[l][i] = down[l][i]
             /\ ~(l = k /\ i = n)
          \/ l = k /\ i = n /\ down'[l][i] = m
    BY <1>t, <2>1, <2>0
  <2>3. \A l \in Conns : \A i \in DOMAIN down[l] : down[l][i] # Disc =>
          down[l][i].id \in Requests
    BY <1>t DEF DownMessage
  <2>4. \A c \in Clients : \A i \in DOMAIN inbox[c] :
          inbox[c][i].type # "fault" => inbox[c][i].id \in Requests
    BY <1>t DEF Event
  <2>5. Answering(r)' BY <1>1 DEF Answering
  <2>6. ToldOnWire'
    <3>1. ASSUME NEW l \in Conns, NEW i \in DOMAIN down'[l],
                 down'[l][i] # Disc
          PROVE  /\ life'[down'[l][i].id] \notin {"none", "handling"}
                 /\ owner'[down'[l][i].id] = l
                 /\ down'[l][i].type # "channel" =>
                      life'[down'[l][i].id] = "done"
      <4>1. CASE l = k /\ i = n BY <1>1, <2>1, <4>1
      <4>2. CASE ~(l = k /\ i = n)
        BY <1>2, <2>2, <2>3, <3>1, <4>2 DEF Told, ToldOnWire, Answering
      <4> QED BY <4>1, <4>2
    <3> QED BY <3>1 DEF ToldOnWire, Answering
  <2>7. ToldPage' BY <1>2, <2>4 DEF Told, ToldPage
  \* What was told of the request before is a stream, and what follows it
  \* is the failure.
  <2>8. \A i \in DOMAIN down[k] :
          down[k][i] # Disc /\ down[k][i].id = r =>
            down[k][i].type = "channel" /\ m.type = "error"
    BY <1>t DEF Told, ToldOnWire, Answering
  <2>9. WireOrdered'
    <3> SUFFICES ASSUME NEW l \in Conns,
                        NEW i \in DOMAIN down'[l], NEW j \in DOMAIN down'[l],
                        i < j, down'[l][i] # Disc, down'[l][j] # Disc,
                        down'[l][i].id = down'[l][j].id
                 PROVE  down'[l][i].type = "channel"
                        /\ down'[l][j].type = "error"
      BY DEF WireOrdered
    <3>1. ~(l = k /\ i = n) BY <2>1
    <3>2. i \in DOMAIN down[l] /\ down'[l][i] = down[l][i] BY <2>2, <3>1
    <3>3. CASE l = k /\ j = n BY <2>1, <2>8, <3>2, <3>3
    <3>4. CASE ~(l = k /\ j = n)
      BY <2>2, <3>2, <3>4 DEF Told, WireOrdered
    <3> QED BY <3>3, <3>4
  <2>10. PageOrdered'
    <3> SUFFICES ASSUME NEW c \in Clients, NEW l \in Conns,
                        NEW i \in DOMAIN inbox[c], NEW j \in DOMAIN down'[l],
                        inbox[c][i].type # "fault", down'[l][j] # Disc,
                        inbox[c][i].id = down'[l][j].id
                 PROVE  inbox[c][i].type = "stream"
                        /\ down'[l][j].type = "error"
      BY DEF PageOrdered
    <3>1. CASE l = k /\ j = n
      BY <1>t, <2>1, <3>1 DEF Told, ToldPage, Answering
    <3>2. CASE ~(l = k /\ j = n) BY <2>2, <3>2 DEF Told, PageOrdered
    <3> QED BY <3>1, <3>2
  <2> QED BY <2>6, <2>7, <2>9, <2>10 DEF Told
<1> QED BY <1>3, <1>4

\* A page is told of a fault, if of anything, and at most the head of one queue
\* is dropped.
LEMMA ToldLess ==
  ASSUME Told, UNCHANGED <<life, owner>>, NEW k \in Conns,
         down \in [Conns -> Seq(DownMessage)],
         \/ UNCHANGED down
         \/ down[k] # <<>> /\ down' = [down EXCEPT ![k] = Tail(@)],
         \A c \in Clients : \A i \in DOMAIN inbox'[c] :
           inbox'[c][i].type # "fault" =>
             i \in DOMAIN inbox[c] /\ inbox'[c][i] = inbox[c][i]
  PROVE  Told'
<1>1. \A l \in Conns : \E n \in {0, 1} : \A i \in DOMAIN down'[l] :
        /\ i \in Nat /\ i + n \in DOMAIN down[l]
        /\ down'[l][i] = down[l][i + n]
  <2> SUFFICES ASSUME NEW l \in Conns
               PROVE  \E n \in {0, 1} : \A i \in DOMAIN down'[l] :
                        /\ i \in Nat /\ i + n \in DOMAIN down[l]
                        /\ down'[l][i] = down[l][i + n]
    OBVIOUS
  <2>1. down[l] \in Seq(DownMessage) OBVIOUS
  <2>2. CASE down'[l] = down[l]
    <3>1. \A i \in DOMAIN down'[l] : /\ i \in Nat /\ i + 0 \in DOMAIN down[l]
                                     /\ down'[l][i] = down[l][i + 0]
      BY <2>1, <2>2
    <3> QED BY <3>1
  <2>3. CASE down[l] # <<>> /\ down'[l] = Tail(down[l])
    <3>1. \A i \in DOMAIN down'[l] : /\ i \in Nat /\ i + 1 \in DOMAIN down[l]
                                     /\ down'[l][i] = down[l][i + 1]
      BY <2>1, <2>3
    <3> QED BY <3>1
  <2> QED BY <2>2, <2>3
<1>2. ToldOnWire' BY <1>1 DEF Told, ToldOnWire, Answering
<1>3. ToldPage' BY DEF Told, ToldPage, Answering
<1>4. WireOrdered'
  <2> SUFFICES ASSUME NEW l \in Conns,
                      NEW i \in DOMAIN down'[l], NEW j \in DOMAIN down'[l],
                      i < j, down'[l][i] # Disc, down'[l][j] # Disc,
                      down'[l][i].id = down'[l][j].id
               PROVE  down'[l][i].type = "channel"
                      /\ down'[l][j].type = "error"
    BY DEF WireOrdered
  <2>1. PICK n \in {0, 1} :
          /\ i \in Nat /\ j \in Nat
          /\ i + n \in DOMAIN down[l] /\ j + n \in DOMAIN down[l]
          /\ down'[l][i] = down[l][i + n] /\ down'[l][j] = down[l][j + n]
    BY <1>1
  <2>2. \E a, b \in DOMAIN down[l] :
          a < b /\ down'[l][i] = down[l][a] /\ down'[l][j] = down[l][b]
    <3>1. i + n < j + n BY <2>1
    <3> QED BY <2>1, <3>1
  <2>3. PICK a, b \in DOMAIN down[l] :
          a < b /\ down'[l][i] = down[l][a] /\ down'[l][j] = down[l][b]
    BY <2>2
  <2> QED BY <2>3 DEF Told, WireOrdered
<1>5. PageOrdered'
  <2> SUFFICES ASSUME NEW c \in Clients, NEW l \in Conns,
                      NEW i \in DOMAIN inbox'[c], NEW j \in DOMAIN down'[l],
                      inbox'[c][i].type # "fault", down'[l][j] # Disc,
                      inbox'[c][i].id = down'[l][j].id
               PROVE  inbox'[c][i].type = "stream"
                      /\ down'[l][j].type = "error"
    BY DEF PageOrdered
  <2>1. PICK p \in DOMAIN down[l] : down'[l][j] = down[l][p] BY <1>1
  <2> QED BY <2>1 DEF Told, PageOrdered
<1> QED BY <1>2, <1>3, <1>4, <1>5 DEF Told

\* A fault, or nothing, is put behind what a page was told.
LEMMA FaultAdds ==
  ASSUME inbox \in [Clients -> Seq(Event)], NEW d \in Clients,
         UNCHANGED inbox \/ ToPage(d, [type |-> "fault"])
  PROVE  \A c \in Clients : \A i \in DOMAIN inbox'[c] :
           inbox'[c][i].type # "fault" =>
             i \in DOMAIN inbox[c] /\ inbox'[c][i] = inbox[c][i]
<1> SUFFICES ASSUME ToPage(d, [type |-> "fault"]), NEW c \in Clients,
                    NEW i \in DOMAIN inbox'[c], inbox'[c][i].type # "fault"
             PROVE  i \in DOMAIN inbox[c] /\ inbox'[c][i] = inbox[c][i]
  OBVIOUS
<1>1. CASE c = d
  <2> DEFINE n == Len(inbox[d]) + 1
  <2>1. inbox'[d] = Append(inbox[d], [type |-> "fault"])
    BY DEF ToPage
  <2>2. /\ inbox[d] \in Seq(Event) /\ [type |-> "fault"] \in Event
    BY DEF Event
  <2>3. /\ DOMAIN inbox'[d] = 1 .. n /\ inbox'[d][n] = [type |-> "fault"]
        /\ n \in Nat /\ DOMAIN inbox[d] = 1 .. (n - 1)
        /\ \A j \in 1 .. (n - 1) : inbox'[d][j] = inbox[d][j]
    BY <2>1, <2>2
  <2>4. i # n BY <1>1, <2>3
  <2>5. i \in 1 .. (n - 1) BY <1>1, <2>3, <2>4
  <2> QED BY <1>1, <2>3, <2>5
<1>2. CASE c # d BY <1>2 DEF ToPage
<1> QED BY <1>1, <1>2

\* A client hears the service, and tells its page.
LEMMA ListenTold ==
  ASSUME IInv, Dialed, Taken, Told, NEW c \in Clients, ServiceListener(c),
         UNCHANGED managerVars
  PROVE  Told'
<1> DEFINE k == servicePort[c]
           m == Head(down[k])
           e == IF m.type = "channel" THEN [type |-> "stream", id |-> m.id]
                                      ELSE m
<1>t. /\ down \in [Conns -> Seq(DownMessage)]
      /\ inbox \in [Clients -> Seq(Event)]
      /\ servicePort[c] \in 0 .. MaxConns
  BY DEF IInv, TypeOK, PortsTypeOK, ClientTypeOK
<1>k. k \in Conns /\ dialer[k] = c
  BY <1>t DEF ServiceListener, Conns, Dialed
<1>u. UNCHANGED <<life, owner>> BY DEF managerVars
<1>1. /\ down[k] # <<>> /\ m # Disc /\ down' = [down EXCEPT ![k] = Tail(@)]
      /\ ToPage(c, e)
  BY DEF ServiceListener
<1>2. /\ down[k] \in Seq(DownMessage) /\ m = down[k][1] /\ 1 \in DOMAIN down[k]
      /\ m \in DownMessage
      /\ \A j \in DOMAIN Tail(down[k]) :
           /\ j \in Nat /\ j + 1 \in DOMAIN down[k] /\ 1 < j + 1
           /\ Tail(down[k])[j] = down[k][j + 1]
  BY <1>t, <1>k, <1>1
<1>m. m \in Response BY <1>1, <1>2, DiscIsNone
<1>e. /\ e \in Event /\ e.type # "fault" /\ e.id = m.id /\ m.id \in Requests
      /\ e.type = "stream" <=> m.type = "channel"
  BY <1>m DEF Response, Event
<1> HIDE DEF k, m, e
<1>3. /\ Answering(e.id) /\ owner[e.id] = k
      /\ e.type # "stream" => life[e.id] = "done"
  BY <1>1, <1>2, <1>e, <1>k DEF Told, ToldOnWire
<1>4. Page[e.id] = c BY <1>e, <1>k, <1>3 DEF Taken, Answering
<1> DEFINE n == Len(inbox[c]) + 1
<1>5. /\ inbox'[c][n] = e /\ n \in DOMAIN inbox'[c]
      /\ \A d \in Clients : \A i \in DOMAIN inbox'[d] :
           \/ i \in DOMAIN inbox[d] /\ inbox'[d][i] = inbox[d][i]
           \/ d = c /\ inbox'[d][i] = e
  <2>1. inbox'[c] = Append(inbox[c], e) /\ inbox[c] \in Seq(Event)
    BY <1>t, <1>1 DEF ToPage
  <2>2. /\ DOMAIN inbox'[c] = 1 .. n /\ inbox'[c][n] = e /\ n \in 1 .. n
        /\ \A j \in 1 .. (n - 1) : inbox'[c][j] = inbox[c][j]
        /\ DOMAIN inbox[c] = 1 .. (n - 1)
    BY <2>1, <1>e
  <2> HIDE DEF n
  <2>3. \A i \in 1 .. n : i \in 1 .. (n - 1) \/ i = n BY <2>2
  <2>4. \A d \in Clients : d # c => inbox'[d] = inbox[d]
    BY <1>t, <1>1 DEF ToPage
  <2> QED BY <2>2, <2>3, <2>4
<1>6. \A l \in Conns : \A j \in DOMAIN down'[l] :
        \/ l # k /\ j \in DOMAIN down[l] /\ down'[l][j] = down[l][j]
        \/ /\ l = k /\ j \in Nat /\ j + 1 \in DOMAIN down[k] /\ 1 < j + 1
           /\ down'[l][j] = down[k][j + 1]
  BY <1>t, <1>k, <1>1, <1>2
<1>7. ToldOnWire' /\ WireOrdered'
  <2>1. UNCHANGED inbox => TRUE OBVIOUS
  <2>2. ToldOnWire'
    <3>1. ASSUME NEW l \in Conns, NEW j \in DOMAIN down'[l], down'[l][j] # Disc
          PROVE  \E i \in DOMAIN down[l] : down'[l][j] = down[l][i]
      BY <1>6
    <3> QED BY <1>u, <3>1 DEF Told, ToldOnWire, Answering
  <2>3. WireOrdered'
    <3> SUFFICES ASSUME NEW l \in Conns,
                        NEW i \in DOMAIN down'[l], NEW j \in DOMAIN down'[l],
                        i < j, down'[l][i] # Disc, down'[l][j] # Disc,
                        down'[l][i].id = down'[l][j].id
                 PROVE  down'[l][i].type = "channel"
                        /\ down'[l][j].type = "error"
      BY DEF WireOrdered
    <3>1. CASE l # k BY <1>6, <3>1 DEF Told, WireOrdered
    <3>2. CASE l = k
      <4>1. i + 1 < j + 1 BY <1>6, <3>2
      <4> QED BY <1>6, <1>k, <3>2, <4>1 DEF Told, WireOrdered
    <3> QED BY <3>1, <3>2
  <2> QED BY <2>2, <2>3
<1>8. ToldPage'
  <2>1. ASSUME NEW d \in Clients, NEW i \in DOMAIN inbox'[d],
               inbox'[d][i].type # "fault"
        PROVE  /\ life'[inbox'[d][i].id] \notin {"none", "handling"}
               /\ Page[inbox'[d][i].id] = d
               /\ inbox'[d][i].type # "stream" =>
                    life'[inbox'[d][i].id] = "done"
    <3>1. CASE i \in DOMAIN inbox[d] /\ inbox'[d][i] = inbox[d][i]
      BY <1>u, <2>1, <3>1 DEF Told, ToldPage, Answering
    <3>2. CASE d = c /\ inbox'[d][i] = e
      BY <1>u, <1>3, <1>4, <3>2 DEF Answering
    <3> QED BY <1>5, <3>1, <3>2
  <2> QED BY <2>1 DEF ToldPage, Answering
\* What is left on the wire of this request is the failure of a stream.
<1>9. \A l \in Conns : \A j \in DOMAIN down'[l] :
        down'[l][j] # Disc /\ down'[l][j].id = e.id =>
          e.type = "stream" /\ down'[l][j].type = "error"
  <2> SUFFICES ASSUME NEW l \in Conns, NEW j \in DOMAIN down'[l],
                      down'[l][j] # Disc, down'[l][j].id = e.id
               PROVE  e.type = "stream" /\ down'[l][j].type = "error"
    OBVIOUS
  <2>1. l = k BY <1>3, <1>6 DEF Told, ToldOnWire
  <2>2. /\ j + 1 \in DOMAIN down[k] /\ 1 < j + 1
        /\ down'[l][j] = down[k][j + 1]
    BY <1>6, <2>1
  <2>3. down[k][1].type = "channel" /\ down[k][j + 1].type = "error"
    BY <1>1, <1>2, <1>k, <1>e, <2>2 DEF Told, WireOrdered
  <2> QED BY <1>2, <1>e, <2>2, <2>3
<1>10. PageOrdered'
  <2> SUFFICES ASSUME NEW d \in Clients, NEW l \in Conns,
                      NEW i \in DOMAIN inbox'[d], NEW j \in DOMAIN down'[l],
                      inbox'[d][i].type # "fault", down'[l][j] # Disc,
                      inbox'[d][i].id = down'[l][j].id
               PROVE  inbox'[d][i].type = "stream"
                      /\ down'[l][j].type = "error"
    BY DEF PageOrdered
  <2>1. CASE d = c /\ inbox'[d][i] = e BY <1>9, <2>1
  <2>2. CASE i \in DOMAIN inbox[d] /\ inbox'[d][i] = inbox[d][i]
    <3>1. PICK p \in DOMAIN down[l] : down'[l][j] = down[l][p] BY <1>6
    <3> QED BY <2>2, <3>1 DEF Told, PageOrdered
  <2> QED BY <1>5, <2>1, <2>2
<1> QED BY <1>7, <1>8, <1>10 DEF Told

\* A step of a client.
LEMMA ClientTold ==
  ASSUME IInv, Dialed, Taken, Told, ClientNext,
         UNCHANGED <<managerVars, posted>>
  PROVE  Told'
<1>t. /\ down \in [Conns -> Seq(DownMessage)]
      /\ inbox \in [Clients -> Seq(Event)]
      /\ \A c \in Clients : servicePort[c] \in 0 .. MaxConns
  BY DEF IInv, TypeOK, PortsTypeOK, ClientTypeOK
<1>u. UNCHANGED <<life, owner>> BY DEF managerVars
<1>s. ASSUME UNCHANGED <<down, inbox>> PROVE Told'
  BY <1>s, <1>t, <1>u, ToldStays DEF Answering
<1>f. ASSUME UNCHANGED down, NEW c \in Clients, ToPage(c, [type |-> "fault"])
      PROVE  Told'
  <2>1. CASE Conns = {}
    BY <1>u, <1>f, <1>t, <2>1, FaultAdds
       DEF Told, ToldOnWire, ToldPage, WireOrdered, PageOrdered, Answering
  <2>2. CASE Conns # {}
    <3>1. PICK k : k \in Conns BY <2>2
    <3> QED BY <1>f, <1>t, <1>u, <3>1, FaultAdds, ToldLess
  <2> QED BY <2>1, <2>2
<1>1. ASSUME NEW c \in Clients,
             Construct(c) \/ ForwardEvent(c) \/ Destroyed(c)
      PROVE  Told'
  BY <1>1, <1>s DEF Construct, ForwardEvent, Destroyed
<1>2. ASSUME NEW c \in Clients, ContextLost(c) \/ PageClosed(c) \/ End(c)
      PROVE  Told'
  BY <1>2, <1>f DEF ContextLost, PageClosed, End, Close, portVars
<1>3. ASSUME NEW c \in Clients, ServiceListener(c) PROVE Told'
  BY <1>3, ListenTold
<1>4. ASSUME NEW c \in Clients, OnClientDisconnect(c) PROVE Told'
  <2> DEFINE k == servicePort[c]
  <2>1. /\ k \in Conns /\ down[k] # <<>> /\ down' = [down EXCEPT ![k] = Tail(@)]
        /\ UNCHANGED inbox \/ ToPage(c, [type |-> "fault"])
    BY <1>4, <1>t DEF OnClientDisconnect, Conns
  <2> HIDE DEF k
  <2> QED BY <1>t, <1>u, <2>1, FaultAdds, ToldLess
<1>5. ASSUME NEW r \in Requests, SourceClosed(r) \/ SourceCanceled(r)
      PROVE  Told'
  BY <1>5, <1>s DEF SourceClosed, SourceCanceled, clientVars
<1> QED BY <1>1, <1>2, <1>3, <1>4, <1>5 DEF ClientNext

\* Canceling answers no request that was not answered, and undoes no end.
LEMMA CancelAnswers ==
  ASSUME NEW R, Cancel(R)
  PROVE  \A r \in Requests : Answering(r) =>
           Answering(r)' /\ (life[r] = "done" => life'[r] = "done")
BY DEF Cancel, Ending, Aborting, Answering

\* A disconnect is told of no request.
LEMMA DisconnectTells ==
  ASSUME TypeOK, NEW K, DisconnectAll(K)
  PROVE  \A k \in Conns : \A i \in DOMAIN down'[k] : down'[k][i] # Disc =>
           i \in DOMAIN down[k] /\ down'[k][i] = down[k][i]
<1> SUFFICES ASSUME NEW k \in Conns, NEW i \in DOMAIN down'[k],
                    down'[k][i] # Disc
             PROVE  i \in DOMAIN down[k] /\ down'[k][i] = down[k][i]
  OBVIOUS
<1>1. down[k] \in Seq(DownMessage) /\ Disc \in DownMessage
  BY DEF TypeOK, PortsTypeOK, DownMessage
<1>2. down'[k] = down[k] \/ down'[k] = Append(down[k], Disc)
  BY DEF DisconnectAll
<1>3. CASE down'[k] = Append(down[k], Disc)
  <2> DEFINE n == Len(down[k])
  <2>1. /\ n \in Nat /\ DOMAIN down[k] = 1 .. n
        /\ DOMAIN down'[k] = 1 .. (n + 1)
        /\ down'[k][n + 1] = Disc
        /\ \A j \in 1 .. n : down'[k][j] = down[k][j]
    BY <1>1, <1>3
  <2> HIDE DEF n
  <2>2. i # n + 1 BY <2>1
  <2>3. i \in 1 .. n BY <2>1, <2>2
  <2> QED BY <2>1, <2>3
<1> QED BY <1>2, <1>3

\* A message arrives: what it makes the session tell is the end of a lifecycle
\* that waits for its sub-channel.
LEMMA MessageTold ==
  ASSUME IInv, Travels, Told, NEW k \in Conns, OnMessage(k), UNCHANGED inbox
  PROVE  Told'
<1> DEFINE m == Head(up[k])
<1>t. /\ up \in [Conns -> Seq(UpMessage)]
      /\ life \in [Requests -> Lives] /\ owner \in [Requests -> 0 .. MaxConns]
      /\ down \in [Conns -> Seq(DownMessage)]
      /\ inbox \in [Clients -> Seq(Event)] /\ Taken
  BY DEF IInv, TypeOK, PortsTypeOK, ManagerTypeOK, ClientTypeOK, Travels
<1>m. m \in UpEvent /\ Has(up[k], m) /\ m.id \in Requests
  <2>1. m \in UpMessage /\ Has(up[k], m) /\ m # Disc
    BY <1>t DEF OnMessage, Has
  <2>2. m \in UpEvent BY <2>1, DiscIsNone
  <2> QED BY <2>1, <2>2 DEF UpEvent
<1>1. UNCHANGED <<life, owner, down>> \/ Handle(k, m)
  BY DEF OnMessage
<1> HIDE DEF m
<1>2. CASE UNCHANGED <<life, owner, down>>
  BY <1>2, <1>t, ToldStays DEF Answering
<1>3. CASE Handle(k, m) /\ m.type = "request"
  <2>1. m = Asking(m.id) BY <1>m, <1>3 DEF UpEvent, Asking
  <2>2. life[m.id] = "none"
    BY <1>m, <2>1 DEF Travels, InTransit, Carries, Waiting
  <2>3. /\ life' = [life EXCEPT ![m.id] = "handling"]
        /\ owner' = [owner EXCEPT ![m.id] = k] /\ UNCHANGED down
    BY <1>3 DEF Handle
  <2>4. \A r \in Requests : Answering(r) =>
          life'[r] = life[r] /\ owner'[r] = owner[r]
    BY <1>t, <2>2, <2>3 DEF Answering
  <2> QED BY <1>t, <2>3, <2>4, ToldStays DEF Answering
<1>4. CASE Handle(k, m) /\ m.type # "request"
  <2> DEFINE R == MapOf(k) \cap {m.id}
  <2>1. /\ Cancel(R) /\ UNCHANGED owner
        /\ \/ Ending(R) = {} /\ UNCHANGED down
           \/ Ending(R) # {} /\ PostDown(k, <<[type |-> "error", id |-> m.id]>>)
    BY <1>4 DEF Handle
  <2>2. CASE UNCHANGED down
    <3> HIDE DEF R
    <3> QED BY <1>t, <2>1, <2>2, CancelAnswers, ToldStays
  <2>3. CASE Ending(R) # {}
             /\ PostDown(k, <<[type |-> "error", id |-> m.id]>>)
    <3>1. /\ owner[m.id] = k /\ life[m.id] \in {"offering", "opening"}
          /\ Ending(R) = {m.id} /\ Aborting(R) = {}
      BY <2>3 DEF Ending, Aborting, MapOf
    <3>2. /\ life'[m.id] = "done"
          /\ \A q \in Requests : q # m.id => life'[q] = life[q]
      BY <1>m, <2>1, <3>1 DEF Cancel
    <3>3. [type |-> "error", id |-> m.id] \in Response
      BY <1>m DEF Response
    <3> HIDE DEF R
    <3>4. /\ Live(m.id)
          /\ PostDown(owner[m.id], <<[type |-> "error", id |-> m.id]>>)
      BY <2>3, <3>1 DEF Live
    <3> DEFINE e == [type |-> "error", id |-> m.id]
    <3>5. e \in Response /\ e.id = m.id /\ e.type = "error" BY <3>3
    <3>6. PostDown(owner[m.id], <<e>>) BY <3>4
    <3> HIDE DEF e
    <3> QED BY <1>t, <1>m, <2>1, <3>2, <3>4, <3>5, <3>6, ToldMore
  <2> QED BY <2>1, <2>2, <2>3
<1> QED BY <1>1, <1>2, <1>3, <1>4

\* A lifecycle goes on.
LEMMA RequestTold ==
  ASSUME IInv, Travels, Told, UNCHANGED <<clientVars, posted>>,
         NEW r \in Requests,
         \/ HandlerReturns(r) \/ HandlerStreams(r) \/ HandlerThrows(r)
         \/ OnSubConnect(r) \/ SubValidated(r) \/ SubInvalid(r)
         \/ ResponseEnds(r) \/ OnSubDisconnect(r) \/ PipeBroken(r)
         \/ SinkTimeout(r)
  PROVE  Told'
<1>t. /\ life \in [Requests -> Lives]
      /\ down \in [Conns -> Seq(DownMessage)]
      /\ inbox \in [Clients -> Seq(Event)] /\ Taken /\ UNCHANGED inbox
  BY DEF IInv, TypeOK, PortsTypeOK, ManagerTypeOK, ClientTypeOK, Travels,
     clientVars
\* One answer is posted.
<1>p. ASSUME NEW t \in {"message", "channel", "error"}, Live(r),
             PostDown(owner[r], <<[type |-> t, id |-> r]>>), UNCHANGED owner,
             life[r] # "handling" => t = "error",
             life' = [life EXCEPT ![r] = IF t = "channel" THEN "offering"
                                                          ELSE "done"]
      PROVE  Told'
  <2> DEFINE m == [type |-> t, id |-> r]
  <2>1. /\ m \in Response /\ m.id = r /\ m.type = t
        /\ PostDown(owner[r], <<m>>)
    BY <1>p DEF Response
  <2>2. /\ life'[r] = IF t = "channel" THEN "offering" ELSE "done"
        /\ \A q \in Requests : q # r => life'[q] = life[q]
    BY <1>t, <1>p
  <2> HIDE DEF m
  <2> QED BY <1>t, <1>p, <2>1, <2>2, ToldMore
<1>f. ASSUME Fail(r), Live(r), UNCHANGED owner PROVE Told'
  BY <1>f, <1>p DEF Fail, Done
<1>s. ASSUME UNCHANGED <<owner, down>>,
             \/ UNCHANGED life
             \/ /\ life[r] \notin {"none", "handling", "done"}
                /\ \E v \in Lives \ {"none", "handling"} :
                     life' = [life EXCEPT ![r] = v]
      PROVE  Told'
  <2>1. \A q \in Requests : Answering(q) =>
          Answering(q)' /\ (life[q] = "done" => life'[q] = "done")
    BY <1>t, <1>s DEF Answering
  <2> QED BY <1>t, <1>s, <2>1, ToldStays
<1>1. CASE HandlerReturns(r)
  BY <1>1, <1>p DEF HandlerReturns, Done, Live
<1>2. CASE HandlerStreams(r)
  BY <1>2, <1>p DEF HandlerStreams, Live
<1>3. CASE HandlerThrows(r) \/ SubInvalid(r) \/ PipeBroken(r) \/ SinkTimeout(r)
  BY <1>3, <1>f DEF HandlerThrows, SubInvalid, PipeBroken, SinkTimeout, Live
<1>4. CASE OnSubConnect(r) \/ SubValidated(r) \/ ResponseEnds(r)
  BY <1>4, <1>s DEF OnSubConnect, SubValidated, ResponseEnds, Lives, portVars
<1>5. CASE OnSubDisconnect(r)
  <2>1. CASE life[r] = "finishing"
    BY <1>5, <1>s, <2>1 DEF OnSubDisconnect, Done, Lives
  <2>2. CASE life[r] \in {"piping", "draining"}
    BY <1>5, <1>f, <2>2 DEF OnSubDisconnect, Live
  <2>3. CASE life[r] \notin {"finishing", "piping", "draining"}
    BY <1>5, <1>s, <2>3 DEF OnSubDisconnect
  <2> QED BY <2>1, <2>2, <2>3
<1> QED BY <1>1, <1>2, <1>3, <1>4, <1>5

\* A step of the manager.
LEMMA ManagerTold ==
  ASSUME IInv, Travels, Told, ManagerNext, UNCHANGED <<clientVars, posted>>
  PROVE  Told'
<1>t. /\ TypeOK /\ life \in [Requests -> Lives]
      /\ held \in [Conns -> SUBSET [type : {"request", "abort"}, id : Requests]]
      /\ down \in [Conns -> Seq(DownMessage)]
      /\ inbox \in [Clients -> Seq(Event)] /\ Taken /\ UNCHANGED inbox
  BY DEF IInv, TypeOK, PortsTypeOK, ManagerTypeOK, ClientTypeOK, Travels,
     clientVars
\* Nothing is said of a request, and lifecycles end.
<1>s. ASSUME UNCHANGED owner, UNCHANGED down \/ \E K : DisconnectAll(K),
             \A r \in Requests : Answering(r) =>
               Answering(r)' /\ (life[r] = "done" => life'[r] = "done")
      PROVE  Told'
  <2>1. \A k \in Conns : \A i \in DOMAIN down'[k] : down'[k][i] # Disc =>
          i \in DOMAIN down[k] /\ down'[k][i] = down[k][i]
    <3>1. CASE UNCHANGED down BY <3>1
    <3>2. CASE \E K : DisconnectAll(K) BY <1>t, <3>2, DisconnectTells
    <3> QED BY <1>s, <3>1, <3>2
  <2> QED BY <1>t, <1>s, <2>1, ToldStays
<1>1. ASSUME NEW k \in Conns, OnConnect(k) PROVE Told'
  BY <1>1, <1>s DEF OnConnect, Answering
<1>2. ASSUME NEW k \in Conns, OnMessage(k) PROVE Told'
  BY <1>t, <1>2, MessageTold
<1>3. ASSUME NEW k \in Conns, OnDisconnect(k) PROVE Told'
  <2>1. UNCHANGED <<owner, down>> /\ Cancel(UNION {MapOf(j) : j \in {k}})
    BY <1>3 DEF OnDisconnect, AbortSessions
  <2> QED BY <1>s, <2>1, CancelAnswers
<1>4. ASSUME NEW k \in Conns, Validated(k) PROVE Told'
  <2> DEFINE Q == {r \in Requests : Asking(r) \in held[k]}
  <2>1. /\ UNCHANGED down
        /\ life' = [r \in Requests |-> IF r \in Q THEN "handling" ELSE life[r]]
        /\ owner' = [r \in Requests |-> IF r \in Q THEN k ELSE owner[r]]
    BY <1>4 DEF Validated, portVars, Asking
  <2>2. \A r \in Q : ~Answering(r)
    BY <1>4 DEF Travels, HeldBack, Waiting, Answering
  <2> HIDE DEF Q
  <2>3. \A r \in Requests : Answering(r) =>
          life'[r] = life[r] /\ owner'[r] = owner[r]
    BY <2>1, <2>2
  <2> QED BY <1>t, <2>1, <2>3, ToldStays DEF Answering
<1>5. ASSUME NEW k \in Conns, ValidationFailed(k) PROVE Told'
  <2>1. CASE k \in dead BY <1>5, <1>s, <2>1 DEF ValidationFailed, Answering
  <2>2. CASE k \notin dead
    <3>1. /\ UNCHANGED owner /\ DisconnectAll({k})
          /\ Cancel(UNION {MapOf(j) : j \in {k}})
      BY <1>5, <2>2 DEF ValidationFailed, AbortSessions
    <3> QED BY <1>s, <3>1, CancelAnswers
  <2> QED BY <2>1, <2>2
<1>6. ASSUME NEW o, KillOrigin(o) PROVE Told'
  <2>1. PICK R : Cancel(R) BY <1>6 DEF KillOrigin
  <2>2. UNCHANGED owner /\ \E K : DisconnectAll(K) BY <1>6 DEF KillOrigin
  <2> QED BY <1>s, <2>1, <2>2, CancelAnswers
<1>7. ASSUME NEW r \in Requests,
             \/ HandlerReturns(r) \/ HandlerStreams(r) \/ HandlerThrows(r)
             \/ OnSubConnect(r) \/ SubValidated(r) \/ SubInvalid(r)
             \/ ResponseEnds(r) \/ OnSubDisconnect(r) \/ PipeBroken(r)
             \/ SinkTimeout(r)
      PROVE  Told'
  BY <1>7, RequestTold
<1>8. CASE WorkerKilled
  <2>1. /\ UNCHANGED owner /\ \E K : DisconnectAll(K)
        /\ life' = [r \in Requests |-> IF Live(r) THEN "done" ELSE life[r]]
    BY <1>8 DEF WorkerKilled
  <2> QED BY <1>s, <2>1 DEF Live, Answering
<1> QED BY <1>1, <1>2, <1>3, <1>4, <1>5, <1>6, <1>7, <1>8 DEF ManagerNext

\* Each step keeps what the contract rests on.
LEMMA AnsweredStep ==
  ASSUME IInv, Answered, [Next]_vars PROVE Answered'
<1>i. TypeOK /\ Dialed /\ Travels /\ Told /\ Taken
  BY DEF IInv, Answered, Travels
<1>d. Dialed' BY <1>i, DialedStep
<1>s. ASSUME UNCHANGED <<inbox, down, life, owner>> PROVE Told'
  BY <1>s, <1>i, ToldStays
     DEF Answering, TypeOK, PortsTypeOK, ClientTypeOK
<1>1. ASSUME NEW c \in Clients, NEW m \in Message, PagePosts(c, m)
      PROVE  Travels' /\ Told'
  BY <1>1, <1>i, <1>s, PostTravels DEF PagePosts, portVars, managerVars
<1>2. CASE ClientNext /\ UNCHANGED <<managerVars, posted>>
  <2>1. Travels' BY <1>2, <1>i, ClientTravels
  <2>2. Told' BY <1>2, <1>i, ClientTold
  <2> QED BY <1>d, <2>1, <2>2 DEF Answered
<1>3. CASE ManagerNext /\ UNCHANGED <<clientVars, posted>>
  <2>1. Travels' BY <1>3, <1>i, ManagerTravels
  <2>2. Told' BY <1>3, <1>i, ManagerTold
  <2> QED BY <1>d, <2>1, <2>2 DEF Answered
<1>4. CASE UNCHANGED vars
  <2>1. UNCHANGED <<dialer, up, down, outbox, inbox, life, owner, held, posted>>
    BY <1>4 DEF vars, portVars, clientVars, managerVars
  <2>2. Travels' BY <1>i, <2>1, NothingTaken, TravelsStays
  <2>3. Told' BY <1>s, <2>1
  <2> QED BY <1>d, <2>2, <2>3 DEF Answered
<1> QED BY <1>d, <1>1, <1>2, <1>3, <1>4 DEF Next, Answered

\* It holds when nothing has been posted.
LEMMA InitAnswered == Init => Answered
<1> SUFFICES ASSUME Init PROVE Answered OBVIOUS
<1> USE DEF Init, PortsInit, ClientInit, ManagerInit
<1>1. Dialed BY DEF Dialed
<1>2. \A e : ~Has(<<>>, e) /\ Once(<<>>, e) BY DEF Has, Once
<1>3. Travels
  BY <1>2, PageIs DEF Travels, InOutbox, InTransit, HeldBack, Taken, Carries
<1>4. Told BY DEF Told, ToldOnWire, ToldPage, WireOrdered, PageOrdered
<1> QED BY <1>1, <1>3, <1>4 DEF Answered
-----------------------------------------------------------------------------
(* What a page may rely on. *)

\* What keeps the contract holds throughout.
LEMMA AnsweredHolds == Spec => []Answered
<1>1. IInv /\ Answered /\ [Next]_vars => Answered' BY AnsweredStep
<1> QED BY <1>1, InitAnswered, InvariantHolds, PTL DEF Spec

\* A page that posts a request asks.
LEMMA PostAsks ==
  ASSUME TypeOK, NEW c \in Clients, NEW m \in Message, PagePosts(c, m)
  PROVE  Contract!Next \/ UNCHANGED Contract!vars
<1>1. UNCHANGED <<inbox, closed>> BY DEF PagePosts
<1>2. CASE m.type = "request"
  <2> DEFINE q == m.id
  <2>1. q \in Requests /\ m = Asking(q) BY <1>2 DEF Message, Asking
  <2>2. /\ m \notin posted /\ posted' = posted \cup {m}
        /\ Page[q] = c /\ c \notin closed
    BY <1>2 DEF PagePosts, Running
  <2> HIDE DEF q
  <2>3. {r \in Requests : Asking(r) \in posted'}
          = {r \in Requests : Asking(r) \in posted} \cup {q}
    BY <2>1, <2>2, AskingIs
  <2>4. Contract!Ask(q) BY <1>1, <2>1, <2>2, <2>3 DEF Contract!Ask
  <2> QED BY <2>1, <2>4 DEF Contract!Next
<1>3. CASE m.type # "request"
  <2>1. \A r \in Requests : Asking(r) \in posted' <=> Asking(r) \in posted
    <3>1. \A r \in Requests : Asking(r) # m BY <1>3 DEF Asking
    <3> QED BY <3>1 DEF PagePosts
  <2>2. {r \in Requests : Asking(r) \in posted'}
          = {r \in Requests : Asking(r) \in posted}
    BY <2>1
  <2> QED BY <1>1, <2>2 DEF Contract!vars
<1> QED BY <1>2, <1>3

\* A client that hears the service answers.
LEMMA ListenAnswers ==
  ASSUME IInv, Answered, NEW c \in Clients, ServiceListener(c), UNCHANGED posted
  PROVE  Contract!Next
<1> DEFINE k == servicePort[c]
           m == Head(down[k])
           q == m.id
           kind == IF m.type = "channel" THEN "stream" ELSE m.type
<1>t. /\ down \in [Conns -> Seq(DownMessage)]
      /\ inbox \in [Clients -> Seq(Event)]
      /\ servicePort[c] \in 0 .. MaxConns
  BY DEF IInv, TypeOK, PortsTypeOK, ClientTypeOK
<1>k. k \in Conns /\ dialer[k] = c /\ c \notin closed
  BY <1>t DEF ServiceListener, Conns, Answered, Dialed
<1>1. down[k] # <<>> /\ m # Disc /\ UNCHANGED <<closed, posted>>
  BY DEF ServiceListener
<1>2. /\ m \in DownMessage /\ m = down[k][1] /\ 1 \in DOMAIN down[k]
  BY <1>t, <1>k, <1>1
<1>m. m \in Response BY <1>1, <1>2, DiscIsNone
<1>q. /\ q \in Requests /\ kind \in {"message", "stream", "error"}
      /\ m.type = "error" => kind = "error"
      /\ m.type # "channel" => m = [type |-> kind, id |-> q]
  BY <1>m DEF Response
<1>e. inbox' = [inbox EXCEPT ![c] = Append(@, [type |-> kind, id |-> q])]
  BY <1>q DEF ServiceListener, ToPage
<1>3. Answering(q) /\ owner[q] = k
  BY <1>1, <1>2, <1>k DEF Answered, Told, ToldOnWire
<1>4. Asking(q) \in posted /\ Page[q] = c
  BY <1>3, <1>q, <1>k DEF Answered, Travels, Taken, Answering
<1>5. \A i \in DOMAIN inbox[c] :
        inbox[c][i].type # "fault" /\ inbox[c][i].id = q =>
          inbox[c][i].type = "stream" /\ kind = "error"
  BY <1>1, <1>2, <1>k, <1>q DEF Answered, Told, PageOrdered
<1> HIDE DEF k, m, q, kind
<1>6. Contract!Answer(q, kind)
  BY <1>1, <1>k, <1>q, <1>e, <1>4, <1>5 DEF Contract!Answer, Contract!Answers
<1> QED BY <1>6, <1>q DEF Contract!Next

\* Every other step of a client fails its page, or leaves it, or says nothing.
LEMMA ClientFaults ==
  ASSUME IInv, Answered, ClientNext, UNCHANGED posted
  PROVE  Contract!Next \/ UNCHANGED Contract!vars
<1>s. ASSUME UNCHANGED <<inbox, closed>> PROVE UNCHANGED Contract!vars
  BY <1>s DEF Contract!vars
<1>f. ASSUME NEW c \in Clients, c \notin closed, closed' = closed \cup {c},
             ToPage(c, [type |-> "fault"])
      PROVE  Contract!Next
  <2>1. Contract!Fault(c) BY <1>f DEF Contract!Fault, ToPage
  <2> QED BY <2>1 DEF Contract!Next
<1>1. ASSUME NEW c \in Clients, Construct(c) \/ ForwardEvent(c)
      PROVE  UNCHANGED Contract!vars
  BY <1>1, <1>s DEF Construct, ForwardEvent
<1>2. ASSUME NEW c \in Clients, ContextLost(c) \/ PageClosed(c) \/ End(c)
      PROVE  Contract!Next
  BY <1>2, <1>f DEF ContextLost, PageClosed, End, Close, Running
<1>3. ASSUME NEW c \in Clients, ServiceListener(c) PROVE Contract!Next
  BY <1>3, ListenAnswers
<1>4. ASSUME NEW c \in Clients, OnClientDisconnect(c)
      PROVE  Contract!Next \/ UNCHANGED Contract!vars
  <2>1. c \notin closed BY <1>4 DEF OnClientDisconnect, Answered, Dialed
  <2>2. CASE c \in active BY <1>4, <1>s, <2>2 DEF OnClientDisconnect
  <2>3. CASE c \notin active BY <1>4, <1>f, <2>1, <2>3 DEF OnClientDisconnect
  <2> QED BY <2>2, <2>3
<1>5. ASSUME NEW c \in Clients, Destroyed(c) PROVE Contract!Next
  <2>1. Contract!Leave(c) BY <1>5 DEF Contract!Leave, Destroyed, Running
  <2> QED BY <2>1 DEF Contract!Next
<1>6. ASSUME NEW r \in Requests, SourceClosed(r) \/ SourceCanceled(r)
      PROVE  UNCHANGED Contract!vars
  BY <1>6, <1>s DEF SourceClosed, SourceCanceled, clientVars
<1> QED BY <1>1, <1>2, <1>3, <1>4, <1>5, <1>6 DEF ClientNext

\* Session clients, the manager and its sessions implement what a page may rely
\* on: it is answered what it asked, at its port, once or with a stream and
\* then the failure of the stream, and never after its port has failed, however
\* many connections, reconnections and deaths of the worker there are.
THEOREM ContractIsKept == Spec => KeepsContract
<1>1. Init => Contract!Init
  BY DEF Init, ClientInit, Contract!Init
<1>2. IInv /\ Answered /\ [Next]_vars => [Contract!Next]_Contract!vars
  <2> SUFFICES ASSUME IInv, Answered, [Next]_vars
               PROVE  Contract!Next \/ UNCHANGED Contract!vars
    OBVIOUS
  <2>1. ASSUME NEW c \in Clients, NEW m \in Message, PagePosts(c, m)
        PROVE  Contract!Next \/ UNCHANGED Contract!vars
    BY <2>1, PostAsks DEF IInv
  <2>2. CASE ClientNext /\ UNCHANGED <<managerVars, posted>>
    BY <2>2, ClientFaults
  <2>3. CASE ManagerNext /\ UNCHANGED <<clientVars, posted>>
    BY <2>3 DEF Contract!vars, clientVars
  <2>4. CASE UNCHANGED vars
    BY <2>4 DEF Contract!vars, clientVars, vars
  <2> QED BY <2>1, <2>2, <2>3, <2>4 DEF Next
<1> QED BY AnsweredHolds, InvariantHolds, <1>1, <1>2, PTL
        DEF Spec, KeepsContract, Contract!Safety
-----------------------------------------------------------------------------
(* A request runs once. *)

\* A request that was taken up stays with its session, goes back neither to its
\* client nor to its handler, and one that is done stays done.
RunsOnce ==
  \A r \in Requests :
    life[r] # "none" =>
      /\ owner'[r] = owner[r] /\ life'[r] # "none"
      /\ life'[r] = "handling" => life[r] = "handling"
      /\ life[r] = "done" => life'[r] = "done"

\* Canceling a lifecycle takes nothing up.
LEMMA CancelRuns ==
  ASSUME NEW R, Cancel(R), UNCHANGED owner PROVE RunsOnce
BY DEF Cancel, Ending, Aborting, RunsOnce

\* A message takes up only a request that was never taken up.
LEMMA MessageRuns ==
  ASSUME IInv, Travels, NEW k \in Conns, OnMessage(k) PROVE RunsOnce
<1> DEFINE m == Head(up[k])
<1>t. /\ up \in [Conns -> Seq(UpMessage)]
      /\ life \in [Requests -> Lives] /\ owner \in [Requests -> 0 .. MaxConns]
  BY DEF IInv, TypeOK, PortsTypeOK, ManagerTypeOK
<1>m. m \in UpEvent /\ Has(up[k], m)
  <2>1. m \in UpMessage /\ Has(up[k], m) /\ m # Disc
    BY <1>t DEF OnMessage, Has
  <2> QED BY <2>1, DiscIsNone
<1>1. UNCHANGED <<life, owner>> \/ Handle(k, m) BY DEF OnMessage
<1> HIDE DEF m
<1>2. CASE UNCHANGED <<life, owner>> BY <1>2 DEF RunsOnce
<1>3. CASE Handle(k, m) /\ m.type = "request"
  <2>1. m = Asking(m.id) /\ m.id \in Requests
    BY <1>m, <1>3 DEF UpEvent, Asking
  <2>2. life[m.id] = "none"
    BY <1>m, <2>1 DEF Travels, InTransit, Carries, Waiting
  <2>3. /\ life' = [life EXCEPT ![m.id] = "handling"]
        /\ owner' = [owner EXCEPT ![m.id] = k]
    BY <1>3 DEF Handle
  <2> QED BY <1>t, <2>2, <2>3 DEF RunsOnce
<1>4. CASE Handle(k, m) /\ m.type # "request"
  <2>1. UNCHANGED owner /\ Cancel(MapOf(k) \cap {m.id}) BY <1>4 DEF Handle
  <2> QED BY <2>1, CancelRuns
<1> QED BY <1>1, <1>2, <1>3, <1>4

\* A step of a request goes on with a lifecycle.
LEMMA RequestRuns ==
  ASSUME TypeOK, NEW r \in Requests,
         \/ HandlerReturns(r) \/ HandlerStreams(r) \/ HandlerThrows(r)
         \/ OnSubConnect(r) \/ SubValidated(r) \/ SubInvalid(r)
         \/ ResponseEnds(r) \/ OnSubDisconnect(r) \/ PipeBroken(r)
         \/ SinkTimeout(r)
  PROVE  RunsOnce
<1>t. life \in [Requests -> Lives] BY DEF TypeOK, ManagerTypeOK
<1>o. UNCHANGED owner
  BY DEF HandlerReturns, HandlerStreams, HandlerThrows, OnSubConnect,
     SubValidated, SubInvalid, ResponseEnds, OnSubDisconnect, PipeBroken,
     SinkTimeout
<1>s. ASSUME life[r] # "done",
             NEW v \in Lives \ {"none", "handling"},
             life' = [life EXCEPT ![r] = v]
      PROVE  RunsOnce
  BY <1>t, <1>o, <1>s DEF RunsOnce
<1>d. ASSUME Done(r), life[r] # "done" PROVE RunsOnce
  BY <1>d, <1>s DEF Done, Lives
<1>1. CASE HandlerReturns(r) \/ HandlerThrows(r) \/ SubInvalid(r)
           \/ PipeBroken(r) \/ SinkTimeout(r)
  BY <1>1, <1>d DEF HandlerReturns, HandlerThrows, SubInvalid, PipeBroken,
     SinkTimeout, Fail
<1>2. CASE HandlerStreams(r) \/ SubValidated(r) \/ ResponseEnds(r)
  BY <1>2, <1>s DEF HandlerStreams, SubValidated, ResponseEnds, Lives
<1>3. CASE OnSubConnect(r)
  BY <1>3, <1>o, <1>s DEF OnSubConnect, Lives, RunsOnce
<1>4. CASE OnSubDisconnect(r)
  <2>1. UNCHANGED life \/ (Done(r) /\ life[r] # "done")
    BY <1>4 DEF OnSubDisconnect, Fail
  <2> QED BY <1>o, <1>d, <2>1 DEF RunsOnce
<1> QED BY <1>1, <1>2, <1>3, <1>4

\* A step of the manager takes up each request at most once.
LEMMA ManagerRuns ==
  ASSUME IInv, Travels, ManagerNext PROVE RunsOnce
<1>s. ASSUME UNCHANGED <<life, owner>> PROVE RunsOnce BY <1>s DEF RunsOnce
<1>1. ASSUME NEW k \in Conns, OnConnect(k) PROVE RunsOnce
  BY <1>1, <1>s DEF OnConnect
<1>2. ASSUME NEW k \in Conns, OnMessage(k) PROVE RunsOnce
  BY <1>2, MessageRuns
<1>3. ASSUME NEW k \in Conns, OnDisconnect(k) PROVE RunsOnce
  BY <1>3, CancelRuns DEF OnDisconnect, AbortSessions
<1>4. ASSUME NEW k \in Conns, Validated(k) PROVE RunsOnce
  <2> DEFINE Q == {r \in Requests : Asking(r) \in held[k]}
  <2>1. /\ life' = [r \in Requests |-> IF r \in Q THEN "handling" ELSE life[r]]
        /\ owner' = [r \in Requests |-> IF r \in Q THEN k ELSE owner[r]]
    BY <1>4 DEF Validated, Asking
  <2>2. \A r \in Q : life[r] = "none" BY <1>4 DEF Travels, HeldBack, Waiting
  <2> HIDE DEF Q
  <2> QED BY <2>1, <2>2 DEF RunsOnce
<1>5. ASSUME NEW k \in Conns, ValidationFailed(k) PROVE RunsOnce
  <2>1. UNCHANGED owner /\ (UNCHANGED life \/ \E R : Cancel(R))
    BY <1>5 DEF ValidationFailed, AbortSessions
  <2> QED BY <1>s, <2>1, CancelRuns
<1>6. ASSUME NEW o, KillOrigin(o) PROVE RunsOnce
  <2>1. UNCHANGED owner /\ \E R : Cancel(R) BY <1>6 DEF KillOrigin
  <2> QED BY <2>1, CancelRuns
<1>7. ASSUME NEW r \in Requests,
             \/ HandlerReturns(r) \/ HandlerStreams(r) \/ HandlerThrows(r)
             \/ OnSubConnect(r) \/ SubValidated(r) \/ SubInvalid(r)
             \/ ResponseEnds(r) \/ OnSubDisconnect(r) \/ PipeBroken(r)
             \/ SinkTimeout(r)
      PROVE  RunsOnce
  <2>1. TypeOK BY DEF IInv
  <2> QED BY <1>7, <2>1, RequestRuns
<1>8. CASE WorkerKilled BY <1>8 DEF WorkerKilled, Live, RunsOnce
<1> QED BY <1>1, <1>2, <1>3, <1>4, <1>5, <1>6, <1>7, <1>8 DEF ManagerNext

\* Whatever its client, its connections and the worker go through, each request
\* is taken up by at most one session and runs there once: `Request collision`
\* is not thrown.
THEOREM TakenOnce == Spec => [][RunsOnce]_vars
<1>1. IInv /\ Answered /\ [Next]_vars => [RunsOnce]_vars
  <2> SUFFICES ASSUME IInv, Answered, Next PROVE RunsOnce OBVIOUS
  <2>s. ASSUME UNCHANGED managerVars PROVE RunsOnce
    BY <2>s DEF managerVars, RunsOnce
  <2>1. Travels BY DEF Answered
  <2> QED BY <2>s, <2>1, ManagerRuns DEF Next, PagePosts
<1> QED BY <1>1, InvariantHolds, AnsweredHolds, PTL DEF Spec
-----------------------------------------------------------------------------
(* A request is not dropped on its way. *)

\* What a connection has of a request: it is on the wire, or held back.
At(k, r) == Carries(k, r) \/ Asking(r) \in held[k]

\* A request that its page has posted stays there until the client forwards it
\* over the connection it has, or is closed; and it stays with this connection
\* until its session takes it up, or is over.
NotDropped ==
  \A r \in Requests :
    /\ Has(outbox[Page[r]], Asking(r)) =>
         \/ Has(outbox'[Page[r]], Asking(r))
         \/ Page[r] \in closed'
         \/ \E k \in Conns : /\ k = servicePort'[Page[r]]
                             /\ Carries(k, r)' \/ sEnd[k] = "closed"
    /\ \A k \in Conns : At(k, r) =>
         \/ At(k, r)'
         \/ life'[r] # "none" /\ owner'[r] = k
         \/ k \in dead'

\* Nothing is held back for a port that is not being validated.
HeldForPort == \A k \in Conns : held[k] # {} => valid[k] # "none"

\* What is not the head of a queue stays in it when the head is taken.
LEMMA HasStays ==
  ASSUME NEW S, NEW q \in Seq(S), NEW e, Has(q, e), Head(q) # e
  PROVE  Has(Tail(q), e)
<1>1. PICK i \in DOMAIN q : q[i] = e BY DEF Has
<1>2. i # 1 BY <1>1
<1>3. i - 1 \in DOMAIN Tail(q) /\ Tail(q)[i - 1] = e BY <1>1, <1>2
<1> QED BY <1>3 DEF Has

\* Hanging up leaves on the wire what is there.
LEMMA HangUpKeeps ==
  ASSUME TypeOK, NEW c \in Clients, HangUp(c)
  PROVE  \A k \in Conns : \A e : Has(up[k], e) => Has(up'[k], e)
<1> DEFINE k == servicePort[c]
<1>1. up \in [Conns -> Seq(UpMessage)] /\ Disc \in UpMessage
  BY DEF TypeOK, PortsTypeOK, UpMessage
<1>2. \A l \in Conns : /\ up[l] \in Seq(UpMessage)
                       /\ up'[l] = up[l] \/ up'[l] = Append(up[l], Disc)
  BY <1>1 DEF HangUp
<1>3. \A l \in Conns : \A e : Has(Append(up[l], Disc), e) <=> Has(up[l], e)
                                                           \/ Disc = e
  BY <1>1, <1>2, HasAppend
<1> QED BY <1>2, <1>3

\* Dialing takes a connection that has carried nothing.
LEMMA DialCarries ==
  ASSUME TypeOK, Travels, NEW c \in Clients, NEW ms, Dial(c, ms)
  PROVE  /\ \A k \in Conns, r \in Requests :
              Has(up[k], Asking(r)) => Has(up'[k], Asking(r))
         /\ \E k \in Conns : k = servicePort'[c] /\ up'[k] = ms
<1>1. PICK k \in Conns : /\ IsNext(k)
                         /\ up' = [up EXCEPT ![k] = ms]
                         /\ servicePort' = [servicePort EXCEPT ![c] = k]
  BY DEF Dial
<1>2. /\ up \in [Conns -> Seq(UpMessage)]
      /\ servicePort \in [Clients -> 0 .. MaxConns]
  BY DEF TypeOK, PortsTypeOK, ClientTypeOK
<1>3. \A r \in Requests : ~Has(up[k], Asking(r))
  BY <1>1, PageIs DEF Travels, InTransit, IsNext, Carries
<1>4. \A l \in Conns : up'[l] = IF l = k THEN ms ELSE up[l] BY <1>1, <1>2
<1>5. servicePort'[c] = k BY <1>1, <1>2
<1>6. up'[k] = ms BY <1>4
<1>7. \E l \in Conns : l = servicePort'[c] /\ up'[l] = ms BY <1>5, <1>6
<1>8. \A l \in Conns, r \in Requests :
        Has(up[l], Asking(r)) => Has(up'[l], Asking(r))
  BY <1>3, <1>4
<1> QED BY <1>7, <1>8

\* What a client forwards is then on the connection it has, if that is not cut.
LEMMA ForwardKeeps ==
  ASSUME TypeOK, Travels, NEW c \in Clients, ForwardEvent(c),
         UNCHANGED managerVars
  PROVE  NotDropped
<1> DEFINE m == Head(outbox[c])
           k == servicePort[c]
<1>t. /\ up \in [Conns -> Seq(UpMessage)] /\ outbox[c] \in Seq(Message)
      /\ outbox \in [Clients -> Seq(Message)]
      /\ k \in 0 .. MaxConns /\ (k # 0 => k \in Conns)
  BY DEF TypeOK, PortsTypeOK, ClientTypeOK, Conns
<1>u. UNCHANGED <<held, life, owner, dead>> BY DEF managerVars
<1>m. m \in Message /\ m.type # "false" /\ m \in UpMessage
  BY <1>t DEF ForwardEvent, Message, UpMessage
<1>1. /\ outbox' = [outbox EXCEPT ![c] = Tail(@)]
      /\ \/ /\ k # 0 /\ UNCHANGED servicePort
            /\ up' = IF sEnd[k] = "closed" THEN up
                                           ELSE [up EXCEPT ![k] = Append(@, m)]
         \/ k = 0 /\ Dial(c, <<m>>)
  BY DEF ForwardEvent
<1> HIDE DEF m
<1>2. \A l \in Conns, r \in Requests :
        Has(up[l], Asking(r)) => Has(up'[l], Asking(r))
  <2>1. CASE \E ms : Dial(c, ms) BY <2>1, DialCarries
  <2>2. CASE UNCHANGED up BY <2>2
  <2>3. CASE k # 0 /\ up' = [up EXCEPT ![k] = Append(@, m)]
    <3>1. \A l \in Conns : /\ up[l] \in Seq(UpMessage)
                           /\ up'[l] = up[l] \/ up'[l] = Append(up[l], m)
      BY <1>t, <2>3
    <3>2. \A l \in Conns : \A e : Has(Append(up[l], m), e) <=> Has(up[l], e)
                                                            \/ m = e
      BY <1>m, <3>1, HasAppend
    <3> QED BY <3>1, <3>2
  <2> QED BY <1>1, <2>1, <2>2, <2>3
<1>3. \E l \in Conns : /\ l = servicePort'[c]
                       /\ Has(up'[l], m) \/ sEnd[l] = "closed"
  <2>1. CASE Dial(c, <<m>>)
    <3>1. 1 \in DOMAIN <<m>> /\ <<m>>[1] = m OBVIOUS
    <3>2. Has(<<m>>, m) BY <3>1 DEF Has
    <3> DEFINE ms == <<m>>
    <3>3. Dial(c, ms) /\ Has(ms, m) BY <2>1, <3>2
    <3> HIDE DEF ms
    <3>4. \E l \in Conns : l = servicePort'[c] /\ up'[l] = ms
      BY <3>3, DialCarries
    <3> QED BY <3>3, <3>4
  <2>2. CASE k # 0 /\ UNCHANGED servicePort
    <3>1. CASE sEnd[k] = "closed" BY <1>t, <2>2, <3>1
    <3>2. CASE sEnd[k] # "closed" /\ up' = [up EXCEPT ![k] = Append(@, m)]
      <4>1. up'[k] = Append(up[k], m) BY <1>t, <2>2, <3>2
      <4>2. Has(up'[k], m) BY <1>t, <1>m, <2>2, <4>1, HasAppend
      <4> QED BY <1>t, <2>2, <4>2
    <3> QED BY <1>1, <2>2, <3>1, <3>2
  <2> QED BY <1>1, <2>1, <2>2
<1>4. ASSUME NEW r \in Requests, Has(outbox[Page[r]], Asking(r)),
             ~Has(outbox'[Page[r]], Asking(r))
      PROVE  Page[r] = c /\ m = Asking(r)
  <2>1. \A d \in Clients : d # c => outbox'[d] = outbox[d] BY <1>t, <1>1
  <2>2. Page[r] = c BY <1>4, <2>1, PageIs
  <2>3. outbox'[c] = Tail(outbox[c]) BY <1>t, <1>1
  <2> QED BY <1>t, <1>m, <1>4, <2>2, <2>3, HasStays DEF m
<1> QED BY <1>2, <1>3, <1>4, <1>u DEF NotDropped, At, Carries

\* A step of a client.
LEMMA ClientKeeps ==
  ASSUME TypeOK, Travels, ClientNext, UNCHANGED managerVars PROVE NotDropped
<1>u. UNCHANGED <<held, life, owner, dead>> BY DEF managerVars
<1>t. outbox \in [Clients -> Seq(Message)] BY DEF TypeOK, ClientTypeOK
<1>s. ASSUME UNCHANGED outbox,
             \A k \in Conns, r \in Requests :
               Has(up[k], Asking(r)) => Has(up'[k], Asking(r))
      PROVE  NotDropped
  BY <1>s, <1>u DEF NotDropped, At, Carries
\* What the client does not forward is dropped with it.
<1>c. ASSUME NEW c \in Clients, outbox' = [outbox EXCEPT ![c] = Tail(@)],
             c \in closed',
             \A k \in Conns, r \in Requests :
               Has(up[k], Asking(r)) => Has(up'[k], Asking(r))
      PROVE  NotDropped
  <2>1. \A r \in Requests : Page[r] # c => outbox'[Page[r]] = outbox[Page[r]]
    BY <1>t, <1>c, PageIs
  <2> QED BY <1>c, <1>u, <2>1 DEF NotDropped, At, Carries
<1>1. ASSUME NEW c \in Clients, Construct(c) PROVE NotDropped
  <2>1. UNCHANGED outbox /\ \E ms : Dial(c, ms) BY <1>1 DEF Construct
  <2> QED BY <1>s, <2>1, DialCarries
<1>2. ASSUME NEW c \in Clients, ForwardEvent(c) PROVE NotDropped
  BY <1>2, ForwardKeeps
<1>3. ASSUME NEW c \in Clients, ContextLost(c) PROVE NotDropped
  BY <1>3, <1>c DEF ContextLost, portVars
<1>4. ASSUME NEW c \in Clients, PageClosed(c) PROVE NotDropped
  BY <1>4, <1>c, HangUpKeeps DEF PageClosed, Close
<1>5. ASSUME NEW c \in Clients, End(c) \/ Destroyed(c) PROVE NotDropped
  BY <1>5, <1>s, HangUpKeeps DEF End, Close, Destroyed
<1>6. ASSUME NEW c \in Clients, ServiceListener(c) \/ OnClientDisconnect(c)
      PROVE  NotDropped
  BY <1>6, <1>s DEF ServiceListener, OnClientDisconnect
<1>7. ASSUME NEW r \in Requests, SourceClosed(r) \/ SourceCanceled(r)
      PROVE  NotDropped
  BY <1>7, <1>s DEF SourceClosed, SourceCanceled, clientVars
<1> QED BY <1>1, <1>2, <1>3, <1>4, <1>5, <1>6, <1>7 DEF ClientNext

\* A message that arrives is held back or handled at once.
LEMMA MessageKeeps ==
  ASSUME TypeOK, NEW k \in Conns, OnMessage(k), UNCHANGED outbox
  PROVE  NotDropped
<1> DEFINE m == Head(up[k])
<1>t. /\ up \in [Conns -> Seq(UpMessage)]
      /\ held \in [Conns -> SUBSET [type : {"request", "abort"}, id : Requests]]
      /\ life \in [Requests -> Lives] /\ owner \in [Requests -> 0 .. MaxConns]
  BY DEF TypeOK, PortsTypeOK, ManagerTypeOK
<1>1. /\ up' = [up EXCEPT ![k] = Tail(@)] /\ up[k] # <<>>
      /\ \/ held' = [held EXCEPT ![k] = @ \cup {m}]
         \/ Handle(k, m) /\ UNCHANGED held
  BY DEF OnMessage
<1>2. \A l \in Conns : /\ l # k => up'[l] = up[l]
                       /\ held[l] \subseteq held'[l]
  BY <1>t, <1>1
<1>3. \A r \in Requests :
        Has(up[k], Asking(r)) /\ m # Asking(r) => Has(up'[k], Asking(r))
  <2>1. up'[k] = Tail(up[k]) /\ up[k] \in Seq(UpMessage) BY <1>t, <1>1
  <2> QED BY <2>1, HasStays
<1>4. \A r \in Requests : m = Asking(r) =>
        \/ Asking(r) \in held'[k]
        \/ life'[r] # "none" /\ owner'[r] = k
  <2> SUFFICES ASSUME NEW r \in Requests, m = Asking(r), Handle(k, m)
               PROVE  life'[r] # "none" /\ owner'[r] = k
    BY <1>t, <1>1
  <2>1. /\ life' = [life EXCEPT ![r] = "handling"]
        /\ owner' = [owner EXCEPT ![r] = k]
    BY AskingIs DEF Handle
  <2> QED BY <1>t, <2>1
<1> HIDE DEF m
<1> QED BY <1>2, <1>3, <1>4 DEF NotDropped, At, Carries

\* A step of the manager.
LEMMA ManagerKeeps ==
  ASSUME TypeOK, HeldForPort, ManagerNext, UNCHANGED clientVars
  PROVE  NotDropped
<1>t. /\ up \in [Conns -> Seq(UpMessage)]
      /\ held \in [Conns -> SUBSET [type : {"request", "abort"}, id : Requests]]
      /\ UNCHANGED outbox
  BY DEF TypeOK, PortsTypeOK, ManagerTypeOK, clientVars
<1>s. ASSUME UNCHANGED <<up, held>> PROVE NotDropped
  BY <1>s, <1>t DEF NotDropped, At, Carries
\* What is held back is dropped with the session.
<1>d. ASSUME UNCHANGED up,
             \A k \in Conns : held'[k] = held[k] \/ held[k] = {} \/ k \in dead'
      PROVE  NotDropped
  BY <1>d, <1>t DEF NotDropped, At, Carries
<1>1. ASSUME NEW k \in Conns, OnConnect(k) PROVE NotDropped
  BY <1>1, <1>s DEF OnConnect
<1>2. ASSUME NEW k \in Conns, OnMessage(k) PROVE NotDropped
  BY <1>2, <1>t, MessageKeeps
<1>3. ASSUME NEW k \in Conns, OnDisconnect(k) PROVE NotDropped
  <2>1. /\ up' = [up EXCEPT ![k] = Tail(@)] /\ up[k] # <<>>
        /\ Head(up[k]) = Disc /\ UNCHANGED held
    BY <1>3 DEF OnDisconnect
  <2>2. /\ up[k] \in Seq(UpMessage) /\ up'[k] = Tail(up[k])
        /\ \A l \in Conns : l # k => up'[l] = up[l]
    BY <1>t, <2>1
  <2>3. \A l \in Conns, r \in Requests :
          Has(up[l], Asking(r)) => Has(up'[l], Asking(r))
    BY <2>1, <2>2, HasStays, AskingIs
  <2> QED BY <1>t, <2>1, <2>3 DEF NotDropped, At, Carries
<1>4. ASSUME NEW k \in Conns, Validated(k) PROVE NotDropped
  <2> DEFINE Q == {r \in Requests : Asking(r) \in held[k]}
  <2>1. /\ held' = [held EXCEPT ![k] = {}] /\ UNCHANGED up
        /\ life' = [r \in Requests |-> IF r \in Q THEN "handling" ELSE life[r]]
        /\ owner' = [r \in Requests |-> IF r \in Q THEN k ELSE owner[r]]
    BY <1>4 DEF Validated, portVars, Asking
  <2>2. \A l \in Conns : l # k => held'[l] = held[l] BY <1>t, <2>1
  <2>3. \A r \in Q : life'[r] # "none" /\ owner'[r] = k BY <2>1
  <2> QED BY <1>t, <2>1, <2>2, <2>3 DEF NotDropped, At, Carries
<1>5. ASSUME NEW k \in Conns, ValidationFailed(k) PROVE NotDropped
  <2>1. /\ held' = [held EXCEPT ![k] = {}] /\ UNCHANGED up /\ k \in dead'
    BY <1>5 DEF ValidationFailed, AbortSessions
  <2> QED BY <1>d, <1>t, <2>1
<1>6. ASSUME NEW o, KillOrigin(o) PROVE NotDropped
  BY <1>6, <1>s DEF KillOrigin
<1>7. ASSUME NEW r \in Requests,
             \/ HandlerReturns(r) \/ HandlerStreams(r) \/ HandlerThrows(r)
             \/ OnSubConnect(r) \/ SubValidated(r) \/ SubInvalid(r)
             \/ ResponseEnds(r) \/ OnSubDisconnect(r) \/ PipeBroken(r)
             \/ SinkTimeout(r)
      PROVE  NotDropped
  BY <1>7, <1>s DEF HandlerReturns, HandlerStreams, HandlerThrows, OnSubConnect,
     SubValidated, SubInvalid, ResponseEnds, OnSubDisconnect, PipeBroken,
     SinkTimeout, portVars
<1>8. CASE WorkerKilled
  <2>1. UNCHANGED up /\ \A k \in Conns : valid[k] # "none" => k \in dead'
    BY <1>8 DEF WorkerKilled
  <2> QED BY <1>d, <2>1 DEF HeldForPort
<1> QED BY <1>1, <1>2, <1>3, <1>4, <1>5, <1>6, <1>7, <1>8 DEF ManagerNext

\* Only what arrives while the port is being validated is held back.
LEMMA HeldForPortStep ==
  ASSUME TypeOK, HeldForPort, [Next]_vars PROVE HeldForPort'
<1>t. /\ held \in [Conns -> SUBSET [type : {"request", "abort"}, id : Requests]]
      /\ valid \in [Conns -> {"none", "pending", "ok", "failed"}]
  BY DEF TypeOK, ManagerTypeOK
<1>s. ASSUME UNCHANGED <<held, valid>> PROVE HeldForPort'
  BY <1>s DEF HeldForPort
<1>1. ASSUME NEW k \in Conns, OnConnect(k) PROVE HeldForPort'
  <2>1. /\ UNCHANGED held
        /\ \A l \in Conns : valid[l] # "none" => valid'[l] # "none"
    BY <1>1, <1>t DEF OnConnect
  <2> QED BY <2>1 DEF HeldForPort
<1>2. ASSUME NEW k \in Conns, OnMessage(k) PROVE HeldForPort'
  <2>1. /\ UNCHANGED valid /\ valid[k] # "none"
        /\ \A l \in Conns : l # k => held'[l] = held[l]
    BY <1>2, <1>t DEF OnMessage
  <2> QED BY <2>1 DEF HeldForPort
<1>3. ASSUME NEW k \in Conns, Validated(k) \/ ValidationFailed(k)
      PROVE  HeldForPort'
  <2>1. /\ held' = [held EXCEPT ![k] = {}]
        /\ \E v : valid' = [valid EXCEPT ![k] = v]
    BY <1>3 DEF Validated, ValidationFailed
  <2>2. \A l \in Conns : IF l = k THEN held'[l] = {}
                         ELSE held'[l] = held[l] /\ valid'[l] = valid[l]
    BY <1>t, <2>1
  <2> QED BY <2>2 DEF HeldForPort
<1>4. CASE WorkerKilled BY <1>4 DEF WorkerKilled, HeldForPort
<1>5. CASE \/ \E k \in Conns : OnDisconnect(k)
           \/ \E o : KillOrigin(o)
           \/ \E r \in Requests :
                \/ HandlerReturns(r) \/ HandlerStreams(r) \/ HandlerThrows(r)
                \/ OnSubConnect(r) \/ SubValidated(r) \/ SubInvalid(r)
                \/ ResponseEnds(r) \/ OnSubDisconnect(r) \/ PipeBroken(r)
                \/ SinkTimeout(r)
  BY <1>5, <1>s DEF OnDisconnect, KillOrigin, HandlerReturns, HandlerStreams,
     HandlerThrows, OnSubConnect, SubValidated, SubInvalid, ResponseEnds,
     OnSubDisconnect, PipeBroken, SinkTimeout
<1>6. CASE UNCHANGED managerVars BY <1>6, <1>s DEF managerVars
<1> QED BY <1>1, <1>2, <1>3, <1>4, <1>5, <1>6
        DEF Next, ManagerNext, PagePosts, vars

\* A request that its page has posted is not dropped unless the client is
\* closed, or the connection that has it is over: what RequestIsTaken says will
\* happen to it finds it where it was left.
THEOREM NoneIsDropped == Spec => [][NotDropped]_vars
<1>1. Init => HeldForPort BY DEF Init, ManagerInit, HeldForPort
<1>2. TypeOK /\ HeldForPort /\ [Next]_vars => HeldForPort'
  BY HeldForPortStep
<1>3. TypeOK /\ Answered /\ HeldForPort /\ [Next]_vars => [NotDropped]_vars
  <2> SUFFICES ASSUME TypeOK, Answered, HeldForPort, Next PROVE NotDropped
    OBVIOUS
  <2>t. outbox \in [Clients -> Seq(Message)] BY DEF TypeOK, ClientTypeOK
  <2>1. ASSUME NEW c \in Clients, NEW m \in Message, PagePosts(c, m)
        PROVE  NotDropped
    <3>1. /\ outbox' = [outbox EXCEPT ![c] = Append(@, m)]
          /\ UNCHANGED <<up, held>>
      BY <2>1 DEF PagePosts, portVars, managerVars
    <3>2. \A d \in Clients : \/ outbox'[d] = outbox[d]
                             \/ outbox'[d] = Append(outbox[d], m)
      BY <2>t, <3>1
    <3>3. \A d \in Clients : \A e : Has(Append(outbox[d], m), e) <=>
                                      Has(outbox[d], e) \/ m = e
      BY <2>t, HasAppend
    <3> QED BY <3>1, <3>2, <3>3, PageIs DEF NotDropped, At, Carries
  <2>2. Travels BY DEF Answered
  <2> QED BY <2>1, <2>2, ClientKeeps, ManagerKeeps DEF Next
<1> QED BY <1>1, <1>2, <1>3, TypeCorrect, AnsweredHolds, PTL DEF Spec
=============================================================================
