----------------------- MODULE ChannelTransport_proofs -----------------------
(***************************************************************************)
(* Proofs about ChannelTransport, for every set of calls and ports.        *)
(***************************************************************************)
EXTENDS ChannelTransport, TLAPS

\* The states of a call.
PCs == {"idle", "connecting", "collecting", "waiting", "returned"}

\* Appending keeps the type of a channel.
LEMMA AppendType ==
  ASSUME NEW S, NEW q \in Seq(S), NEW x \in S
  PROVE  Append(q, x) \in Seq(S)
OBVIOUS

\* Whatever is posted, the channels keep their type.
LEMMA PostType ==
  ASSUME TypeOK, NEW p \in Ports \cup {NoPort}, NEW m \in Message, Post(p, m)
  PROVE  outbox' \in [Ports -> Seq(Message)]
<1>1. \A q \in Ports : Append(outbox[q], m) \in Seq(Message)
  BY DEF TypeOK
<1>2. QED
  BY <1>1 DEF TypeOK, Post

\* A call that posts its request keeps the types of what posting changes.
LEMMA PostRequestType ==
  ASSUME TypeOK, NEW r \in Requests, NEW p \in Ports \cup {NoPort},
         PostRequest(r, p)
  PROVE  /\ onAbort' \subseteq Requests
         /\ outbox' \in [Ports -> Seq(Message)]
         /\ sentOn' \in [Requests -> Ports \cup {NoPort}]
<1>1. [type |-> "request", id |-> r] \in Message
  BY DEF Message
<1>2. outbox' \in [Ports -> Seq(Message)]
  BY <1>1, PostType DEF PostRequest
<1>3. QED
  BY <1>2 DEF PostRequest, TypeOK

\* So does one that posts nothing.
LEMMA PostNothingType ==
  ASSUME TypeOK, PostNothing
  PROVE  /\ onAbort' \subseteq Requests
         /\ outbox' \in [Ports -> Seq(Message)]
         /\ sentOn' \in [Requests -> Ports \cup {NoPort}]
BY DEF PostNothing, TypeOK

\* Returning, proceeding and settling keep the types of the calls.
LEMMA ReturnType ==
  ASSUME TypeOK, NEW r \in Requests, NEW v \in Verdicts, Return(r, v)
  PROVE  /\ pending' \subseteq Requests
         /\ pc' \in [Requests -> PCs]
         /\ verdict' \in [Requests -> Verdicts]
BY DEF Return, TypeOK, PCs

LEMMA ProceedType ==
  ASSUME TypeOK, NEW r \in Requests, NEW v \in Verdicts,
         NEW s \in {"collecting", "waiting"}, Proceed(r, s, v)
  PROVE  /\ pending' \subseteq Requests
         /\ pc' \in [Requests -> PCs]
         /\ verdict' \in [Requests -> Verdicts]
BY DEF Proceed, TypeOK, PCs

LEMMA SettleType ==
  ASSUME TypeOK, NEW R \in SUBSET Requests, NEW v \in Verdicts, Settle(R, v)
  PROVE  /\ pending' \subseteq Requests
         /\ pc' \in [Requests -> PCs]
         /\ verdict' \in [Requests -> Verdicts]
BY DEF Settle, TypeOK, PCs

\* Registering a call keeps the types of what it changes.
LEMMA RegisterType ==
  ASSUME TypeOK, NEW r \in Requests, NEW p \in Ports, Register(r, p)
  PROVE  /\ pending' \subseteq Requests
         /\ pc' \in [Requests -> PCs]
         /\ verdict' \in [Requests -> Verdicts]
         /\ onAbort' \subseteq Requests
         /\ outbox' \in [Ports -> Seq(Message)]
         /\ sentOn' \in [Requests -> Ports \cup {NoPort}]
<1> DEFINE v == EarlyVerdict(r)
           w == IF v = "none" THEN "invalid" ELSE v
<1>1. v \in Verdicts /\ w \in Verdicts
  BY DEF EarlyVerdict, Verdicts
<1> HIDE DEF v
<1>2. \/ Return(r, v) /\ PostNothing
      \/ Proceed(r, "collecting", v) /\ PostNothing
      \/ Proceed(r, "waiting", v) /\ PostRequest(r, p)
      \/ Return(r, w) /\ PostNothing
  BY DEF Register, v
<1>3. CASE Return(r, v) /\ PostNothing
  BY <1>1, <1>3, ReturnType, PostNothingType
<1>4. CASE Proceed(r, "collecting", v) /\ PostNothing
  BY <1>1, <1>4, ProceedType, PostNothingType
<1>5. CASE Proceed(r, "waiting", v) /\ PostRequest(r, p)
  BY <1>1, <1>5, ProceedType, PostRequestType
<1>6. CASE Return(r, w) /\ PostNothing
  BY <1>1, <1>6, ReturnType, PostNothingType
<1>7. QED
  BY <1>2, <1>3, <1>4, <1>5, <1>6

\* Every reachable state of the transport is well typed.
THEOREM TypeCorrect == Spec => []TypeOK
<1>1. Init => TypeOK
  <2> SUFFICES ASSUME Init PROVE TypeOK
    OBVIOUS
  <2>1. /\ outbox \in [Ports -> Seq(Message)]
        /\ inbox \in [Ports -> Seq(Event)]
    BY DEF Init
  <2>2. QED
    BY <2>1 DEF Init, TypeOK, Verdicts
<1>2. ASSUME TypeOK, [Next]_vars
      PROVE  TypeOK'
  <2> USE <1>2
  <2>1. ASSUME NEW r \in Requests, Call(r)
        PROVE  TypeOK'
    <3>1. CASE failed
      <4>1. Return(r, "failed") /\ PostNothing
        BY <2>1, <3>1 DEF Call
      <4>2. QED
        BY <2>1, <4>1, ReturnType, PostNothingType
        DEF Call, serviceVars, TypeOK, PCs, Verdicts
    <3>2. CASE ~failed /\ port = NoPort
      BY <2>1, <3>2 DEF Call, PostNothing, serviceVars, TypeOK
    <3>3. CASE ~failed /\ port # NoPort
      <4>1. port \in Ports /\ Register(r, port)
        BY <2>1, <3>3 DEF Call, TypeOK
      <4>2. QED
        BY <2>1, <4>1, RegisterType DEF Call, serviceVars, TypeOK, PCs
    <3>4. QED
      BY <3>1, <3>2, <3>3 DEF TypeOK
  <2>2. ASSUME NEW r \in Requests, NEW p \in Ports, Connected(r, p)
        PROVE  TypeOK'
    BY <2>2, RegisterType DEF Connected, serviceVars, TypeOK, PCs
  <2>3. ASSUME NEW r \in Requests, ConnectRejected(r)
        PROVE  TypeOK'
    <3>1. PICK v \in {"error", "unavailable"} : Return(r, v)
      BY <2>3 DEF ConnectRejected
    <3>2. QED
      BY <2>3, <3>1, ReturnType, PostNothingType
      DEF ConnectRejected, serviceVars, TypeOK, PCs, Verdicts
  <2>4. ASSUME NEW r \in Requests, Collected(r)
        PROVE  TypeOK'
    <3> DEFINE w == IF verdict[r] = "none" THEN "invalid" ELSE verdict[r]
    <3>1. verdict[r] \in Verdicts /\ w \in Verdicts
      BY DEF TypeOK, Verdicts
    <3>2. port \in Ports \cup {NoPort}
      BY DEF TypeOK
    <3>3. CASE Proceed(r, "waiting", verdict[r]) /\ PostRequest(r, port)
      BY <2>4, <3>1, <3>2, <3>3, ProceedType, PostRequestType
      DEF Collected, serviceVars, TypeOK, PCs
    <3>4. CASE Return(r, w) /\ PostNothing
      BY <2>4, <3>1, <3>4, ReturnType, PostNothingType
      DEF Collected, serviceVars, TypeOK, PCs
    <3>5. QED
      BY <2>4, <3>3, <3>4 DEF Collected
  <2>5. ASSUME NEW r \in Requests, Abort(r)
        PROVE  TypeOK'
    <3>1. /\ pending' \subseteq Requests
          /\ pc' \in [Requests -> PCs]
          /\ verdict' \in [Requests -> Verdicts]
      BY <2>5, SettleType DEF Abort, Emits, Verdicts
    <3>2. /\ outbox' \in [Ports -> Seq(Message)]
          /\ abortOn' \in [Requests -> Ports \cup {NoPort}]
      <4>1. CASE r \in onAbort
        <5>1. port \in Ports \cup {NoPort}
          BY DEF TypeOK
        <5>2. [type |-> "abort", id |-> r] \in Message
          BY DEF Message
        <5>3. QED
          BY <2>5, <4>1, <5>1, <5>2, PostType DEF Abort, Emits, TypeOK
      <4>2. CASE r \notin onAbort
        BY <2>5, <4>2 DEF Abort, Emits, TypeOK
      <4>3. QED
        BY <4>1, <4>2
    <3>3. QED
      BY <2>5, <3>1, <3>2 DEF Abort, Emits, serviceVars, TypeOK, PCs
  <2>6. ASSUME NEW r \in Requests, Deadline(r)
        PROVE  TypeOK'
    BY <2>6, SettleType DEF Deadline, serviceVars, TypeOK, PCs, Verdicts
  <2>7. ASSUME NEW r \in Requests, ChunkDeadline(r) \/ StreamEnd(r)
        PROVE  TypeOK'
    BY <2>7 DEF ChunkDeadline, StreamEnd, serviceVars, TypeOK
  <2>8. ASSUME NEW p \in Ports, TransportListener(p)
        PROVE  TypeOK'
    <3>1. inbox' \in [Ports -> Seq(Event)] /\ Head(inbox[p]) \in Event
      BY <2>8 DEF TransportListener, TypeOK
    <3>2. /\ pending' \subseteq Requests
          /\ pc' \in [Requests -> PCs]
          /\ verdict' \in [Requests -> Verdicts]
          /\ failed' \in BOOLEAN
          /\ stream' \in [Requests -> {"none", "open", "ended", "stalled",
                                       "aborted"}]
      <4> DEFINE m == Head(inbox[p])
      <4>1. CASE m.type = "fault"
        BY <2>8, <4>1, SettleType DEF TransportListener, TypeOK, Verdicts
      <4>2. CASE m.type # "fault" /\ m.id \in pending
        <5>1. m.id \in Requests
          BY <4>2 DEF TypeOK
        <5>2. \/ Settle({m.id}, "response") \/ Settle({m.id}, "error")
          BY <2>8, <4>2 DEF TransportListener
        <5>3. /\ failed' = failed
              /\ stream' = stream \/ stream' = [stream EXCEPT ![m.id] = "open"]
          BY <2>8, <4>2 DEF TransportListener
        <5> HIDE DEF m
        <5>4. /\ pending' \subseteq Requests
              /\ pc' \in [Requests -> PCs]
              /\ verdict' \in [Requests -> Verdicts]
          BY <5>1, <5>2, SettleType DEF Verdicts
        <5>5. failed \in BOOLEAN /\ stream \in [Requests ->
                {"none", "open", "ended", "stalled", "aborted"}]
          BY DEF TypeOK
        <5>6. QED
          BY <5>1, <5>3, <5>4, <5>5
      <4>3. CASE m.type # "fault" /\ m.id \notin pending
        BY <2>8, <4>3 DEF TransportListener, callVars, TypeOK, PCs
      <4>4. QED
        BY <4>1, <4>2, <4>3
    <3>3. QED
      BY <2>8, <3>1, <3>2 DEF TransportListener, serviceVars, TypeOK, PCs
  <2>9. ASSUME NEW p \in Ports, ServiceTakes(p)
        PROVE  TypeOK'
    <3> DEFINE x == Head(outbox[p]).id
    <3>1. outbox' \in [Ports -> Seq(Message)] /\ Head(outbox[p]) \in Message
      BY <2>9 DEF ServiceTakes, TypeOK
    <3>2. /\ Head(outbox[p]).type \in {"request", "abort"} => x \in Requests
          /\ Head(outbox[p]).type \in {"request", "abort"}
      BY <2>9, <3>1 DEF Message
    <3>3. \/ /\ serving' = [serving EXCEPT ![p] = @ \cup {x}]
             /\ failing' = failing
          \/ /\ serving' = [serving EXCEPT ![p] = @ \ {x}]
             /\ failing' = [failing EXCEPT ![p] = @ \cup {x}]
          \/ serving' = serving /\ failing' = failing
      BY <2>9 DEF ServiceTakes
    <3> HIDE DEF x
    <3>4. \A S \in SUBSET Requests : S \cup {x} \in SUBSET Requests
                                   /\ S \ {x} \in SUBSET Requests
      BY <3>2
    <3>5. /\ serving \in [Ports -> SUBSET Requests]
          /\ failing \in [Ports -> SUBSET Requests]
      BY DEF TypeOK
    <3>6. \A q \in Ports : serving'[q] \in SUBSET Requests
                           /\ failing'[q] \in SUBSET Requests
      BY <3>3, <3>4, <3>5
    <3>7. /\ serving' \in [Ports -> SUBSET Requests]
          /\ failing' \in [Ports -> SUBSET Requests]
      <4>1. serving' = [q \in Ports |-> serving'[q]]
            /\ failing' = [q \in Ports |-> failing'[q]]
        BY <3>3, <3>5
      <4>2. QED
        BY <3>6, <4>1
    <3>8. QED
      BY <2>9, <3>1, <3>7 DEF ServiceTakes, TypeOK
  <2>10. ASSUME NEW p \in Ports, NEW r \in Requests, ServiceAnswers(p, r)
         PROVE  TypeOK'
    <3>1. PICK t \in {"message", "stream", "error"} :
            Reply(p, [type |-> t, id |-> r])
      BY <2>10 DEF ServiceAnswers
    <3>2. [type |-> t, id |-> r] \in Event
      BY DEF Event
    <3>3. inbox' \in [Ports -> Seq(Event)]
      BY <3>1, <3>2 DEF Reply, TypeOK
    <3>4. failing' \in [Ports -> SUBSET Requests]
      <4>1. failing[p] \cup {r} \in SUBSET Requests
        BY DEF TypeOK
      <4>2. QED
        BY <2>10, <4>1 DEF ServiceAnswers, TypeOK
    <3>5. QED
      BY <2>10, <3>3, <3>4 DEF ServiceAnswers, TypeOK
  <2>11. ASSUME NEW p \in Ports, NEW r \in Requests, ServiceFails(p, r)
         PROVE  TypeOK'
    <3>1. [type |-> "error", id |-> r] \in Event
      BY DEF Event
    <3>2. inbox' \in [Ports -> Seq(Event)]
      BY <2>11, <3>1 DEF ServiceFails, Reply, TypeOK
    <3>3. QED
      BY <2>11, <3>2 DEF ServiceFails, TypeOK
  <2>12. ASSUME NEW p \in Ports, ServiceCloses(p)
         PROVE  TypeOK'
    <3>1. [type |-> "fault"] \in Event
      BY DEF Event
    <3>2. QED
      BY <2>12, <3>1 DEF ServiceCloses, TypeOK
  <2>13. CASE UNCHANGED vars
    BY <2>13 DEF vars, TypeOK
  <2>14. QED
    BY <2>1, <2>2, <2>3, <2>4, <2>5, <2>6, <2>7, <2>8, <2>9, <2>10, <2>11,
       <2>12, <2>13 DEF Next, Connect
<1>3. QED
  BY <1>1, <1>2, PTL DEF Spec
-----------------------------------------------------------------------------
(***************************************************************************)
(* The inductive invariant.  Its parts concern disjoint events: what the   *)
(* map holds (PendingExact), what a failed transport leaves undecided      *)
(* (FailureIsTotal), and which listeners and aborts exist (ListenersExact, *)
(* AbortIsEmitted).                                                        *)
(***************************************************************************)

\* Settling calls that have a callback keeps the map exact.
LEMMA SettlePending ==
  ASSUME TypeOK, PendingExact, NEW R \in SUBSET pending,
         NEW v \in Verdicts \ {"none"}, Settle(R, v)
  PROVE  PendingExact' /\ pending' = pending \ R
BY DEF TypeOK, PendingExact, Settle

\* So does returning from a call,
LEMMA ReturnPending ==
  ASSUME TypeOK, PendingExact, NEW r \in Requests, NEW v \in Verdicts,
         Return(r, v)
  PROVE  PendingExact' /\ pending' = pending \ {r}
BY DEF TypeOK, PendingExact, Return

\* and going on to the next await.
LEMMA ProceedPending ==
  ASSUME TypeOK, PendingExact, NEW r \in Requests, NEW v \in Verdicts,
         NEW s \in {"collecting", "waiting"}, Proceed(r, s, v),
         pc[r] \in {"idle", "connecting"} \/ verdict[r] = v
  PROVE  /\ PendingExact'
         /\ pending' = IF v = "none" THEN pending \cup {r} ELSE pending
BY DEF TypeOK, PendingExact, Proceed

\* What registering a call does to the invariant: shared by Call and Connected.
LEMMA RegisterInv ==
  ASSUME TypeOK, IInv, NEW r \in Requests, NEW p \in Ports, Register(r, p),
         pc[r] \in {"idle", "connecting"}, port' = p, failed' = failed,
         aborted' = aborted, abortOn' = abortOn
  PROVE  IInv'
<1> DEFINE v == EarlyVerdict(r)
           w == IF v = "none" THEN "invalid" ELSE v
<1>1. v \in Verdicts /\ w \in Verdicts
  BY DEF EarlyVerdict, Verdicts
<1>2. v = "none" => ~failed /\ r \notin aborted
  BY DEF EarlyVerdict
<1> HIDE DEF v
<1>3. \/ \E x \in Verdicts : Return(r, x) /\ PostNothing
      \/ /\ Proceed(r, "collecting", v) /\ PostNothing
         /\ Kind[r] = "serverStreaming"
      \/ /\ Proceed(r, "waiting", v) /\ PostRequest(r, p)
         /\ r \notin aborted /\ Kind[r] # "serverStreaming"
  BY <1>1 DEF Register, v
<1>4. /\ PendingExact'
      /\ \/ pending' = pending \ {r}
         \/ pending' = IF v = "none" THEN pending \cup {r} ELSE pending
  <2>1. ASSUME NEW x \in Verdicts, Return(r, x)
        PROVE  PendingExact' /\ pending' = pending \ {r}
    BY <2>1, ReturnPending DEF IInv
  <2>2. ASSUME NEW s \in {"collecting", "waiting"}, Proceed(r, s, v)
        PROVE  /\ PendingExact'
               /\ pending' = IF v = "none" THEN pending \cup {r} ELSE pending
    BY <1>1, <2>2, ProceedPending DEF IInv
  <2>3. QED
    BY <1>3, <2>1, <2>2
<1>5. FailureIsTotal'
  BY <1>2, <1>4 DEF IInv, FailureIsTotal
<1>6. p # NoPort
  BY PortAssumption
<1>7. ListenersExact'
  BY <1>3, <1>6
  DEF IInv, ListenersExact, TypeOK, Return, Proceed, PostNothing, PostRequest
<1>8. AbortIsEmitted'
  BY <1>2, <1>3, <1>4 DEF IInv, AbortIsEmitted, TypeOK, PostNothing, PostRequest
<1>9. QED
  BY <1>4, <1>5, <1>7, <1>8 DEF IInv

\* A step that settles some calls and leaves the listeners alone.
LEMMA SettleInv ==
  ASSUME TypeOK, IInv, NEW R \in SUBSET pending,
         NEW v \in Verdicts \ {"none"}, Settle(R, v),
         failed' = failed \/ R = pending,
         UNCHANGED <<port, aborted, onAbort, sentOn, abortOn>>
  PROVE  IInv'
<1>1. PendingExact' /\ pending' = pending \ R
  BY SettlePending DEF IInv
<1>2. FailureIsTotal'
  BY <1>1 DEF IInv, FailureIsTotal
<1>3. ListenersExact'
  BY DEF IInv, ListenersExact, Settle, TypeOK
<1>4. AbortIsEmitted'
  BY <1>1 DEF IInv, AbortIsEmitted
<1>5. QED
  BY <1>1, <1>2, <1>3, <1>4 DEF IInv

\* A step that changes nothing the invariant speaks of.
LEMMA FrameInv ==
  ASSUME IInv, UNCHANGED <<port, failed, pending, pc, verdict, aborted, onAbort,
                           sentOn, abortOn>>
  PROVE  IInv'
BY DEF IInv, PendingExact, FailureIsTotal, ListenersExact, AbortIsEmitted

\* IInv is inductive, given the types.
THEOREM InvariantHolds == Spec => []IInv
<1>1. Init => IInv
  BY DEF Init, IInv, PendingExact, FailureIsTotal, ListenersExact, AbortIsEmitted
<1>2. ASSUME TypeOK, IInv, [Next]_vars
      PROVE  IInv'
  <2> USE <1>2
  <2>1. ASSUME NEW r \in Requests, Call(r)
        PROVE  IInv'
    <3>1. CASE failed \/ port = NoPort
      <4>1. CASE failed
        <5>1. Return(r, "failed") /\ PostNothing
          BY <2>1, <4>1 DEF Call
        <5>2. PendingExact' /\ pending' = pending \ {r}
          BY <5>1, ReturnPending DEF IInv, Verdicts
        <5>3. QED
          BY <2>1, <5>1, <5>2
          DEF Call, Return, PostNothing, IInv, FailureIsTotal, ListenersExact,
              AbortIsEmitted, TypeOK
      <4>2. CASE ~failed /\ port = NoPort
        BY <2>1, <4>2
        DEF Call, PostNothing, IInv, PendingExact, FailureIsTotal,
            ListenersExact, AbortIsEmitted, TypeOK
      <4>3. QED
        BY <3>1, <4>1, <4>2 DEF TypeOK
    <3>2. CASE ~failed /\ port # NoPort
      <4>1. port \in Ports /\ Register(r, port)
        BY <2>1, <3>2 DEF Call, TypeOK
      <4>2. QED
        BY <2>1, <4>1, RegisterInv DEF Call
    <3>3. QED
      BY <3>1, <3>2 DEF TypeOK
  <2>2. ASSUME NEW r \in Requests, NEW p \in Ports, Connected(r, p)
        PROVE  IInv'
    BY <2>2, RegisterInv DEF Connected
  <2>3. ASSUME NEW r \in Requests, ConnectRejected(r)
        PROVE  IInv'
    <3>1. PICK v \in {"error", "unavailable"} : Return(r, v)
      BY <2>3 DEF ConnectRejected
    <3>2. PendingExact' /\ pending' = pending \ {r}
      BY <3>1, ReturnPending DEF IInv, Verdicts
    <3>3. QED
      BY <2>3, <3>1, <3>2
      DEF ConnectRejected, Return, PostNothing, IInv, FailureIsTotal,
          ListenersExact, AbortIsEmitted, TypeOK
  <2>4. ASSUME NEW r \in Requests, Collected(r)
        PROVE  IInv'
    <3> DEFINE w == IF verdict[r] = "none" THEN "invalid" ELSE verdict[r]
    <3>1. /\ verdict[r] \in Verdicts /\ w \in Verdicts
          /\ pc[r] = "collecting" /\ port # NoPort
      BY <2>4 DEF Collected, TypeOK, Verdicts, IInv, ListenersExact
    <3>2. verdict[r] = "none" => r \in pending
      BY <3>1 DEF IInv, PendingExact
    <3>3. CASE Proceed(r, "waiting", verdict[r]) /\ PostRequest(r, port)
      <4>1. PendingExact' /\ pending' = pending
        BY <3>1, <3>2, <3>3, ProceedPending DEF IInv
      <4>2. FailureIsTotal'
        BY <2>4, <4>1 DEF Collected, IInv, FailureIsTotal
      <4>3. ListenersExact'
        BY <2>4, <3>1, <3>3
        DEF Collected, Proceed, PostRequest, IInv, ListenersExact, TypeOK
      <4>4. AbortIsEmitted'
        BY <2>4, <3>1, <3>3, <4>1
        DEF Collected, PostRequest, IInv, ListenersExact, AbortIsEmitted, TypeOK
      <4>5. QED
        BY <4>1, <4>2, <4>3, <4>4 DEF IInv
    <3>4. CASE Return(r, w) /\ PostNothing
      <4>1. PendingExact' /\ pending' = pending \ {r}
        BY <3>1, <3>4, ReturnPending DEF IInv
      <4>2. QED
        BY <2>4, <3>1, <3>4, <4>1
        DEF Collected, Return, PostNothing, IInv, FailureIsTotal,
            ListenersExact, AbortIsEmitted, TypeOK
    <3>5. QED
      BY <2>4, <3>3, <3>4 DEF Collected
  <2>5. ASSUME NEW r \in Requests, Abort(r)
        PROVE  IInv'
    <3>1. PendingExact' /\ pending' = pending \ {r}
      <4>1. pending \cap {r} \in SUBSET pending
        OBVIOUS
      <4>2. PendingExact' /\ pending' = pending \ (pending \cap {r})
        BY <2>5, <4>1, SettlePending DEF Abort, Emits, IInv, Verdicts
      <4>3. QED
        BY <4>2
    <3>2. FailureIsTotal'
      BY <2>5, <3>1 DEF Abort, Emits, IInv, FailureIsTotal
    <3>3. ListenersExact'
      BY <2>5 DEF Abort, Emits, Settle, IInv, ListenersExact, TypeOK
    <3>4. AbortIsEmitted'
      BY <2>5, <3>1 DEF Abort, Emits, IInv, ListenersExact, AbortIsEmitted, TypeOK
    <3>5. QED
      BY <3>1, <3>2, <3>3, <3>4 DEF IInv
  <2>6. ASSUME NEW r \in Requests, Deadline(r)
        PROVE  IInv'
    BY <2>6, SettleInv DEF Deadline, Verdicts
  <2>7. ASSUME NEW r \in Requests, ChunkDeadline(r) \/ StreamEnd(r)
        PROVE  IInv'
    BY <2>7, FrameInv DEF ChunkDeadline, StreamEnd
  <2>8. ASSUME NEW p \in Ports, TransportListener(p)
        PROVE  IInv'
    <3> DEFINE m == Head(inbox[p])
    <3>1. CASE m.type = "fault"
      BY <2>8, <3>1, SettleInv DEF TransportListener, Verdicts
    <3>2. CASE m.type # "fault" /\ m.id \in pending
      <4>1. Settle({m.id}, "response") \/ Settle({m.id}, "error")
        BY <2>8, <3>2 DEF TransportListener
      <4>2. failed' = failed
        BY <2>8, <3>2 DEF TransportListener
      <4>3. QED
        BY <2>8, <3>2, <4>1, <4>2, SettleInv DEF TransportListener, Verdicts
    <3>3. CASE m.type # "fault" /\ m.id \notin pending
      BY <2>8, <3>3, FrameInv DEF TransportListener, callVars
    <3>4. QED
      BY <3>1, <3>2, <3>3
  <2>9. ASSUME NEW p \in Ports,
               \/ ServiceTakes(p)
               \/ ServiceCloses(p)
               \/ \E r \in Requests : ServiceAnswers(p, r) \/ ServiceFails(p, r)
        PROVE  IInv'
    BY <2>9, FrameInv
    DEF ServiceTakes, ServiceCloses, ServiceAnswers, ServiceFails
  <2>10. CASE UNCHANGED vars
    BY <2>10, FrameInv DEF vars
  <2>11. QED
    BY <2>1, <2>2, <2>3, <2>4, <2>5, <2>6, <2>7, <2>8, <2>9, <2>10
    DEF Next, Connect
<1>3. QED
  BY <1>1, <1>2, TypeCorrect, PTL DEF Spec

\* `pending` holds exactly the undecided calls, whatever happens to them.
THEOREM PendingIsExact == Spec => []PendingExact
<1>1. IInv => PendingExact
  BY DEF IInv
<1>2. QED
  BY <1>1, InvariantHolds, PTL

\* A failed transport leaves no call undecided.
THEOREM FailureReachesAll == Spec => []FailureIsTotal
<1>1. IInv => FailureIsTotal
  BY DEF IInv
<1>2. QED
  BY <1>1, InvariantHolds, PTL

\* A caller that aborts is released, and the abort of a call that posts in the
\* step that registers it is posted too.
THEOREM AbortsAreEmitted == Spec => []AbortIsEmitted
<1>1. IInv => AbortIsEmitted
  BY DEF IInv
<1>2. QED
  BY <1>1, InvariantHolds, PTL

\* When getPort() always resolves to one and the same port, as the client of
\* packages/client does, every abort goes where its request went.
THEOREM AbortsFollow ==
  ASSUME \A p, q \in Ports : p = q
  PROVE  Spec => []AbortFollowsRequest
<1>1. TypeOK /\ IInv => AbortFollowsRequest
  BY DEF TypeOK, IInv, ListenersExact, AbortFollowsRequest
<1>2. QED
  BY <1>1, TypeCorrect, InvariantHolds, PTL
-----------------------------------------------------------------------------
(* What a page posts. *)

\* The request of r, or its abort, is put on the port.
PostsRequest(r, p) ==
  /\ outbox'[p] = Append(outbox[p], [type |-> "request", id |-> r])
  /\ sentOn[r] = NoPort /\ sentOn'[r] = p
PostsAbort(r, p) ==
  /\ outbox'[p] = Append(outbox[p], [type |-> "abort", id |-> r])
  /\ sentOn[r] = p /\ abortOn[r] = NoPort /\ abortOn'[r] = p

\* What a step puts on a port is one request or one abort, and what was posted
\* is remembered.
InTurn ==
  /\ \A p \in Ports : \/ outbox'[p] = outbox[p]
                      \/ outbox[p] # <<>> /\ outbox'[p] = Tail(outbox[p])
                      \/ \E r \in Requests :
                           PostsRequest(r, p) \/ PostsAbort(r, p)
  /\ \A r \in Requests : /\ sentOn[r] # NoPort => sentOn'[r] = sentOn[r]
                         /\ abortOn[r] # NoPort => abortOn'[r] = abortOn[r]

\* A call that posts its request does so for the first time.
LEMMA RequestInTurn ==
  ASSUME TypeOK, IInv, NEW r \in Requests, NEW p \in Ports,
         pc[r] \notin {"waiting", "returned"},
         PostRequest(r, p) \/ PostNothing, UNCHANGED abortOn
  PROVE  InTurn
<1>1. sentOn[r] = NoPort BY DEF IInv, ListenersExact
<1>2. CASE PostNothing BY <1>2 DEF PostNothing, InTurn
<1>3. CASE PostRequest(r, p)
  <2>1. /\ sentOn' = [sentOn EXCEPT ![r] = p]
        /\ Post(p, [type |-> "request", id |-> r])
    BY <1>3 DEF PostRequest
  <2>2. ASSUME NEW q \in Ports
        PROVE  outbox'[q] = outbox[q] \/ PostsRequest(r, q)
    <3>1. CASE q # p BY <2>1, <3>1 DEF Post
    <3>2. CASE q = p
      <4>1. sentOn'[r] = p BY <2>1 DEF TypeOK
      <4>2. \/ outbox'[p] = outbox[p]
            \/ outbox'[p] = Append(outbox[p], [type |-> "request", id |-> r])
        BY <2>1 DEF Post, TypeOK
      <4> QED BY <1>1, <3>2, <4>1, <4>2 DEF PostsRequest
    <3> QED BY <3>1, <3>2
  <2>3. \A q \in Requests : sentOn[q] # NoPort => sentOn'[q] = sentOn[q]
    BY <1>1, <2>1 DEF TypeOK
  <2> QED BY <2>2, <2>3 DEF InTurn
<1> QED BY <1>2, <1>3

\* What Sessions assumes of its pages holds of a page that uses this transport
\* if getPort() always resolves to one and the same port: it posts a request
\* once, its abort once, after the request and to the same port, and nothing
\* else.
THEOREM PostsInTurn ==
  ASSUME \A p, q \in Ports : p = q
  PROVE  Spec => [][InTurn]_vars
<1>1. TypeOK /\ IInv /\ [Next]_vars => [InTurn]_vars
  <2> SUFFICES ASSUME TypeOK, IInv, Next PROVE InTurn
    OBVIOUS
  <2>s. ASSUME UNCHANGED <<outbox, sentOn, abortOn>> PROVE InTurn
    BY <2>s DEF InTurn
  <2>1. ASSUME NEW r \in Requests, Call(r) PROVE InTurn
    <3>1. CASE PostNothing
      BY <2>1, <3>1, <2>s DEF Call, PostNothing
    <3>2. CASE port # NoPort /\ Register(r, port)
      <4>1. port \in Ports /\ (PostRequest(r, port) \/ PostNothing)
        BY <3>2 DEF Register, TypeOK
      <4> QED BY <2>1, <4>1, RequestInTurn DEF Call
    <3> QED BY <2>1, <3>1, <3>2 DEF Call
  <2>2. ASSUME NEW r \in Requests, NEW p \in Ports, Connected(r, p)
        PROVE  InTurn
    <3>1. PostRequest(r, p) \/ PostNothing
      BY <2>2 DEF Connected, Register
    <3> QED BY <2>2, <3>1, RequestInTurn DEF Connected
  <2>3. ASSUME NEW r \in Requests, ConnectRejected(r) PROVE InTurn
    BY <2>3, <2>s DEF ConnectRejected, PostNothing
  <2>4. ASSUME NEW r \in Requests, Collected(r) PROVE InTurn
    <3>1. port \in Ports BY <2>4 DEF Collected, IInv, ListenersExact, TypeOK
    <3>2. PostRequest(r, port) \/ PostNothing BY <2>4 DEF Collected
    <3> QED BY <2>4, <3>1, <3>2, RequestInTurn DEF Collected
  <2>5. ASSUME NEW r \in Requests, Abort(r) PROVE InTurn
    <3>1. CASE r \notin onAbort
      BY <2>5, <2>s, <3>1 DEF Abort, Emits
    <3>2. CASE r \in onAbort
      <4>1. /\ port \in Ports /\ sentOn[r] \in Ports /\ abortOn[r] = NoPort
            /\ sentOn[r] = port
        BY <2>5, <3>2 DEF Abort, IInv, ListenersExact, TypeOK
      <4>2. /\ Post(port, [type |-> "abort", id |-> r]) /\ UNCHANGED sentOn
            /\ abortOn' = [abortOn EXCEPT ![r] = port]
        BY <2>5, <3>2 DEF Abort, Emits
      <4>3. ASSUME NEW q \in Ports
            PROVE  outbox'[q] = outbox[q] \/ PostsAbort(r, q)
        <5>1. q = port BY <4>1
        <5>2. abortOn'[r] = port BY <4>2 DEF TypeOK
        <5>3. \/ outbox'[port] = outbox[port]
              \/ outbox'[port] =
                   Append(outbox[port], [type |-> "abort", id |-> r])
          BY <4>1, <4>2 DEF Post, TypeOK
        <5> QED BY <4>1, <5>1, <5>2, <5>3 DEF PostsAbort
      <4>4. \A q \in Requests : abortOn[q] # NoPort => abortOn'[q] = abortOn[q]
        BY <4>1, <4>2 DEF TypeOK
      <4> QED BY <4>2, <4>3, <4>4 DEF InTurn
    <3> QED BY <3>1, <3>2
  <2>6. ASSUME NEW r \in Requests,
               Deadline(r) \/ ChunkDeadline(r) \/ StreamEnd(r)
        PROVE  InTurn
    BY <2>6, <2>s DEF Deadline, ChunkDeadline, StreamEnd
  <2>7. ASSUME NEW p \in Ports, ServiceTakes(p) PROVE InTurn
    <3>1. /\ outbox[p] # <<>> /\ outbox' = [outbox EXCEPT ![p] = Tail(@)]
          /\ UNCHANGED <<sentOn, abortOn>>
      BY <2>7 DEF ServiceTakes
    <3>2. \A q \in Ports : q = p /\ outbox'[q] = Tail(outbox[q])
      BY <3>1 DEF TypeOK
    <3> QED BY <3>1, <3>2 DEF InTurn
  <2>8. ASSUME NEW p \in Ports,
               \/ TransportListener(p) \/ ServiceCloses(p)
               \/ \E r \in Requests : ServiceAnswers(p, r) \/ ServiceFails(p, r)
        PROVE  InTurn
    BY <2>8, <2>s
       DEF TransportListener, ServiceCloses, ServiceAnswers, ServiceFails
  <2> QED BY <2>1, <2>2, <2>3, <2>4, <2>5, <2>6, <2>7, <2>8
          DEF Next, Connect
<1> QED BY <1>1, TypeCorrect, InvariantHolds, PTL DEF Spec
-----------------------------------------------------------------------------
(* How a call is decided. *)

\* Nothing is decided of a call that has no port yet.
Fresh == \A r \in Requests : pc[r] \in {"idle", "connecting"} =>
                                verdict[r] = "none"

\* What is decided of a call stays so, and a call that has returned does not
\* return again.
Decided == \A r \in Requests :
             /\ verdict[r] # "none" => verdict'[r] = verdict[r]
             /\ pc[r] = "returned" => pc'[r] = "returned"

\* Registering decides nothing that was decided.
LEMMA RegisterDecides ==
  ASSUME TypeOK, Fresh, NEW r \in Requests, NEW p, Register(r, p),
         pc[r] \in {"idle", "connecting"}
  PROVE  Fresh' /\ Decided
<1>1. verdict[r] = "none" BY DEF Fresh
<1>2. \E v, s : \/ Return(r, v)
               \/ /\ Proceed(r, s, v)
                  /\ s \in {"collecting", "waiting"}
  BY DEF Register
<1> QED BY <1>1, <1>2 DEF TypeOK, Fresh, Decided, Return, Proceed

\* Only calls that are undecided and have registered are settled.
LEMMA SettleDecides ==
  ASSUME TypeOK, IInv, Fresh, NEW R \in SUBSET pending, NEW v, Settle(R, v)
  PROVE  Fresh' /\ Decided
BY DEF TypeOK, IInv, PendingExact, Fresh, Decided, Settle

\* Each step decides only what is undecided.
LEMMA DecidedStep ==
  ASSUME TypeOK, IInv, Fresh, [Next]_vars PROVE Fresh' /\ Decided
<1>s. ASSUME UNCHANGED <<pc, verdict>> PROVE Fresh' /\ Decided
  BY <1>s DEF Fresh, Decided
<1>r. ASSUME NEW r \in Requests, NEW v, Return(r, v),
             verdict[r] # "none" => v = verdict[r]
      PROVE  Fresh' /\ Decided
  BY <1>r DEF TypeOK, Fresh, Decided, Return
<1>1. ASSUME NEW r \in Requests, Call(r) PROVE Fresh' /\ Decided
  <2>0. pc[r] = "idle" /\ verdict[r] = "none" BY <1>1 DEF Call, Fresh
  <2>1. CASE Return(r, "failed") BY <1>r, <2>0, <2>1
  <2>2. CASE pc' = [pc EXCEPT ![r] = "connecting"] /\ UNCHANGED verdict
    BY <2>0, <2>2 DEF TypeOK, Fresh, Decided
  <2>3. CASE Register(r, port) BY <2>0, <2>3, RegisterDecides
  <2> QED BY <1>1, <2>1, <2>2, <2>3 DEF Call
<1>2. ASSUME NEW r \in Requests, NEW p \in Ports, Connected(r, p)
      PROVE  Fresh' /\ Decided
  BY <1>2, RegisterDecides DEF Connected
<1>3. ASSUME NEW r \in Requests, ConnectRejected(r) PROVE Fresh' /\ Decided
  BY <1>3, <1>r DEF ConnectRejected, Fresh
<1>4. ASSUME NEW r \in Requests, Collected(r) PROVE Fresh' /\ Decided
  <2>1. CASE Proceed(r, "waiting", verdict[r])
    BY <1>4, <2>1 DEF Collected, Proceed, TypeOK, Fresh, Decided
  <2>2. CASE Return(r, IF verdict[r] = "none" THEN "invalid" ELSE verdict[r])
    BY <1>r, <2>2
  <2> QED BY <1>4, <2>1, <2>2 DEF Collected
<1>5. ASSUME NEW r \in Requests, Abort(r) PROVE Fresh' /\ Decided
  <2>1. Settle(pending \cap {r}, "aborted") BY <1>5 DEF Abort
  <2> QED BY <2>1, SettleDecides
<1>6. ASSUME NEW r \in Requests, Deadline(r) PROVE Fresh' /\ Decided
  BY <1>6, SettleDecides DEF Deadline
<1>7. ASSUME NEW p \in Ports, TransportListener(p) PROVE Fresh' /\ Decided
  <2> DEFINE i == Head(inbox[p]).id
  <2>1. \/ \E v : Settle(pending, v)
        \/ i \in pending /\ \E v : Settle({i}, v)
        \/ UNCHANGED <<pc, verdict>>
    BY <1>7 DEF TransportListener, callVars
  <2> HIDE DEF i
  <2>2. CASE \E v : Settle(pending, v) BY <2>2, SettleDecides
  <2>3. CASE i \in pending /\ \E v : Settle({i}, v)
    <3>1. {i} \in SUBSET pending BY <2>3
    <3> QED BY <2>3, <3>1, SettleDecides
  <2> QED BY <1>s, <2>1, <2>2, <2>3
<1>8. ASSUME NEW p \in Ports, NEW r \in Requests,
             ServiceAnswers(p, r) \/ ServiceFails(p, r)
      PROVE  Fresh' /\ Decided
  BY <1>8, <1>s DEF ServiceAnswers, ServiceFails
<1>9. ASSUME NEW r \in Requests, ChunkDeadline(r) \/ StreamEnd(r)
      PROVE  Fresh' /\ Decided
  BY <1>9, <1>s DEF ChunkDeadline, StreamEnd
<1>10. ASSUME NEW p \in Ports, ServiceTakes(p) \/ ServiceCloses(p)
       PROVE  Fresh' /\ Decided
  BY <1>10, <1>s DEF ServiceTakes, ServiceCloses
<1>11. CASE UNCHANGED vars BY <1>11, <1>s DEF vars
<1> QED BY <1>1, <1>2, <1>3, <1>4, <1>5, <1>6, <1>7, <1>8, <1>9, <1>10, <1>11
        DEF Next, Connect

\* An answer, a failure of the transport, an abort, a deadline and bad input
\* may all befall a call: one of them decides it, and the others change nothing
\* of what its caller is told.
THEOREM DecidedOnce == Spec => [][Decided]_vars
<1>1. Init => Fresh BY DEF Init, Fresh
<1>2. TypeOK /\ IInv /\ Fresh /\ [Next]_vars => Fresh' BY DecidedStep
<1>3. TypeOK /\ IInv /\ Fresh /\ [Next]_vars => [Decided]_vars BY DecidedStep
<1> QED BY <1>1, <1>2, <1>3, TypeCorrect, InvariantHolds, PTL DEF Spec
=============================================================================
