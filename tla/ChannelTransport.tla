-------------------------- MODULE ChannelTransport --------------------------
(***************************************************************************)
(* The channel transport a page holds: createChannelTransport of           *)
(* packages/transport-dom/src/create.ts.                                    *)
(*                                                                         *)
(* One transport serves any number of concurrent requests.  It opens its   *)
(* message port on demand (`port ??= await connect()`), keeps a callback   *)
(* per request in the map `pending`, and settles each request at the first *)
(* of: an answer, a failure of the whole transport, the caller's abort     *)
(* signal, the deadline.  JavaScript runs to completion, so an action is   *)
(* the code between two awaits, or one event listener.                     *)
(*                                                                         *)
(* The service at the other end of the port is the least that can be said  *)
(* of packages/transport-chrome/src/session.ts: it takes messages in       *)
(* order, answers each request it has taken at most once, drops a request  *)
(* it is told to abort, and may post an error for one that it dropped or   *)
(* answered with a stream.  When the port goes it cancels what it is       *)
(* working on; what it still held for the validation of the page may be    *)
(* taken up later, and is then worked on for nobody.  PageContract.tla is  *)
(* this promise, and Sessions keeps it.                                    *)
(***************************************************************************)
EXTENDS Naturals, Sequences

CONSTANTS
  Requests,   \* the calls of unary() and stream(), each with its own id
  Kind,       \* the method kind of each call
  Timed,      \* the calls with a timeoutMs other than zero
  Ports,      \* the ports getPort() may resolve to
  NoPort      \* `undefined`

Kinds == {"unary", "serverStreaming", "duplex"}

ASSUME KindAssumption  == Kind \in [Requests -> Kinds]
ASSUME TimedAssumption == Timed \subseteq Requests
ASSUME PortAssumption  == NoPort \notin Ports

VARIABLES
  port,       \* the port the closure remembers
  listening,  \* ports that transportListener is attached to
  failed,     \* transportFailure.signal.aborted
  pending,    \* the requests that have a callback in the map
  pc,         \* how far each call has come
  verdict,    \* how the `response` promise of each call settled
  aborted,    \* calls whose caller has aborted their signal
  onAbort,    \* calls that registered the listener which posts an abort
  stream,     \* the response stream handed to the caller
  outbox,     \* per port, messages on their way to the service
  inbox,      \* per port, messages on their way to the page
  serving,    \* per port, requests the service is working on
  failing,    \* per port, requests dropped or streaming, not failed yet
  closed,     \* ports the service has given up
  sentOn,     \* history: the port each request was posted to
  abortOn     \* history: the port each abort was posted to

callVars    == <<pc, verdict, pending>>
serviceVars == <<serving, failing, closed>>
vars == <<port, listening, failed, pending, pc, verdict, aborted, onAbort,
          stream, outbox, inbox, serving, failing, closed, sentOn, abortOn>>

Verdicts == {"none", "response", "error", "invalid", "failed", "aborted",
             "deadline", "unavailable"}
Message  == [type : {"request", "abort"}, id : Requests]
Event    == [type : {"message", "stream", "error"}, id : Requests]
              \cup {[type |-> "fault"]}

\* What the callback of a call accepts as a success; anything else rejects it.
Expected(r) == IF Kind[r] = "unary" THEN "message" ELSE "stream"
-----------------------------------------------------------------------------
Init ==
  /\ port = NoPort
  /\ listening = {}
  /\ failed = FALSE
  /\ pending = {}
  /\ pc = [r \in Requests |-> "idle"]
  /\ verdict = [r \in Requests |-> "none"]
  /\ aborted = {}
  /\ onAbort = {}
  /\ stream = [r \in Requests |-> "none"]
  /\ outbox = [p \in Ports |-> <<>>]
  /\ inbox = [p \in Ports |-> <<>>]
  /\ serving = [p \in Ports |-> {}]
  /\ failing = [p \in Ports |-> {}]
  /\ closed = {}
  /\ sentOn = [r \in Requests |-> NoPort]
  /\ abortOn = [r \in Requests |-> NoPort]

\* Bugs these definitions must exclude are named Bug...; a run that uses one in
\* place of the definition below it finds the property that excludes it broken.

\* `pending.delete` is forgotten.
BugSettleLeaks(R, v) ==
  /\ verdict' = [r \in Requests |-> IF r \in R THEN v ELSE verdict[r]]
  /\ pc' = [r \in Requests |->
              IF r \in R /\ pc[r] = "waiting" THEN "returned" ELSE pc[r]]
  /\ UNCHANGED pending

\* The `response` promises of the calls R settle: their callbacks leave the
\* map, and whoever already awaits them returns to the caller.
Settle(R, v) ==
  /\ verdict' = [r \in Requests |-> IF r \in R THEN v ELSE verdict[r]]
  /\ pending' = pending \ R
  /\ pc' = [r \in Requests |->
              IF r \in R /\ pc[r] = "waiting" THEN "returned" ELSE pc[r]]

\* A message goes out without its request id.
BugPostWithoutId(p, m) ==
  outbox' = IF p \in closed THEN outbox
            ELSE [outbox EXCEPT ![p] = Append(@, [type |-> m.type])]

\* port.postMessage: a port the other side closed swallows the message.
Post(p, m) ==
  outbox' = IF p \in closed THEN outbox
                            ELSE [outbox EXCEPT ![p] = Append(@, m)]

\* The request is posted, and nobody listens for its abort.
BugPostWithoutListener(r, p) ==
  /\ Post(p, [type |-> "request", id |-> r])
  /\ sentOn' = [sentOn EXCEPT ![r] = p]
  /\ UNCHANGED onAbort

\* Register the abort listener and post the request, in this order.
PostRequest(r, p) ==
  /\ onAbort' = onAbort \cup {r}
  /\ Post(p, [type |-> "request", id |-> r])
  /\ sentOn' = [sentOn EXCEPT ![r] = p]

PostNothing == UNCHANGED <<onAbort, outbox, sentOn>>

\* A listener is attached to a signal that has fired already.
BugFailureMissed(r) == IF r \in aborted THEN "aborted" ELSE "none"

\* What rejectOnSignal already finds aborted when the call registers.
EarlyVerdict(r) ==
  CASE failed        -> "failed"
    [] r \in aborted -> "aborted"
    [] OTHER         -> "none"

\* The call returns to its caller with verdict v.
Return(r, v) ==
  /\ pc' = [pc EXCEPT ![r] = "returned"]
  /\ verdict' = [verdict EXCEPT ![r] = v]
  /\ pending' = pending \ {r}

\* The call awaits its callback, which a rejection found early never calls.
BugProceedHangs(r, s, v) ==
  /\ pc' = [pc EXCEPT ![r] = s]
  /\ verdict' = [verdict EXCEPT ![r] = v]
  /\ pending' = IF v = "none" THEN pending \cup {r} ELSE pending

\* The call goes on to state s; its callback stays in the map unless it has
\* a verdict already.
Proceed(r, s, v) ==
  /\ pc' = [pc EXCEPT ![r] = IF v # "none" /\ s = "waiting" THEN "returned"
                                                           ELSE s]
  /\ verdict' = [verdict EXCEPT ![r] = v]
  /\ pending' = IF v = "none" THEN pending \cup {r} ELSE pending

\* From the acquired port p to the next await: race the signals, set the
\* callback, and unless the caller has aborted, post.  A server-streaming
\* call first awaits its input.  `ok` is false when packing the message or
\* the method kind throws.
Register(r, p) ==
  LET v == EarlyVerdict(r) IN
  \/ /\ r \in aborted
     /\ Return(r, v)
     /\ PostNothing
  \/ /\ r \notin aborted
     /\ Kind[r] = "serverStreaming"
     /\ Proceed(r, "collecting", v)
     /\ PostNothing
  \/ /\ r \notin aborted
     /\ Kind[r] # "serverStreaming"
     /\ \E ok \in BOOLEAN :
          IF ok THEN Proceed(r, "waiting", v) /\ PostRequest(r, p)
                ELSE /\ Return(r, IF v = "none" THEN "invalid" ELSE v)
                     /\ PostNothing
-----------------------------------------------------------------------------
(***************************************************************************)
(* The calls.                                                              *)
(***************************************************************************)

\* unary() or stream() is called.
Call(r) ==
  /\ pc[r] = "idle"
  /\ \/ failed /\ Return(r, "failed") /\ PostNothing
     \/ /\ ~failed /\ port = NoPort
        /\ pc' = [pc EXCEPT ![r] = "connecting"]
        /\ PostNothing
        /\ UNCHANGED <<verdict, pending>>
     \/ ~failed /\ port # NoPort /\ Register(r, port)
  /\ UNCHANGED <<port, listening, failed, aborted, stream, inbox, abortOn>>
  /\ UNCHANGED serviceVars

\* The port that connect() acquired for this call: the listeners are
\* attached, and the closure's port is assigned, whatever it was by now.
Connected(r, p) ==
  /\ pc[r] = "connecting"
  /\ listening' = listening \cup {p}
  /\ port' = p
  /\ Register(r, p)
  /\ UNCHANGED <<failed, aborted, stream, inbox, abortOn>>
  /\ UNCHANGED serviceVars

\* getPort() rejects, or the connection request times out first.
ConnectRejected(r) ==
  /\ pc[r] = "connecting"
  /\ \E v \in {"error", "unavailable"} : Return(r, v)
  /\ PostNothing
  /\ UNCHANGED <<port, listening, failed, aborted, stream, inbox, abortOn>>
  /\ UNCHANGED serviceVars

\* The two reads of the input are done: post the message, or reject an input
\* that is not exactly one message.  Nothing here looks at the signal again.
Collected(r) ==
  /\ pc[r] = "collecting"
  /\ \E ok \in BOOLEAN :
       IF ok THEN Proceed(r, "waiting", verdict[r]) /\ PostRequest(r, port)
             ELSE /\ Return(r, IF verdict[r] = "none" THEN "invalid"
                                                      ELSE verdict[r])
                  /\ PostNothing
  /\ UNCHANGED <<port, listening, failed, aborted, stream, inbox, abortOn>>
  /\ UNCHANGED serviceVars

\* The abort listener is registered before there is anything to abort.
BugEmitsEarly(r) == port # NoPort

\* The abort signal of r has the listener that posts an abort.
Emits(r) == r \in onAbort

\* The caller aborts its signal, at any time.  The listeners run: the race
\* rejects, an abort is posted to the port the closure remembers, and an open
\* response stream is cut.
Abort(r) ==
  /\ r \notin aborted
  /\ aborted' = aborted \cup {r}
  /\ Settle(pending \cap {r}, "aborted")
  /\ IF Emits(r)
     THEN /\ Post(port, [type |-> "abort", id |-> r])
          /\ abortOn' = [abortOn EXCEPT ![r] = port]
     ELSE UNCHANGED <<outbox, abortOn>>
  /\ stream' = IF stream[r] = "open" THEN [stream EXCEPT ![r] = "aborted"]
                                     ELSE stream
  /\ UNCHANGED <<port, listening, failed, onAbort, inbox, sentOn>>
  /\ UNCHANGED serviceVars

\* requestDeadline expires before an answer.  The service is not told.
Deadline(r) ==
  /\ r \in Timed
  /\ r \in pending
  /\ Settle({r}, "deadline")
  /\ UNCHANGED <<port, listening, failed, aborted, onAbort, stream, outbox,
                 inbox, sentOn, abortOn>>
  /\ UNCHANGED serviceVars

\* No chunk in time: chunkDeadlineExceeded cuts the response stream.
ChunkDeadline(r) ==
  /\ r \in Timed
  /\ stream[r] = "open"
  /\ stream' = [stream EXCEPT ![r] = "stalled"]
  /\ UNCHANGED <<port, listening, failed, pending, pc, verdict, aborted,
                 onAbort, outbox, inbox, sentOn, abortOn>>
  /\ UNCHANGED serviceVars

\* The response stream comes to its end.
StreamEnd(r) ==
  /\ stream[r] = "open"
  /\ stream' = [stream EXCEPT ![r] = "ended"]
  /\ UNCHANGED <<port, listening, failed, pending, pc, verdict, aborted,
                 onAbort, outbox, inbox, sentOn, abortOn>>
  /\ UNCHANGED serviceVars

(***************************************************************************)
(* transportListener.  A "fault" stands for what fails the transport: the  *)
(* disconnect notice `false`, an error without a request id, an item that  *)
(* is neither, a message that cannot be deserialized.  An event for a      *)
(* request that has no callback is dropped.                                *)
(***************************************************************************)
TransportListener(p) ==
  /\ p \in listening
  /\ inbox[p] # <<>>
  /\ inbox' = [inbox EXCEPT ![p] = Tail(@)]
  /\ LET m == Head(inbox[p]) IN
       \/ /\ m.type = "fault"
          /\ failed' = TRUE
          /\ Settle(pending, "failed")
          /\ UNCHANGED stream
       \/ /\ m.type # "fault"
          /\ m.id \in pending
          /\ UNCHANGED failed
          /\ IF m.type = Expected(m.id)
             THEN /\ Settle({m.id}, "response")
                  /\ stream' = IF Kind[m.id] = "unary" THEN stream
                               ELSE [stream EXCEPT ![m.id] = "open"]
             ELSE Settle({m.id}, "error") /\ UNCHANGED stream
       \/ /\ m.type # "fault"
          /\ m.id \notin pending
          /\ UNCHANGED <<failed, stream, callVars>>
  /\ UNCHANGED <<port, listening, aborted, onAbort, outbox, sentOn, abortOn>>
  /\ UNCHANGED serviceVars
-----------------------------------------------------------------------------
(***************************************************************************)
(* The service end of a port.                                              *)
(***************************************************************************)

\* The next message: a request starts; an abort cancels a request in progress,
\* and is ignored for any other.  A message that was held for validation may
\* be taken after the port is gone.
ServiceTakes(p) ==
  /\ outbox[p] # <<>>
  /\ outbox' = [outbox EXCEPT ![p] = Tail(@)]
  /\ LET m == Head(outbox[p]) IN
       \/ /\ m.type = "request"
          /\ serving' = [serving EXCEPT ![p] = @ \cup {m.id}]
          /\ UNCHANGED failing
       \/ /\ m.type = "abort"
          /\ m.id \in serving[p]
          /\ serving' = [serving EXCEPT ![p] = @ \ {m.id}]
          /\ failing' = [failing EXCEPT ![p] = @ \cup {m.id}]
       \/ /\ m.type = "abort"
          /\ m.id \notin serving[p]
          /\ UNCHANGED <<serving, failing>>
  /\ UNCHANGED <<port, listening, failed, pending, pc, verdict, aborted,
                 onAbort, stream, inbox, closed, sentOn, abortOn>>

\* postMessage of the service: an event posted to a port that is gone is lost,
\* and the work it ends is over.
Reply(p, e) ==
  inbox' = IF p \in closed THEN inbox ELSE [inbox EXCEPT ![p] = Append(@, e)]

\* The service answers a request, with any kind of event.
ServiceAnswers(p, r) ==
  /\ r \in serving[p]
  /\ serving' = [serving EXCEPT ![p] = @ \ {r}]
  /\ \E t \in {"message", "stream", "error"} :
       /\ Reply(p, [type |-> t, id |-> r])
       /\ IF t = "stream"
          THEN failing' = [failing EXCEPT ![p] = @ \cup {r}]
          ELSE UNCHANGED failing
  /\ UNCHANGED <<port, listening, failed, pending, pc, verdict, aborted,
                 onAbort, stream, outbox, closed, sentOn, abortOn>>

\* A handler that was canceled, or a stream, fails: one error is posted.
ServiceFails(p, r) ==
  /\ r \in failing[p]
  /\ failing' = [failing EXCEPT ![p] = @ \ {r}]
  /\ Reply(p, [type |-> "error", id |-> r])
  /\ UNCHANGED <<port, listening, failed, pending, pc, verdict, aborted,
                 onAbort, stream, outbox, serving, closed, sentOn, abortOn>>

\* The service gives the port up: the last thing it posts is a fault, and what
\* it is working on is canceled.  What it has not taken yet is not.
ServiceCloses(p) ==
  /\ p \notin closed
  /\ closed' = closed \cup {p}
  /\ serving' = [serving EXCEPT ![p] = {}]
  /\ failing' = [failing EXCEPT ![p] = {}]
  /\ inbox' = [inbox EXCEPT ![p] = Append(@, [type |-> "fault"])]
  /\ UNCHANGED <<port, listening, failed, pending, pc, verdict, aborted,
                 onAbort, stream, outbox, sentOn, abortOn>>
-----------------------------------------------------------------------------
Connect(r) == (\E p \in Ports : Connected(r, p)) \/ ConnectRejected(r)

Next ==
  \/ \E r \in Requests :
       \/ Call(r) \/ Connect(r) \/ Collected(r) \/ Abort(r)
       \/ Deadline(r) \/ ChunkDeadline(r) \/ StreamEnd(r)
  \/ \E p \in Ports :
       \/ TransportListener(p)
       \/ ServiceTakes(p) \/ ServiceCloses(p)
       \/ \E r \in Requests : ServiceAnswers(p, r) \/ ServiceFails(p, r)

(***************************************************************************)
(* The event loop runs what is ready, timers expire, an input ends, and    *)
(* the other end reads its port while it is open.  Nothing obliges a       *)
(* service to answer, or to take up what it holds when the port is gone,   *)
(* a caller to call or abort, or a stream to end.                          *)
(***************************************************************************)
Fairness ==
  /\ \A r \in Requests :
       /\ WF_vars(Connect(r))
       /\ WF_vars(Collected(r))
       /\ WF_vars(Deadline(r))
  /\ \A p \in Ports :
       /\ WF_vars(TransportListener(p))
       /\ WF_vars(p \notin closed /\ ServiceTakes(p))

Spec == Init /\ [][Next]_vars /\ Fairness
-----------------------------------------------------------------------------
TypeOK ==
  /\ port \in Ports \cup {NoPort}
  /\ listening \subseteq Ports
  /\ failed \in BOOLEAN
  /\ pending \subseteq Requests
  /\ pc \in [Requests -> {"idle", "connecting", "collecting", "waiting",
                          "returned"}]
  /\ verdict \in [Requests -> Verdicts]
  /\ aborted \subseteq Requests
  /\ onAbort \subseteq Requests
  /\ stream \in [Requests -> {"none", "open", "ended", "stalled", "aborted"}]
  /\ outbox \in [Ports -> Seq(Message)]
  /\ inbox \in [Ports -> Seq(Event)]
  /\ serving \in [Ports -> SUBSET Requests]
  /\ failing \in [Ports -> SUBSET Requests]
  /\ closed \subseteq Ports
  /\ sentOn \in [Requests -> Ports \cup {NoPort}]
  /\ abortOn \in [Requests -> Ports \cup {NoPort}]

\* The map never leaks and never forgets: a callback is in `pending` exactly
\* while its call is registered and undecided, through every order of answer,
\* failure, abort, deadline and bad input (`.finally(() => pending.delete)`).
PendingExact ==
  pending = {r \in Requests : /\ pc[r] \in {"collecting", "waiting"}
                              /\ verdict[r] = "none"}

\* "The rejection created here will be delivered to every subsequent request
\* attempted on this transport": once the transport has failed nobody is left
\* undecided, not even a call that was still connecting or collecting then.
FailureIsTotal == failed => pending = {}

\* An abort is posted after its request, and to the port that carries it:
\* `port` is a variable of the closure, and the listener reads it when the
\* signal fires.  "This function is called on the first request", so that
\* there is one port; two first requests both call it, and the property holds
\* where getPort() gives both the same port, as ShielddClient's does.
AbortFollowsRequest ==
  \A r \in Requests : abortOn[r] # NoPort => abortOn[r] = sentOn[r]

\* A caller that aborts is not left waiting, and a call it aborts after the
\* message was packed in the same step as the call is also aborted at the
\* service: its abort has been posted whenever its request has.
AbortIsEmitted ==
  \A r \in aborted :
    /\ r \notin pending
    /\ Kind[r] # "serverStreaming" /\ sentOn[r] # NoPort => abortOn[r] # NoPort

\* How the registration of abort listeners follows the requests posted, each
\* once and late in its call: the part of the inductive invariant that the
\* properties above rest on.
ListenersExact ==
  \A r \in Requests :
    /\ r \in onAbort <=> sentOn[r] # NoPort
    /\ r \in onAbort => pc[r] \in {"waiting", "returned"}
    /\ pc[r] = "collecting" => Kind[r] = "serverStreaming"
    /\ pc[r] = "collecting" \/ r \in onAbort => port # NoPort
    /\ abortOn[r] # NoPort => r \in onAbort \cap aborted

IInv == PendingExact /\ FailureIsTotal /\ ListenersExact /\ AbortIsEmitted

\* After an abort the service does not go on working for a caller that left,
\* not even when the request reaches the service after the abort was decided:
\* what it works on while the port is open is canceled by the abort, or with
\* the port if that goes first.  It is not so for a request that is taken up
\* when the port is gone (`await`ed in session.ts:84, and entered in the map
\* of what can be canceled at 107 only): the abort never gets there.
CancelReachesService ==
  \A r \in Requests, p \in Ports :
    Kind[r] # "serverStreaming" =>
      (r \in aborted /\ r \in serving[p] /\ p \notin closed)
         ~> (r \notin serving[p])

\* Every timed call returns to its caller, whatever the port, the service and
\* the other calls do.
EveryCallReturns ==
  \A r \in Timed : (pc[r] # "idle") ~> (pc[r] = "returned")

(***************************************************************************)
(* What a test of the repository says and the code does not always do.     *)
(***************************************************************************)

\* "can cancel streams before init, and emits an abort": a stream request on
\* the wire whose caller aborted has its abort on the wire too.
StreamAbortIsEmitted ==
  \A r \in aborted :
    Kind[r] = "serverStreaming" /\ sentOn[r] # NoPort => abortOn[r] # NoPort
=============================================================================
