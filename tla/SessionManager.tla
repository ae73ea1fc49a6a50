--------------------------- MODULE SessionManager ---------------------------
(***************************************************************************)
(* CRSessionManager and CRSession of packages/transport-chrome/src: the    *)
(* extension worker's side.  The manager accepts connections, tracks their *)
(* ports by name and keeps a session per session name; a session holds     *)
(* messages back until its port is validated, runs a lifecycle per request *)
(* (handler, response, response stream) and cancels them when it ends.     *)
(*                                                                         *)
(* A CRSession object is named by its connection: one connection makes at  *)
(* most one.  A lifecycle goes                                              *)
(*   none -> handling -> done                  the handler's value or error *)
(*   handling -> offering -> opening -> piping  its response stream         *)
(* and a piping one ends "finishing" (END posted) or "draining" (ABORT     *)
(* posted), until the other end of the sub-channel disconnects.            *)
(***************************************************************************)
EXTENDS ChromePorts

CONSTANTS
  Streaming,   \* requests whose handler may answer with a stream
  Origin,      \* the origin of each client
  MaxDeaths    \* bound: how often the worker is killed

ASSUME StreamingAssumption == Streaming \subseteq Requests
ASSUME DeathsAssumption == MaxDeaths \in Nat

VARIABLES
  sessions,  \* the manager's map: per session name a session, 0 for none
  tracked,   \* the manager's map `ports`: names of clients and sub-channels
  valid,     \* per connection, the promise of port validation
  dead,      \* sessions whose signal is aborted
  held,      \* per session, messages waiting for validation
  life,      \* the lifecycle of each request
  owner,     \* the session that runs it, 0 for none
  inMap,     \* requests in the map `pending` of their session
  canceled,  \* requests whose abort controller has fired
  late,      \* history: requests taken up by a session already aborted
  deaths     \* how often the worker was killed

managerVars == <<sessions, tracked, valid, dead, held, life, owner, inMap,
                 canceled, late, deaths>>

Session(c) == <<"session", c>>   \* the name of a session port
Channel(r) == <<"channel", r>>   \* the name of a sub-channel port
Names == {Session(c) : c \in Clients} \cup {Channel(r) : r \in Streaming}

Lives == {"none", "handling", "offering", "opening", "piping", "finishing",
          "draining", "done"}
Live(r) == life[r] \notin {"none", "done"}

ManagerInit ==
  /\ sessions = [c \in Clients |-> 0]
  /\ tracked = {}
  /\ valid = [k \in Conns |-> "none"]
  /\ dead = {}
  /\ held = [k \in Conns |-> {}]
  /\ life = [r \in Requests |-> "none"]
  /\ owner = [r \in Requests |-> 0]
  /\ inMap = {}
  /\ canceled = {}
  /\ late = {}
  /\ deaths = 0

\* Post to the session port of connection k; "disconnected" is suppressed.
PostDown(k, ms) ==
  down' = IF sEnd[k] = "open" THEN [down EXCEPT ![k] = @ \o ms] ELSE down

\* The lifecycle of r ends: `finally` takes it off the map.
Done(r) ==
  /\ life' = [life EXCEPT ![r] = "done"]
  /\ inMap' = inMap \ {r}

\* It ends with an error response.
Fail(r) ==
  /\ Done(r)
  /\ PostDown(owner[r], <<[type |-> "error", id |-> r]>>)

\* The offer of a sub-channel does not heed the signal.
BugOfferWaits(R) == {r \in R : life[r] = "opening"}

\* Of the canceled requests R, those that end at once, and those whose sink
\* aborts.
Ending(R)   == {r \in R : life[r] \in {"offering", "opening"}}
Aborting(R) == {r \in R : life[r] = "piping" /\ subS[r] = "open"}

\* A lifecycle goes on after it was canceled.
BugCancelGoesOn(R) ==
  /\ canceled' = canceled \cup R
  /\ life' = [r \in Requests |->
                IF r \in Aborting(R) THEN "draining" ELSE life[r]]

\* The abort controllers of R fire.  A lifecycle that waits for its sub-channel
\* ends at once (offerSubChannel rejects), one that pipes aborts its sink, and
\* one in its handler is left to the handler.  The error responses of those
\* that end are posted by the caller of Cancel, if the port is still there.
Cancel(R) ==
  /\ canceled' = canceled \cup R
  /\ life' = [r \in Requests |-> CASE r \in Ending(R)   -> "done"
                                   [] r \in Aborting(R) -> "draining"
                                   [] OTHER             -> life[r]]

\* The sinks of canceled requests post ABORT on their sub-channels.
AbortSinks(R) ==
  subS' = [r \in Requests |-> IF r \in Aborting(R) THEN "final" ELSE subS[r]]

\* A request leaves the map once its handler has answered.
BugMapOfHandlers(k) == {r \in inMap : owner[r] = k /\ life[r] = "handling"}

MapOf(k) == {r \in inMap : owner[r] = k}

\* The session stays in the manager's map.
BugSessionsKept(K) == sessions

\* The sessions K leave the manager's map: a listener on the signal of each.
SessionsWithout(K) ==
  [c \in Clients |-> IF sessions[c] \in K THEN 0 ELSE sessions[c]]

\* The ports of its sub-channels leave the map, open as they are.
BugChannelsForgotten(K) ==
  LET R == UNION {MapOf(k) : k \in K}
  IN  /\ dead' = dead \cup K
      /\ Cancel(R)
      /\ inMap' = inMap \ Ending(R)
      /\ tracked' = tracked \ ({Session(dialer[k]) : k \in K}
                                \cup {Channel(r) : r \in R})
      /\ sessions' = SessionsWithout(K)

\* session.abort(): the pending requests are canceled, the port leaves the
\* manager's map and is disconnected, the session leaves the other map.
AbortSessions(K) ==
  LET R == UNION {MapOf(k) : k \in K}
  IN  /\ dead' = dead \cup K
      /\ Cancel(R)
      /\ inMap' = inMap \ Ending(R)
      /\ tracked' = tracked \ {Session(dialer[k]) : k \in K}
      /\ sessions' = SessionsWithout(K)

\* port.disconnect() at the service's ends of the connections K: on a port that
\* is disconnected already it does nothing.
DisconnectAll(K) ==
  LET open == {k \in K : sEnd[k] = "open"}
  IN  /\ sEnd' = [k \in Conns |-> IF k \in open THEN "closed" ELSE sEnd[k]]
      /\ down' = [k \in Conns |-> IF k \in open THEN Append(down[k], Disc)
                                                ELSE down[k]]
-----------------------------------------------------------------------------
\* onConnect for a session port: a name in use throws and leaves the port
\* hanging; otherwise the port is tracked and a session made for it.
OnConnect(k) ==
  LET c == dialer[k] IN
  /\ c # NoClient
  /\ sEnd[k] = "none"
  /\ IF sessions[c] # 0
     THEN /\ sEnd' = [sEnd EXCEPT ![k] = "ignored"]
          /\ UNCHANGED <<sessions, tracked, valid>>
     ELSE /\ sEnd' = [sEnd EXCEPT ![k] = "open"]
          /\ sessions' = [sessions EXCEPT ![c] = k]
          /\ tracked' = tracked \cup {Session(c)}
          /\ valid' = [valid EXCEPT ![k] = "pending"]
  /\ UNCHANGED <<dead, held, life, owner, inMap, canceled, late, deaths>>
  /\ UNCHANGED <<dialer, cEnd, up, down, subC, subS>>

\* onMessage, once the port is validated.
Handle(k, m) ==
  IF m.type = "request"
  THEN /\ life' = [life EXCEPT ![m.id] = "handling"]
       /\ owner' = [owner EXCEPT ![m.id] = k]
       /\ inMap' = inMap \cup {m.id}
       /\ UNCHANGED <<canceled, down, subS>>
  ELSE LET R == MapOf(k) \cap {m.id} IN
       /\ Cancel(R)
       /\ AbortSinks(R)
       /\ inMap' = inMap \ R
       /\ IF Ending(R) = {}
          THEN UNCHANGED down
          ELSE PostDown(k, <<[type |-> "error", id |-> m.id]>>)
       /\ UNCHANGED owner

\* A message arrives: it is held back while validation is pending.
OnMessage(k) ==
  /\ sEnd[k] = "open"
  /\ up[k] # <<>>
  /\ Head(up[k]) # Disc
  /\ up' = [up EXCEPT ![k] = Tail(@)]
  /\ \/ /\ valid[k] = "pending"
        /\ held' = [held EXCEPT ![k] = @ \cup {Head(up[k])}]
        /\ UNCHANGED <<life, owner, inMap, canceled, down, subS>>
     \/ /\ valid[k] = "ok"
        /\ Handle(k, Head(up[k]))
        /\ UNCHANGED held
  /\ UNCHANGED <<sessions, tracked, valid, dead, late, deaths, dialer, cEnd,
                 sEnd, subC>>

\* What was held back is forgotten.
BugHeldForgotten(k) ==
  /\ valid[k] = "pending"
  /\ valid' = [valid EXCEPT ![k] = "ok"]
  /\ held' = [held EXCEPT ![k] = {}]
  /\ UNCHANGED <<sessions, tracked, dead, life, owner, inMap, canceled, late,
                 deaths>>
  /\ UNCHANGED portVars

\* Validation succeeds: everything held back is handled, in order of arrival,
\* before any other event.  An abort finds its request in the map, and what it
\* aborts is in its handler.
Validated(k) ==
  LET ids(t) == {r \in Requests : [type |-> t, id |-> r] \in held[k]} IN
  /\ valid[k] = "pending"
  /\ valid' = [valid EXCEPT ![k] = "ok"]
  /\ held' = [held EXCEPT ![k] = {}]
  /\ life' = [r \in Requests |-> IF r \in ids("request") THEN "handling"
                                                         ELSE life[r]]
  /\ owner' = [r \in Requests |-> IF r \in ids("request") THEN k ELSE owner[r]]
  /\ inMap' = inMap \cup (ids("request") \ ids("abort"))
  /\ canceled' = canceled \cup (ids("request") \cap ids("abort"))
  /\ late' = IF k \in dead THEN late \cup ids("request") ELSE late
  /\ UNCHANGED <<sessions, tracked, dead, deaths>>
  /\ UNCHANGED portVars

\* Validation fails: the session, if it still lives, is aborted.
ValidationFailed(k) ==
  /\ valid[k] = "pending"
  /\ valid' = [valid EXCEPT ![k] = "failed"]
  /\ held' = [held EXCEPT ![k] = {}]
  /\ IF k \in dead
     THEN UNCHANGED <<sessions, tracked, dead, life, inMap, canceled, sEnd,
                      down, subS>>
     ELSE /\ AbortSessions({k})
          /\ AbortSinks(MapOf(k))
          /\ DisconnectAll({k})
  /\ UNCHANGED <<owner, late, deaths, dialer, cEnd, up, subC>>

\* onDisconnect of the session port: the session is aborted.
OnDisconnect(k) ==
  /\ sEnd[k] = "open"
  /\ up[k] # <<>>
  /\ Head(up[k]) = Disc
  /\ up' = [up EXCEPT ![k] = Tail(@)]
  /\ sEnd' = [sEnd EXCEPT ![k] = "closed"]
  /\ AbortSessions({k})
  /\ AbortSinks(MapOf(k))
  /\ UNCHANGED <<valid, held, owner, late, deaths, dialer, cEnd, down, subC>>

\* killOrigin: the sessions of an origin are aborted, then every port of it
\* that is still tracked is, cutting the sub-channels its sinks abort.
KillOrigin(o) ==
  LET C == {c \in Clients : Origin[c] = o}
      K == {sessions[c] : c \in C} \ {0}
      S == {r \in Streaming : Channel(r) \in tracked /\ Origin[Page[r]] = o}
      R == UNION {MapOf(k) : k \in K}
  IN  /\ K # {} \/ S # {}
      /\ dead' = dead \cup K
      /\ Cancel(R)
      /\ inMap' = inMap \ Ending(R)
      /\ tracked' = tracked \ ({Session(c) : c \in C}
                                \cup {Channel(r) : r \in S})
      /\ sessions' = SessionsWithout(K)
      /\ DisconnectAll(K)
      /\ subS' = [r \in Requests |-> IF r \in S THEN "closed" ELSE subS[r]]
      /\ UNCHANGED <<valid, held, owner, late, deaths, dialer, cEnd, up, subC>>
-----------------------------------------------------------------------------
(***************************************************************************)
(* The lifecycle of a request.                                             *)
(***************************************************************************)

\* The handler returns a value: it is posted as the response.
HandlerReturns(r) ==
  /\ life[r] = "handling"
  /\ r \notin canceled
  /\ PostDown(owner[r], <<[type |-> "message", id |-> r]>>)
  /\ Done(r)
  /\ UNCHANGED <<sessions, tracked, valid, dead, held, owner, canceled, late,
                 deaths, dialer, cEnd, sEnd, up, subC, subS>>

\* The handler returns a stream: a sub-channel is offered under a new name and
\* the name is posted.
HandlerStreams(r) ==
  /\ life[r] = "handling"
  /\ r \in Streaming \ canceled
  /\ life' = [life EXCEPT ![r] = "offering"]
  /\ PostDown(owner[r], <<[type |-> "channel", id |-> r]>>)
  /\ UNCHANGED <<sessions, tracked, valid, dead, held, owner, inMap, canceled,
                 late, deaths, dialer, cEnd, sEnd, up, subC, subS>>

\* The handler throws; one that is canceled does.
HandlerThrows(r) ==
  /\ life[r] = "handling"
  /\ Fail(r)
  /\ UNCHANGED <<sessions, tracked, valid, dead, held, owner, canceled, late,
                 deaths, dialer, cEnd, sEnd, up, subC, subS>>

\* onConnect for a sub-channel: the listener that offered its name tracks the
\* port, and has it validated; without a listener nobody takes the port.
OnSubConnect(r) ==
  /\ subC[r] # "none"
  /\ subS[r] = "none"
  /\ IF life[r] = "offering"
     THEN /\ subS' = [subS EXCEPT ![r] = "open"]
          /\ tracked' = tracked \cup {Channel(r)}
          /\ life' = [life EXCEPT ![r] = "opening"]
     ELSE /\ subS' = [subS EXCEPT ![r] = "ignored"]
          /\ UNCHANGED <<tracked, life>>
  /\ UNCHANGED <<sessions, valid, dead, held, owner, inMap, canceled, late,
                 deaths, dialer, cEnd, sEnd, up, down, subC>>

\* The sub-channel is validated, and the response stream piped into it.
SubValidated(r) ==
  /\ life[r] = "opening"
  /\ life' = [life EXCEPT ![r] = "piping"]
  /\ UNCHANGED <<sessions, tracked, valid, dead, held, owner, inMap, canceled,
                 late, deaths>>
  /\ UNCHANGED portVars

\* Validation of the sub-channel fails: the lifecycle does, and only it.
SubInvalid(r) ==
  /\ life[r] = "opening"
  /\ Fail(r)
  /\ UNCHANGED <<sessions, tracked, valid, dead, held, owner, canceled, late,
                 deaths, dialer, cEnd, sEnd, up, subC, subS>>

\* The response stream ends, or fails: the sink posts END, or ABORT.
ResponseEnds(r) ==
  /\ life[r] = "piping"
  /\ subS[r] = "open"
  /\ \E s \in {"finishing", "draining"} : life' = [life EXCEPT ![r] = s]
  /\ subS' = [subS EXCEPT ![r] = "final"]
  /\ UNCHANGED <<sessions, tracked, valid, dead, held, owner, inMap, canceled,
                 late, deaths, dialer, cEnd, sEnd, up, down, subC>>

\* onDisconnect of a sub-channel: the port leaves the map; after END that is
\* the success of the lifecycle, and before it the pipe fails.
OnSubDisconnect(r) ==
  /\ subC[r] = "closed"
  /\ subS[r] \in {"open", "final"}
  /\ subS' = [subS EXCEPT ![r] = "closed"]
  /\ tracked' = tracked \ {Channel(r)}
  /\ CASE life[r] = "finishing"                -> Done(r) /\ UNCHANGED down
       [] life[r] \in {"piping", "draining"}   -> Fail(r)
       [] OTHER                                -> UNCHANGED <<life, inMap, down>>
  /\ UNCHANGED <<sessions, valid, dead, held, owner, canceled, late, deaths,
                 dialer, cEnd, sEnd, up, subC>>

\* A pipe whose port is gone fails: the port was cut before the pipe began, or
\* by killOrigin.
PipeBroken(r) ==
  /\ life[r] = "piping"
  /\ subS[r] = "closed"
  /\ Fail(r)
  /\ UNCHANGED <<sessions, tracked, valid, dead, held, owner, canceled, late,
                 deaths, dialer, cEnd, sEnd, up, subC, subS>>

\* The other end does not disconnect in time after END or ABORT: the sink
\* disconnects, which its own onDisconnect does not hear, and the pipe fails.
SinkTimeout(r) ==
  /\ life[r] \in {"finishing", "draining"}
  /\ subS' = [subS EXCEPT ![r] = "closed"]
  /\ Fail(r)
  /\ UNCHANGED <<sessions, tracked, valid, dead, held, owner, canceled, late,
                 deaths, dialer, cEnd, sEnd, up, subC>>

\* The browser kills the worker: nothing of it is left, and its connections
\* are cut.  A connection not yet accepted wakes it up again.
WorkerKilled ==
  /\ deaths < MaxDeaths
  /\ deaths' = deaths + 1
  /\ sessions' = [c \in Clients |-> 0]
  /\ tracked' = {}
  /\ valid' = [k \in Conns |->
                 IF valid[k] = "pending" THEN "failed" ELSE valid[k]]
  /\ dead' = dead \cup {k \in Conns : valid[k] # "none"}
  /\ held' = [k \in Conns |-> {}]
  /\ life' = [r \in Requests |-> IF Live(r) THEN "done" ELSE life[r]]
  /\ inMap' = {}
  /\ DisconnectAll({k \in Conns : sEnd[k] = "open"})
  /\ subS' = [r \in Requests |-> IF subS[r] = "none" THEN "none" ELSE "closed"]
  /\ UNCHANGED <<owner, canceled, late, dialer, cEnd, up, subC>>

ManagerNext ==
  \/ \E k \in Conns :
       \/ OnConnect(k) \/ OnMessage(k) \/ OnDisconnect(k)
       \/ Validated(k) \/ ValidationFailed(k)
  \/ \E o \in {Origin[c] : c \in Clients} : KillOrigin(o)
  \/ \E r \in Requests :
       \/ HandlerReturns(r) \/ HandlerStreams(r) \/ HandlerThrows(r)
       \/ OnSubConnect(r) \/ SubValidated(r) \/ SubInvalid(r)
       \/ ResponseEnds(r) \/ OnSubDisconnect(r) \/ PipeBroken(r)
       \/ SinkTimeout(r)
  \/ WorkerKilled

ManagerTypeOK ==
  /\ sessions \in [Clients -> 0 .. MaxConns]
  /\ tracked \subseteq Names
  /\ valid \in [Conns -> {"none", "pending", "ok", "failed"}]
  /\ dead \subseteq Conns
  /\ held \in [Conns -> SUBSET [type : {"request", "abort"}, id : Requests]]
  /\ life \in [Requests -> Lives]
  /\ owner \in [Requests -> 0 .. MaxConns]
  /\ inMap \subseteq Requests
  /\ canceled \subseteq Requests
  /\ late \subseteq Requests
  /\ deaths \in 0 .. MaxDeaths
=============================================================================
