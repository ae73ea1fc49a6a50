----------------------------- MODULE StatusStore -----------------------------
(***************************************************************************)
(* The status store of minifront-v2: it loads the wallet's status once,    *)
(* then reads a stream of them in a loop, and starts the loop again some   *)
(* seconds after it ended.  The loop cannot be stopped: restartStream()    *)
(* and dispose() only clear `streamRunning`, so an older loop may go on    *)
(* beside a newer one.                                                     *)
(*                                                                         *)
(* Every load is followed by an attempt to start the loop, in initialize() *)
(* as in refresh() and restartStream(), so that loads differ in nothing    *)
(* and are counted; loops are counted too.  Of a status only its presence  *)
(* is kept.  The provider comes and goes as it likes, and tells the store  *)
(* each time it is connected.                                              *)
(***************************************************************************)
EXTENDS Naturals

CONSTANTS
  MaxLoads,   \* bound: loads under way when another one is asked for
  MaxResets   \* bound: calls of restartStream() and dispose()
ASSUME BoundsAssumption == MaxLoads \in Nat /\ MaxResets \in Nat

VARIABLES
  initialStatus,  \* there is an initial status
  statusStream,   \* there is a status of the stream
  loading,
  error,          \* the last load failed
  streamError,    \* the stream failed
  streamRunning,
  timer,          \* the reconnect timer is set
  loads,          \* calls of getStatus() that have not settled
  loops,          \* loops over a status stream that have not ended
  connected,      \* shieldd.connected
  wanted,         \* history: initialized, and not disposed since
  resets          \* history: calls of restartStream() and dispose()

data == <<initialStatus, statusStream>>
errors == <<error, streamError>>
world == <<connected, wanted, resets>>
vars == <<data, errors, loading, streamRunning, timer, loads, loops, world>>

Init ==
  /\ initialStatus = FALSE /\ statusStream = FALSE
  /\ loading = FALSE /\ error = FALSE /\ streamError = FALSE
  /\ streamRunning = FALSE /\ timer = FALSE
  /\ loads = 0 /\ loops = 0
  /\ connected \in BOOLEAN /\ wanted = FALSE /\ resets = 0

-----------------------------------------------------------------------------
(* What several handlers do. *)

\* loadInitialStatus() up to its await, with a connection.
LoadInitialStatus ==
  /\ loads < MaxLoads
  /\ loading' = TRUE
  /\ error' = FALSE
  /\ loads' = loads + 1

\* startStatusStream() without `streamRunning` in its guard.
BugStartStatusStream ==
  IF connected
  THEN /\ streamRunning' = TRUE /\ streamError' = FALSE
       /\ loops' = loops + 1
  ELSE UNCHANGED <<streamRunning, streamError, loops>>

\* startStatusStream() up to its first await.
StartStatusStream ==
  IF connected /\ ~streamRunning
  THEN /\ streamRunning' = TRUE /\ streamError' = FALSE
       /\ loops' = loops + 1
  ELSE UNCHANGED <<streamRunning, streamError, loops>>

-----------------------------------------------------------------------------
(* Calls of the application, and what the provider tells. *)

Initialize ==
  /\ wanted' = TRUE
  /\ IF connected THEN LoadInitialStatus
     ELSE UNCHANGED <<loading, error, loads>>
  /\ UNCHANGED <<data, streamError, streamRunning, timer, loops, connected,
                 resets>>

\* The listener that the constructor adds: clear, and initialize().
OnConnected ==
  /\ connected' = TRUE /\ wanted' = TRUE
  /\ initialStatus' = FALSE /\ statusStream' = FALSE /\ streamError' = FALSE
  /\ LoadInitialStatus
  /\ UNCHANGED <<streamRunning, timer, loops, resets>>

\* Of other states the listener takes no notice.
Disconnected ==
  /\ connected /\ connected' = FALSE
  /\ UNCHANGED <<data, errors, loading, streamRunning, timer, loads, loops,
                 wanted, resets>>

\* refresh(); without a connection it comes to nothing.
Refresh ==
  /\ connected
  /\ LoadInitialStatus
  /\ UNCHANGED <<data, streamError, streamRunning, timer, loops, world>>

\* restartStream() up to its await.
RestartStream ==
  /\ resets < MaxResets /\ resets' = resets + 1
  /\ timer' = FALSE /\ streamRunning' = FALSE /\ streamError' = FALSE
  /\ statusStream' = FALSE /\ initialStatus' = FALSE
  /\ IF connected THEN LoadInitialStatus
     ELSE UNCHANGED <<loading, error, loads>>
  /\ UNCHANGED <<loops, connected, wanted>>

Dispose ==
  /\ resets < MaxResets /\ resets' = resets + 1
  /\ wanted' = FALSE
  /\ initialStatus' = FALSE /\ statusStream' = FALSE /\ loading' = FALSE
  /\ error' = FALSE /\ streamError' = FALSE /\ streamRunning' = FALSE
  /\ timer' = FALSE
  /\ UNCHANGED <<loads, loops, connected>>

-----------------------------------------------------------------------------
(* What comes back: loads, the stream, the timer. *)

\* A load settles, and the loop is started unless it runs.
LoadSettles ==
  /\ loads > 0 /\ loads' = loads - 1
  /\ loading' = FALSE
  /\ \/ initialStatus' = TRUE /\ error' = error
     \/ initialStatus' = FALSE /\ error' = TRUE
  /\ StartStatusStream
  /\ UNCHANGED <<statusStream, timer, world>>

Receive ==
  /\ loops > 0
  /\ statusStream' = TRUE /\ streamError' = FALSE
  /\ UNCHANGED <<initialStatus, error, loading, streamRunning, timer, loads,
                 loops, world>>

\* The catch without its scheduleReconnect().
BugLoopFails ==
  /\ loops > 0 /\ loops' = loops - 1
  /\ streamRunning' = FALSE /\ streamError' = TRUE /\ statusStream' = FALSE
  /\ UNCHANGED <<initialStatus, error, loading, timer, loads, world>>

\* The loop ends with an error; what follows the catch schedules nothing more.
LoopFails ==
  /\ loops > 0 /\ loops' = loops - 1
  /\ streamRunning' = FALSE /\ streamError' = TRUE /\ statusStream' = FALSE
  /\ timer' = TRUE
  /\ UNCHANGED <<initialStatus, error, loading, loads, world>>

\* The loop ends without an error: reconnect, unless another loop failed.
LoopEnds ==
  /\ loops > 0 /\ loops' = loops - 1
  /\ streamRunning' = FALSE
  /\ timer' = (timer \/ ~streamError)
  /\ UNCHANGED <<data, errors, loading, loads, world>>

\* The timer that looks at `streamRunning` the wrong way round.
BugTimerFires ==
  /\ timer /\ timer' = FALSE
  /\ IF streamRunning THEN StartStatusStream
     ELSE UNCHANGED <<streamRunning, streamError, loops>>
  /\ UNCHANGED <<data, error, loading, loads, world>>

\* scheduleReconnect()'s callback; its own test is startStatusStream()'s.
TimerFires ==
  /\ timer /\ timer' = FALSE
  /\ StartStatusStream
  /\ UNCHANGED <<data, error, loading, loads, world>>

-----------------------------------------------------------------------------
Next ==
  \/ Initialize \/ OnConnected \/ Disconnected \/ Refresh \/ RestartStream
  \/ Dispose
  \/ LoadSettles \/ Receive \/ LoopFails \/ LoopEnds \/ TimerFires

\* getStatus() is a unary call, which its transport's default deadline settles;
\* a timer expires.  A stream owes nothing.
Fairness == WF_vars(LoadSettles) /\ WF_vars(TimerFires)

Spec == Init /\ [][Next]_vars /\ Fairness

-----------------------------------------------------------------------------
(* Properties. *)

\* The types of the flags and of the counts.
FlagsTyped ==
  /\ initialStatus \in BOOLEAN /\ statusStream \in BOOLEAN
  /\ loading \in BOOLEAN /\ error \in BOOLEAN /\ streamError \in BOOLEAN
  /\ streamRunning \in BOOLEAN /\ timer \in BOOLEAN
  /\ connected \in BOOLEAN /\ wanted \in BOOLEAN
CountsTyped == loads \in Nat /\ loops \in Nat /\ resets \in Nat

\* The type of the state.
TypeOK == FlagsTyped /\ CountsTyped

\* `streamRunning`, which keeps another loop from being started, and `loading`
\* are never set without a loop or a load that will clear them: of two loops
\* the one that ends first clears the flag of the other, never the reverse.
FlagsAreLive == (streamRunning => loops > 0) /\ (loading => loads > 0)

\* Loops pile up only if someone resets the store: however the provider's
\* comings and goings, the loads and the timer interleave, there is one loop,
\* and one more for each restartStream() or dispose().
LoopsAreCounted == loops <= resets + (IF streamRunning THEN 1 ELSE 0)

\* A store that was initialized and has a connection is never left without a
\* stream and without anything that will start one: a failure seen by one loop
\* does not keep the end of another from being followed by a reconnect.
NoStall == wanted /\ connected => streamRunning \/ timer \/ loads > 0

\* While the provider stays connected and the store is not disposed, the
\* stream comes back every time it ends.
StreamRevives == <>[](wanted /\ connected) => []<>streamRunning

-----------------------------------------------------------------------------
(* What the proofs need besides. *)

\* A failure that is shown belongs to a stream that is over, and shows no
\* status of the stream; with a connection, a reconnect is scheduled.
ErrorIsPending ==
  streamError => ~streamRunning /\ ~statusStream /\ (connected => timer)

IInv == TypeOK /\ FlagsAreLive /\ LoopsAreCounted /\ ErrorIsPending /\ NoStall
=============================================================================
