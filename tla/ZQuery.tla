------------------------------- MODULE ZQuery -------------------------------
(***************************************************************************)
(* A streaming query of packages/zquery: the slice of getSlice, which      *)
(* fetches a stream into the store, and the hook of getUseHook, which      *)
(* counts the components that show it and fetches for the first one.       *)
(*                                                                         *)
(* The reducers are those of `summaries`, the transaction list of          *)
(* apps/minifront (and of the example in types.ts): a stream adds its      *)
(* items to the data, and its end discards what it did not send.           *)
(*                                                                         *)
(* A fetch is a number, in order of start.  Each is started together with  *)
(* an abort controller and reads no other, so the controller has the       *)
(* number of its fetch.  A change of the hook's arguments unmounts and     *)
(* mounts.                                                                 *)
(***************************************************************************)
EXTENDS Naturals, FiniteSets

CONSTANTS
  Components,   \* components that use the hook
  Items,        \* what the service may hold
  MaxFetches    \* bound: fetches started
ASSUME FetchesAssumption == MaxFetches \in Nat
ASSUME ComponentsAssumption == IsFiniteSet(Components)

Fetches == 1 .. MaxFetches

VARIABLES
  mounted,          \* components that show the query
  referenceCount,   \* _zQueryInternal.referenceCount
  abortController,  \* _zQueryInternal.abortController, 0 for undefined
  aborted,          \* fetches whose controller has fired
  fetch,            \* how far each fetch has come
  keep,             \* items each fetch has received (`txIdsToKeep`)
  data, loading, error,
  server,           \* what the service holds
  snapshot,         \* what it held when the fetch began, and will send
  quiet             \* history: fetches that never overlapped another

hookVars  == <<mounted, referenceCount>>
storeVars == <<data, loading, error>>
vars == <<hookVars, abortController, aborted, fetch, keep, storeVars, server,
          snapshot, quiet>>

Init ==
  /\ mounted = {}
  /\ referenceCount = 0
  /\ abortController = 0
  /\ aborted = {}
  /\ fetch = [f \in Fetches |-> "none"]
  /\ keep = [f \in Fetches |-> {}]
  /\ data = {}
  /\ loading = FALSE
  /\ error = FALSE
  /\ server \in SUBSET Items
  /\ snapshot = [f \in Fetches |-> {}]
  /\ quiet = {}

Started == {f \in Fetches : fetch[f] # "none"}
Running == {f \in Fetches : fetch[f] \in {"streaming", "leaving"}}
IsNext(f) == f \notin Started /\ 1 .. (f - 1) \subseteq Started
IsNewest(f) == f \in Started /\ \A g \in Started : g <= f
-----------------------------------------------------------------------------
\* A fetch starts, with a new abort controller.
Begin(f) ==
  /\ IsNext(f)
  /\ abortController' = f
  /\ fetch' = [fetch EXCEPT ![f] = "streaming"]
  /\ loading' = TRUE
  /\ snapshot' = [snapshot EXCEPT ![f] = server]
  /\ quiet' = IF Running = {} THEN quiet \cup {f} ELSE quiet \ Running
  /\ UNCHANGED <<keep, data, error, server>>

\* The controller in the store fires.
AbortCurrent == aborted' = aborted \cup ({abortController} \ {0})

\* revalidate(), called by a component or by anyone who holds the store.
Revalidate == /\ AbortCurrent
              /\ \E f \in Fetches : Begin(f)
              /\ UNCHANGED hookVars

\* A component that is not the first is not counted.
BugMountUncounted(c) ==
  /\ c \notin mounted
  /\ mounted' = mounted \cup {c}
  /\ referenceCount' = 1
  /\ UNCHANGED aborted
  /\ IF referenceCount = 0
     THEN \E f \in Fetches : Begin(f)
     ELSE UNCHANGED <<abortController, fetch, keep, storeVars, server,
                      snapshot, quiet>>

\* The effect of the hook: the first component fetches.
Mount(c) ==
  /\ c \notin mounted
  /\ mounted' = mounted \cup {c}
  /\ referenceCount' = referenceCount + 1
  /\ UNCHANGED aborted
  /\ IF referenceCount' = 1
     THEN \E f \in Fetches : Begin(f)
     ELSE UNCHANGED <<abortController, fetch, keep, storeVars, server,
                      snapshot, quiet>>

\* Every component that leaves aborts and forgets the controller.
BugUnmountAborts(c) ==
  /\ c \in mounted
  /\ mounted' = mounted \ {c}
  /\ referenceCount' = referenceCount - 1
  /\ AbortCurrent /\ abortController' = 0
  /\ UNCHANGED <<fetch, keep, storeVars, server, snapshot, quiet>>

\* onUnmount: the last component aborts.
Unmount(c) ==
  /\ c \in mounted
  /\ mounted' = mounted \ {c}
  /\ referenceCount' = referenceCount - 1
  /\ IF referenceCount' = 0
     THEN AbortCurrent /\ abortController' = 0
     ELSE UNCHANGED <<aborted, abortController>>
  /\ UNCHANGED <<fetch, keep, storeVars, server, snapshot, quiet>>
-----------------------------------------------------------------------------
\* The next item arrives: only now does a stream look at its signal.
Item(f, i) ==
  /\ fetch[f] = "streaming"
  /\ i \in snapshot[f] \ keep[f]
  /\ \/ /\ f \in aborted
        /\ fetch' = [fetch EXCEPT ![f] = "leaving"]
        /\ UNCHANGED <<keep, data>>
     \/ /\ f \notin aborted
        /\ keep' = [keep EXCEPT ![f] = @ \cup {i}]
        /\ data' = data \cup {i}
        /\ UNCHANGED fetch
  /\ UNCHANGED <<hookVars, abortController, aborted, loading, error, server,
                 snapshot, quiet>>

\* An aborted stream leaves everything as it is.
BugFinishSkipped(f, how) ==
  /\ fetch' = [fetch EXCEPT ![f] = how]
  /\ IF f \in aborted THEN UNCHANGED <<loading, data>>
     ELSE loading' = FALSE /\ data' = data \cap keep[f]
  /\ UNCHANGED <<hookVars, abortController, aborted, keep, server, snapshot,
                 quiet>>

\* The end discards nothing.
BugFinishKeeps(f, how) ==
  /\ fetch' = [fetch EXCEPT ![f] = how]
  /\ loading' = FALSE
  /\ UNCHANGED <<hookVars, abortController, aborted, keep, data, server,
                 snapshot, quiet>>

\* `finally`: not loading any more, and onEnd.
Finish(f, how) ==
  /\ fetch' = [fetch EXCEPT ![f] = how]
  /\ loading' = FALSE
  /\ data' = data \cap keep[f]
  /\ UNCHANGED <<hookVars, abortController, aborted, keep, server, snapshot,
                 quiet>>

\* The stream has sent everything.
Ends(f) ==
  /\ fetch[f] = "streaming"
  /\ keep[f] = snapshot[f]
  /\ Finish(f, "ended")
  /\ UNCHANGED error

\* The stream fails; nothing ever clears the error.
Fails(f) ==
  /\ fetch[f] = "streaming"
  /\ error' = TRUE
  /\ Finish(f, "failed")

\* The iterator of an aborted stream has returned.
Leaves(f) ==
  /\ fetch[f] = "leaving"
  /\ Finish(f, "left")
  /\ UNCHANGED error

\* What the service holds changes.
ServerChanges ==
  /\ server' \in SUBSET Items \ {server}
  /\ UNCHANGED <<hookVars, abortController, aborted, fetch, keep, storeVars,
                 snapshot, quiet>>

Next ==
  \/ Revalidate
  \/ \E c \in Components : Mount(c) \/ Unmount(c)
  \/ \E f \in Fetches : Ends(f) \/ Fails(f) \/ Leaves(f)
                          \/ \E i \in Items : Item(f, i)
  \/ ServerChanges

Spec == Init /\ [][Next]_vars
-----------------------------------------------------------------------------
TypeOK ==
  /\ mounted \subseteq Components
  /\ referenceCount = Cardinality(mounted)
  /\ abortController \in 0 .. MaxFetches
  /\ aborted \subseteq Fetches
  /\ fetch \in [Fetches -> {"none", "streaming", "leaving", "ended", "failed",
                            "left"}]
  /\ keep \in [Fetches -> SUBSET Items]
  /\ data \subseteq Items
  /\ loading \in BOOLEAN
  /\ error \in BOOLEAN
  /\ server \subseteq Items
  /\ snapshot \in [Fetches -> SUBSET Items]
  /\ quiet \subseteq Fetches

\* The query does not go on loading for ever: whatever was aborted, failed or
\* overtaken, there is a fetch left whose `finally` will say so.
LoadingIsLive == loading => Running # {}

\* While some component shows the query, its newest fetch can be aborted: it is
\* the one revalidate() and the last unmount abort, and they have not yet.
NewestIsCurrent ==
  mounted # {} =>
    /\ abortController \notin aborted
    /\ IsNewest(abortController)

\* A stream that nothing overlapped leaves exactly what it sent, whatever
\* earlier streams had left: nothing of "a previous stream", and all of its own.
QuietIsExact ==
  \A f \in quiet : IsNewest(f) /\ fetch[f] = "ended" => data = snapshot[f]

\* What the invariants above rest on: fetches are numbered through, an abort
\* concerns one that was started, and a stream nothing has overlapped yet is
\* alone with what it has sent.
Numbered ==
  /\ \A f \in Started : 1 .. f \subseteq Started
  /\ aborted \subseteq Started
  /\ quiet \subseteq Started
ControllerStarted == abortController # 0 => abortController \in Started
QuietIsAlone ==
  \A f \in quiet : IsNewest(f) =>
    /\ Running \subseteq {f}
    /\ keep[f] \subseteq snapshot[f]
    /\ fetch[f] = "streaming" => keep[f] \subseteq data
Fresh == \A f \in Fetches \ Started : keep[f] = {}

IInv == /\ TypeOK /\ Numbered /\ ControllerStarted /\ LoadingIsLive
        /\ NewestIsCurrent /\ Fresh /\ QuietIsAlone /\ QuietIsExact

(***************************************************************************)
(* What the repository says and the code does not do.                      *)
(***************************************************************************)

\* onEnd "Discard any puppy photos from a previous stream": once every stream
\* is over, the data of the newest one, which ended well, is there.
NewestIsKept ==
  Running = {} =>
    \A f \in Started : IsNewest(f) /\ fetch[f] = "ended" =>
      snapshot[f] \subseteq data
=============================================================================
