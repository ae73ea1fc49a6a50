---------------------------- MODULE ZQuery_proofs ----------------------------
(***************************************************************************)
(* ZQuery for any number of components, items and fetches: its type        *)
(* invariant and its three safety invariants, by one inductive invariant.  *)
(***************************************************************************)
EXTENDS ZQuery, TLAPS, FiniteSetTheorems

(***************************************************************************)
(* The initial states.                                                     *)
(***************************************************************************)
LEMMA InitIInv == Init => IInv
  <1> SUFFICES ASSUME Init PROVE IInv
    OBVIOUS
  <1>1. TypeOK
    <2>1. referenceCount = Cardinality(mounted)
      BY FS_EmptySet DEF Init
    <2>2. /\ abortController \in 0 .. MaxFetches
          /\ fetch \in [Fetches -> {"none", "streaming", "leaving", "ended",
                                    "failed", "left"}]
      BY FetchesAssumption DEF Init
    <2> QED
      BY <2>1, <2>2 DEF Init, TypeOK
  <1>2. Started = {}
    BY DEF Init, Started
  <1> QED
    BY <1>1, <1>2
    DEF Init, IInv, Numbered, ControllerStarted, LoadingIsLive,
        NewestIsCurrent, Fresh, QuietIsAlone, QuietIsExact

(***************************************************************************)
(* A fetch that starts is the newest from then on, and nothing it had      *)
(* before matters.                                                         *)
(***************************************************************************)
LEMMA BeginIsNewest ==
  ASSUME TypeOK, Numbered, NEW f \in Fetches, Begin(f)
  PROVE  /\ Started' = Started \cup {f}
         /\ Running' = Running \cup {f}
         /\ f \notin Started
         /\ IsNewest(f)'
         /\ \A g \in Fetches : IsNewest(g)' => g = f
  <1>1. f \notin Started /\ 1 .. (f - 1) \subseteq Started
    BY DEF Begin, IsNext
  <1>2. Started' = Started \cup {f} /\ Running' = Running \cup {f}
    BY DEF Begin, TypeOK, Started, Running
  <1>3. ASSUME NEW g \in Started PROVE g <= f
    <2>1. g \in Nat /\ f \in Nat /\ f >= 1
      BY FetchesAssumption DEF Started, Fetches
    <2>2. 1 .. g \subseteq Started
      BY DEF Numbered
    <2> QED
      BY <1>1, <2>1, <2>2
  <1>4. f \in Nat
    BY FetchesAssumption DEF Fetches
  <1>5. IsNewest(f)'
    BY <1>2, <1>3, <1>4 DEF IsNewest
  <1>6. ASSUME NEW g \in Fetches, IsNewest(g)' PROVE g = f
    <2>1. (g \in Started /\ g >= f) \/ g = f
      BY <1>2, <1>6 DEF IsNewest
    <2>2. g \in Nat
      BY FetchesAssumption DEF Fetches
    <2> QED
      BY <1>3, <1>4, <2>1, <2>2
  <1> QED
    BY <1>1, <1>2, <1>5, <1>6

\* The types of what a start changes.
LEMMA BeginTypes ==
  ASSUME TypeOK, NEW f \in Fetches, Begin(f)
  PROVE  /\ abortController' \in 0 .. MaxFetches
         /\ fetch' \in [Fetches -> {"none", "streaming", "leaving", "ended",
                                    "failed", "left"}]
         /\ snapshot' \in [Fetches -> SUBSET Items]
         /\ loading' \in BOOLEAN /\ quiet' \subseteq Fetches
         /\ UNCHANGED <<keep, data, error, server>>
  <1>1. f \in 0 .. MaxFetches
    BY FetchesAssumption DEF Fetches
  <1>2. quiet' \subseteq Fetches
    BY DEF Begin, TypeOK
  <1> QED
    BY <1>1, <1>2 DEF Begin, TypeOK

\* What a start leaves behind of the parts of IInv that are not about the hook.
LEMMA BeginStep ==
  ASSUME IInv, NEW f \in Fetches, Begin(f),
         aborted' \subseteq aborted \cup ({abortController} \ {0})
  PROVE  /\ Numbered' /\ LoadingIsLive' /\ Fresh' /\ QuietIsAlone'
         /\ QuietIsExact'
  <1>1. /\ Started' = Started \cup {f}
        /\ Running' = Running \cup {f}
        /\ f \notin Started
        /\ \A g \in Fetches : IsNewest(g)' => g = f
    BY BeginIsNewest DEF IInv
  <1>2. fetch'[f] = "streaming" /\ quiet' \subseteq quiet \cup {f}
    BY DEF Begin, IInv, TypeOK
  <1>3. keep' = keep /\ keep[f] = {} /\ data' = data
    BY <1>1 DEF Begin, IInv, Fresh
  <1>4. Numbered'
    <2>1. \A g \in Started' : 1 .. g \subseteq Started'
      <3>1. 1 .. f \subseteq Started \cup {f}
        BY FetchesAssumption DEF Begin, IsNext, Fetches
      <3> QED
        BY <1>1, <3>1 DEF IInv, Numbered
    <2>2. aborted' \subseteq Started'
      <3>1. abortController # 0 => abortController \in Started
        BY DEF IInv, ControllerStarted
      <3> QED
        BY <1>1, <3>1 DEF IInv, Numbered
    <2>3. quiet' \subseteq Started'
      BY <1>1, <1>2 DEF IInv, Numbered
    <2> QED
      BY <2>1, <2>2, <2>3 DEF Numbered
  <1>5. LoadingIsLive'
    BY <1>1 DEF LoadingIsLive
  <1>6. Fresh'
    BY <1>1, <1>3 DEF Fresh, IInv
  <1>7. QuietIsAlone'
    <2> SUFFICES ASSUME NEW g \in quiet', IsNewest(g)'
                 PROVE  /\ Running' \subseteq {g}
                        /\ keep'[g] \subseteq snapshot'[g]
                        /\ fetch'[g] = "streaming" => keep'[g] \subseteq data'
      BY DEF QuietIsAlone
    <2>1. g = f
      BY <1>1, <1>2 DEF IInv, TypeOK
    <2>2. Running = {}
      BY <1>1, <2>1 DEF Begin, IInv, Numbered
    <2> QED
      BY <1>1, <1>3, <2>1, <2>2
  <1>8. QuietIsExact'
    BY <1>1, <1>2 DEF QuietIsExact, IInv, TypeOK
  <1> QED
    BY <1>4, <1>5, <1>6, <1>7, <1>8

(***************************************************************************)
(* One lemma per action: each preserves the inductive invariant.           *)
(***************************************************************************)
LEMMA CountMounted ==
  ASSUME TypeOK
  PROVE  /\ IsFiniteSet(mounted)
         /\ referenceCount \in Nat
         /\ referenceCount = 0 <=> mounted = {}
         /\ \A c \in Components \ mounted :
              Cardinality(mounted \cup {c}) = referenceCount + 1
         /\ \A c \in mounted :
              Cardinality(mounted \ {c}) = referenceCount - 1
  <1>1. IsFiniteSet(mounted)
    BY ComponentsAssumption, FS_Subset DEF TypeOK
  <1> QED
    BY <1>1, FS_CardinalityType, FS_EmptySet, FS_AddElement, FS_RemoveElement
    DEF TypeOK

LEMMA RevalidateStep == ASSUME IInv, Revalidate PROVE IInv'
  <1>1. PICK f \in Fetches : Begin(f)
    BY DEF Revalidate
  <1>2. UNCHANGED hookVars /\ AbortCurrent
    BY DEF Revalidate
  <1>3. Numbered' /\ LoadingIsLive' /\ Fresh' /\ QuietIsAlone' /\ QuietIsExact'
    BY <1>1, <1>2, BeginStep DEF AbortCurrent
  <1>4. /\ Started' = Started \cup {f} /\ f \notin Started
        /\ IsNewest(f)' /\ abortController' = f
    BY <1>1, BeginIsNewest DEF IInv, Begin
  <1>5. TypeOK'
    <2>1. aborted' \subseteq Fetches
      BY <1>2, FetchesAssumption DEF AbortCurrent, IInv, TypeOK, Fetches
    <2>2. mounted' \subseteq Components /\ referenceCount' = Cardinality(mounted')
      BY <1>2 DEF hookVars, IInv, TypeOK
    <2> QED
      BY <1>1, <2>1, <2>2, BeginTypes DEF IInv, TypeOK
  <1>6. NewestIsCurrent'
    <2>1. f \notin aborted'
      BY <1>2, <1>4 DEF AbortCurrent, IInv, Numbered, ControllerStarted
    <2> QED
      BY <1>4, <2>1 DEF NewestIsCurrent
  <1>7. ControllerStarted'
    BY <1>4 DEF ControllerStarted
  <1> QED
    BY <1>3, <1>5, <1>6, <1>7 DEF IInv

\* What a step leaves alone that touches the hook and the controller only.
LEMMA StoreKept ==
  ASSUME IInv,
         UNCHANGED <<fetch, keep, data, loading, snapshot, quiet>>
  PROVE  /\ Started' = Started /\ LoadingIsLive' /\ Fresh'
         /\ QuietIsAlone' /\ QuietIsExact'
  BY DEF IInv, Started, Running, IsNewest, LoadingIsLive, Fresh, QuietIsAlone,
         QuietIsExact

LEMMA MountStep == ASSUME IInv, NEW c \in Components, Mount(c) PROVE IInv'
  <1>1. /\ c \notin mounted /\ mounted' = mounted \cup {c}
        /\ referenceCount' = referenceCount + 1 /\ aborted' = aborted
    BY DEF Mount
  <1>2. /\ referenceCount' = Cardinality(mounted')
        /\ referenceCount' = 1 <=> mounted = {}
    BY <1>1, CountMounted DEF IInv
  <1>3. CASE referenceCount' = 1
    <2>1. PICK f \in Fetches : Begin(f)
      BY <1>3 DEF Mount
    <2>2. Numbered' /\ LoadingIsLive' /\ Fresh' /\ QuietIsAlone' /\ QuietIsExact'
      BY <1>1, <2>1, BeginStep
    <2>3. /\ Started' = Started \cup {f} /\ f \notin Started
          /\ IsNewest(f)' /\ abortController' = f
      BY <2>1, BeginIsNewest DEF IInv, Begin
    <2>4. TypeOK'
      BY <1>1, <1>2, <2>1, BeginTypes DEF IInv, TypeOK
    <2>5. NewestIsCurrent' /\ ControllerStarted'
      BY <1>1, <2>3 DEF NewestIsCurrent, ControllerStarted, IInv, Numbered
    <2> QED
      BY <2>2, <2>4, <2>5 DEF IInv
  <1>4. CASE referenceCount' # 1
    <2>1. UNCHANGED <<abortController, fetch, keep, storeVars, server, snapshot,
                      quiet>>
      BY <1>4 DEF Mount
    <2>2. Started' = Started /\ LoadingIsLive' /\ Fresh' /\ QuietIsAlone' /\ QuietIsExact'
      BY <2>1, StoreKept DEF storeVars
    <2>3. TypeOK'
      BY <1>1, <1>2, <2>1 DEF IInv, TypeOK, storeVars
    <2>4. Numbered' /\ ControllerStarted'
      BY <1>1, <2>1, <2>2 DEF IInv, Numbered, ControllerStarted
    <2>5. NewestIsCurrent'
      BY <1>1, <1>2, <1>4, <2>1, <2>2 DEF IInv, NewestIsCurrent, IsNewest
    <2> QED
      BY <2>2, <2>3, <2>4, <2>5 DEF IInv
  <1> QED
    BY <1>3, <1>4

LEMMA UnmountStep == ASSUME IInv, NEW c \in Components, Unmount(c) PROVE IInv'
  <1>1. /\ c \in mounted /\ mounted' = mounted \ {c}
        /\ referenceCount' = referenceCount - 1
        /\ UNCHANGED <<fetch, keep, storeVars, server, snapshot, quiet>>
    BY DEF Unmount
  <1>2. referenceCount' = Cardinality(mounted')
    BY <1>1, CountMounted DEF IInv
  <1>3. Started' = Started /\ LoadingIsLive' /\ Fresh' /\ QuietIsAlone' /\ QuietIsExact'
    BY <1>1, StoreKept DEF storeVars
  <1>4. CASE referenceCount' = 0
    <2>1. AbortCurrent /\ abortController' = 0
      BY <1>4 DEF Unmount
    <2>2. mounted' = {}
      <3>1. IsFiniteSet(mounted')
        BY <1>1, CountMounted, FS_RemoveElement DEF IInv
      <3> QED
        BY <1>2, <1>4, <3>1, FS_EmptySet
    <2>3. TypeOK'
      BY <1>1, <1>2, <2>1, FetchesAssumption
      DEF IInv, TypeOK, storeVars, AbortCurrent, Fetches
    <2>4. Numbered' /\ ControllerStarted'
      BY <1>1, <1>3, <2>1 DEF IInv, Numbered, ControllerStarted, AbortCurrent
    <2> QED
      BY <1>3, <2>2, <2>3, <2>4 DEF IInv, NewestIsCurrent
  <1>5. CASE referenceCount' # 0
    <2>1. UNCHANGED <<aborted, abortController>>
      BY <1>5 DEF Unmount
    <2>2. TypeOK'
      BY <1>1, <1>2, <2>1 DEF IInv, TypeOK, storeVars
    <2>3. Numbered' /\ ControllerStarted' /\ NewestIsCurrent'
      BY <1>1, <1>3, <2>1
      DEF IInv, Numbered, ControllerStarted, NewestIsCurrent, IsNewest
    <2> QED
      BY <1>3, <2>2, <2>3 DEF IInv
  <1> QED
    BY <1>4, <1>5

LEMMA ItemStep ==
  ASSUME IInv, NEW f \in Fetches, NEW i \in Items, Item(f, i) PROVE IInv'
  <1>1. /\ fetch[f] = "streaming" /\ i \in snapshot[f] \ keep[f]
        /\ UNCHANGED <<hookVars, abortController, aborted, loading, error,
                       server, snapshot, quiet>>
    BY DEF Item
  <1>2. Started' = Started /\ Running' = Running /\ f \in Running
    BY <1>1 DEF Item, IInv, TypeOK, Started, Running
  <1>3. TypeOK'
    BY <1>1 DEF Item, IInv, TypeOK, hookVars
  <1>4. Numbered' /\ ControllerStarted' /\ LoadingIsLive' /\ NewestIsCurrent'
    BY <1>1, <1>2
    DEF IInv, Numbered, ControllerStarted, LoadingIsLive, NewestIsCurrent,
        IsNewest, hookVars
  <1>5. Fresh'
    BY <1>1, <1>2 DEF Item, IInv, TypeOK, Fresh, Started
  <1>6. QuietIsAlone'
    BY <1>1, <1>2 DEF Item, IInv, TypeOK, QuietIsAlone, IsNewest
  <1>7. QuietIsExact'
    <2> SUFFICES ASSUME NEW g \in quiet, IsNewest(g), fetch'[g] = "ended"
                 PROVE  FALSE
      BY <1>1, <1>2 DEF QuietIsExact, IsNewest
    <2>1. g # f /\ fetch[g] = "ended"
      BY <1>1 DEF Item, IInv, TypeOK
    <2> QED
      BY <1>2, <2>1 DEF IInv, QuietIsAlone
  <1> QED
    BY <1>3, <1>4, <1>5, <1>6, <1>7 DEF IInv

LEMMA FinishStep ==
  ASSUME IInv, NEW f \in Fetches, NEW how \in {"ended", "failed", "left"},
         f \in Running, Finish(f, how), error' \in BOOLEAN,
         how = "ended" => fetch[f] = "streaming" /\ keep[f] = snapshot[f]
  PROVE  IInv'
  <1>1. /\ fetch' = [fetch EXCEPT ![f] = how] /\ loading' = FALSE
        /\ data' = data \cap keep[f]
        /\ UNCHANGED <<hookVars, abortController, aborted, keep, server,
                       snapshot, quiet>>
    BY DEF Finish
  <1>2. Started' = Started /\ Running' = Running \ {f}
    BY <1>1 DEF IInv, TypeOK, Started, Running
  <1>3. TypeOK'
    BY <1>1 DEF IInv, TypeOK, hookVars
  <1>4. Numbered' /\ ControllerStarted' /\ LoadingIsLive' /\ NewestIsCurrent'
        /\ Fresh'
    BY <1>1, <1>2
    DEF IInv, Numbered, ControllerStarted, LoadingIsLive, NewestIsCurrent,
        IsNewest, Fresh, hookVars
  <1>5. ASSUME NEW g \in quiet, IsNewest(g) PROVE g = f
    BY <1>5 DEF IInv, QuietIsAlone
  <1>6. QuietIsAlone'
    <2> SUFFICES ASSUME NEW g \in quiet, IsNewest(g)
                 PROVE  /\ Running' \subseteq {g}
                        /\ keep[g] \subseteq snapshot[g]
                        /\ fetch'[g] # "streaming"
      BY <1>1, <1>2 DEF QuietIsAlone, IsNewest
    <2> QED
      BY <1>1, <1>2, <1>5 DEF IInv, TypeOK, QuietIsAlone
  <1>7. QuietIsExact'
    <2> SUFFICES ASSUME NEW g \in quiet, IsNewest(g), fetch'[g] = "ended"
                 PROVE  data' = snapshot[g]
      BY <1>1, <1>2 DEF QuietIsExact, IsNewest
    <2>1. g = f /\ how = "ended"
      BY <1>1, <1>5 DEF IInv, TypeOK
    <2>2. keep[f] \subseteq data
      BY <2>1 DEF IInv, QuietIsAlone
    <2> QED
      BY <1>1, <2>1, <2>2
  <1> QED
    BY <1>3, <1>4, <1>6, <1>7 DEF IInv

LEMMA OtherStep ==
  ASSUME IInv, ServerChanges \/ UNCHANGED vars PROVE IInv'
  <1>1. /\ UNCHANGED <<hookVars, abortController, aborted, fetch, keep,
                       storeVars, snapshot, quiet>>
        /\ server' \in SUBSET Items
    BY DEF ServerChanges, vars, IInv, TypeOK
  <1>2. Started' = Started /\ LoadingIsLive' /\ Fresh' /\ QuietIsAlone' /\ QuietIsExact'
    BY <1>1, StoreKept DEF storeVars
  <1> QED
    BY <1>1, <1>2
    DEF IInv, TypeOK, Numbered, ControllerStarted, NewestIsCurrent, IsNewest,
        hookVars, storeVars

-----------------------------------------------------------------------------
\* The inductive invariant holds in every reachable state: the fetches are
\* numbered in order of start, and a stream nothing overlapped is alone.
THEOREM InvariantHolds == Spec => []IInv
  <1>1. Init => IInv
    BY InitIInv
  <1>2. IInv /\ [Next]_vars => IInv'
    <2> SUFFICES ASSUME IInv, [Next]_vars PROVE IInv'
      OBVIOUS
    <2>1. CASE Revalidate
      BY <2>1, RevalidateStep
    <2>2. ASSUME NEW c \in Components, Mount(c) \/ Unmount(c) PROVE IInv'
      BY <2>2, MountStep, UnmountStep
    <2>3. ASSUME NEW f \in Fetches, Ends(f) \/ Fails(f) \/ Leaves(f)
          PROVE  IInv'
      <3>1. CASE Ends(f)
        BY <3>1, FinishStep DEF Ends, Running, IInv, TypeOK
      <3>2. CASE Fails(f)
        BY <3>2, FinishStep DEF Fails, Running
      <3>3. CASE Leaves(f)
        BY <3>3, FinishStep DEF Leaves, Running, IInv, TypeOK
      <3> QED
        BY <2>3, <3>1, <3>2, <3>3
    <2>4. ASSUME NEW f \in Fetches, NEW i \in Items, Item(f, i) PROVE IInv'
      BY <2>4, ItemStep
    <2>5. CASE ServerChanges \/ UNCHANGED vars
      BY <2>5, OtherStep
    <2> QED
      BY <2>1, <2>2, <2>3, <2>4, <2>5 DEF Next
  <1> QED
    BY <1>1, <1>2, PTL DEF Spec

\* The store and the hook keep their types, and the reference count is the
\* number of components that show the query.
THEOREM TypeCorrect == Spec => []TypeOK
  BY InvariantHolds, PTL DEF IInv

\* A query that is loading has a fetch that will say when it is not.
THEOREM LoadingEnds == Spec => []LoadingIsLive
  BY InvariantHolds, PTL DEF IInv

\* The newest fetch of a query that is shown can still be aborted.
THEOREM NewestCanBeAborted == Spec => []NewestIsCurrent
  BY InvariantHolds, PTL DEF IInv

\* A stream that nothing overlapped leaves exactly what it sent.
THEOREM QuietStreamIsExact == Spec => []QuietIsExact
  BY InvariantHolds, PTL DEF IInv
=============================================================================
