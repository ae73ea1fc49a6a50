-------------------------- MODULE StatusStore_proofs --------------------------
(***************************************************************************)
(* The invariants of StatusStore, for any number of loads and resets: IInv *)
(* is inductive.                                                           *)
(***************************************************************************)
EXTENDS StatusStore, TLAPS

\* A step keeps the flags Boolean.
LEMMA FlagsTypeStep ==
  ASSUME IInv, [Next]_vars PROVE FlagsTyped'
<1> USE DEF IInv, TypeOK, FlagsTyped, data, errors, world
<1>1. CASE Initialize
  BY <1>1 DEF Initialize, LoadInitialStatus
<1>2. CASE OnConnected
  BY <1>2 DEF OnConnected, LoadInitialStatus
<1>3. CASE Disconnected
  BY <1>3 DEF Disconnected
<1>4. CASE Refresh
  BY <1>4 DEF Refresh, LoadInitialStatus
<1>5. CASE RestartStream
  BY <1>5 DEF RestartStream, LoadInitialStatus
<1>6. CASE Dispose
  BY <1>6 DEF Dispose
<1>7. CASE LoadSettles
  BY <1>7 DEF LoadSettles, StartStatusStream
<1>8. CASE Receive
  BY <1>8 DEF Receive
<1>9. CASE LoopFails
  BY <1>9 DEF LoopFails
<1>10. CASE LoopEnds
  BY <1>10 DEF LoopEnds
<1>11. CASE TimerFires
  BY <1>11 DEF TimerFires, StartStatusStream
<1>12. CASE UNCHANGED vars
  BY <1>12 DEF vars
<1> QED
  BY <1>1, <1>2, <1>3, <1>4, <1>5, <1>6,
     <1>7, <1>8, <1>9, <1>10, <1>11, <1>12 DEF Next

\* A step keeps the counts natural.
LEMMA CountsTypeStep ==
  ASSUME IInv, [Next]_vars PROVE CountsTyped'
<1> USE DEF IInv, TypeOK, CountsTyped, data, errors, world
<1>1. CASE Initialize
  BY <1>1 DEF Initialize, LoadInitialStatus
<1>2. CASE OnConnected
  BY <1>2 DEF OnConnected, LoadInitialStatus
<1>3. CASE Disconnected
  BY <1>3 DEF Disconnected
<1>4. CASE Refresh
  BY <1>4 DEF Refresh, LoadInitialStatus
<1>5. CASE RestartStream
  BY <1>5 DEF RestartStream, LoadInitialStatus
<1>6. CASE Dispose
  BY <1>6 DEF Dispose
<1>7. CASE LoadSettles
  BY <1>7 DEF LoadSettles, StartStatusStream
<1>8. CASE Receive
  BY <1>8 DEF Receive
<1>9. CASE LoopFails
  BY <1>9 DEF LoopFails
<1>10. CASE LoopEnds
  BY <1>10 DEF LoopEnds
<1>11. CASE TimerFires
  BY <1>11 DEF TimerFires, StartStatusStream
<1>12. CASE UNCHANGED vars
  BY <1>12 DEF vars
<1> QED
  BY <1>1, <1>2, <1>3, <1>4, <1>5, <1>6,
     <1>7, <1>8, <1>9, <1>10, <1>11, <1>12 DEF Next

\* A loop that starts sets the flag, every loop that ends clears it.
LEMMA FlagsStep ==
  ASSUME IInv, [Next]_vars PROVE FlagsAreLive'
<1> USE DEF IInv, TypeOK, FlagsTyped, CountsTyped, data, errors, world,
            FlagsAreLive
<1>1. CASE Initialize
  BY <1>1 DEF Initialize, LoadInitialStatus
<1>2. CASE OnConnected
  BY <1>2 DEF OnConnected, LoadInitialStatus
<1>3. CASE Disconnected
  BY <1>3 DEF Disconnected
<1>4. CASE Refresh
  BY <1>4 DEF Refresh, LoadInitialStatus
<1>5. CASE RestartStream
  BY <1>5 DEF RestartStream, LoadInitialStatus
<1>6. CASE Dispose
  BY <1>6 DEF Dispose
<1>7. CASE LoadSettles
  BY <1>7 DEF LoadSettles, StartStatusStream
<1>8. CASE Receive
  BY <1>8 DEF Receive
<1>9. CASE LoopFails
  BY <1>9 DEF LoopFails
<1>10. CASE LoopEnds
  BY <1>10 DEF LoopEnds
<1>11. CASE TimerFires
  BY <1>11 DEF TimerFires, StartStatusStream
<1>12. CASE UNCHANGED vars
  BY <1>12 DEF vars
<1> QED
  BY <1>1, <1>2, <1>3, <1>4, <1>5, <1>6,
     <1>7, <1>8, <1>9, <1>10, <1>11, <1>12 DEF Next

\* A loop starts only where the flag is clear.
LEMMA LoopsStep ==
  ASSUME IInv, [Next]_vars PROVE LoopsAreCounted'
<1> USE DEF IInv, TypeOK, FlagsTyped, CountsTyped, data, errors, world,
         FlagsAreLive, LoopsAreCounted
<1>1. CASE Initialize
  BY <1>1 DEF Initialize, LoadInitialStatus
<1>2. CASE OnConnected
  BY <1>2 DEF OnConnected, LoadInitialStatus
<1>3. CASE Disconnected
  BY <1>3 DEF Disconnected
<1>4. CASE Refresh
  BY <1>4 DEF Refresh, LoadInitialStatus
<1>5. CASE RestartStream
  BY <1>5 DEF RestartStream, LoadInitialStatus
<1>6. CASE Dispose
  BY <1>6 DEF Dispose
<1>7. CASE LoadSettles
  BY <1>7 DEF LoadSettles, StartStatusStream
<1>8. CASE Receive
  BY <1>8 DEF Receive
<1>9. CASE LoopFails
  BY <1>9 DEF LoopFails
<1>10. CASE LoopEnds
  BY <1>10 DEF LoopEnds
<1>11. CASE TimerFires
  BY <1>11 DEF TimerFires, StartStatusStream
<1>12. CASE UNCHANGED vars
  BY <1>12 DEF vars
<1> QED
  BY <1>1, <1>2, <1>3, <1>4, <1>5, <1>6,
     <1>7, <1>8, <1>9, <1>10, <1>11, <1>12 DEF Next

\* A stream that starts clears the error, one that fails sets the timer.
LEMMA ErrorStep ==
  ASSUME IInv, [Next]_vars PROVE ErrorIsPending'
<1> USE DEF IInv, TypeOK, FlagsTyped, CountsTyped, data, errors, world,
            ErrorIsPending
<1>1. CASE Initialize
  BY <1>1 DEF Initialize, LoadInitialStatus
<1>2. CASE OnConnected
  BY <1>2 DEF OnConnected, LoadInitialStatus
<1>3. CASE Disconnected
  BY <1>3 DEF Disconnected
<1>4. CASE Refresh
  BY <1>4 DEF Refresh, LoadInitialStatus
<1>5. CASE RestartStream
  BY <1>5 DEF RestartStream, LoadInitialStatus
<1>6. CASE Dispose
  BY <1>6 DEF Dispose
<1>7. CASE LoadSettles
  BY <1>7 DEF LoadSettles, StartStatusStream
<1>8. CASE Receive
  BY <1>8 DEF Receive
<1>9. CASE LoopFails
  BY <1>9 DEF LoopFails
<1>10. CASE LoopEnds
  BY <1>10 DEF LoopEnds
<1>11. CASE TimerFires
  BY <1>11 DEF TimerFires, StartStatusStream
<1>12. CASE UNCHANGED vars
  BY <1>12 DEF vars
<1> QED
  BY <1>1, <1>2, <1>3, <1>4, <1>5, <1>6,
     <1>7, <1>8, <1>9, <1>10, <1>11, <1>12 DEF Next

\* What ends a stream, a timer or a load leaves one of the others.
LEMMA StallStep ==
  ASSUME IInv, [Next]_vars PROVE NoStall'
<1> USE DEF IInv, TypeOK, FlagsTyped, CountsTyped, data, errors, world,
         ErrorIsPending, NoStall
<1>1. CASE Initialize
  BY <1>1 DEF Initialize, LoadInitialStatus
<1>2. CASE OnConnected
  BY <1>2 DEF OnConnected, LoadInitialStatus
<1>3. CASE Disconnected
  BY <1>3 DEF Disconnected
<1>4. CASE Refresh
  BY <1>4 DEF Refresh, LoadInitialStatus
<1>5. CASE RestartStream
  BY <1>5 DEF RestartStream, LoadInitialStatus
<1>6. CASE Dispose
  BY <1>6 DEF Dispose
<1>7. CASE LoadSettles
  BY <1>7 DEF LoadSettles, StartStatusStream
<1>8. CASE Receive
  BY <1>8 DEF Receive
<1>9. CASE LoopFails
  BY <1>9 DEF LoopFails
<1>10. CASE LoopEnds
  BY <1>10 DEF LoopEnds
<1>11. CASE TimerFires
  BY <1>11 DEF TimerFires, StartStatusStream
<1>12. CASE UNCHANGED vars
  BY <1>12 DEF vars
<1> QED
  BY <1>1, <1>2, <1>3, <1>4, <1>5, <1>6,
     <1>7, <1>8, <1>9, <1>10, <1>11, <1>12 DEF Next

\* IInv holds in every reachable state.
THEOREM InvariantHolds == Spec => []IInv
<1>1. Init => IInv
  <2>1. Init => FlagsTyped /\ CountsTyped
    <3>1. Init => FlagsTyped
      BY DEF Init, FlagsTyped
    <3>2. Init => CountsTyped
      BY DEF Init, CountsTyped
    <3> QED
      BY <3>1, <3>2
  <2>2. Init => FlagsAreLive /\ ErrorIsPending /\ NoStall
    BY DEF Init, FlagsAreLive, ErrorIsPending, NoStall
  <2>3. Init => LoopsAreCounted
    BY DEF Init, LoopsAreCounted
  <2> QED
    BY <2>1, <2>2, <2>3 DEF IInv, TypeOK
<1>2. IInv /\ [Next]_vars => IInv'
  BY FlagsTypeStep, CountsTypeStep, FlagsStep, LoopsStep,
     ErrorStep, StallStep DEF IInv, TypeOK
<1> QED
  BY <1>1, <1>2, PTL DEF Spec

\* Every variable keeps its type.
THEOREM TypeCorrect == Spec => []TypeOK
<1>1. IInv => TypeOK
  BY DEF IInv
<1> QED
  BY <1>1, InvariantHolds, PTL

\* There is one loop, and one more for each reset of the store.
THEOREM LoopsCounted == Spec => []LoopsAreCounted
<1>1. IInv => LoopsAreCounted
  BY DEF IInv
<1> QED
  BY <1>1, InvariantHolds, PTL

\* A store that is wanted and connected has, or will start, a stream.
THEOREM NeverStalls == Spec => []NoStall
<1>1. IInv => NoStall
  BY DEF IInv
<1> QED
  BY <1>1, InvariantHolds, PTL

\* `streamRunning` and `loading` are cleared by a loop or a load to come.
THEOREM FlagsLive == Spec => []FlagsAreLive
<1>1. IInv => FlagsAreLive
  BY DEF IInv
<1> QED
  BY <1>1, InvariantHolds, PTL
=============================================================================
