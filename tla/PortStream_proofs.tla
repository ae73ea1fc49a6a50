-------------------------- MODULE PortStream_proofs --------------------------
(***************************************************************************)
(* What TLAPS proves of PortStream, for responses of any length: its type  *)
(* invariant, that a sink's success means delivery, and that it implements *)
(* the safety part of StreamContract.                                      *)
(***************************************************************************)
EXTENDS PortStream, SequenceTheorems, TLAPS

USE DEF Delivered

\* What is left of a queue when its first element is taken.
LEMMA HeadAndTail ==
  ASSUME NEW S, NEW q \in Seq(S), q # <<>>
  PROVE  /\ Head(q) = q[1] /\ q[1] \in S
         /\ Tail(q) \in Seq(S)
         /\ Len(q) \in Nat /\ Len(Tail(q)) = Len(q) - 1
         /\ \A i \in 1 .. Len(Tail(q)) : Tail(q)[i] = q[i + 1]
OBVIOUS

\* What can be on the wire.
LEMMA Items == /\ {END, ABORT, Disc} \subseteq Item
               /\ \A n \in Chunks : Value(n) \in Item
  BY DEF Item, Value

\* The initial state satisfies the invariant.
LEMMA InitIInv == Init => IInv
  BY ChunksAssumption DEF Init, IInv, TypeOK, InOrder, WireInOrder, EndsAgree,
                          SuccessIsDelivered

\* What Send does to the wire, item by item.
LEMMA SendWire ==
  ASSUME wire \in Seq(Item), NEW m \in Item, Send(m)
  PROVE  /\ wire' \in Seq(Item)
         /\ sourcePort = "open" =>
              /\ Len(wire') = Len(wire) + 1
              /\ wire'[Len(wire) + 1] = m
              /\ \A i \in 1 .. Len(wire) : wire'[i] = wire[i]
  BY DEF Send

\* Whatever cuts the sink's end leaves what is on the wire where it is.
LEMMA CutWire ==
  ASSUME wire \in Seq(Item), CutSink
  PROVE  /\ wire' \in Seq(Item)
         /\ sinkPort' \in {sinkPort, "cut"} /\ sinkPort' # "open"
         /\ sourcePort = "open" =>
              /\ Len(wire') \in {Len(wire), Len(wire) + 1}
              /\ \A i \in 1 .. Len(wire) : wire'[i] = wire[i]
              /\ Len(wire') = Len(wire) + 1 => wire'[Len(wire) + 1] = Disc
<1>1. CASE sinkPort = "open"
  BY <1>1, SendWire, Items DEF CutSink
<1>2. CASE sinkPort # "open"
  BY <1>2 DEF CutSink
<1> QED BY <1>1, <1>2

\* A chunk written to the sink: posted behind the others, or an error.
LEMMA WriteStep == IInv /\ Write => IInv'
<1> SUFFICES ASSUME IInv, Write PROVE IInv'
  OBVIOUS
<1> USE ChunksAssumption DEF IInv
<1>1. CASE sinkPort = "open"
  <2>1. /\ written' = written + 1 /\ written + 1 \in Chunks
        /\ Send(Value(written + 1))
        /\ Value(written + 1) \in Item
        /\ UNCHANGED <<sink, finished, sinkPort, sourceVars, readerVars>>
    BY <1>1, Items DEF Write, TypeOK, Chunks
  <2>2. /\ wire' \in Seq(Item)
        /\ sourcePort = "open" =>
             /\ Len(wire') = Len(wire) + 1
             /\ wire'[Len(wire) + 1] = Value(written + 1)
             /\ \A i \in 1 .. Len(wire) : wire'[i] = wire[i]
    BY <2>1, SendWire DEF TypeOK
  <2>3. TypeOK'
    <3>1. written' \in 0 .. MaxChunks
      BY <2>1 DEF TypeOK, Chunks
    <3> QED BY <2>1, <2>2, <3>1 DEF TypeOK, sourceVars, readerVars
  <2>4. InOrder'
    BY <2>1 DEF TypeOK, InOrder, readerVars
  <2>5. WireInOrder'
    <3> SUFFICES ASSUME sourcePort = "open"
                 PROVE  /\ (\A i \in 1 .. Len(wire) : Placed(wire[i], Delivered + i))'
                        /\ Delivered + Len(wire') = written + 1
      BY <2>1 DEF WireInOrder, sourceVars, readerVars
    <3>1. /\ Delivered' = Delivered /\ Delivered \in Nat /\ Len(wire) \in Nat
          /\ Delivered + Len(wire) = written
          /\ Len(wire') = Len(wire) + 1
      BY <1>1, <2>1, <2>2 DEF Write, TypeOK, WireInOrder, readerVars
    <3>2. ASSUME NEW i \in 1 .. Len(wire')
          PROVE  Placed(wire[i], Delivered + i)'
      <4>1. CASE i <= Len(wire)
        <5>1. i \in 1 .. Len(wire)
          BY <4>1, <3>1
        <5>2. Placed(wire[i], Delivered + i)
          BY <5>1 DEF WireInOrder
        <5>3. wire'[i] = wire[i] /\ finished = "running" /\ finished' = finished
          BY <5>1, <2>1, <2>2 DEF Write, EndsAgree
        <5>4. written \in Nat /\ written' = written + 1
          BY <2>1 DEF TypeOK
        <5>5. Delivered' + i = Delivered + i
          BY <3>1
        <5> QED BY <5>2, <5>3, <5>4, <5>5 DEF Placed
      <4>2. CASE i = Len(wire) + 1
        <5>1. wire'[i] = Value(written') /\ Delivered' + i = written'
          <6>1. wire'[i] = Value(written + 1) /\ written' = written + 1
            BY <4>2, <2>1, <2>2
          <6>2. Delivered + i = written + 1
            BY <4>2, <3>1
          <6> QED BY <6>1, <6>2, <3>1
        <5>2. written \in Nat /\ written' = written + 1
          BY <2>1 DEF TypeOK
        <5> QED BY <5>1, <5>2 DEF Placed, Value
      <4> QED BY <4>1, <4>2, <3>1
    <3> QED BY <2>1, <3>1, <3>2
  <2>6. EndsAgree' /\ SuccessIsDelivered'
    BY <2>1 DEF Write, TypeOK, InOrder, WireInOrder, EndsAgree, SuccessIsDelivered,
                sourceVars, readerVars
  <2> QED BY <2>3, <2>4, <2>5, <2>6
<1>2. CASE sinkPort = "cut"
  <2>1. /\ sink' = "failed"
        /\ UNCHANGED <<written, finished, sinkPort, wire, sourceVars, readerVars>>
    BY <1>2 DEF Write
  <2>2. TypeOK' /\ InOrder' /\ EndsAgree' /\ SuccessIsDelivered'
    BY <2>1 DEF TypeOK, InOrder, EndsAgree, SuccessIsDelivered, sourceVars,
                readerVars
  <2>3. WireInOrder'
    BY <2>1 DEF TypeOK, WireInOrder, Placed, sourceVars, readerVars
  <2> QED BY <2>2, <2>3
<1> QED BY <1>1, <1>2 DEF Write

\* END or ABORT, posted behind the last chunk.
LEMMA FinalStep == IInv /\ (Close \/ Abort) => IInv'
<1> SUFFICES ASSUME IInv,
                    NEW f \in {"ended", "failed"},
                    NEW s \in {"closing", "aborting"},
                    NEW m \in {END, ABORT},
                    f = "ended" <=> s = "closing", f = "ended" <=> m = END,
                    Final(f, s, m)
             PROVE  IInv'
  BY DEF Close, Abort, END, ABORT
<1> USE DEF IInv
<1>1. /\ sink = "writable" /\ finished' = f /\ sink' = s
      /\ UNCHANGED <<written, sinkPort, sourceVars, readerVars>>
  BY DEF Final
<1>4. InOrder' /\ EndsAgree' /\ SuccessIsDelivered'
  BY <1>1 DEF TypeOK, InOrder, EndsAgree, SuccessIsDelivered, sourceVars,
              readerVars
<1>2. CASE sinkPort = "open"
  <2>1. Send(m) /\ m \in Item
    BY <1>2, Items DEF Final
  <2>2. /\ wire' \in Seq(Item)
        /\ sourcePort = "open" =>
             /\ Len(wire') = Len(wire) + 1
             /\ wire'[Len(wire) + 1] = m
             /\ \A i \in 1 .. Len(wire) : wire'[i] = wire[i]
    BY <2>1, SendWire DEF TypeOK
  <2>3. TypeOK'
    BY <1>1, <2>2 DEF TypeOK, sourceVars, readerVars
  <2>4. WireInOrder'
    <3> SUFFICES ASSUME sourcePort = "open", NEW i \in 1 .. Len(wire')
                 PROVE  Placed(wire[i], Delivered + i)'
      BY <1>1 DEF WireInOrder, sourceVars
    <3>1. CASE i <= Len(wire)
      <4>1. i \in 1 .. Len(wire)
        BY <3>1 DEF TypeOK
      <4>2. Placed(wire[i], Delivered + i)
        BY <4>1 DEF WireInOrder
      <4>3. wire'[i] = wire[i] /\ finished = "running" /\ written' = written
        BY <4>1, <1>1, <2>2 DEF EndsAgree
      <4>4. Delivered' + i = Delivered + i
        BY <1>1 DEF Delivered, readerVars
      <4> QED BY <4>2, <4>3, <4>4 DEF Placed
    <3>2. CASE i = Len(wire) + 1
      <4>a. Delivered + Len(wire) = written
        BY <1>1, <1>2 DEF WireInOrder
      <4>b. Delivered' = Delivered /\ written' = written
        BY <1>1 DEF readerVars
      <4>c. Len(wire) \in Nat /\ Delivered \in Nat
        BY DEF TypeOK
      <4>d. wire'[i] = m
        BY <3>2, <2>2
      <4>1. wire'[i] = m /\ Delivered' + i = written' + 1
        BY <3>2, <4>a, <4>b, <4>c, <4>d
      <4>2. CASE m = END
        BY <4>1, <4>2, <1>1 DEF Placed, END
      <4>3. CASE m = ABORT
        <5>1. m # END
          BY <4>3 DEF END, ABORT
        <5>2. finished' = "failed"
          BY <5>1, <1>1
        <5> QED BY <4>1, <4>3, <5>2 DEF Placed, ABORT
      <4> QED BY <4>2, <4>3
    <3> QED BY <2>2, <3>1, <3>2 DEF TypeOK
  <2> QED BY <2>3, <2>4, <1>4
<1>3. CASE sinkPort # "open"
  <2>1. UNCHANGED wire
    BY <1>3 DEF Final
  <2>2. TypeOK'
    BY <1>1, <2>1 DEF TypeOK, sourceVars, readerVars
  <2>3. WireInOrder'
    BY <1>1, <2>1 DEF TypeOK, WireInOrder, EndsAgree, Placed, sourceVars,
                      readerVars
  <2> QED BY <2>2, <2>3, <1>4
<1> QED BY <1>2, <1>3

\* The sink's end is cut by its timer, by the manager or with the worker.
LEMMA CutStep == IInv /\ (SinkTimeout \/ PortKilled \/ WorkerKilled) => IInv'
<1> SUFFICES ASSUME IInv, CutSink, sink' \in {sink, "failed"},
                    UNCHANGED <<written, finished, sourceVars, readerVars>>
             PROVE  IInv'
  BY DEF SinkTimeout, PortKilled, WorkerKilled
<1> USE DEF IInv
<1>1. /\ wire' \in Seq(Item)
      /\ sinkPort' \in {sinkPort, "cut"} /\ sinkPort' # "open"
      /\ sourcePort = "open" =>
           /\ Len(wire') \in {Len(wire), Len(wire) + 1}
           /\ \A i \in 1 .. Len(wire) : wire'[i] = wire[i]
           /\ Len(wire') = Len(wire) + 1 => wire'[Len(wire) + 1] = Disc
  BY CutWire DEF TypeOK
<1>2. TypeOK'
  BY <1>1 DEF TypeOK, sourceVars, readerVars
<1>3. InOrder' /\ WireInOrder'
  BY <1>1 DEF TypeOK, InOrder, WireInOrder, Placed, Disc, sourceVars, readerVars
<1>4. EndsAgree' /\ SuccessIsDelivered'
  BY DEF TypeOK, EndsAgree, SuccessIsDelivered, sourceVars, readerVars
<1> QED BY <1>2, <1>3, <1>4

\* The sink hears of a disconnect: after END, the source has had it.
LEMMA DisconnectStep == IInv /\ SinkDisconnected => IInv'
<1> SUFFICES ASSUME IInv, SinkDisconnected PROVE IInv'
  OBVIOUS
<1> USE DEF IInv
<1>1. sourcePort' = "cut"
  BY DEF SinkDisconnected, sourceVars
<1>2. TypeOK' /\ InOrder' /\ EndsAgree'
  BY DEF SinkDisconnected, TypeOK, InOrder, EndsAgree, sourceVars, readerVars
<1>3. WireInOrder'
  BY <1>1 DEF WireInOrder
<1>4. SuccessIsDelivered'
  BY DEF SinkDisconnected, TypeOK, EndsAgree, SuccessIsDelivered, sourceVars,
         readerVars
<1> QED BY <1>2, <1>3, <1>4

\* The source takes an item from the wire.
LEMMA ReceiveStep == IInv /\ SourceReceives => IInv'
<1> SUFFICES ASSUME IInv, SourceReceives PROVE IInv'
  OBVIOUS
<1> USE DEF IInv
<1>2. /\ wire' \in Seq(Item) /\ wire[1] \in Item /\ Head(wire) = wire[1]
      /\ Len(wire) \in Nat /\ Len(wire') = Len(wire) - 1
      /\ \A i \in 1 .. Len(wire') : wire'[i] = wire[i + 1]
  BY HeadAndTail DEF SourceReceives, TypeOK
<1>1. /\ sourcePort = "open" /\ source = "readable" /\ outcome = "open"
      /\ Placed(wire[1], Delivered + 1)
      /\ UNCHANGED sinkVars
  BY <1>2 DEF SourceReceives, TypeOK, WireInOrder, EndsAgree
<1>3. CASE SourceValue
  <2>1. /\ wire[1].type = "value" /\ wire[1].chunk \in Chunks
        /\ wire[1].chunk = Delivered + 1 /\ Delivered + 1 <= written
    BY <1>1, <1>2, <1>3 DEF SourceValue, Item, Placed, END, ABORT, Disc
  <2>2. /\ queue' = Append(queue, Delivered + 1)
        /\ UNCHANGED <<sourceVars, read, outcome>>
    BY <1>2, <1>3, <2>1 DEF SourceValue
  <2>3. /\ queue' \in Seq(Chunks) /\ Len(queue') = Len(queue) + 1
        /\ Delivered \in Nat /\ Delivered' = Delivered + 1
        /\ \A i \in 1 .. Len(queue) : queue'[i] = queue[i]
        /\ queue'[Len(queue) + 1] = Delivered + 1
    BY <2>1, <2>2 DEF TypeOK
  <2>4. TypeOK'
    BY <1>1, <1>2, <2>2, <2>3 DEF TypeOK, sinkVars, sourceVars
  <2>5. InOrder'
    BY <1>1, <2>1, <2>2, <2>3 DEF TypeOK, InOrder, sinkVars
  <2>6. WireInOrder'
    <3> HIDE DEF Delivered
    <3>1. ASSUME NEW i \in 1 .. Len(wire')
          PROVE  Placed(wire[i], Delivered + i)'
      <4>1. /\ i + 1 \in 1 .. Len(wire) /\ wire'[i] = wire[i + 1]
            /\ Delivered' + i = Delivered + (i + 1)
        BY <1>2, <2>3
      <4>2. Placed(wire[i + 1], Delivered + (i + 1))
        BY <1>1, <4>1 DEF WireInOrder
      <4> QED BY <1>1, <4>1, <4>2 DEF Placed, sinkVars
    <3>2. Delivered + Len(wire) = Delivered' + Len(wire')
      BY <1>2, <2>3
    <3> QED BY <1>1, <3>1, <3>2 DEF WireInOrder, sinkVars
  <2>7. EndsAgree' /\ SuccessIsDelivered'
    BY <1>1, <2>2 DEF EndsAgree, SuccessIsDelivered, sinkVars, sourceVars
  <2> QED BY <2>4, <2>5, <2>6, <2>7
<1>4. CASE SourceEnd
  <2>1. /\ sourcePort' = "cut" /\ source' = "closed" /\ UNCHANGED readerVars
        /\ wire[1].type = "end"
    BY <1>2, <1>4 DEF SourceEnd
  <2>2. finished = "ended" /\ Delivered = written
    BY <1>1, <2>1 DEF Placed, TypeOK
  <2>3. TypeOK' /\ InOrder'
    BY <1>1, <1>2, <2>1 DEF TypeOK, InOrder, sinkVars, readerVars
  <2>4. WireInOrder'
    BY <2>1 DEF WireInOrder
  <2>5. EndsAgree' /\ SuccessIsDelivered'
    BY <1>1, <2>1, <2>2 DEF EndsAgree, SuccessIsDelivered, sinkVars, readerVars
  <2> QED BY <2>3, <2>4, <2>5
<1>5. CASE SourceError
  <2>1. /\ sourcePort' \in {"cut", "gone"} /\ source' = "errored"
        /\ queue' = <<>> /\ UNCHANGED <<read, outcome>>
        /\ sourcePort' = "cut" => wire[1].type = "abort"
    BY <1>2, <1>5 DEF SourceError
  <2>2. sourcePort' = "cut" => finished = "failed"
    BY <1>1, <2>1 DEF Placed
  <2>3. TypeOK'
    BY <1>1, <1>2, <2>1 DEF TypeOK, sinkVars
  <2>4. InOrder' /\ WireInOrder'
    BY <1>1, <2>1 DEF TypeOK, InOrder, WireInOrder, sinkVars
  <2>5. EndsAgree' /\ SuccessIsDelivered'
    BY <1>1, <2>1, <2>2 DEF EndsAgree, SuccessIsDelivered, sinkVars
  <2> QED BY <2>3, <2>4, <2>5
<1> QED BY <1>3, <1>4, <1>5 DEF SourceReceives

\* The reader takes a chunk from the queue.
LEMMA ReadStep == IInv /\ Read => IInv'
<1> SUFFICES ASSUME IInv, Read PROVE IInv'
  OBVIOUS
<1> USE DEF IInv
<1>1. /\ queue # <<>> /\ queue' = Tail(queue) /\ queue \in Seq(Chunks)
      /\ UNCHANGED <<sinkVars, wire, sourceVars, outcome>>
  BY DEF Read, TypeOK
<1>2. /\ queue' \in Seq(Chunks) /\ Len(queue) \in Nat
      /\ Len(queue') = Len(queue) - 1
      /\ \A i \in 1 .. Len(queue') : queue'[i] = queue[i + 1]
      /\ queue[1] \in Chunks /\ read' = Append(read, queue[1])
  BY <1>1, HeadAndTail DEF Read
<1>3. /\ read' \in Seq(Chunks) /\ Len(read) \in Nat
      /\ Len(read') = Len(read) + 1
      /\ \A i \in 1 .. Len(read) : read'[i] = read[i]
      /\ read'[Len(read) + 1] = queue[1]
  BY <1>2 DEF TypeOK
<1>4. Delivered' = Delivered /\ Delivered \in Nat
  BY <1>2, <1>3
<1>5. TypeOK'
  BY <1>1, <1>2, <1>3 DEF TypeOK, sinkVars, sourceVars
<1>6. InOrder'
  BY <1>1, <1>2, <1>3, <1>4 DEF InOrder, sinkVars
<1>7. WireInOrder'
  BY <1>1, <1>4 DEF WireInOrder, Placed, sinkVars, sourceVars
<1>8. EndsAgree' /\ SuccessIsDelivered'
  BY <1>1, <1>4 DEF Read, EndsAgree, SuccessIsDelivered, sinkVars, sourceVars
<1> QED BY <1>5, <1>6, <1>7, <1>8

\* The reader learns how it ended, or leaves.
LEMMA LeaveStep == IInv /\ (ReadEnd \/ Cancel) => IInv'
<1> SUFFICES ASSUME IInv, ReadEnd \/ Cancel PROVE IInv'
  OBVIOUS
<1> USE DEF IInv
<1>1. CASE ReadEnd
  <2>1. TypeOK' /\ InOrder' /\ EndsAgree' /\ SuccessIsDelivered'
    BY <1>1 DEF ReadEnd, TypeOK, InOrder, EndsAgree, SuccessIsDelivered,
                sinkVars, sourceVars
  <2>2. WireInOrder'
    BY <1>1 DEF ReadEnd, WireInOrder, Placed, sinkVars, sourceVars
  <2> QED BY <2>1, <2>2
<1>2. CASE Cancel
  <2>1. /\ outcome' = "canceled" /\ queue' = <<>>
        /\ sourcePort' # "open" /\ source' # "readable"
    BY <1>2 DEF Cancel, EndsAgree
  <2>2. TypeOK' /\ InOrder' /\ WireInOrder'
    BY <1>2, <2>1 DEF Cancel, TypeOK, InOrder, WireInOrder, sinkVars
  <2>3. EndsAgree' /\ SuccessIsDelivered'
    BY <1>2, <2>1 DEF Cancel, EndsAgree, SuccessIsDelivered, sinkVars
  <2> QED BY <2>2, <2>3
<1> QED BY <1>1, <1>2
-----------------------------------------------------------------------------
\* The inductive invariant holds of every reachable state.
THEOREM InvariantHolds == Spec => []IInv
<1>1. IInv /\ [Next]_vars => IInv'
  <2> SUFFICES ASSUME IInv, [Next]_vars PROVE IInv'
    OBVIOUS
  <2>1. CASE Next
    BY <2>1, WriteStep, FinalStep, CutStep, DisconnectStep, ReceiveStep,
       ReadStep, LeaveStep DEF Next
  <2>2. CASE UNCHANGED vars
    BY <2>2 DEF IInv, TypeOK, InOrder, WireInOrder, Placed, EndsAgree,
                SuccessIsDelivered, vars, sinkVars, sourceVars, readerVars
  <2> QED BY <2>1, <2>2
<1> QED BY InitIInv, <1>1, PTL DEF Spec

\* Every reachable state of a stream is well typed.
THEOREM TypeCorrect == Spec => []TypeOK
<1>1. IInv => TypeOK
  BY DEF IInv
<1> QED BY InvariantHolds, <1>1, PTL

\* A sink never reports success of a response whose reader still waits for a
\* chunk of it, however long the response is.
THEOREM SuccessMeansDelivery == Spec => []SuccessIsDelivered
<1>1. IInv => SuccessIsDelivered
  BY DEF IInv
<1> QED BY InvariantHolds, <1>1, PTL

\* A stream over a sub-channel implements the safety part of its contract:
\* each step is a step of the contract or does not concern it.
THEOREM ImplementsContract == Spec => Contract!Safety
<1>1. Init => Contract!Init
  BY DEF Init, Contract!Init
<1>2. IInv /\ [Next]_vars => [Contract!Next]_Contract!vars
  <2> SUFFICES ASSUME IInv, [Next]_vars
               PROVE  Contract!Next \/ UNCHANGED Contract!vars
    OBVIOUS
  <2> USE DEF IInv, Contract!vars, Contract!Next
  <2>1. CASE Write
    BY <2>1 DEF Write, EndsAgree, Contract!Send, readerVars
  <2>2. CASE Close \/ Abort
    BY <2>2 DEF Close, Abort, Final, EndsAgree, Contract!Finish, readerVars
  <2>3. CASE SinkDisconnected \/ SinkTimeout \/ PortKilled \/ WorkerKilled
    BY <2>3 DEF SinkDisconnected, SinkTimeout, PortKilled, WorkerKilled,
                readerVars
  <2>4. CASE SourceReceives
    BY <2>4 DEF SourceReceives, SourceValue, SourceEnd, SourceError, sinkVars,
                readerVars
  <2>5. CASE Read
    <3>1. Len(read) < written /\ Head(queue) = Len(read) + 1
      BY <2>5, HeadAndTail DEF Read, TypeOK, InOrder
    <3> QED BY <2>5, <3>1 DEF Read, Contract!Deliver, sinkVars
  <2>6. CASE ReadEnd
    <3>1. CASE source = "closed"
      <4>1. finished = "ended" /\ Len(read) = written
        BY <2>6, <3>1 DEF ReadEnd, TypeOK, EndsAgree
      <4> QED BY <2>6, <3>1, <4>1 DEF ReadEnd, Contract!End, sinkVars
    <3>2. CASE source = "errored"
      BY <2>6, <3>2 DEF ReadEnd, Contract!Fail, sinkVars
    <3> QED BY <2>6, <3>1, <3>2 DEF ReadEnd
  <2>7. CASE Cancel
    BY <2>7 DEF Cancel, Contract!Fail, sinkVars
  <2>8. CASE UNCHANGED vars
    BY <2>8 DEF vars, sinkVars, readerVars
  <2> QED BY <2>1, <2>2, <2>3, <2>4, <2>5, <2>6, <2>7, <2>8 DEF Next
<1> QED BY InvariantHolds, <1>1, <1>2, PTL DEF Spec, Contract!Safety
=============================================================================
