----------------------------- MODULE PortStream -----------------------------
(***************************************************************************)
(* A response stream over its sub-channel: PortStreamSink, that the        *)
(* session pipes the response into, and PortStreamSource, that the client  *)
(* reads it from (packages/transport-chrome/src/stream).                   *)
(*                                                                         *)
(* The sub-channel is a port of the Chrome runtime: first-in first-out,    *)
(* the disconnect of one end reaches the other end behind what was posted  *)
(* before it, and the end that disconnects hears nothing more.  The stream *)
(* objects follow the Streams standard: close() lets the reader have what  *)
(* is queued, error() does not, and pipeTo closes the sink when the        *)
(* response ends and aborts it when the response fails or is canceled.     *)
(***************************************************************************)
EXTENDS Naturals, Sequences

CONSTANT MaxChunks   \* bound: chunks in a response
ASSUME ChunksAssumption == MaxChunks \in Nat

VARIABLES
  written,     \* chunks written to the sink
  finished,    \* the response: "running", "ended" or "failed"
  sink,        \* the sink: "closing" and "aborting" await a disconnect
  sinkPort,    \* its port: "cut" from here, "gone" from the other end
  wire,        \* what is on its way to the source
  source,      \* the source
  sourcePort,  \* its port
  queue,       \* chunks enqueued and not read
  read,        \* chunks read
  outcome      \* what the reader knows of the response

sinkVars   == <<written, finished, sink, sinkPort>>
sourceVars == <<source, sourcePort>>
readerVars == <<queue, read, outcome>>
vars == <<sinkVars, wire, sourceVars, readerVars>>

Chunks == 1 .. MaxChunks
Value(n) == [type |-> "value", chunk |-> n]
END   == [type |-> "end"]
ABORT == [type |-> "abort"]
Disc  == [type |-> "disconnect"]

Init ==
  /\ written = 0
  /\ finished = "running"
  /\ sink = "writable"
  /\ sinkPort = "open"
  /\ wire = <<>>
  /\ source = "readable"
  /\ sourcePort = "open"
  /\ queue = <<>>
  /\ read = <<>>
  /\ outcome = "open"

\* What the sink's end posts reaches a source that is still there.
Send(m) == wire' = IF sourcePort = "open" THEN Append(wire, m) ELSE wire

\* outgoing.disconnect(): a second call changes nothing.
CutSink == IF sinkPort = "open" THEN sinkPort' = "cut" /\ Send(Disc)
                                ELSE UNCHANGED <<sinkPort, wire>>
-----------------------------------------------------------------------------
(***************************************************************************)
(* The sink.                                                               *)
(***************************************************************************)

\* write(): on a port cut from this side postMessage throws, and the stream
\* is in error.
Write ==
  /\ sink = "writable"
  /\ written < MaxChunks
  /\ \/ /\ sinkPort = "open"
        /\ written' = written + 1
        /\ Send(Value(written + 1))
        /\ UNCHANGED sink
     \/ /\ sinkPort = "cut"
        /\ sink' = "failed"
        /\ UNCHANGED <<written, wire>>
  /\ UNCHANGED <<finished, sinkPort, sourceVars, readerVars>>

\* close() and abort(): postFinal makes a disconnect the success of the sink,
\* and posts END or ABORT; that it cannot be posted is suppressed.
Final(f, s, m) ==
  /\ sink = "writable"
  /\ finished' = f
  /\ sink' = s
  /\ IF sinkPort = "open" THEN Send(m) ELSE UNCHANGED wire
  /\ UNCHANGED <<written, sinkPort, sourceVars, readerVars>>

Close == Final("ended", "closing", END)
Abort == Final("failed", "aborting", ABORT)

\* Any disconnect is taken for the success of the sink.
BugEarlySuccess ==
  /\ sinkPort = "open"
  /\ sourcePort = "cut"
  /\ sinkPort' = "gone"
  /\ sink' = "closed"
  /\ UNCHANGED <<written, finished, wire, sourceVars, readerVars>>

\* The other end disconnects: what postFinal expects, and an error before.
SinkDisconnected ==
  /\ sinkPort = "open"
  /\ sourcePort = "cut"
  /\ sinkPort' = "gone"
  /\ \/ sink = "closing"  /\ sink' = "closed"
     \/ sink = "aborting" /\ sink' = "aborted"
     \/ sink = "writable" /\ sink' = "failed"
  /\ UNCHANGED <<written, finished, wire, sourceVars, readerVars>>

\* Nothing is expected of a port that cannot be posted to.
BugTimerNeedsPort ==
  /\ sink \in {"closing", "aborting"}
  /\ sinkPort = "open"
  /\ sink' = "failed"
  /\ CutSink
  /\ UNCHANGED <<written, finished, sourceVars, readerVars>>

\* shouldDisconnect runs out of time: disconnect from this side, and fail.
SinkTimeout ==
  /\ sink \in {"closing", "aborting"}
  /\ sink' = "failed"
  /\ CutSink
  /\ UNCHANGED <<written, finished, sourceVars, readerVars>>

\* The session manager cuts the port, without a word to the sink.
PortKilled ==
  /\ sinkPort = "open"
  /\ CutSink
  /\ UNCHANGED <<written, finished, sink, sourceVars, readerVars>>

\* The worker is killed, and the sink with it.
WorkerKilled ==
  /\ sink \in {"writable", "closing", "aborting"}
  /\ sink' = "failed"
  /\ CutSink
  /\ UNCHANGED <<written, finished, sourceVars, readerVars>>
-----------------------------------------------------------------------------
(***************************************************************************)
(* The source and its reader.                                              *)
(***************************************************************************)

\* onMessage, for a chunk.
SourceValue ==
  /\ Head(wire).type = "value"
  /\ queue' = Append(queue, Head(wire).chunk)
  /\ UNCHANGED <<sourceVars, read, outcome>>

\* The end drops what is queued, as an error does.
BugEndDropsQueue ==
  /\ Head(wire).type = "end"
  /\ sourcePort' = "cut"
  /\ source' = "closed"
  /\ queue' = <<>>
  /\ UNCHANGED <<read, outcome>>

\* onMessage, for END: disconnect and close; the queue can still be read.
SourceEnd ==
  /\ Head(wire).type = "end"
  /\ sourcePort' = "cut"
  /\ source' = "closed"
  /\ UNCHANGED readerVars

\* The source does not listen for the disconnect.
BugDeafSource ==
  /\ Head(wire).type = "abort"
  /\ sourcePort' = "cut"
  /\ source' = "errored"
  /\ queue' = <<>>
  /\ UNCHANGED <<read, outcome>>

\* onMessage, for ABORT, and onDisconnect: the error drops the queue.
SourceError ==
  /\ Head(wire).type \in {"abort", "disconnect"}
  /\ sourcePort' = IF Head(wire).type = "abort" THEN "cut" ELSE "gone"
  /\ source' = "errored"
  /\ queue' = <<>>
  /\ UNCHANGED <<read, outcome>>

SourceReceives ==
  /\ sourcePort = "open"
  /\ wire # <<>>
  /\ wire' = Tail(wire)
  /\ SourceValue \/ SourceEnd \/ SourceError
  /\ UNCHANGED sinkVars

\* The reader takes a chunk.
Read ==
  /\ outcome = "open"
  /\ queue # <<>>
  /\ read' = Append(read, Head(queue))
  /\ queue' = Tail(queue)
  /\ UNCHANGED <<sinkVars, wire, sourceVars, outcome>>

\* The reader is handed the state of the source.
BugReadState ==
  /\ outcome = "open"
  /\ queue = <<>>
  /\ source \in {"closed", "errored"}
  /\ outcome' = source
  /\ UNCHANGED <<sinkVars, wire, sourceVars, queue, read>>

\* The reader is told of the end, or of an error.
ReadEnd ==
  /\ outcome = "open"
  /\ queue = <<>>
  /\ \/ source = "closed" /\ outcome' = "ended"
     \/ source = "errored" /\ outcome' = "failed"
  /\ UNCHANGED <<sinkVars, wire, sourceVars, queue, read>>

\* The reader cancels, or its document goes away.
Cancel ==
  /\ outcome = "open"
  /\ source # "errored"
  /\ outcome' = "canceled"
  /\ queue' = <<>>
  /\ source' = IF source = "readable" THEN "canceled" ELSE source
  /\ sourcePort' = IF sourcePort = "open" THEN "cut" ELSE sourcePort
  /\ UNCHANGED <<sinkVars, wire, read>>
-----------------------------------------------------------------------------
Next ==
  \/ Write \/ Close \/ Abort \/ SinkDisconnected \/ SinkTimeout
  \/ PortKilled \/ WorkerKilled
  \/ SourceReceives \/ Read \/ ReadEnd \/ Cancel

(***************************************************************************)
(* Ports deliver, the timer of shouldDisconnect expires, and the reader    *)
(* goes on reading.  Nothing obliges a response to end.                    *)
(***************************************************************************)
Fairness ==
  /\ WF_vars(SinkDisconnected)
  /\ WF_vars(SinkTimeout)
  /\ WF_vars(SourceReceives)
  /\ WF_vars(Read \/ ReadEnd)

Spec == Init /\ [][Next]_vars /\ Fairness
-----------------------------------------------------------------------------
\* The chunks that have arrived and not been dropped.
Delivered == Len(read) + Len(queue)

Item == [type : {"value"}, chunk : Chunks] \cup {END, ABORT, Disc}

TypeOK ==
  /\ written \in 0 .. MaxChunks
  /\ finished \in {"running", "ended", "failed"}
  /\ sink \in {"writable", "closing", "aborting", "closed", "aborted", "failed"}
  /\ sinkPort \in {"open", "cut", "gone"}
  /\ wire \in Seq(Item)
  /\ source \in {"readable", "closed", "errored", "canceled"}
  /\ sourcePort \in {"open", "cut", "gone"}
  /\ queue \in Seq(Chunks)
  /\ read \in Seq(Chunks)
  /\ outcome \in {"open", "ended", "failed", "canceled"}

\* A sink that reports success has been heard: the source had END and with it
\* every chunk, or its reader had left.  That the port closed is all postFinal
\* sees.
SuccessIsDelivered ==
  sink = "closed" => /\ finished = "ended"
                     /\ \/ outcome = "canceled"
                        \/ source = "closed" /\ Delivered = written

\* Nothing is lost, repeated or swapped on the way: what is read, queued and on
\* the wire is numbered through, and END stands behind the last chunk.
Placed(m, n) ==
  /\ m.type = "value" => m.chunk = n /\ n <= written
  /\ m.type = "end" => finished = "ended" /\ n = written + 1
  /\ m.type = "abort" => finished = "failed"

InOrder ==
  /\ Delivered <= written
  /\ \A i \in 1 .. Len(read) : read[i] = i
  /\ \A i \in 1 .. Len(queue) : queue[i] = Len(read) + i

WireInOrder ==
  sourcePort = "open" =>
    /\ \A i \in 1 .. Len(wire) : Placed(wire[i], Delivered + i)
    /\ sinkPort = "open" /\ sink = "writable" =>
         Delivered + Len(wire) = written

\* How the two ends and their ports follow each other.
EndsAgree ==
  /\ sink = "writable" => finished = "running"
  /\ sink \in {"closing", "closed"} => finished = "ended"
  /\ source = "readable" <=> sourcePort = "open"
  /\ source = "closed" => /\ finished = "ended"
                          /\ outcome = "canceled" \/ Delivered = written
  /\ sourcePort = "cut" =>
       source = "closed" \/ outcome = "canceled" \/ finished = "failed"
  /\ queue # <<>> \/ source = "readable" => outcome = "open"

IInv == TypeOK /\ InOrder /\ WireInOrder /\ EndsAgree /\ SuccessIsDelivered

\* pipeTo() is not left hanging by an other end that never disconnects.
SinkSettles ==
  (sink \in {"closing", "aborting"})
    ~> (sink \in {"closed", "aborted", "failed"})

\* Whoever cuts the sub-channel, and however, the reader is told; it waits for
\* ever on a port that is left open only.
ReaderLearns == (sinkPort # "open") ~> (outcome # "open")

\* A stream over a sub-channel is a stream.
Contract == INSTANCE StreamContract WITH sent <- written, received <- read

Implements == Contract!Spec
=============================================================================
