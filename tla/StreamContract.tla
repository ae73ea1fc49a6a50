--------------------------- MODULE StreamContract ---------------------------
(***************************************************************************)
(* What a response stream promises its reader, whatever carries it: the    *)
(* chunks come once each and in order, the end is told only after the last *)
(* chunk of a response that has ended, and a response that is over is not  *)
(* left open (docs/streams.md of packages/transport-chrome).               *)
(*                                                                         *)
(* A chunk is its position in the response, so that `received` can say     *)
(* what was lost, repeated or swapped.                                     *)
(***************************************************************************)
EXTENDS Naturals, Sequences

CONSTANT MaxChunks   \* bound: chunks in a response, a natural number

VARIABLES
  sent,       \* chunks the producer has written
  finished,   \* "ended" or "failed" once the response is over
  received,   \* chunks the reader has read
  outcome     \* what the reader knows of the response

vars == <<sent, finished, received, outcome>>

Init ==
  /\ sent = 0
  /\ finished = "running"
  /\ received = <<>>
  /\ outcome = "open"

Send ==
  /\ finished = "running"
  /\ sent < MaxChunks
  /\ sent' = sent + 1
  /\ UNCHANGED <<finished, received, outcome>>

Finish ==
  /\ finished = "running"
  /\ finished' \in {"ended", "failed"}
  /\ UNCHANGED <<sent, received, outcome>>

Deliver ==
  /\ outcome = "open"
  /\ Len(received) < sent
  /\ received' = Append(received, Len(received) + 1)
  /\ UNCHANGED <<sent, finished, outcome>>

End ==
  /\ outcome = "open"
  /\ finished = "ended"
  /\ Len(received) = sent
  /\ outcome' = "ended"
  /\ UNCHANGED <<sent, finished, received>>

\* The reader is told of a failure, or leaves.
Fail ==
  /\ outcome = "open"
  /\ outcome' \in {"failed", "canceled"}
  /\ UNCHANGED <<sent, finished, received>>

Next == Send \/ Finish \/ Deliver \/ End \/ Fail

Safety == Init /\ [][Next]_vars
Spec == Safety /\ WF_vars(finished # "running" /\ (Deliver \/ End \/ Fail))
=============================================================================
