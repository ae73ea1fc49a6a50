------------------------------- MODULE Amounts -------------------------------
(* Amounts of base units in two halves, as protobufs carry them. *)
EXTENDS Integers

CONSTANT Base  \* what a half can hold: 2^64
ASSUME BaseAssumption == Base \in Nat \ {0}

Halves == 0 .. Base - 1
LoHi == [lo : Halves, hi : Halves]

SplitLoHi(n) == [lo |-> n % Base, hi |-> n \div Base]
JoinLoHi(b) == b.hi * Base + b.lo
=============================================================================
