------------------------------- MODULE Wallet -------------------------------
(***************************************************************************)
(* The view server and the planner of packages/wasm over one storage.      *)
(***************************************************************************)
EXTENDS TxPlanner

vars == <<viewVars, spent, planVars>>

WalletInit == Init /\ PlanInit

ViewStep == ViewNext /\ UNCHANGED <<spent, planVars>>
PlannerStep == PlannerNext /\ UNCHANGED viewVars
WalletNext == ViewStep \/ PlannerStep

Spec == WalletInit /\ [][WalletNext]_vars
-----------------------------------------------------------------------------
ViewTypeOK ==
  /\ at \in [Notes -> Heights]
  /\ stored \in [tree : Tree, size : Size, kept : SUBSET Notes,
                 notes : SUBSET Notes, height : Heights \cup {None}]
  /\ window \in Heights \cup {None}
  /\ mem \in [tree : Tree, size : Size, kept : SUBSET Notes,
              notes : SUBSET Notes, height : Heights \cup {None},
              last : Size \cup {None}, advice : SUBSET Notes]
  /\ flushed \in {None} \cup Updates
  /\ fed \in 0..Chunks /\ doing \in {None, "persist", "scan"}
  /\ server \in BOOLEAN /\ broken \in BOOLEAN

PlanTypeOK ==
  /\ spent \in SUBSET Notes
  /\ phase \in {"idle", "window", "select", "parameters", "transfers",
                "withdrawals", "planned", "rejected", "maintenance"}
  /\ request \in Requests \cup {<<>>}
  /\ floor \in Heights \cup {None}
  /\ chosen \in Seq(SUBSET Notes) /\ offered \in Seq(SUBSET Notes)

\* The types of the storage, the server and the planner.
TypeOK == ViewTypeOK /\ PlanTypeOK

\* A plan can be witnessed whenever witness() is called: each note it spends is
\* as recent as the window in the plan demands, and in the stored tree, however
\* the view server has failed, been reset or gone on since it was selected.
PlanIsWitnessed == phase = "planned" => Witnessed

\* The notes chosen for an action pay for it, and no fewer of the notes that
\* could be chosen do; "requires note maintenance" therefore says the truth.
SelectionMinimal ==
  \A i \in DOMAIN chosen :
    /\ Total(chosen[i]) >= request[i].amount
    /\ \A S \in SUBSET offered[i] :
         (S # {} /\ Total(S) >= request[i].amount)
           => Cardinality(S) >= Cardinality(chosen[i])

\* The actions of a plan share one blinding nonce, although the proofs for
\* transfers and for withdrawals are fetched separately.
NonceShared ==
  phase = "planned" => \A i, j \in DOMAIN request : nonce[i] = nonce[j]
-----------------------------------------------------------------------------
\* The block the server in memory has reached.
Reached == IF mem.height = None THEN stored.height ELSE mem.height

\* The window is as new as those of the first k blocks.
WindowAt(k) == \A h \in Carries : h < k => window # None /\ window >= Floor(h)

\* Nothing is under way but what the processor has begun.
Orderly ==
  /\ ~server => doing = None /\ flushed = None /\ ~broken
  /\ doing # None =>
       /\ flushed = None /\ ~broken /\ NextBlock <= MaxHeight
       /\ NextBlock = 0 => fed = Chunks
  /\ server /\ NextBlock = 0 /\ fed > 0 =>
       mem.advice = {n \in Notes : at[n] = 0 /\ Part[n] <= fed}
  /\ server /\ mem.height = None => flushed = None /\ ~broken

StoredExact ==
  /\ stored.tree = Chain(stored.height) /\ stored.size = Blocks(stored.height)
  /\ stored.kept = Own(stored.height) /\ stored.notes = Own(stored.height)

MemoryExact ==
  server =>
    /\ Blocks(stored.height) <= Blocks(Reached)
    /\ mem.tree = Chain(Reached) /\ mem.size = Blocks(Reached)
    /\ mem.kept = Own(Reached)
    /\ ~broken => Own(Reached) = stored.notes \cup mem.notes
         \cup (IF flushed = None THEN {} ELSE flushed.notes)
    /\ ~broken /\ flushed = None => From <= stored.size

\* What is flushed connects to what is stored.
FlushedExact ==
  flushed # None =>
    /\ ~broken /\ mem.notes = {} /\ flushed.from <= stored.size
    /\ flushed.height = mem.height
    /\ flushed.tree = mem.tree /\ flushed.size = mem.size
    /\ flushed.kept = {n \in mem.kept : at[n] >= flushed.from}
    /\ mem.last \in {None, mem.size}

\* The window is ahead of storage, of memory and of the call under way.
WindowAhead ==
  /\ WindowAt(Blocks(stored.height))
  /\ server => WindowAt(Blocks(Reached))
  /\ doing = "scan" => WindowAt(NextBlock + 1)

ChosenStored ==
  /\ phase \in {"select", "parameters", "transfers", "withdrawals", "planned"}
       => floor \in Heights
  /\ phase \in {"idle", "window"} => chosen = <<>>
  /\ \A n \in Spends : n \in stored.notes /\ at[n] >= floor

IInv == /\ TypeOK /\ Orderly /\ StoredExact /\ MemoryExact /\ FlushedExact
        /\ WindowAhead /\ ChosenStored
=============================================================================
