------------------------------ MODULE TxPlanner ------------------------------
(***************************************************************************)
(* The planner of packages/wasm: plan_transaction() chooses the notes that *)
(* pay for the actions of a request, has the compliance server's proofs    *)
(* put in, and witness() proves the chosen notes against the stored tree.  *)
(*                                                                         *)
(* Every read of the storage is awaited, and the view server's processor   *)
(* saves, fails and restarts in between.  Amounts are small numbers, an    *)
(* address is left out (the planner's notes are those of one account), and *)
(* so are memo, fees and proofs.                                           *)
(***************************************************************************)
EXTENDS ViewServer, Sequences, FiniteSetsExt

CONSTANTS
  Amount,    \* of each note
  Asset,     \* of each note
  Requests,  \* planner requests: sequences of actions, outputs first
  Limit      \* spends an action of each kind may have

ASSUME AmountAssumption == Amount \in [Notes -> Nat]
ASSUME RequestsAssumption ==
  \A r \in Requests : /\ r \in Seq({r[i] : i \in DOMAIN r})
                       /\ \A i \in DOMAIN r : r[i].amount \in Nat

Kinds == {"transfer", "ics20", "host"}

VARIABLES
  spent,    \* storage: notes with a height_spent
  phase,    \* how far the planner is
  request,
  floor,    \* recent_position_floor of the window it has read
  chosen,   \* the notes selected for each action
  offered,  \* history: the notes each selection could choose from
  nonce     \* tx_blinding_nonce of each action: whose own it is

planVars == <<phase, request, floor, chosen, offered, nonce>>

Total(S) == MapThenSumSet(LAMBDA n : Amount[n], S)

PlanInit ==
  /\ spent = {}
  /\ phase = "idle" /\ request = <<>> /\ floor = None
  /\ chosen = <<>> /\ offered = <<>> /\ nonce = <<>>
-----------------------------------------------------------------------------
\* What the planner supports: a host withdrawal stands alone.
Supported(r) ==
  /\ r # <<>>
  /\ (\E i \in DOMAIN r : r[i].kind = "host") => Len(r) = 1

Plan(r) ==
  /\ phase = "idle"
  /\ request' = r
  /\ phase' = "window"
  /\ UNCHANGED <<spent, floor, chosen, offered, nonce>>

\* The window is read once, before any note, and goes into the plan.
ReadWindow ==
  /\ phase = "window"
  /\ floor' = window
  /\ phase' = IF window # None /\ Supported(request) THEN "select"
              ELSE "rejected"
  /\ UNCHANGED <<spent, request, chosen, offered, nonce>>

\* get_notes(): unspent notes of the asset.
Unspent(a) == {n \in stored.notes \ spent : Asset[n] = a}

\* The window is not looked at.
BugEligible(a) == Unspent(a)

Eligible(a) == {n \in Unspent(a) : at[n] >= floor}

\* One note more than it takes.
BugSelections(E, required) ==
  {S \in SUBSET E :
     /\ S # {} /\ Total(S) >= required
     /\ \A n \in S, m \in E \ S : Amount[n] >= Amount[m]}

\* Notes are taken in descending order until they suffice.
Selections(E, required) ==
  {S \in SUBSET E :
     /\ S # {} /\ Total(S) >= required
     /\ \A n \in S, m \in E \ S : Amount[n] >= Amount[m]
     /\ \E n \in S : /\ \A m \in S : Amount[n] <= Amount[m]
                     /\ S = {n} \/ Total(S \ {n}) < required}

\* select_notes() of the next action, and the limit on its spends.
SelectNotes ==
  /\ phase = "select"
  /\ LET a == request[Len(chosen) + 1]
         E == Eligible(a.asset)
     IN  /\ offered' = Append(offered, E)
         /\ \/ /\ Selections(E, a.amount) = {}
               /\ phase' = "rejected"
               /\ UNCHANGED chosen
            \/ \E S \in Selections(E, a.amount) :
                 /\ chosen' = Append(chosen, S)
                 /\ phase' =
                      CASE Cardinality(S) > Limit[a.kind] -> "maintenance"
                        [] Len(chosen') < Len(request) -> "select"
                        [] OTHER -> "parameters"
  /\ UNCHANGED <<spent, request, floor, nonce>>

\* The parameters of the app and of discovery; each action starts with a nonce
\* of its own.
ReadParameters ==
  /\ phase = "parameters"
  /\ phase' = "transfers"
  /\ nonce' = [i \in DOMAIN request |-> i]
  /\ UNCHANGED <<spent, request, floor, chosen, offered>>

Transfers == {i \in DOMAIN request : request[i].kind = "transfer"}
Shared == IF Transfers # {} THEN Min(Transfers) ELSE 1

\* The proofs for the outputs and spends of transfers come in one answer; its
\* first spend's nonce becomes the transaction's.
EnrichTransfers ==
  /\ phase = "transfers"
  /\ nonce' = [i \in DOMAIN nonce |->
                 IF i \in Transfers THEN Shared ELSE nonce[i]]
  /\ phase' = "withdrawals"
  /\ UNCHANGED <<spent, request, floor, chosen, offered>>

\* The withdrawals agree among themselves only.
BugEnrichWithdrawals ==
  /\ phase = "withdrawals"
  /\ LET rest == DOMAIN nonce \ Transfers
     IN  nonce' = [i \in DOMAIN nonce |->
                     IF i \in rest THEN Min(rest) ELSE nonce[i]]
  /\ phase' = "planned"
  /\ UNCHANGED <<spent, request, floor, chosen, offered>>

\* Those for withdrawals in another.
EnrichWithdrawals ==
  /\ phase = "withdrawals"
  /\ nonce' = [i \in DOMAIN nonce |->
                 IF i \in Transfers THEN nonce[i] ELSE Shared]
  /\ phase' = "planned"
  /\ UNCHANGED <<spent, request, floor, chosen, offered>>

\* A read or a fetch fails, or what it should find is not there.
PlanFails ==
  /\ phase \in {"window", "select", "parameters", "transfers", "withdrawals"}
  /\ phase' = "rejected"
  /\ UNCHANGED <<spent, request, floor, chosen, offered, nonce>>

Spends == UNION {chosen[i] : i \in DOMAIN chosen}

\* witness() against the tree that is stored by then: every note is recent, and
\* in the tree.
Witnessed ==
  \A n \in Spends :
    /\ at[n] >= floor
    /\ n \in stored.kept /\ \E i \in 1..stored.size : stored.tree[i] = at[n]

\* The processor marks notes whose nullifier it has seen.
NoteSpent(n) ==
  /\ n \in stored.notes \ spent
  /\ spent' = spent \cup {n}
  /\ UNCHANGED planVars

PlannerNext ==
  \/ \E r \in Requests : Plan(r)
  \/ ReadWindow \/ SelectNotes \/ ReadParameters
  \/ EnrichTransfers \/ EnrichWithdrawals \/ PlanFails
  \/ \E n \in Notes : NoteSpent(n)
=============================================================================
