--------------------------- MODULE TransactionForms ---------------------------
(***************************************************************************)
(* The forms of minifront-v2 that send, withdraw and deposit, and the      *)
(* balances they load again.  A send and a withdrawal are planned, built   *)
(* and broadcast by the wallet (planBuildBroadcast); a deposit is signed   *)
(* and broadcast by a wallet of another chain.                             *)
(*                                                                         *)
(* What a form holds is one amount, in base units, to be taken from an     *)
(* asset that stays selected.  A run is one call of sendTransaction(),     *)
(* executeWithdrawal() or initiateDeposit().                               *)
(* Awaited imports of modules are not steps of their own, except in        *)
(* initiateDeposit(), which reads the form and sets `isLoading` only after *)
(* one.  The reload of transactions behind that of balances is left out.   *)
(***************************************************************************)
EXTENDS Amounts

CONSTANTS
  Runs,      \* calls that may be made
  Values,    \* amounts that may be typed
  Shift,     \* what the send form multiplies a high half by: 10^32
  Double,    \* the JavaScript number that shows an amount, by its rank
  Precision, \* amounts below it have a number of their own: 10^15
  MaxLoads,  \* bound: loads of balances under way when another is asked for
  None       \* an empty form
ASSUME ValuesAssumption == Values \subseteq Nat /\ None \notin Nat
ASSUME ShiftAssumption == Shift \in Nat /\ Shift >= Base
ASSUME LoadsAssumption == MaxLoads \in Nat

\* What the forms compare.  A number is the one nearest to the decimal that
\* shows the amount: rounding keeps the order, and numbers tell decimals of up
\* to 15 digits apart.
Comparable == Values \cup Halves \cup {JoinLoHi(b) : b \in LoHi}
ASSUME DoubleAssumption ==
  /\ Precision \in Nat
  /\ Double \in [Comparable -> Nat]
  /\ \A m, n \in Comparable :
       /\ m <= n => Double[m] <= Double[n]
       /\ m < n /\ m < Precision => Double[m] < Double[n]

Planned == {"send", "withdraw"}
Forms == Planned \cup {"deposit"}
ASSUME NoneAssumption == None \notin Forms

VARIABLES
  balance,    \* of the selected asset, as the form knows it
  draft,      \* the amount each form holds
  isLoading,
  error,      \* each form shows an error
  form,       \* the form of each run
  stage,      \* how far each run has come
  request,    \* what each run was asked to do
  connected,  \* shieldd.connected
  loading,    \* of the balances store
  loads       \* calls of loadBalances() under way

formVars == <<draft, isLoading, error>>
runVars == <<form, stage, request>>
loadVars == <<loading, loads>>
vars == <<balance, formVars, runVars, connected, loadVars>>

Stages == {"idle", "importing", "planning", "building", "signing",
           "broadcasting", "over"}
UnderWay == {"planning", "building", "signing", "broadcasting"}

Init ==
  /\ balance \in LoHi
  /\ draft = [f \in Forms |-> None]
  /\ isLoading = [f \in Forms |-> FALSE]
  /\ error = [f \in Forms |-> FALSE]
  /\ form = [r \in Runs |-> None]
  /\ stage = [r \in Runs |-> "idle"]
  /\ request = [r \in Runs |-> None]
  /\ connected \in BOOLEAN
  /\ loading = FALSE /\ loads = 0

-----------------------------------------------------------------------------
(* The form. *)

\* The setters: any field may be edited at any time.
Edit(f) ==
  /\ \E d \in Values \cup {None} : draft' = [draft EXCEPT ![f] = d]
  /\ UNCHANGED <<isLoading, error, runVars, connected, loadVars>>

\* The send form's comparison of low halves only.
BugSendExceeds == SplitLoHi(draft["send"]).lo > balance.lo

\* isAmountMoreThanBalance() of the send form: it puts the halves together with
\* its shift.
SendExceeds ==
  LET amount == SplitLoHi(draft["send"])
  IN  amount.lo + amount.hi * Shift > balance.lo + balance.hi * Shift

\* That of the withdraw form, which knows the low half of the balance only and
\* compares parseFloat() of what was typed with toNumber() of that half.
WithdrawalExceeds == Double[draft["withdraw"]] > Double[balance.lo]

\* That of the deposit form: parseFloat() of what was typed, and of the
\* toNumber() of the balance that the form was given.
DepositExceeds == Double[draft["deposit"]] > Double[JoinLoHi(balance)]

\* What the validation of each form reports of its amount.
MoreThanBalance(f) ==
  \/ f = "send" /\ SendExceeds
  \/ f = "withdraw" /\ WithdrawalExceeds
  \/ f = "deposit" /\ DepositExceeds

\* canSend without its last conjunct.
BugCanSubmit(f) == draft[f] \notin {None, 0} /\ ~MoreThanBalance(f)

\* canSend, canWithdraw, canDeposit.
CanSubmit(f) ==
  draft[f] \notin {None, 0} /\ ~MoreThanBalance(f) /\ ~isLoading[f]

\* `isLoading` is set and the old error is gone.
Starts(f) ==
  /\ isLoading' = [isLoading EXCEPT ![f] = TRUE]
  /\ error' = [error EXCEPT ![f] = FALSE]

\* sendTransaction() and executeWithdrawal() up to the planner's answer.
Submit(r, f) ==
  /\ stage[r] = "idle" /\ CanSubmit(f)
  /\ Starts(f)
  /\ form' = [form EXCEPT ![r] = f]
  /\ stage' = [stage EXCEPT ![r] = "planning"]
  /\ request' = [request EXCEPT ![r] = draft[f]]
  /\ UNCHANGED <<draft, connected, loadVars>>

\* initiateDeposit() up to its first await.
SubmitDeposit(r) ==
  /\ stage[r] = "idle" /\ CanSubmit("deposit")
  /\ form' = [form EXCEPT ![r] = "deposit"]
  /\ stage' = [stage EXCEPT ![r] = "importing"]
  /\ UNCHANGED <<formVars, request, connected, loadVars>>

\* The deposit reads the form, which may have changed since.
DepositStarts(r) ==
  /\ stage[r] = "importing"
  /\ Starts("deposit")
  /\ stage' = [stage EXCEPT ![r] = "signing"]
  /\ request' = [request EXCEPT ![r] = draft["deposit"]]
  /\ UNCHANGED <<draft, form, connected, loadVars>>

-----------------------------------------------------------------------------
(* The course of a transaction. *)

StageAfter(s) ==
  CASE s = "planning" -> "building"
    [] s \in {"building", "signing"} -> "broadcasting"

\* A plan, a built transaction, a signature.  An incomplete deposit has none.
Proceeds(r) ==
  /\ stage[r] \in UnderWay \ {"broadcasting"}
  /\ request[r] # None
  /\ stage' = [stage EXCEPT ![r] = StageAfter(stage[r])]
  /\ UNCHANGED <<formVars, form, request, connected, loadVars>>

\* loadBalances() up to its first await.
LoadBalances ==
  IF connected THEN loading' = TRUE /\ loads' = loads + 1
  ELSE UNCHANGED loadVars

\* The run is over and the form may be submitted again.
Settles(r) ==
  /\ stage' = [stage EXCEPT ![r] = "over"]
  /\ isLoading' = [isLoading EXCEPT ![form[r]] = FALSE]
  /\ form' = [form EXCEPT ![r] = None]
  /\ request' = [request EXCEPT ![r] = None]
  /\ UNCHANGED connected

\* The form is emptied, whatever it holds by now, and balances are loaded.
Succeeds(r) ==
  /\ Settles(r)
  /\ draft' = [draft EXCEPT ![form[r]] = None]
  /\ LoadBalances
  /\ UNCHANGED error

\* The transaction is detected, or the deposit included.
Confirmed(r) == stage[r] = "broadcasting" /\ Succeeds(r)

\* The user denies, or is not logged in.  planBuildBroadcast() then returns as
\* it does after a success; a deposit ends without an error.
Denied(r) ==
  /\ stage[r] \in UnderWay
  /\ IF form[r] \in Planned THEN Succeeds(r)
     ELSE Settles(r) /\ UNCHANGED <<draft, error, loadVars>>

\* A failure after which `isLoading` stays set.
BugFails(r) ==
  /\ stage[r] \in UnderWay
  /\ stage' = [stage EXCEPT ![r] = "over"]
  /\ form' = [form EXCEPT ![r] = None]
  /\ request' = [request EXCEPT ![r] = None]
  /\ error' = [error EXCEPT ![form[r]] = TRUE]
  /\ UNCHANGED <<draft, isLoading, connected, loadVars>>

\* Any other failure, a deadline among them.
Fails(r) ==
  /\ stage[r] \in UnderWay
  /\ Settles(r)
  /\ error' = [error EXCEPT ![form[r]] = TRUE]
  /\ UNCHANGED <<draft, loadVars>>

Answered(r) == Proceeds(r) \/ Confirmed(r) \/ Denied(r) \/ Fails(r)

-----------------------------------------------------------------------------
(* Balances, and the provider. *)

\* The pages that ask for balances.
AskForBalances ==
  /\ connected /\ loads < MaxLoads
  /\ LoadBalances
  /\ UNCHANGED <<formVars, runVars, connected>>

BalancesLoaded ==
  /\ loads > 0 /\ loads' = loads - 1
  /\ loading' = FALSE
  /\ UNCHANGED <<formVars, runVars, connected>>

\* dispose() of the balances store; the forms' own does nothing.
Dispose ==
  /\ loading' = FALSE
  /\ UNCHANGED <<formVars, runVars, connected, loads>>

\* The provider is lost, or is back, and then the store loads.
ConnectionChanges ==
  /\ connected' = ~connected
  /\ IF connected THEN UNCHANGED loadVars
     ELSE loads < MaxLoads /\ loading' = TRUE /\ loads' = loads + 1
  /\ UNCHANGED <<formVars, runVars>>

-----------------------------------------------------------------------------
Next ==
  /\ \/ \E f \in Forms : Edit(f)
     \/ \E r \in Runs, f \in Planned : Submit(r, f)
     \/ \E r \in Runs : SubmitDeposit(r) \/ DepositStarts(r) \/ Answered(r)
     \/ AskForBalances \/ BalancesLoaded \/ Dispose \/ ConnectionChanges
  /\ UNCHANGED balance

\* Each call to the wallet, and each answer of a stream of its, has a deadline
\* in the transport.  The wallet that signs a deposit has none.
Fairness ==
  \A r \in Runs :
    WF_vars(form[r] \in Planned /\ Answered(r) /\ UNCHANGED balance)

Spec == Init /\ [][Next]_vars /\ Fairness

-----------------------------------------------------------------------------
(* Properties. *)

\* The types of forms and runs, and of what is not theirs.
FormsTyped ==
  /\ balance \in LoHi
  /\ draft \in [Forms -> Values \cup {None}]
  /\ isLoading \in [Forms -> BOOLEAN] /\ error \in [Forms -> BOOLEAN]
  /\ form \in [Runs -> Forms \cup {None}]
  /\ stage \in [Runs -> Stages]
  /\ request \in [Runs -> Values \cup {None}]
LoadsTyped == connected \in BOOLEAN /\ loading \in BOOLEAN /\ loads \in Nat

\* The type of the state.
TypeOK == FormsTyped /\ LoadsTyped

Busy(f) == {r \in Runs : form[r] = f /\ stage[r] \in UnderWay}

\* A form says that it is loading only while a transaction of its is under
\* way; and a send or a withdrawal never overlaps another of the same form,
\* which the user would have to pay twice, nor is under way unseen.
OneInFlight ==
  /\ \A f \in Forms : isLoading[f] => Busy(f) # {}
  /\ \A f \in Planned : Busy(f) # {} => isLoading[f]
  /\ \A f \in Planned : \A r, q \in Busy(f) : r = q

\* Amount n is not b, and the numbers that show them are the same.
Hidden(n, b) == b >= Precision /\ n > b /\ Double[n] = Double[b]

\* What the balance covers: of a send the amount itself, of a withdrawal the
\* amount up to what rounding hides.
CoveredBy(f, n) ==
  /\ f = "send" => n <= JoinLoHi(balance)
  /\ f = "withdraw" => n <= balance.lo \/ Hidden(n, balance.lo)

\* What the wallet is asked to send is covered by the balance the form knew,
\* although the form does not put the two halves of an amount together as they
\* belong.  What it is asked to withdraw is covered by the low half, if that
\* is below 10^15; above, the amount may be more by what rounding hides: with
\* lo = 10^18, of an asset of 18 decimals, "1.000000000000000001" is let pass
\* and asks for 10^18 + 1.  (A deposit reads its amount after its check.)
Covered ==
  \A r \in Runs : form[r] \in Planned => CoveredBy(form[r], request[r])

\* A send or a withdrawal that was submitted lets go of its form, however the
\* wallet answers: with a denial, an error, or nothing before a deadline.
SubmitSettles == \A f \in Planned : isLoading[f] ~> ~isLoading[f]

\* What the proof needs besides: the runs of the forms take their own stages.
StagesAgree ==
  \A r \in Runs :
    /\ stage[r] \in {"idle", "over"} <=> form[r] = None
    /\ stage[r] = "importing" => form[r] = "deposit"
    /\ form[r] \in Planned => request[r] # None

IInv == TypeOK /\ StagesAgree /\ OneInFlight /\ Covered
=============================================================================
