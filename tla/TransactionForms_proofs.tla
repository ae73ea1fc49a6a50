----------------------- MODULE TransactionForms_proofs -----------------------
(***************************************************************************)
(* The invariants of TransactionForms, for any number of calls, any        *)
(* amounts and balances, any width of a half and any rounding that keeps   *)
(* the order of amounts: IInv is inductive.                                *)
(***************************************************************************)
EXTENDS TransactionForms, TLAPS

\* A number is put together again from its halves.
LEMMA SplitJoin ==
  ASSUME NEW n \in Nat
  PROVE  SplitLoHi(n).lo \in Halves /\ SplitLoHi(n).hi \in Nat
         /\ JoinLoHi(SplitLoHi(n)) = n
<1> DEFINE q == n \div Base  m == n % Base
<1>1. Base \in Nat /\ Base > 0
  BY BaseAssumption
<1>2. q \in Nat /\ m \in 0 .. Base - 1 /\ n = Base * q + m
  BY <1>1
<1>3. Base * q = q * Base
  BY <1>1, <1>2
<1> QED
  BY <1>1, <1>2, <1>3 DEF SplitLoHi, JoinLoHi, Halves

\* Multiplication keeps the order.
LEMMA TimesMonotone ==
  ASSUME NEW a \in Nat, NEW b \in Nat, NEW k \in Nat, a <= b
  PROVE  a * k <= b * k
OBVIOUS

\* With a shift that no low half reaches, what the send form compares are the
\* amounts: the order of pairs, high half first.
LEMMA ShiftKeepsOrder ==
  ASSUME NEW n \in Nat, NEW b \in LoHi,
         ~(SplitLoHi(n).lo + SplitLoHi(n).hi * Shift > b.lo + b.hi * Shift)
  PROVE  n <= JoinLoHi(b)
<1> DEFINE q == SplitLoHi(n).hi  m == SplitLoHi(n).lo
<1>1. /\ Base \in Nat /\ Shift \in Nat /\ Shift >= Base /\ Base > 0
      /\ b.lo \in Nat /\ b.hi \in Nat /\ b.lo < Base
      /\ m \in Nat /\ q \in Nat /\ m < Base /\ n = q * Base + m
  BY BaseAssumption, ShiftAssumption, SplitJoin DEF LoHi, Halves, JoinLoHi
<1>2. m + q * Shift <= b.lo + b.hi * Shift
  BY <1>1
<1> HIDE DEF q, m
<1>3. CASE q >= b.hi + 1
  <2> DEFINE c == b.hi + 1
  <2>0. c \in Nat /\ c <= q
    BY <1>1, <1>3
  <2>1. c * Shift <= q * Shift
    <3> HIDE DEF c
    <3> QED
      BY <1>1, <2>0, TimesMonotone
  <2>2. c * Shift = b.hi * Shift + Shift
    BY <1>1
  <2> DEFINE x == b.hi * Shift  y == q * Shift
  <2>3. x \in Nat /\ y \in Nat /\ x + Shift <= y /\ m + y <= b.lo + x
    BY <1>1, <1>2, <2>1, <2>2
  <2> HIDE DEF x, y, c
  <2> QED
    BY <1>1, <2>3
<1>4. CASE q = b.hi
  <2> DEFINE x == b.hi * Shift  y == b.hi * Base
  <2>1. x \in Nat /\ y \in Nat /\ m + x <= b.lo + x /\ n = y + m
    BY <1>1, <1>2, <1>4
  <2>2. JoinLoHi(b) = y + b.lo
    BY DEF JoinLoHi
  <2> HIDE DEF x, y
  <2> QED
    BY <1>1, <2>1, <2>2
<1>5. CASE q + 1 <= b.hi
  <2>1. (q + 1) * Base <= b.hi * Base
    BY <1>1, <1>5, TimesMonotone
  <2>2. (q + 1) * Base = q * Base + Base
    BY <1>1
  <2> DEFINE x == q * Base  y == b.hi * Base
  <2>3. x \in Nat /\ y \in Nat /\ x + Base <= y /\ n = x + m
    BY <1>1, <2>1, <2>2
  <2>4. JoinLoHi(b) = y + b.lo
    BY DEF JoinLoHi
  <2> HIDE DEF x, y
  <2> QED
    BY <1>1, <2>3, <2>4
<1>6. q >= b.hi + 1 \/ q = b.hi \/ q + 1 <= b.hi
  BY <1>1
<1> QED
  BY <1>3, <1>4, <1>5, <1>6

\* Where rounding keeps the order and tells small amounts apart, what passes
\* for no more is no more, or more by what rounding hides.
LEMMA RoundingHides ==
  ASSUME NEW n \in Comparable, NEW b \in Comparable, n \in Nat, b \in Nat,
         ~(Double[n] > Double[b])
  PROVE  n <= b \/ Hidden(n, b)
<1>1. Double[n] \in Nat /\ Double[b] \in Nat /\ Precision \in Nat
  BY DoubleAssumption
<1>2. CASE n > b
  <2>1. b < n /\ b <= n
    BY <1>2
  <2>2. Double[b] <= Double[n]
    BY <2>1, DoubleAssumption
  <2>3. b < Precision => Double[b] < Double[n]
    BY <2>1, DoubleAssumption
  <2> QED
    BY <1>1, <1>2, <2>2, <2>3 DEF Hidden
<1> QED
  BY <1>2

\* A form that may be submitted holds an amount that the balance covers.
LEMMA SubmitIsCovered ==
  ASSUME FormsTyped, NEW f \in Planned, CanSubmit(f)
  PROVE  draft[f] \in Nat /\ CoveredBy(f, draft[f])
<1>1. draft[f] \in Values /\ draft[f] \in Nat /\ balance \in LoHi
  BY ValuesAssumption DEF FormsTyped, CanSubmit, Forms
<1>2. CASE f = "send"
  BY <1>1, <1>2, ShiftKeepsOrder
     DEF CanSubmit, MoreThanBalance, SendExceeds, CoveredBy
<1>3. CASE f = "withdraw"
  <2>1. balance.lo \in Halves /\ balance.lo \in Nat
    BY <1>1, BaseAssumption DEF LoHi, Halves
  <2>2. draft[f] \in Comparable /\ balance.lo \in Comparable
    BY <1>1, <2>1 DEF Comparable
  <2>3. ~(Double[draft[f]] > Double[balance.lo])
    BY <1>3 DEF CanSubmit, MoreThanBalance, WithdrawalExceeds
  <2>4. draft[f] <= balance.lo \/ Hidden(draft[f], balance.lo)
    BY <1>1, <2>1, <2>2, <2>3, RoundingHides
  <2> QED
    BY <1>1, <1>3, <2>4 DEF CoveredBy
<1> QED
  BY <1>2, <1>3 DEF Planned

\* A step keeps the types of forms and runs.
LEMMA FormsTypeStep ==
  ASSUME IInv, [Next]_vars PROVE FormsTyped'
<1> USE ValuesAssumption
    DEF IInv, TypeOK, FormsTyped, Planned, Forms, Stages, UnderWay, formVars,
        runVars, loadVars
<1>0. UNCHANGED balance
  BY DEF Next, vars
<1> USE <1>0
<1>1. ASSUME NEW f \in Forms, Edit(f) PROVE FormsTyped'
  BY <1>1 DEF Edit
<1>2. ASSUME NEW r \in Runs, NEW f \in Planned, Submit(r, f) PROVE FormsTyped'
  BY <1>2 DEF Submit, CanSubmit, Starts
<1>3. ASSUME NEW r \in Runs, SubmitDeposit(r) PROVE FormsTyped'
  BY <1>3 DEF SubmitDeposit
<1>4. ASSUME NEW r \in Runs, DepositStarts(r) PROVE FormsTyped'
  BY <1>4 DEF DepositStarts, Starts
<1>5. ASSUME NEW r \in Runs, Proceeds(r) PROVE FormsTyped'
  <2>1. stage[r] \in {"planning", "building", "signing"}
    BY <1>5 DEF Proceeds
  <2>2. StageAfter(stage[r]) \in Stages
    BY <2>1 DEF StageAfter
  <2> QED
    BY <1>5, <2>2 DEF Proceeds
<1>6. ASSUME NEW r \in Runs, Confirmed(r) PROVE FormsTyped'
  BY <1>6 DEF Confirmed, Succeeds, Settles
<1>7. ASSUME NEW r \in Runs, Denied(r) PROVE FormsTyped'
  BY <1>7 DEF Denied, Succeeds, Settles
<1>8. ASSUME NEW r \in Runs, Fails(r) PROVE FormsTyped'
  BY <1>8 DEF Fails, Settles
<1>9. CASE AskForBalances
  BY <1>9 DEF AskForBalances
<1>10. CASE BalancesLoaded
  BY <1>10 DEF BalancesLoaded
<1>11. CASE Dispose
  BY <1>11 DEF Dispose
<1>12. CASE ConnectionChanges
  BY <1>12 DEF ConnectionChanges
<1>13. CASE UNCHANGED vars
  BY <1>13 DEF vars
<1> QED
  BY <1>1, <1>2, <1>3, <1>4, <1>5, <1>6, <1>7, <1>8, <1>9, <1>10, <1>11,
     <1>12, <1>13 DEF Next, Answered

\* A step keeps the types of the rest.
LEMMA LoadsTypeStep ==
  ASSUME IInv, [Next]_vars PROVE LoadsTyped'
<1> USE DEF IInv, TypeOK, LoadsTyped, formVars, runVars, loadVars
<1>1. ASSUME NEW f \in Forms, Edit(f) PROVE LoadsTyped'
  BY <1>1 DEF Edit
<1>2. ASSUME NEW r \in Runs, NEW f \in Planned, Submit(r, f) PROVE LoadsTyped'
  BY <1>2 DEF Submit
<1>3. ASSUME NEW r \in Runs,
             SubmitDeposit(r) \/ DepositStarts(r) \/ Proceeds(r)
      PROVE  LoadsTyped'
  BY <1>3 DEF SubmitDeposit, DepositStarts, Proceeds
<1>4. ASSUME LoadBalances, UNCHANGED connected PROVE LoadsTyped'
  <2>1. loading' \in BOOLEAN /\ connected' \in BOOLEAN
    BY <1>4, Zenon DEF LoadBalances
  <2>2. loads' \in Nat
    BY <1>4 DEF LoadBalances
  <2> QED
    BY <2>1, <2>2
<1>5. ASSUME NEW r \in Runs, Confirmed(r) \/ Denied(r) \/ Fails(r)
      PROVE  LoadsTyped'
  <2>1. UNCHANGED connected
    BY <1>5 DEF Confirmed, Denied, Fails, Succeeds, Settles
  <2>2. LoadBalances \/ UNCHANGED loadVars
    BY <1>5 DEF Confirmed, Denied, Fails, Succeeds
  <2> QED
    BY <1>4, <2>1, <2>2
<1>6. CASE AskForBalances
  BY <1>4, <1>6 DEF AskForBalances
<1>7. CASE BalancesLoaded
  <2>1. loading' \in BOOLEAN /\ connected' \in BOOLEAN
    BY <1>7, Zenon DEF BalancesLoaded
  <2>2. loads' \in Nat
    BY <1>7 DEF BalancesLoaded
  <2> QED
    BY <2>1, <2>2
<1>8. CASE Dispose
  BY <1>8 DEF Dispose
<1>9. CASE ConnectionChanges
  <2>1. loading' \in BOOLEAN /\ connected' \in BOOLEAN
    BY <1>9, Zenon DEF ConnectionChanges
  <2>2. loads' \in Nat
    BY <1>9 DEF ConnectionChanges
  <2> QED
    BY <2>1, <2>2
<1>10. CASE UNCHANGED vars
  BY <1>10 DEF vars
<1> QED
  BY <1>1, <1>2, <1>3, <1>5, <1>6, <1>7, <1>8, <1>9, <1>10
  DEF Next, Answered

\* A run has a form while it is under way, and only a deposit imports.
LEMMA StagesStep ==
  ASSUME IInv, [Next]_vars PROVE StagesAgree'
<1> USE ValuesAssumption, NoneAssumption
    DEF IInv, TypeOK, FormsTyped, Planned, Forms, Stages, UnderWay, StagesAgree,
        formVars, runVars, loadVars
<1>1. ASSUME NEW f \in Forms, Edit(f) PROVE StagesAgree'
  BY <1>1 DEF Edit
<1>2. ASSUME NEW r \in Runs, NEW f \in Planned, Submit(r, f)
      PROVE  StagesAgree'
  BY <1>2 DEF Submit, CanSubmit
<1>3. ASSUME NEW r \in Runs, SubmitDeposit(r) PROVE StagesAgree'
  BY <1>3 DEF SubmitDeposit
<1>4. ASSUME NEW r \in Runs, DepositStarts(r) PROVE StagesAgree'
  BY <1>4 DEF DepositStarts
<1>5. ASSUME NEW r \in Runs, Proceeds(r) PROVE StagesAgree'
  <2>1. stage[r] \in {"planning", "building", "signing"}
    BY <1>5 DEF Proceeds
  <2>2. StageAfter(stage[r]) \in {"building", "broadcasting"}
    BY <2>1 DEF StageAfter
  <2> QED
    BY <1>5, <2>1, <2>2 DEF Proceeds
<1>6. ASSUME NEW r \in Runs, Confirmed(r) PROVE StagesAgree'
  BY <1>6 DEF Confirmed, Succeeds, Settles
<1>7. ASSUME NEW r \in Runs, Denied(r) PROVE StagesAgree'
  BY <1>7 DEF Denied, Succeeds, Settles
<1>8. ASSUME NEW r \in Runs, Fails(r) PROVE StagesAgree'
  BY <1>8 DEF Fails, Settles
<1>9. CASE AskForBalances
  BY <1>9 DEF AskForBalances
<1>10. CASE BalancesLoaded
  BY <1>10 DEF BalancesLoaded
<1>11. CASE Dispose
  BY <1>11 DEF Dispose
<1>12. CASE ConnectionChanges
  BY <1>12 DEF ConnectionChanges
<1>13. CASE UNCHANGED vars
  BY <1>13 DEF vars
<1> QED
  BY <1>1, <1>2, <1>3, <1>4, <1>5, <1>6, <1>7, <1>8, <1>9, <1>10, <1>11,
     <1>12, <1>13 DEF Next, Answered

\* A form says it is loading exactly as long as its only run is under way; a
\* deposit may be under way unseen, or beside another one.
LEMMA OneStep ==
  ASSUME IInv, [Next]_vars PROVE OneInFlight'
<1> USE ValuesAssumption, NoneAssumption
    DEF IInv, TypeOK, FormsTyped, Planned, Forms, Stages, UnderWay, StagesAgree,
        OneInFlight, Busy, formVars, runVars, loadVars
<1>1. ASSUME NEW f \in Forms, Edit(f) PROVE OneInFlight'
  BY <1>1 DEF Edit
<1>2. ASSUME NEW r \in Runs, NEW f \in Planned, Submit(r, f)
      PROVE  OneInFlight'
  BY <1>2 DEF Submit, CanSubmit, Starts
<1>3. ASSUME NEW r \in Runs, SubmitDeposit(r) PROVE OneInFlight'
  BY <1>3 DEF SubmitDeposit
<1>4. ASSUME NEW r \in Runs, DepositStarts(r) PROVE OneInFlight'
  BY <1>4 DEF DepositStarts, Starts
<1>5. ASSUME NEW r \in Runs, Proceeds(r) PROVE OneInFlight'
  <2>1. stage[r] \in {"planning", "building", "signing"}
    BY <1>5 DEF Proceeds
  <2>2. StageAfter(stage[r]) \in {"building", "broadcasting"}
    BY <2>1 DEF StageAfter
  <2>3. \A f \in Forms : Busy(f)' = Busy(f)
    BY <1>5, <2>1, <2>2 DEF Proceeds
  <2> QED
    BY <1>5, <2>3 DEF Proceeds
<1>6. ASSUME NEW r \in Runs, stage[r] \in UnderWay, Settles(r)
      PROVE  OneInFlight'
  BY <1>6 DEF Settles
<1>7. ASSUME NEW r \in Runs, Confirmed(r) \/ Denied(r) \/ Fails(r)
      PROVE  stage[r] \in UnderWay /\ Settles(r)
  BY <1>7 DEF Confirmed, Denied, Fails, Succeeds
<1>8. CASE AskForBalances \/ BalancesLoaded \/ Dispose \/ ConnectionChanges
  BY <1>8 DEF AskForBalances, BalancesLoaded, Dispose, ConnectionChanges
<1>9. CASE UNCHANGED vars
  BY <1>9 DEF vars
<1> QED
  BY <1>1, <1>2, <1>3, <1>4, <1>5, <1>6, <1>7, <1>8, <1>9
  DEF Next, Answered

\* What a run asks for is what the form held when it was submitted.
LEMMA CoveredStep ==
  ASSUME IInv, [Next]_vars PROVE Covered'
<1> USE DEF IInv, TypeOK, FormsTyped, Covered, CoveredBy, Hidden
<1>1. UNCHANGED balance /\ JoinLoHi(balance)' = JoinLoHi(balance)
  BY DEF Next, vars, JoinLoHi
<1>2. ASSUME NEW r \in Runs, NEW f \in Planned, Submit(r, f)
      PROVE  Covered'
  BY <1>1, <1>2, SubmitIsCovered DEF Submit
<1>3. ASSUME NEW r \in Runs, SubmitDeposit(r) \/ DepositStarts(r)
      PROVE  Covered'
  BY <1>1, <1>3, NoneAssumption
  DEF SubmitDeposit, DepositStarts, StagesAgree, Planned, Forms
<1>4. ASSUME NEW r \in Runs, Answered(r)
      PROVE  Covered'
  <2>1. CASE UNCHANGED <<form, request>>
    BY <1>1, <2>1
  <2>2. CASE Settles(r)
    BY <1>1, <2>2, NoneAssumption DEF Settles, Planned, Forms
  <2> QED
    BY <1>4, <2>1, <2>2
    DEF Answered, Proceeds, Confirmed, Denied, Fails, Succeeds
<1>5. CASE UNCHANGED <<form, request>>
  BY <1>1, <1>5
<1> QED
  BY <1>2, <1>3, <1>4, <1>5
  DEF Next, vars, Edit, AskForBalances, BalancesLoaded, Dispose,
      ConnectionChanges, runVars

\* IInv holds in every reachable state.
THEOREM InvariantHolds == Spec => []IInv
<1>1. Init => IInv
  <2>1. Init => FormsTyped
    BY DEF Init, FormsTyped, Forms, Planned, Stages
  <2>2. Init => LoadsTyped
    <3>1. Init => connected \in BOOLEAN /\ loading \in BOOLEAN
      BY Zenon DEF Init
    <3>2. Init => loads \in Nat
      BY DEF Init
    <3> QED
      BY <3>1, <3>2 DEF LoadsTyped
  <2>3. Init => StagesAgree
    BY NoneAssumption DEF Init, StagesAgree, Forms, Planned
  <2>4. Init => OneInFlight
    BY NoneAssumption
    DEF Init, OneInFlight, Busy, Forms, Planned, UnderWay
  <2>5. Init => Covered
    BY NoneAssumption DEF Init, Covered, Forms, Planned
  <2> QED
    BY <2>1, <2>2, <2>3, <2>4, <2>5 DEF IInv, TypeOK
<1>2. IInv /\ [Next]_vars => IInv'
  BY FormsTypeStep, LoadsTypeStep, StagesStep, OneStep, CoveredStep
  DEF IInv, TypeOK
<1> QED
  BY <1>1, <1>2, PTL DEF Spec

\* Every variable keeps its type.
THEOREM TypeCorrect == Spec => []TypeOK
<1>1. IInv => TypeOK
  BY DEF IInv
<1> QED
  BY <1>1, InvariantHolds, PTL

\* No send or withdrawal overlaps another, and a form that says that it is
\* loading is.
THEOREM OneAtATime == Spec => []OneInFlight
<1>1. IInv => OneInFlight
  BY DEF IInv
<1> QED
  BY <1>1, InvariantHolds, PTL

\* No send asks for more than the balance, for any width of a half and any
\* shift that no half reaches, and no withdrawal for more than the low half
\* and what rounding hides above the precision of numbers, whichever rounding
\* that keeps the order.
THEOREM RequestsAreCovered == Spec => []Covered
<1>1. IInv => Covered
  BY DEF IInv
<1> QED
  BY <1>1, InvariantHolds, PTL
=============================================================================
