------------------------------ MODULE Earnings ------------------------------
(***************************************************************************)
(* What a seller is told he earned (settlement.history) and what he draws  *)
(* by hand (src/withdrawals), beside the monthly payout.  A withdrawal     *)
(* reads the earnings, reads what was drawn before, and inserts a request  *)
(* for the difference, in three statements.                                *)
(***************************************************************************)
EXTENDS Integers, FiniteSets, Sequences, Functions

CONSTANTS
  Rows,        \* settlements of one seller
  Price, Fee,  \* Purchase.amount and Settlement.fee of a row
  SoldOn,      \* the day of created_at
  MonthEnd,    \* the last day of each month of the year
  Withdrawals,    \* slots for running withdrawals
  MinWithdrawal

Months == DOMAIN MonthEnd

ASSUME EarningsAssumption ==
  /\ IsFiniteSet(Rows)
  /\ Price \in [Rows -> Nat] /\ Fee \in [Rows -> Nat]
  /\ \A r \in Rows : Fee[r] <= Price[r]
  /\ MinWithdrawal \in Nat

\* The months follow each other, and the year has a day for every sale.
ASSUME YearAssumption ==
  /\ MonthEnd \in Seq(Nat) /\ MonthEnd # <<>>
  /\ \A m, k \in Months : m < k => MonthEnd[m] < MonthEnd[k]
  /\ SoldOn \in [Rows -> 0..MonthEnd[Len(MonthEnd)]]

VARIABLES
  rowStatus,     \* Settlement.status, "none" before the sale
  drawn,      \* the sum of the WithdrawRequest rows
  asking,     \* the await of a withdrawal
  earned,     \* its locals
  before,
  overlapped  \* for the property: two withdrawals were under way at once

earningsVars == <<rowStatus, drawn, asking, earned, before, overlapped>>

EarningsTypeOK ==
  /\ rowStatus \in [Rows -> {"none", "Pending", "Succeed", "Refunded"}]
  /\ drawn \in Nat
  /\ asking \in [Withdrawals -> {"idle", "drawn", "create"}]
  /\ earned \in [Withdrawals -> Nat]
  /\ before \in [Withdrawals -> Nat]
  /\ overlapped \in BOOLEAN

EarningsInit ==
  /\ rowStatus = [r \in Rows |-> "none"]
  /\ drawn = 0
  /\ asking = [q \in Withdrawals |-> "idle"]
  /\ earned = [q \in Withdrawals |-> 0]
  /\ before = [q \in Withdrawals |-> 0]
  /\ overlapped = FALSE

\* Settlement.amount
NetAmount == [r \in Rows |-> Price[r] - Fee[r]]
SoldRows == {r \in Rows : rowStatus[r] # "none"}
WithStatus(S, st) == {r \in S : rowStatus[r] = st}

-----------------------------------------------------------------------------
(* The sale, its settlement, its refund.                                    *)

SellRow(r) ==
  /\ rowStatus[r] = "none"
  /\ rowStatus' = [rowStatus EXCEPT ![r] = "Pending"]
  /\ UNCHANGED <<drawn, asking, earned, before, overlapped>>

SettleRow(r) ==
  /\ rowStatus[r] = "Pending"
  /\ rowStatus' = [rowStatus EXCEPT ![r] = "Succeed"]
  /\ UNCHANGED <<drawn, asking, earned, before, overlapped>>

RefundRow(r) ==
  /\ rowStatus[r] \in {"Pending", "Succeed"}
  /\ rowStatus' = [rowStatus EXCEPT ![r] = "Refunded"]
  /\ UNCHANGED <<drawn, asking, earned, before, overlapped>>
-----------------------------------------------------------------------------
(* Withdrawal.                                                              *)

\* getUserTotalEarnings: every settlement, of whatever status.
TotalEarnings == SumFunctionOnSet(NetAmount, SoldRows)

\* The handler's first read.
RequestWithdrawal(q) ==
  /\ asking[q] = "idle"
  /\ asking' = [asking EXCEPT ![q] = "drawn"]
  /\ earned' = [earned EXCEPT ![q] = TotalEarnings]
  /\ overlapped' = (overlapped \/ \E p \in Withdrawals : asking[p] # "idle")
  /\ UNCHANGED <<rowStatus, drawn, before>>

\* Mutant: a request counts as drawn only until it has succeeded.
PendingWithdrawn == 0

\* getUserTotalWithdrawn: requests are created as Succeed.
TotalWithdrawn == drawn

SumWithdrawn(q) ==
  /\ asking[q] = "drawn"
  /\ IF earned[q] - TotalWithdrawn < MinWithdrawal
       THEN /\ asking' = [asking EXCEPT ![q] = "idle"]
            /\ earned' = [earned EXCEPT ![q] = 0]
            /\ UNCHANGED before
       ELSE /\ asking' = [asking EXCEPT ![q] = "create"]
            /\ before' = [before EXCEPT ![q] = TotalWithdrawn]
            /\ UNCHANGED earned
  /\ UNCHANGED <<rowStatus, drawn, overlapped>>

\* createWithdrawalRequest, for all that is available, or it fails.
CreateWithdrawal(q, fails) ==
  /\ asking[q] = "create"
  /\ drawn' = IF fails THEN drawn ELSE drawn + earned[q] - before[q]
  /\ asking' = [asking EXCEPT ![q] = "idle"]
  /\ earned' = [earned EXCEPT ![q] = 0]
  /\ before' = [before EXCEPT ![q] = 0]
  /\ UNCHANGED <<rowStatus, overlapped>>

\* getAvailableAmount: what the seller is shown, never below zero.
AvailableAmount ==
  IF TotalEarnings > TotalWithdrawn THEN TotalEarnings - TotalWithdrawn ELSE 0

EarningsNext ==
  \/ \E r \in Rows : SellRow(r) \/ SettleRow(r) \/ RefundRow(r)
  \/ \E q \in Withdrawals :
       \/ RequestWithdrawal(q) \/ SumWithdrawn(q)
       \/ \E fails \in BOOLEAN : CreateWithdrawal(q, fails)

EarningsSpec == EarningsInit /\ [][EarningsNext]_earningsVars
-----------------------------------------------------------------------------
(* The reports (settlement.history.repository.ts).                          *)

FirstOf(m) == IF m = 1 THEN 0 ELSE MonthEnd[m - 1] + 1

\* Mutant: the first day of the next month is taken in.
InMonthInclusive(r, m) == SoldOn[r] >= FirstOf(m) /\ SoldOn[r] <= MonthEnd[m] + 1

\* created_at >= start and < end, both of the UTC calendar.
InMonth(r, m) == SoldOn[r] >= FirstOf(m) /\ SoldOn[r] < MonthEnd[m] + 1

SalesOf(m) == {r \in SoldRows : InMonth(r, m)}

\* aggregateSalesByMonth: all but the refunded are settled.
MonthlyTotals(m) ==
  LET S == SalesOf(m) IN
    [sales    |-> SumFunctionOnSet(Price, S),
     fee      |-> SumFunctionOnSet(Fee, S),
     settled  |-> SumFunctionOnSet(NetAmount, S \ WithStatus(S, "Refunded")),
     refunded |-> SumFunctionOnSet(NetAmount, WithStatus(S, "Refunded"))]

\* getMonthlySales: the rows themselves, how many, and the totals.
MonthlySales(m) ==
  [items |-> SalesOf(m), count |-> Cardinality(SalesOf(m)), totals |-> MonthlyTotals(m)]

\* aggregateYearlyTotals: only the settled are settled.
YearlyTotals ==
  [count    |-> Cardinality(SoldRows),
   sales    |-> SumFunctionOnSet(Price, SoldRows),
   fee      |-> SumFunctionOnSet(Fee, SoldRows),
   settled  |-> SumFunctionOnSet(NetAmount, WithStatus(SoldRows, "Succeed")),
   pending  |-> SumFunctionOnSet(NetAmount, WithStatus(SoldRows, "Pending")),
   refunded |-> SumFunctionOnSet(NetAmount, WithStatus(SoldRows, "Refunded"))]

\* sumPendingAmount
PendingAmount == SumFunctionOnSet(NetAmount, WithStatus(SoldRows, "Pending"))
-----------------------------------------------------------------------------
(* Properties.                                                              *)

\* The three reports tell one story at every moment: the months add up to the
\* year, and the year's net and pending amounts to what the months call
\* settled, whichever rows are settled or refunded in between.
ReportsAgree ==
  LET year == YearlyTotals
  IN /\ UNION {MonthlySales(m).items : m \in Months} = SoldRows
     /\ SumFunction([m \in Months |-> MonthlySales(m).count]) = year.count
     /\ SumFunction([m \in Months |-> MonthlyTotals(m).sales]) = year.sales
     /\ SumFunction([m \in Months |-> MonthlyTotals(m).settled]) = year.settled + year.pending
     /\ year.pending = PendingAmount
     /\ year.sales - year.fee = year.settled + year.pending + year.refunded

\* Nobody draws more than he ever earned, unless two of his withdrawals were
\* under way at once: nothing but the order of the three statements guards it,
\* and what he is shown as available is always his to draw.
\* A refund takes nothing back from the earnings.
NotOverdrawn == overlapped \/ drawn + AvailableAmount <= TotalEarnings
=============================================================================
