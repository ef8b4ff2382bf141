----------------------------- MODULE PayoutCycle -----------------------------
(***************************************************************************)
(* Paying the sellers (src/settlements).  A month runs from one 15th to    *)
(* the next; on the 15th every server instance fires the cycle job, and    *)
(* the one that gets the Redis lock works through the eligible sellers: it *)
(* sums what was settled and what was refunded in the month that is over,  *)
(* subtracts a debt carried over, writes the payout row, and has Payple    *)
(* prepare and execute a transfer.  Payple's webhook closes the row.       *)
(*                                                                         *)
(* Period t is the month that runs now, and the job of period t handles    *)
(* cycle t - 1.  A job is over long before the next month, and so is the   *)
(* time to live of the lock of a job that died.                            *)
(***************************************************************************)
EXTENDS Integers, Functions

CONSTANTS
  Sellers, Sales,  \* sales are rows of Settlement
  Owner,           \* Settlement.user_id of a sale
  Total,           \* the sum of Settlement.amount over a set of sales
  Instances,       \* server instances, each with its cron
  Hooks,           \* slots for running webhook handlers
  Groups,          \* group keys of Payple (one per prepared transfer)
  None,            \* no group, nobody
  MinPayout,       \* MIN_PAYOUT_AMOUNT
  LastPeriod,      \* bound on the months
  MaxFaults        \* bound on calls that fail and runs that die

ASSUME OwnerAssumption == Owner \in [Sales -> Sellers]
ASSUME TotalAssumption ==
  /\ Total \in [SUBSET Sales -> Nat]
  /\ Total[{}] = 0
  /\ \A S, T \in SUBSET Sales :
       S \cap T = {} => Total[S \cup T] = Total[S] + Total[T]
ASSUME BoundAssumption ==
  MinPayout \in Nat \ {0} /\ LastPeriod \in Nat \ {0} /\ MaxFaults \in Nat

Periods == 1..LastPeriod
Cycles  == 1..(LastPeriod - 1)

Transfers == [seller : Sellers, cycle : Cycles, amount : Int]

ASSUME NoneAssumption ==
  None \notin Groups \cup Instances \cup Sellers \cup Transfers

VARIABLES
  \* the database
  settlement,  \* Settlement.status
  changedIn,   \* the period of Settlement.updated_at
  eligible,    \* sellers with an approved, active account and a billing key
  status,      \* SettlementPayout.status of a seller's cycle
  counted,     \* the sales in amount_gross
  deducted,    \* the sales in amount_refund
  net,         \* amount_net
  groupKey,    \* group_key
  \* Payple
  transfer,    \* what was prepared under a group key
  stage,       \* how far that transfer has come
  acked,       \* groups whose webhook was answered with 200
  \* the jobs and the lock in Redis
  period, lock, fired,
  pc, todo, at, tally, got,
  \* the webhook handlers
  hookOn,      \* the group whose Pending row a handler has read
  \* for the properties and the bound only
  reran,       \* sellers of whom a cycle was worked on twice
  unsure,      \* groups whose execution was not answered
  faults

saleVars == <<settlement, changedIn, eligible>>
rowVars  == <<status, counted, deducted, net, groupKey>>
pgVars   == <<transfer, stage, acked>>
jobVars  == <<period, lock, fired, pc, todo, at, tally, got>>
vars == <<settlement, changedIn, eligible, status, counted, deducted, net,
          groupKey, transfer, stage, acked, period, lock, fired, pc, todo, at,
          tally, got, hookOn, reran, unsure, faults>>

Tallies   == [counted : SUBSET Sales, deducted : SUBSET Sales, net : Int]
NoTally   == [counted |-> {}, deducted |-> {}, net |-> 0]

SaleTypes ==
  /\ settlement \in [Sales -> {"Pending", "Succeed", "Refunded"}]
  /\ changedIn \in [Sales -> Periods]
  /\ eligible \in SUBSET Sellers

RowTypes ==
  /\ status \in [Sellers -> [Cycles -> {"none", "Pending", "Succeed", "Failed", "Skipped"}]]
  /\ counted \in [Sellers -> [Cycles -> SUBSET Sales]]
  /\ deducted \in [Sellers -> [Cycles -> SUBSET Sales]]
  /\ net \in [Sellers -> [Cycles -> Int]]
  /\ groupKey \in [Sellers -> [Cycles -> Groups \cup {None}]]

PayTypes ==
  /\ transfer \in [Groups -> Transfers \cup {None}]
  /\ stage \in [Groups -> {"unused", "waiting", "executing", "paid", "bounced"}]
  /\ acked \in SUBSET Groups
  /\ hookOn \in [Hooks -> Groups \cup {None}]

JobTypes ==
  /\ period \in Periods
  /\ lock \in Instances \cup {None}
  /\ fired \in [Instances -> Periods]
  /\ pc \in [Instances -> {"idle", "next", "create", "standby", "key", "execute", "fail"}]
  /\ todo \in [Instances -> SUBSET Sellers]
  /\ at \in [Instances -> Sellers \cup {None}]
  /\ tally \in [Instances -> Tallies]
  /\ got \in [Instances -> Groups \cup {None}]

GhostTypes ==
  /\ reran \in SUBSET Sellers
  /\ unsure \in SUBSET Groups
  /\ faults \in 0..MaxFaults

TypeOK == SaleTypes /\ RowTypes /\ PayTypes /\ JobTypes /\ GhostTypes

PerCycle(v) == [u \in Sellers |-> [m \in Cycles |-> v]]

\* A sale that is still to be made is, for this module, a Pending one.
Init ==
  /\ settlement = [s \in Sales |-> "Pending"]
  /\ changedIn = [s \in Sales |-> 1]
  /\ eligible \in SUBSET Sellers
  /\ status = PerCycle("none")
  /\ counted = PerCycle({})
  /\ deducted = PerCycle({})
  /\ net = PerCycle(0)
  /\ groupKey = PerCycle(None)
  /\ transfer = [g \in Groups |-> None]
  /\ stage = [g \in Groups |-> "unused"]
  /\ acked = {}
  /\ period = 1
  /\ lock = None
  /\ fired = [i \in Instances |-> 1]
  /\ pc = [i \in Instances |-> "idle"]
  /\ todo = [i \in Instances |-> {}]
  /\ at = [i \in Instances |-> None]
  /\ tally = [i \in Instances |-> NoTally]
  /\ got = [i \in Instances |-> None]
  /\ hookOn = [h \in Hooks |-> None]
  /\ reran = {}
  /\ unsure = {}
  /\ faults = 0

-----------------------------------------------------------------------------
(* The rest of the server and the calendar.                                 *)

\* Mutant: the sync updates by payment_id alone, whatever the status is.
SettleSaleAgain(s) ==
  /\ settlement[s] # "Refunded"
  /\ settlement' = [settlement EXCEPT ![s] = "Succeed"]
  /\ changedIn' = [changedIn EXCEPT ![s] = period]
  /\ UNCHANGED <<eligible, rowVars, pgVars, jobVars, hookOn, reran, unsure, faults>>

\* processApproval: only a Pending row moves, and updated_at with it.
SettleSale(s) ==
  /\ settlement[s] = "Pending"
  /\ settlement' = [settlement EXCEPT ![s] = "Succeed"]
  /\ changedIn' = [changedIn EXCEPT ![s] = period]
  /\ UNCHANGED <<eligible, rowVars, pgVars, jobVars, hookOn, reran, unsure, faults>>

\* markPaymentRefunded, whatever the status; a sale is refunded once.
RefundSale(s) ==
  /\ settlement[s] # "Refunded"
  /\ settlement' = [settlement EXCEPT ![s] = "Refunded"]
  /\ changedIn' = [changedIn EXCEPT ![s] = period]
  /\ UNCHANGED <<eligible, rowVars, pgVars, jobVars, hookOn, reran, unsure, faults>>

\* Registration, approval and deactivation of accounts.
SetEligible(u) ==
  /\ eligible' = IF u \in eligible THEN eligible \ {u} ELSE eligible \cup {u}
  /\ UNCHANGED <<settlement, changedIn, rowVars, pgVars, jobVars, hookOn,
                 reran, unsure, faults>>

NextPeriod ==
  /\ period < LastPeriod
  /\ \A i \in Instances : pc[i] = "idle"
  /\ period' = period + 1
  /\ lock' = None
  /\ UNCHANGED <<saleVars, rowVars, pgVars, fired, pc, todo, at, tally, got,
                 hookOn, reran, unsure, faults>>

\* The time to live of a dead job's lock is over.  A job that works is done
\* within the half an hour of its lock.
LockExpires ==
  /\ lock # None
  /\ pc[lock] = "idle"
  /\ lock' = None
  /\ UNCHANGED <<saleVars, rowVars, pgVars, period, fired, pc, todo, at, tally, got,
                 hookOn, reran, unsure, faults>>

-----------------------------------------------------------------------------
(* The job (runPayoutCycle, processOneSeller).                              *)

Cycle == period - 1

Goto(i, step) == pc' = [pc EXCEPT ![i] = step]

\* The cron of an instance.  SET NX takes the lock or leaves it; with the
\* lock comes the list of the eligible sellers.
Fire(i) ==
  /\ fired[i] < period
  /\ fired' = [fired EXCEPT ![i] = period]
  /\ \/ /\ lock = None
        /\ lock' = i
        /\ todo' = [todo EXCEPT ![i] = eligible]
        /\ Goto(i, "next")
     \/ /\ lock # None
        /\ UNCHANGED <<lock, todo, pc>>
  /\ UNCHANGED <<saleVars, rowVars, pgVars, period, at, tally, got, hookOn,
                 reran, unsure, faults>>

\* The finally block: DEL, without a look at who holds the lock.
Finish(i) ==
  /\ pc[i] = "next"
  /\ todo[i] = {}
  /\ lock' = None
  /\ Goto(i, "idle")
  /\ UNCHANGED <<saleVars, rowVars, pgVars, period, fired, todo, at, tally,
                 got, hookOn, reran, unsure, faults>>

HasRow(u, m) == status[u][m] # "none"

\* findFirst by cycle_start descending: the running cycle's own row included.
IsLastRow(u, m) == HasRow(u, m) /\ \A n \in Cycles : HasRow(u, n) => n <= m

\* Mutant: what a row that was not paid still owed is forgotten.
CarryOverOfPaidOnly(u) ==
  IF \E m \in Cycles : IsLastRow(u, m) /\ net[u][m] < 0 /\ status[u][m] # "Skipped"
  THEN - net[u][CHOOSE m \in Cycles : IsLastRow(u, m)]
  ELSE 0

\* getCarryOverFromLastPayout: a debt is carried over, nothing else.
CarryOver(u) ==
  IF \E m \in Cycles : IsLastRow(u, m) /\ net[u][m] < 0
  THEN - net[u][CHOOSE m \in Cycles : IsLastRow(u, m)]
  ELSE 0

\* aggregateUnsettledForCycle: by updated_at, that is by the last change.
ChangedTo(u, st) ==
  {s \in Sales : Owner[s] = u /\ settlement[s] = st /\ changedIn[s] = Cycle}

\* The two reads of processOneSeller.  What they read of past months can
\* only lose sales to the running month, and rows are written under the lock.
TallyOf(u) ==
  LET gross  == ChangedTo(u, "Succeed")
      refund == ChangedTo(u, "Refunded")
  IN [counted |-> gross, deducted |-> refund,
      net |-> Total[gross] - Total[refund] - CarryOver(u)]

Aggregate(i) ==
  /\ pc[i] = "next"
  /\ \E u \in todo[i] :
       /\ at' = [at EXCEPT ![i] = u]
       /\ todo' = [todo EXCEPT ![i] = @ \ {u}]
       /\ tally' = [tally EXCEPT ![i] = TallyOf(u)]
  /\ Goto(i, "create")
  /\ UNCHANGED <<saleVars, rowVars, pgVars, period, lock, fired, got, hookOn,
                 reran, unsure, faults>>

\* Mutant: one status for a row that is not paid out.
CreateRowFailed(i) ==
  LET u == at[i] IN
  /\ pc[i] = "create"
  /\ status' = [status EXCEPT ![u][Cycle] = "Cancelled"]
  /\ counted' = [counted EXCEPT ![u][Cycle] = tally[i].counted]
  /\ deducted' = [deducted EXCEPT ![u][Cycle] = tally[i].deducted]
  /\ net' = [net EXCEPT ![u][Cycle] = tally[i].net]
  /\ Goto(i, "next")
  /\ UNCHANGED <<saleVars, groupKey, pgVars, period, lock, fired, todo, at,
                 tally, got, hookOn, reran, unsure, faults>>

\* createPendingPayout: an upsert that leaves an existing row as it is and
\* returns it, whatever its status; what is paid is the amount just computed.
CreateRow(i) ==
  LET u == at[i]
      skip == tally[i].net < MinPayout
  IN /\ pc[i] = "create"
     /\ \/ /\ ~HasRow(u, Cycle)
           /\ status' = [status EXCEPT ![u][Cycle] = IF skip THEN "Skipped" ELSE "Pending"]
           /\ counted' = [counted EXCEPT ![u][Cycle] = tally[i].counted]
           /\ deducted' = [deducted EXCEPT ![u][Cycle] = tally[i].deducted]
           /\ net' = [net EXCEPT ![u][Cycle] = tally[i].net]
           /\ UNCHANGED reran
        \/ /\ HasRow(u, Cycle)
           /\ reran' = reran \cup {u}
           /\ UNCHANGED <<status, counted, deducted, net>>
     /\ Goto(i, IF skip THEN "next" ELSE "standby")
     /\ UNCHANGED <<saleVars, groupKey, pgVars, period, lock, fired, todo, at,
                    tally, got, hookOn, unsure, faults>>

\* External: a distinct key, here the payout's number, is taken once.
DistinctKeyIsFree(u, m) ==
  \A g \in Groups : transfer[g] # None =>
    <<transfer[g].seller, transfer[g].cycle>> # <<u, m>>

\* What a failing call costs, so that TLC stays finite.
Fault == faults < MaxFaults /\ faults' = faults + 1

\* Mutant: no distinct key is sent, Payple makes one up.
StandbyNoKey(i) ==
  /\ pc[i] = "standby"
  /\ \E g \in Groups :
       /\ transfer[g] = None
       /\ transfer' = [transfer EXCEPT ![g] =
                         [seller |-> at[i], cycle |-> Cycle, amount |-> tally[i].net]]
       /\ stage' = [stage EXCEPT ![g] = "waiting"]
       /\ got' = [got EXCEPT ![i] = g]
  /\ Goto(i, "key")
  /\ UNCHANGED <<saleVars, rowVars, acked, period, lock, fired, todo, at,
                 tally, hookOn, reran, unsure, faults>>

\* requestPayoutStandby: Payple prepares a transfer and answers, or prepares
\* it and the answer is lost, or refuses.
Standby(i) ==
  /\ pc[i] = "standby"
  /\ \/ /\ DistinctKeyIsFree(at[i], Cycle)
        /\ \E g \in Groups :
             /\ transfer[g] = None
             /\ transfer' = [transfer EXCEPT ![g] =
                               [seller |-> at[i], cycle |-> Cycle, amount |-> tally[i].net]]
             /\ stage' = [stage EXCEPT ![g] = "waiting"]
             /\ \/ /\ got' = [got EXCEPT ![i] = g]
                   /\ Goto(i, "key")
                   /\ UNCHANGED faults
                \/ /\ Goto(i, "fail")
                   /\ Fault
                   /\ UNCHANGED got
     \/ /\ Goto(i, "fail")
        /\ UNCHANGED <<transfer, stage, got, faults>>
  /\ UNCHANGED <<saleVars, rowVars, acked, period, lock, fired, todo, at,
                 tally, hookOn, reran, unsure>>

\* updatePaypleGroupKey, before anything is executed.
StoreKey(i) ==
  /\ pc[i] = "key"
  /\ \/ /\ groupKey' = [groupKey EXCEPT ![at[i]][Cycle] = got[i]]
        /\ Goto(i, "execute")
        /\ UNCHANGED faults
     \/ /\ Goto(i, "fail")
        /\ Fault
        /\ UNCHANGED groupKey
  /\ UNCHANGED <<saleVars, status, counted, deducted, net, pgVars, period,
                 lock, fired, todo, at, tally, got, hookOn, reran, unsure>>

\* executePayout: Payple starts the transfer and answers, or starts it and
\* the answer is lost, or refuses.
Execute(i) ==
  /\ pc[i] = "execute"
  /\ \/ /\ stage' = [stage EXCEPT ![got[i]] = "executing"]
        /\ \/ /\ Goto(i, "next")
              /\ UNCHANGED <<unsure, faults>>
           \/ /\ Goto(i, "fail")
              /\ unsure' = unsure \cup {got[i]}
              /\ Fault
     \/ /\ Goto(i, "fail")
        /\ UNCHANGED <<stage, unsure, faults>>
  /\ UNCHANGED <<saleVars, rowVars, transfer, acked, period, lock, fired, todo,
                 at, tally, got, hookOn, reran>>

\* The catch block: markFailed, whatever the row says by now.
MarkFailed(i) ==
  /\ pc[i] = "fail"
  /\ status' = [status EXCEPT ![at[i]][Cycle] = "Failed"]
  /\ Goto(i, "next")
  /\ UNCHANGED <<saleVars, counted, deducted, net, groupKey, pgVars, period,
                 lock, fired, todo, at, tally, got, hookOn, reran, unsure, faults>>

\* A database statement throws outside the inner try: on to the next seller.
SellerFails(i) ==
  /\ Fault
  /\ \/ /\ pc[i] = "next"
        /\ \E u \in todo[i] : todo' = [todo EXCEPT ![i] = @ \ {u}]
        /\ UNCHANGED pc
     \/ /\ pc[i] \in {"create", "fail"}
        /\ Goto(i, "next")
        /\ UNCHANGED todo
  /\ UNCHANGED <<saleVars, rowVars, pgVars, period, lock, fired, at, tally,
                 got, hookOn, reran, unsure>>

\* The process dies and leaves the lock to its time to live.
Crash(i) ==
  /\ pc[i] # "idle"
  /\ Goto(i, "idle")
  /\ Fault
  /\ UNCHANGED <<saleVars, rowVars, pgVars, period, lock, fired, todo, at,
                 tally, got, hookOn, reran, unsure>>

-----------------------------------------------------------------------------
(* Payple and its webhook (handlePayoutWebhook).                            *)

\* External: the bank transfers the money or does not.
Transfer(g) ==
  /\ stage[g] = "executing"
  /\ \E result \in {"paid", "bounced"} : stage' = [stage EXCEPT ![g] = result]
  /\ UNCHANGED <<saleVars, rowVars, transfer, acked, jobVars, hookOn, reran,
                 unsure, faults>>

\* findPayoutByGroupKey: a Pending row with the key, or 200 and nothing done.
\* Payple delivers until it is answered with 200, and may do so twice at once.
HookFind(h, g) ==
  /\ hookOn[h] = None
  /\ stage[g] \in {"paid", "bounced"}
  /\ g \notin acked
  /\ \/ /\ \E u \in Sellers, m \in Cycles :
             groupKey[u][m] = g /\ status[u][m] = "Pending"
        /\ hookOn' = [hookOn EXCEPT ![h] = g]
        /\ UNCHANGED acked
     \/ /\ \A u \in Sellers, m \in Cycles :
             groupKey[u][m] = g => status[u][m] # "Pending"
        /\ acked' = acked \cup {g}
        /\ UNCHANGED hookOn
  /\ UNCHANGED <<saleVars, rowVars, transfer, stage, jobVars, reran, unsure, faults>>

\* Mutant: the result of the webhook is not looked at.
HookUpdateBlind(h) ==
  LET g == hookOn[h] IN
  /\ g # None
  /\ hookOn' = [hookOn EXCEPT ![h] = None]
  /\ status' = [u \in Sellers |-> [m \in Cycles |->
                  IF groupKey[u][m] = g THEN "Succeed" ELSE status[u][m]]]
  /\ acked' = acked \cup {g}
  /\ UNCHANGED <<saleVars, counted, deducted, net, groupKey, transfer, stage,
                 jobVars, reran, unsure, faults>>

\* markSucceeded or markFailed by payout_id, whatever the row says by now; or
\* the database throws, and 500 makes Payple deliver again.
HookUpdate(h) ==
  LET g == hookOn[h]
      verdict == IF stage[g] = "paid" THEN "Succeed" ELSE "Failed"
  IN /\ g # None
     /\ hookOn' = [hookOn EXCEPT ![h] = None]
     /\ \/ /\ status' = [u \in Sellers |-> [m \in Cycles |->
                           IF groupKey[u][m] = g THEN verdict ELSE status[u][m]]]
           /\ acked' = acked \cup {g}
           /\ UNCHANGED faults
        \/ /\ Fault
           /\ UNCHANGED <<status, acked>>
     /\ UNCHANGED <<saleVars, counted, deducted, net, groupKey, transfer, stage,
                    jobVars, reran, unsure>>

-----------------------------------------------------------------------------

JobStep(i) ==
  \/ Fire(i) \/ Finish(i) \/ Aggregate(i) \/ CreateRow(i) \/ Standby(i)
  \/ StoreKey(i) \/ Execute(i) \/ MarkFailed(i)

Next ==
  \/ \E s \in Sales : SettleSale(s) \/ RefundSale(s)
  \/ \E u \in Sellers : SetEligible(u)
  \/ NextPeriod \/ LockExpires
  \/ \E i \in Instances : JobStep(i) \/ SellerFails(i) \/ Crash(i)
  \/ \E g \in Groups : Transfer(g)
  \/ \E h \in Hooks : HookUpdate(h) \/ \E g \in Groups : HookFind(h, g)

Spec == Init /\ [][Next]_vars

-----------------------------------------------------------------------------
(* Properties. *)

\* A closed payout tells what happened to the money.  Succeed always does.
\* Failed does so unless the execution was not answered, or the cycle was
\* worked on twice: then the job's own verdict is unfounded, and it is final.
StatusTellsTruth ==
  \A u \in Sellers, m \in Cycles :
    LET g == groupKey[u][m] IN
    /\ status[u][m] = "Succeed" =>
         /\ g # None
         /\ stage[g] = "paid"
         /\ <<transfer[g].seller, transfer[g].cycle>> = <<u, m>>
    /\ status[u][m] = "Failed" /\ u \notin reran /\ g # None /\ g \notin unsure =>
         stage[g] \notin {"executing", "paid"}

\* A sale enters the earnings of at most one cycle, and the deductions of at
\* most one, however often the sync and the jobs run.
NoSaleTwice ==
  \A u \in Sellers : \A m, n \in Cycles : m # n =>
    /\ counted[u][m] \cap counted[u][n] = {}
    /\ deducted[u][m] \cap deducted[u][n] = {}

Booked == {r \in Sellers \X Cycles : HasRow(r[1], r[2])}

Payment(g) == [key |-> g, seller |-> transfer[g].seller,
               cycle |-> transfer[g].cycle, amount |-> transfer[g].amount]

Payments == {Payment(g) : g \in {x \in Groups : stage[x] = "paid"}}

\* Paid once per seller and cycle, after its end, and never an amount under
\* the minimum or above all sales.
Ledger == INSTANCE PayoutLedger WITH
            Keys    <- Groups,
            Amounts <- MinPayout..Total[Sales],
            now     <- period,
            booked  <- Booked,
            paid    <- Payments

PayoutLedgerSpec == Ledger!Spec

\* No seller gets more than the books give him: what was transferred, less
\* the debt that is carried over, is covered by what his rows earned, less
\* what they deducted, unless one of his cycles was worked on twice.
AmountOf == [g \in Groups |-> IF transfer[g] = None THEN 0 ELSE transfer[g].amount]

Paid(u) ==
  SumFunctionOnSet(AmountOf, {g \in Groups : stage[g] = "paid" /\ transfer[g].seller = u})

InRows(u, field) == UNION {field[u][m] : m \in Cycles}

NeverOverpaid ==
  \A u \in Sellers \ reran :
    Paid(u) - CarryOver(u) <= Total[InRows(u, counted)] - Total[InRows(u, deducted)]

\* A row that is Skipped, for too small an amount or a debt, is not paid out.
SkippedIsNotPaid ==
  \A g \in Groups : stage[g] = "paid" =>
    status[transfer[g].seller][transfer[g].cycle] # "Skipped"

\* What a skipped row did not pay is in the next row's amount.
SkippedIsCarriedOver ==
  \A u \in Sellers : \A n, m \in Cycles :
    /\ n < m /\ HasRow(u, m) /\ status[u][n] = "Skipped"
    /\ \A x \in (n + 1)..(m - 1) : ~HasRow(u, x)
    => net[u][m] = Total[counted[u][m]] - Total[deducted[u][m]] + net[u][n]
=============================================================================
