---------------------------- MODULE PayoutProofs ----------------------------
(***************************************************************************)
(* Proofs about PayoutCycle for every number of sellers, sales, instances, *)
(* webhooks, months and faults, and whatever the sales are worth.          *)
(***************************************************************************)
EXTENDS PayoutCycle, DataTheorems

\* Whoever is at work holds the lock, in a month that has a month before it,
\* and has a seller and, once Payple has answered, a group.
JobInv ==
  \A i \in Instances :
    /\ pc[i] # "idle" => lock = i /\ period > 1
    /\ pc[i] \notin {"idle", "next"} => at[i] \in Sellers
    /\ pc[i] \in {"key", "execute"} => got[i] \in Groups

TypeInv == TypeOK /\ JobInv

-----------------------------------------------------------------------------
(* Sums. *)

\* A part of the sales is worth between nothing and all of them.
LEMMA TotalBounds ==
  ASSUME NEW S \in SUBSET Sales
  PROVE  Total[S] \in Nat /\ Total[S] <= Total[Sales]
<1>1. S \cap (Sales \ S) = {} /\ S \cup (Sales \ S) = Sales
  OBVIOUS
<1>2. Total[Sales] = Total[S] + Total[Sales \ S]
  BY <1>1, TotalAssumption
<1>3. Total[S] \in Nat /\ Total[Sales \ S] \in Nat /\ Total[Sales] \in Nat
  BY TotalAssumption
<1> QED
  BY <1>2, <1>3

\* A seller has one last row, and what is carried over from it is a debt.
LEMMA CarryOverNat ==
  ASSUME TypeOK, NEW u \in Sellers
  PROVE  CarryOver(u) \in Nat
<1>1. \A m, n \in Cycles : IsLastRow(u, m) /\ IsLastRow(u, n) => m = n
  BY BoundAssumption DEF IsLastRow, Cycles
<1>2. CASE \E m \in Cycles : IsLastRow(u, m) /\ net[u][m] < 0
  <2>1. PICK m \in Cycles : IsLastRow(u, m) /\ net[u][m] < 0
    BY <1>2
  <2>2. (CHOOSE n \in Cycles : IsLastRow(u, n)) = m
    BY <2>1, <1>1
  <2>3. CarryOver(u) = - net[u][m]
    BY <1>2, <2>2 DEF CarryOver
  <2>4. net[u][m] \in Int
    BY DEF TypeOK, RowTypes
  <2> QED
    BY <2>1, <2>3, <2>4
<1>3. CASE ~\E m \in Cycles : IsLastRow(u, m) /\ net[u][m] < 0
  BY <1>3 DEF CarryOver
<1> QED
  BY <1>2, <1>3

\* What processOneSeller computes is an integer, and never above all sales.
LEMMA NetBound ==
  ASSUME TypeOK, NEW u \in Sellers, NEW S \in SUBSET Sales, NEW T \in SUBSET Sales
  PROVE  /\ Total[S] - Total[T] - CarryOver(u) \in Int
         /\ Total[S] - Total[T] - CarryOver(u) <= Total[Sales]
<1>1. Total[S] \in Nat /\ Total[S] <= Total[Sales] /\ Total[T] \in Nat
  BY TotalBounds
<1>2. Total[Sales] \in Nat /\ CarryOver(u) \in Nat
  BY TotalBounds, CarryOverNat
<1> QED
  BY <1>1, <1>2

LEMMA TallyType ==
  ASSUME TypeOK, NEW u \in Sellers
  PROVE  TallyOf(u) \in Tallies /\ TallyOf(u).net <= Total[Sales]
<1>1. ChangedTo(u, "Succeed") \in SUBSET Sales /\ ChangedTo(u, "Refunded") \in SUBSET Sales
  BY DEF ChangedTo
<1> QED
  BY <1>1, NetBound DEF TallyOf, Tallies

\* The seller whose turn it is, and what is read of him.
LEMMA AggregateSeller ==
  ASSUME NEW i \in Instances, Aggregate(i)
  PROVE  \E u \in todo[i] :
           /\ at' = [at EXCEPT ![i] = u]
           /\ todo' = [todo EXCEPT ![i] = todo[i] \ {u}]
           /\ tally' = [tally EXCEPT ![i] = TallyOf(u)]
BY DEF Aggregate

LEMMA CycleType ==
  ASSUME TypeOK, period > 1
  PROVE  Cycle \in Cycles
BY BoundAssumption DEF TypeOK, JobTypes, Periods, Cycles, Cycle

-----------------------------------------------------------------------------
(* Types. *)

\* Every variable stays in its type: sales, rows, Payple, jobs, and the rest.
LEMMA SaleTypesStep == TypeInv /\ [Next]_vars => SaleTypes'
<1> SUFFICES ASSUME TypeInv, [Next]_vars PROVE SaleTypes'
  OBVIOUS
<1> USE DEF SaleTypes
<1>1. CASE UNCHANGED <<settlement, changedIn, eligible>>
  BY <1>1 DEF TypeInv, TypeOK
<1>2. ASSUME NEW s \in Sales, SettleSale(s) PROVE SaleTypes'
  BY <1>2 DEF SettleSale, Goto, Fault, TypeInv, TypeOK, JobTypes
<1>3. ASSUME NEW s \in Sales, RefundSale(s) PROVE SaleTypes'
  BY <1>3 DEF RefundSale, Goto, Fault, TypeInv, TypeOK, JobTypes
<1>4. ASSUME NEW u \in Sellers, SetEligible(u) PROVE SaleTypes'
  BY <1>4 DEF SetEligible, Goto, Fault, TypeInv, TypeOK, JobTypes
<1> QED
  BY <1>1, <1>2, <1>3, <1>4 DEF Next, JobStep, vars, saleVars, rowVars, pgVars, jobVars,
     NextPeriod, LockExpires, Fire, Finish, Aggregate, CreateRow, Standby, StoreKey, Execute,
     MarkFailed, SellerFails, Crash, Transfer, HookFind, HookUpdate

LEMMA RowTypesStep == TypeInv /\ [Next]_vars => RowTypes'
<1> SUFFICES ASSUME TypeInv, [Next]_vars PROVE RowTypes'
  OBVIOUS
<1> USE DEF RowTypes
<1>1. CASE UNCHANGED <<status, counted, deducted, net, groupKey>>
  BY <1>1 DEF TypeInv, TypeOK
<1>2. ASSUME NEW i \in Instances, CreateRow(i) PROVE RowTypes'
  <2>1. Cycle \in Cycles /\ at[i] \in Sellers
    BY <1>2, CycleType DEF CreateRow, TypeInv, JobInv
  <2>2. /\ tally[i].counted \in SUBSET Sales /\ tally[i].deducted \in SUBSET Sales
        /\ tally[i].net \in Int
    BY DEF Tallies, TypeInv, TypeOK, JobTypes
  <2>3. CASE UNCHANGED <<status, counted, deducted, net>>
    BY <1>2, <2>3 DEF CreateRow, TypeInv, TypeOK
  <2>4. CASE ~UNCHANGED <<status, counted, deducted, net>>
    <3>1. PICK st \in {"Skipped", "Pending"} :
            /\ status' = [status EXCEPT ![at[i]][Cycle] = st]
            /\ counted' = [counted EXCEPT ![at[i]][Cycle] = tally[i].counted]
            /\ deducted' = [deducted EXCEPT ![at[i]][Cycle] = tally[i].deducted]
            /\ net' = [net EXCEPT ![at[i]][Cycle] = tally[i].net]
            /\ UNCHANGED groupKey
      BY <1>2, <2>4 DEF CreateRow
    <3> QED
      BY <2>1, <2>2, <3>1 DEF TypeInv, TypeOK
  <2> QED
    BY <2>3, <2>4
<1>3. ASSUME NEW i \in Instances, StoreKey(i) PROVE RowTypes'
  <2>1. Cycle \in Cycles /\ at[i] \in Sellers /\ got[i] \in Groups
    BY <1>3, CycleType DEF StoreKey, TypeInv, JobInv
  <2>2. UNCHANGED <<status, counted, deducted, net>>
    BY <1>3 DEF StoreKey
  <2>3. CASE groupKey' = [groupKey EXCEPT ![at[i]][Cycle] = got[i]]
    BY <2>1, <2>2, <2>3 DEF TypeInv, TypeOK
  <2>4. CASE UNCHANGED groupKey
    BY <2>2, <2>4 DEF TypeInv, TypeOK
  <2> QED
    BY <1>3, <2>3, <2>4 DEF StoreKey
<1>4. ASSUME NEW i \in Instances, MarkFailed(i) PROVE RowTypes'
  <2>1. Cycle \in Cycles /\ at[i] \in Sellers
    BY <1>4, CycleType DEF MarkFailed, TypeInv, JobInv
  <2> QED
    BY <1>4, <2>1 DEF MarkFailed, TypeInv, TypeOK
<1>5. ASSUME NEW h \in Hooks, HookUpdate(h) PROVE RowTypes'
  <2>1. UNCHANGED <<counted, deducted, net, groupKey>>
    BY <1>5 DEF HookUpdate
  <2>2. CASE UNCHANGED status
    BY <2>1, <2>2 DEF TypeInv, TypeOK
  <2>3. CASE ~UNCHANGED status
    <3>1. PICK verdict \in {"Succeed", "Failed"} :
            status' = [u \in Sellers |-> [m \in Cycles |->
                         IF groupKey[u][m] = hookOn[h] THEN verdict ELSE status[u][m]]]
      BY <1>5, <2>3 DEF HookUpdate
    <3>2. \A u \in Sellers, m \in Cycles :
            status[u][m] \in {"none", "Pending", "Succeed", "Failed", "Skipped"}
      BY DEF TypeInv, TypeOK
    <3>3. status' \in [Sellers -> [Cycles -> {"none", "Pending", "Succeed", "Failed", "Skipped"}]]
      BY <3>1, <3>2
    <3> QED
      BY <2>1, <3>3 DEF TypeInv, TypeOK
  <2> QED
    BY <2>2, <2>3
<1> QED
  BY <1>1, <1>2, <1>3, <1>4, <1>5 DEF Next, JobStep, vars, saleVars, rowVars, pgVars, jobVars,
     SettleSale, RefundSale, SetEligible, NextPeriod, LockExpires, Fire, Finish, Aggregate,
     Standby, Execute, SellerFails, Crash, Transfer, HookFind

LEMMA PayTypesStep == TypeInv /\ [Next]_vars => PayTypes'
<1> SUFFICES ASSUME TypeInv, [Next]_vars PROVE PayTypes'
  OBVIOUS
<1> USE DEF PayTypes
<1>1. CASE UNCHANGED <<transfer, stage, acked, hookOn>>
  BY <1>1 DEF TypeInv, TypeOK
<1>2. ASSUME NEW i \in Instances, Standby(i) PROVE PayTypes'
  <2>1. Cycle \in Cycles /\ at[i] \in Sellers
    BY <1>2, CycleType DEF Standby, TypeInv, JobInv
  <2>2. tally[i].net \in Int
    BY DEF Tallies, TypeInv, TypeOK, JobTypes
  <2> DEFINE t == [seller |-> at[i], cycle |-> Cycle, amount |-> tally[i].net]
  <2>3. t \in Transfers
    BY <2>1, <2>2 DEF Transfers
  <2> HIDE DEF t
  <2>4. UNCHANGED <<acked, hookOn>>
    BY <1>2 DEF Standby
  <2>5. CASE UNCHANGED <<transfer, stage>>
    BY <2>4, <2>5 DEF TypeInv, TypeOK
  <2>6. ASSUME NEW g \in Groups,
               transfer' = [transfer EXCEPT ![g] = t],
               stage' = [stage EXCEPT ![g] = "waiting"]
        PROVE  PayTypes'
    BY <2>3, <2>4, <2>6 DEF TypeInv, TypeOK
  <2> QED
    BY <1>2, <2>5, <2>6 DEF Standby, t
<1>3. ASSUME NEW i \in Instances, Execute(i) PROVE PayTypes'
  <2>1. got[i] \in Groups
    BY <1>3 DEF Execute, TypeInv, JobInv
  <2>2. UNCHANGED <<transfer, acked, hookOn>>
    BY <1>3 DEF Execute
  <2>3. stage' = [stage EXCEPT ![got[i]] = "executing"] \/ UNCHANGED stage
    BY <1>3 DEF Execute
  <2> QED
    BY <2>1, <2>2, <2>3 DEF TypeInv, TypeOK
<1>4. ASSUME NEW g \in Groups, Transfer(g) PROVE PayTypes'
  BY <1>4 DEF Transfer, Goto, Fault, TypeInv, TypeOK
<1>5. ASSUME NEW h \in Hooks, NEW g \in Groups, HookFind(h, g) PROVE PayTypes'
  BY <1>5 DEF HookFind, Goto, Fault, TypeInv, TypeOK
<1>6. ASSUME NEW h \in Hooks, HookUpdate(h) PROVE PayTypes'
  BY <1>6 DEF HookUpdate, Goto, Fault, TypeInv, TypeOK
<1> QED
  BY <1>1, <1>2, <1>3, <1>4, <1>5, <1>6 DEF Next, JobStep, vars, saleVars, rowVars, pgVars,
     jobVars, SettleSale, RefundSale, SetEligible, NextPeriod, LockExpires, Fire, Finish, Aggregate,
     CreateRow, StoreKey, MarkFailed, SellerFails, Crash

LEMMA JobTypesStep == TypeInv /\ [Next]_vars => JobTypes'
<1> SUFFICES ASSUME TypeInv, [Next]_vars PROVE JobTypes'
  OBVIOUS
<1> USE DEF JobTypes
<1>1. CASE UNCHANGED <<period, lock, fired, pc, todo, at, tally, got>>
  BY <1>1 DEF TypeInv, TypeOK
<1>2. ASSUME NextPeriod \/ LockExpires PROVE JobTypes'
  BY <1>2, BoundAssumption DEF NextPeriod, LockExpires, TypeInv, TypeOK, Periods
<1>3. ASSUME NEW i \in Instances, Fire(i) PROVE JobTypes'
  BY <1>3 DEF Fire, Goto, TypeInv, TypeOK, SaleTypes
<1>4. ASSUME NEW i \in Instances, Finish(i) PROVE JobTypes'
  BY <1>4 DEF Finish, Goto, TypeInv, TypeOK
<1>5. ASSUME NEW i \in Instances, Aggregate(i) PROVE JobTypes'
  <2>1. PICK u \in todo[i] :
          /\ at' = [at EXCEPT ![i] = u]
          /\ todo' = [todo EXCEPT ![i] = todo[i] \ {u}]
          /\ tally' = [tally EXCEPT ![i] = TallyOf(u)]
    BY <1>5, AggregateSeller
  <2>2. u \in Sellers
    BY DEF TypeInv, TypeOK
  <2>3. TallyOf(u) \in Tallies
    BY <2>2, TallyType DEF TypeInv
  <2>4. tally' \in [Instances -> Tallies]
    BY <2>1, <2>3 DEF TypeInv, TypeOK
  <2>5. /\ pc' = [pc EXCEPT ![i] = "create"]
        /\ UNCHANGED <<period, lock, fired, got>>
    BY <1>5 DEF Aggregate, Goto
  <2>6. todo[i] \ {u} \in SUBSET Sellers /\ todo \in [Instances -> SUBSET Sellers]
    BY DEF TypeInv, TypeOK
  <2>7. todo' \in [Instances -> SUBSET Sellers]
    BY <2>1, <2>6
  <2>8. at' \in [Instances -> Sellers \cup {None}]
    BY <2>1, <2>2 DEF TypeInv, TypeOK
  <2> QED
    BY <2>4, <2>5, <2>7, <2>8 DEF TypeInv, TypeOK
<1>6. ASSUME NEW i \in Instances, CreateRow(i) PROVE JobTypes'
  BY <1>6 DEF CreateRow, Goto, TypeInv, TypeOK
<1>7. ASSUME NEW i \in Instances, Standby(i) PROVE JobTypes'
  <2>1. UNCHANGED <<period, lock, fired, todo, at, tally>>
    BY <1>7 DEF Standby
  <2>2. pc' = [pc EXCEPT ![i] = "key"] \/ pc' = [pc EXCEPT ![i] = "fail"]
    BY <1>7 DEF Standby, Goto
  <2>3. UNCHANGED got \/ \E g \in Groups : got' = [got EXCEPT ![i] = g]
    BY <1>7 DEF Standby
  <2> QED
    BY <2>1, <2>2, <2>3 DEF TypeInv, TypeOK
<1>8. ASSUME NEW i \in Instances, StoreKey(i) PROVE JobTypes'
  BY <1>8 DEF StoreKey, Goto, TypeInv, TypeOK
<1>9. ASSUME NEW i \in Instances, Execute(i) PROVE JobTypes'
  BY <1>9 DEF Execute, Goto, TypeInv, TypeOK
<1>10. ASSUME NEW i \in Instances, MarkFailed(i) PROVE JobTypes'
  BY <1>10 DEF MarkFailed, Goto, TypeInv, TypeOK
<1>11. ASSUME NEW i \in Instances, SellerFails(i) PROVE JobTypes'
  BY <1>11 DEF SellerFails, Goto, TypeInv, TypeOK
<1>12. ASSUME NEW i \in Instances, Crash(i) PROVE JobTypes'
  BY <1>12 DEF Crash, Goto, TypeInv, TypeOK
<1> QED
  BY <1>1, <1>2, <1>3, <1>4, <1>5, <1>6, <1>7, <1>8, <1>9, <1>10, <1>11, <1>12 DEF Next,
     JobStep, vars, saleVars, rowVars, pgVars, jobVars, SettleSale, RefundSale, SetEligible,
     LockExpires, Transfer, HookFind, HookUpdate

LEMMA GhostTypesStep == TypeInv /\ [Next]_vars => GhostTypes'
<1> SUFFICES ASSUME TypeInv, [Next]_vars PROVE GhostTypes'
  OBVIOUS
<1> USE DEF GhostTypes
<1>1. CASE UNCHANGED <<reran, unsure, faults>>
  BY <1>1 DEF TypeInv, TypeOK
<1>2. ASSUME NEW i \in Instances, CreateRow(i) PROVE GhostTypes'
  BY <1>2, BoundAssumption DEF CreateRow, Fault, TypeInv, TypeOK, JobInv
<1>3. ASSUME NEW i \in Instances, Standby(i) PROVE GhostTypes'
  BY <1>3, BoundAssumption DEF Standby, Fault, TypeInv, TypeOK
<1>4. ASSUME NEW i \in Instances, StoreKey(i) PROVE GhostTypes'
  BY <1>4, BoundAssumption DEF StoreKey, Fault, TypeInv, TypeOK
<1>5. ASSUME NEW i \in Instances, Execute(i) PROVE GhostTypes'
  BY <1>5, BoundAssumption DEF Execute, Fault, TypeInv, TypeOK, JobInv
<1>6. ASSUME NEW i \in Instances, SellerFails(i) PROVE GhostTypes'
  BY <1>6, BoundAssumption DEF SellerFails, Fault, TypeInv, TypeOK
<1>7. ASSUME NEW i \in Instances, Crash(i) PROVE GhostTypes'
  BY <1>7, BoundAssumption DEF Crash, Fault, TypeInv, TypeOK
<1>8. ASSUME NEW h \in Hooks, HookUpdate(h) PROVE GhostTypes'
  BY <1>8, BoundAssumption DEF HookUpdate, Fault, TypeInv, TypeOK
<1> QED
  BY <1>1, <1>2, <1>3, <1>4, <1>5, <1>6, <1>7, <1>8 DEF Next, JobStep, vars, saleVars, rowVars,
     pgVars, jobVars, SettleSale, RefundSale, SetEligible, NextPeriod, LockExpires, Fire,
     Finish, Aggregate, MarkFailed, Transfer, HookFind


\* Only the holder of the lock works, and it has what its next call needs.
LEMMA JobStepInv == TypeInv /\ [Next]_vars => JobInv'
<1> SUFFICES ASSUME TypeInv, [Next]_vars PROVE JobInv'
  OBVIOUS
<1> USE NoneAssumption DEF TypeInv, JobInv
<1>1. CASE UNCHANGED <<pc, lock, period, at, got>>
  BY <1>1 DEF TypeInv, TypeOK
<1>2. ASSUME NextPeriod \/ LockExpires PROVE JobInv'
  BY <1>2, BoundAssumption DEF NextPeriod, LockExpires, TypeOK, JobTypes, Periods
<1>3. ASSUME NEW i \in Instances, Fire(i) PROVE JobInv'
  <2>1. period > 1
    BY <1>3 DEF Fire, TypeOK, JobTypes, Periods
  <2>2. UNCHANGED <<period, at, got>>
    BY <1>3 DEF Fire
  <2>3. CASE lock = None
    BY <1>3, <2>1, <2>2, <2>3 DEF Fire, Goto, TypeOK, JobTypes
  <2>4. CASE lock # None
    BY <1>3, <2>2, <2>4 DEF Fire
  <2> QED
    BY <2>3, <2>4
<1>4. ASSUME NEW i \in Instances, Finish(i) PROVE JobInv'
  BY <1>4 DEF Finish, Goto, TypeOK, JobTypes
<1>5. ASSUME NEW i \in Instances, Aggregate(i) PROVE JobInv'
  <2>1. PICK u \in Sellers : at' = [at EXCEPT ![i] = u]
    BY <1>5 DEF Aggregate, TypeOK, JobTypes
  <2>2. pc[i] = "next" /\ pc' = [pc EXCEPT ![i] = "create"] /\ UNCHANGED <<lock, period, got>>
    BY <1>5 DEF Aggregate, Goto
  <2> QED
    BY <2>1, <2>2 DEF TypeOK, JobTypes
<1>6. ASSUME NEW i \in Instances, CreateRow(i) PROVE JobInv'
  BY <1>6 DEF CreateRow, Goto, TypeOK, JobTypes
<1>7. ASSUME NEW i \in Instances, Standby(i) PROVE JobInv'
  BY <1>7 DEF Standby, Goto, TypeOK, JobTypes
<1>8. ASSUME NEW i \in Instances, StoreKey(i) PROVE JobInv'
  BY <1>8 DEF StoreKey, Goto, TypeOK, JobTypes
<1>9. ASSUME NEW i \in Instances, Execute(i) PROVE JobInv'
  BY <1>9 DEF Execute, Goto, TypeOK, JobTypes
<1>10. ASSUME NEW i \in Instances, MarkFailed(i) PROVE JobInv'
  BY <1>10 DEF MarkFailed, Goto, TypeOK, JobTypes
<1>11. ASSUME NEW i \in Instances, SellerFails(i) PROVE JobInv'
  BY <1>11 DEF SellerFails, Goto, TypeOK, JobTypes
<1>12. ASSUME NEW i \in Instances, Crash(i) PROVE JobInv'
  BY <1>12 DEF Crash, Goto, TypeOK, JobTypes
<1> QED
  BY <1>1, <1>2, <1>3, <1>4, <1>5, <1>6, <1>7, <1>8, <1>9, <1>10, <1>11, <1>12 DEF Next,
     JobStep, vars, saleVars, rowVars, pgVars, jobVars, SettleSale, RefundSale, SetEligible,
     LockExpires, Transfer, HookFind, HookUpdate

LEMMA TypeStep == TypeInv /\ [Next]_vars => TypeInv'
BY SaleTypesStep, RowTypesStep, PayTypesStep, JobTypesStep, GhostTypesStep, JobStepInv
   DEF TypeInv, TypeOK

LEMMA InitTypes == Init => TypeInv
BY BoundAssumption, NoneAssumption, TotalAssumption
   DEF Init, TypeInv, TypeOK, SaleTypes, RowTypes, PayTypes, JobTypes, GhostTypes,
       JobInv, PerCycle, NoTally, Tallies, Periods

\* The variables never leave their types, whatever the constants.
THEOREM TypeCorrect == Spec => []TypeOK
<1>1. Init => TypeInv
  BY InitTypes
<1>2. TypeInv => TypeOK
  BY DEF TypeInv
<1> QED
  BY <1>1, <1>2, TypeStep, PTL DEF Spec

-----------------------------------------------------------------------------
(* A sale counts once.  What a row counted is tied to it by the month of   *)
(* the sale's last change for as long as the sale is not refunded, and     *)
(* what it deducted for good.  What a job has read is tied in the same     *)
(* way, but the sale may be refunded before the row is written: FreshInv   *)
(* remembers that no other row had counted it.                             *)

CountInv ==
  \A s \in Sales, u \in Sellers, m \in Cycles : s \in counted[u][m] =>
    /\ settlement[s] # "Pending"
    /\ settlement[s] = "Succeed" => changedIn[s] = m

DeductInv ==
  \A s \in Sales, u \in Sellers, m \in Cycles : s \in deducted[u][m] =>
    settlement[s] = "Refunded" /\ changedIn[s] = m

ReadInv ==
  \A i \in Instances, s \in Sales : pc[i] = "create" =>
    /\ s \in tally[i].counted =>
         /\ settlement[s] # "Pending"
         /\ settlement[s] = "Succeed" => changedIn[s] = Cycle
    /\ s \in tally[i].deducted =>
         settlement[s] = "Refunded" /\ changedIn[s] = Cycle

FreshInv ==
  \A i \in Instances, s \in Sales, u \in Sellers, m \in Cycles :
    pc[i] = "create" /\ s \in tally[i].counted /\ s \in counted[u][m] => m = Cycle

OnceInv ==
  \A s \in Sales, u \in Sellers, m, n \in Cycles :
    s \in counted[u][m] /\ s \in counted[u][n] => m = n

SaleInv == TypeInv /\ CountInv /\ DeductInv /\ ReadInv /\ FreshInv /\ OnceInv

\* A row's sums change only when it is made, and then to what was read.
LEMMA CreateRowSums ==
  ASSUME TypeInv, NEW i \in Instances, CreateRow(i)
  PROVE  /\ at[i] \in Sellers /\ Cycle \in Cycles
         /\ pc[i] = "create"
         /\ \E step \in {"next", "standby"} : pc' = [pc EXCEPT ![i] = step]
         /\ UNCHANGED <<settlement, changedIn, period, lock, tally>>
         /\ \A u \in Sellers, m \in Cycles :
              \/ counted'[u][m] = counted[u][m]
              \/ u = at[i] /\ m = Cycle /\ counted'[u][m] = tally[i].counted
         /\ \A u \in Sellers, m \in Cycles :
              \/ deducted'[u][m] = deducted[u][m]
              \/ u = at[i] /\ m = Cycle /\ deducted'[u][m] = tally[i].deducted
<1>1. at[i] \in Sellers /\ Cycle \in Cycles /\ pc[i] = "create"
  BY CycleType DEF CreateRow, TypeInv, JobInv
<1>2. counted \in [Sellers -> [Cycles -> SUBSET Sales]]
  BY DEF TypeInv, TypeOK, RowTypes
<1>3. deducted \in [Sellers -> [Cycles -> SUBSET Sales]]
  BY DEF TypeInv, TypeOK, RowTypes
<1>4. \/ counted' = [counted EXCEPT ![at[i]][Cycle] = tally[i].counted]
      \/ counted' = counted
  BY DEF CreateRow
<1>5. \/ deducted' = [deducted EXCEPT ![at[i]][Cycle] = tally[i].deducted]
      \/ deducted' = deducted
  BY DEF CreateRow
<1>6. /\ \E step \in {"next", "standby"} : pc' = [pc EXCEPT ![i] = step]
      /\ UNCHANGED <<settlement, changedIn, period, lock, tally>>
  BY DEF CreateRow, Goto, saleVars
<1>7. \A u \in Sellers, m \in Cycles :
        \/ counted'[u][m] = counted[u][m]
        \/ u = at[i] /\ m = Cycle /\ counted'[u][m] = tally[i].counted
  BY <1>1, <1>2, <1>4
<1>8. \A u \in Sellers, m \in Cycles :
        \/ deducted'[u][m] = deducted[u][m]
        \/ u = at[i] /\ m = Cycle /\ deducted'[u][m] = tally[i].deducted
  BY <1>1, <1>3, <1>5
<1> QED
  BY <1>1, <1>6, <1>7, <1>8

\* Of the instances at work there is one, for it holds the lock.
LEMMA OneWorker ==
  ASSUME TypeInv, NEW i \in Instances, NEW j \in Instances,
         pc[i] # "idle", pc[j] # "idle"
  PROVE  i = j
BY DEF TypeInv, JobInv

\* SettleSale moves Pending sales only, and no row has counted one.
LEMMA CountStep == SaleInv /\ [Next]_vars => CountInv'
<1> SUFFICES ASSUME SaleInv, [Next]_vars PROVE CountInv'
  OBVIOUS
<1> USE DEF SaleInv, CountInv
<1>1. CASE UNCHANGED <<settlement, changedIn, counted>>
  BY <1>1
<1>2. ASSUME NEW s \in Sales, SettleSale(s) PROVE CountInv'
  BY <1>2 DEF SettleSale, TypeInv, TypeOK, SaleTypes, rowVars
<1>3. ASSUME NEW s \in Sales, RefundSale(s) PROVE CountInv'
  BY <1>3 DEF RefundSale, TypeInv, TypeOK, SaleTypes, rowVars
<1>4. ASSUME NEW i \in Instances, CreateRow(i) PROVE CountInv'
  BY <1>4, CreateRowSums DEF ReadInv
<1> QED
  BY <1>1, <1>2, <1>3, <1>4 DEF Next, JobStep, vars, saleVars, rowVars, pgVars, jobVars,
     SetEligible, NextPeriod, LockExpires, Fire, Finish, Aggregate, Standby, StoreKey, Execute,
     MarkFailed, SellerFails, Crash, Transfer, HookFind, HookUpdate

\* A sale that was deducted is never written again.
LEMMA DeductStep == SaleInv /\ [Next]_vars => DeductInv'
<1> SUFFICES ASSUME SaleInv, [Next]_vars PROVE DeductInv'
  OBVIOUS
<1> USE DEF SaleInv, DeductInv
<1>1. CASE UNCHANGED <<settlement, changedIn, deducted>>
  BY <1>1
<1>2. ASSUME NEW s \in Sales, SettleSale(s) PROVE DeductInv'
  BY <1>2 DEF SettleSale, TypeInv, TypeOK, SaleTypes, rowVars
<1>3. ASSUME NEW s \in Sales, RefundSale(s) PROVE DeductInv'
  BY <1>3 DEF RefundSale, TypeInv, TypeOK, SaleTypes, rowVars
<1>4. ASSUME NEW i \in Instances, CreateRow(i) PROVE DeductInv'
  BY <1>4, CreateRowSums DEF ReadInv
<1> QED
  BY <1>1, <1>2, <1>3, <1>4 DEF Next, JobStep, vars, saleVars, rowVars, pgVars, jobVars,
     SetEligible, NextPeriod, LockExpires, Fire, Finish, Aggregate, Standby, StoreKey, Execute,
     MarkFailed, SellerFails, Crash, Transfer, HookFind, HookUpdate

\* The same for what the job at work has read.
LEMMA ReadStep == SaleInv /\ [Next]_vars => ReadInv'
<1> SUFFICES ASSUME SaleInv, [Next]_vars PROVE ReadInv'
  OBVIOUS
<1> USE DEF SaleInv, ReadInv
<1>1. CASE UNCHANGED <<settlement, changedIn, period, pc, tally>>
  BY <1>1 DEF Cycle
<1>2. ASSUME NEW s \in Sales, SettleSale(s) PROVE ReadInv'
  <2>1. UNCHANGED <<pc, tally, Cycle>>
    BY <1>2 DEF SettleSale, jobVars, Cycle
  <2> QED
    BY <1>2, <2>1 DEF SettleSale, TypeInv, TypeOK, SaleTypes
<1>3. ASSUME NEW s \in Sales, RefundSale(s) PROVE ReadInv'
  <2>1. UNCHANGED <<pc, tally, Cycle>>
    BY <1>3 DEF RefundSale, jobVars, Cycle
  <2> QED
    BY <1>3, <2>1 DEF RefundSale, TypeInv, TypeOK, SaleTypes
<1>4. ASSUME NextPeriod PROVE ReadInv'
  BY <1>4 DEF NextPeriod
<1>5. ASSUME NEW i \in Instances, Fire(i) PROVE ReadInv'
  <2>1. /\ \A j \in Instances : pc'[j] = "create" => pc[j] = "create"
        /\ UNCHANGED <<settlement, changedIn, tally, Cycle>>
    BY <1>5 DEF Fire, Goto, saleVars, Cycle, TypeInv, TypeOK, JobTypes
  <2> QED
    BY <2>1
<1>6. ASSUME NEW i \in Instances, Finish(i) PROVE ReadInv'
  <2>1. /\ \A j \in Instances : pc'[j] = "create" => pc[j] = "create"
        /\ UNCHANGED <<settlement, changedIn, tally, Cycle>>
    BY <1>6 DEF Finish, Goto, saleVars, Cycle, TypeInv, TypeOK, JobTypes
  <2> QED
    BY <2>1
<1>7. ASSUME NEW i \in Instances, Aggregate(i) PROVE ReadInv'
  <2>1. PICK u \in todo[i] : tally' = [tally EXCEPT ![i] = TallyOf(u)]
    BY <1>7, AggregateSeller
  <2>2. /\ pc[i] = "next" /\ pc' = [pc EXCEPT ![i] = "create"]
        /\ UNCHANGED <<settlement, changedIn, Cycle>>
    BY <1>7 DEF Aggregate, Goto, saleVars, Cycle
  <2>3. tally'[i] = TallyOf(u)
    BY <2>1 DEF TypeInv, TypeOK, JobTypes
  <2>4. \A j \in Instances : pc'[j] = "create" => j = i
    BY <2>2, OneWorker DEF TypeInv, TypeOK, JobTypes
  <2>5. \A s \in Sales :
          /\ s \in tally'[i].counted => settlement[s] = "Succeed" /\ changedIn[s] = Cycle
          /\ s \in tally'[i].deducted => settlement[s] = "Refunded" /\ changedIn[s] = Cycle
    BY <2>3 DEF TallyOf, ChangedTo
  <2> QED
    BY <2>2, <2>4, <2>5
<1>8. ASSUME NEW i \in Instances, CreateRow(i) PROVE ReadInv'
  <2>1. /\ \A j \in Instances : pc'[j] = "create" => pc[j] = "create"
        /\ UNCHANGED <<settlement, changedIn, tally, Cycle>>
    BY <1>8 DEF CreateRow, Goto, saleVars, Cycle, TypeInv, TypeOK, JobTypes
  <2> QED
    BY <2>1
<1>9. ASSUME NEW i \in Instances, Standby(i) PROVE ReadInv'
  <2>1. /\ \A j \in Instances : pc'[j] = "create" => pc[j] = "create"
        /\ UNCHANGED <<settlement, changedIn, tally, Cycle>>
    BY <1>9 DEF Standby, Goto, saleVars, Cycle, TypeInv, TypeOK, JobTypes
  <2> QED
    BY <2>1
<1>10. ASSUME NEW i \in Instances, StoreKey(i) PROVE ReadInv'
  <2>1. /\ \A j \in Instances : pc'[j] = "create" => pc[j] = "create"
        /\ UNCHANGED <<settlement, changedIn, tally, Cycle>>
    BY <1>10 DEF StoreKey, Goto, saleVars, Cycle, TypeInv, TypeOK, JobTypes
  <2> QED
    BY <2>1
<1>11. ASSUME NEW i \in Instances, Execute(i) PROVE ReadInv'
  <2>1. /\ \A j \in Instances : pc'[j] = "create" => pc[j] = "create"
        /\ UNCHANGED <<settlement, changedIn, tally, Cycle>>
    BY <1>11 DEF Execute, Goto, saleVars, Cycle, TypeInv, TypeOK, JobTypes
  <2> QED
    BY <2>1
<1>12. ASSUME NEW i \in Instances, MarkFailed(i) PROVE ReadInv'
  <2>1. /\ \A j \in Instances : pc'[j] = "create" => pc[j] = "create"
        /\ UNCHANGED <<settlement, changedIn, tally, Cycle>>
    BY <1>12 DEF MarkFailed, Goto, saleVars, Cycle, TypeInv, TypeOK, JobTypes
  <2> QED
    BY <2>1
<1>13. ASSUME NEW i \in Instances, SellerFails(i) PROVE ReadInv'
  <2>1. /\ \A j \in Instances : pc'[j] = "create" => pc[j] = "create"
        /\ UNCHANGED <<settlement, changedIn, tally, Cycle>>
    BY <1>13 DEF SellerFails, Goto, saleVars, Cycle, TypeInv, TypeOK, JobTypes
  <2> QED
    BY <2>1
<1>14. ASSUME NEW i \in Instances, Crash(i) PROVE ReadInv'
  <2>1. /\ \A j \in Instances : pc'[j] = "create" => pc[j] = "create"
        /\ UNCHANGED <<settlement, changedIn, tally, Cycle>>
    BY <1>14 DEF Crash, Goto, saleVars, Cycle, TypeInv, TypeOK, JobTypes
  <2> QED
    BY <2>1
<1> QED
  BY <1>1, <1>2, <1>3, <1>4, <1>5, <1>6, <1>7, <1>8, <1>9, <1>10, <1>11, <1>12, <1>13, <1>14 DEF
     Next, JobStep, vars, saleVars, rowVars, pgVars, jobVars, SetEligible, LockExpires,
     Transfer, HookFind, HookUpdate

\* A sale that is read as settled in the month was counted in no other.
LEMMA FreshStep == SaleInv /\ [Next]_vars => FreshInv'
<1> SUFFICES ASSUME SaleInv, [Next]_vars PROVE FreshInv'
  OBVIOUS
<1> USE DEF SaleInv, FreshInv
<1>1. CASE UNCHANGED <<period, pc, tally, counted>>
  BY <1>1 DEF Cycle
<1>2. ASSUME NextPeriod PROVE FreshInv'
  BY <1>2 DEF NextPeriod
<1>3. ASSUME NEW i \in Instances, Fire(i) PROVE FreshInv'
  <2>1. /\ \A j \in Instances : pc'[j] = "create" => pc[j] = "create"
        /\ UNCHANGED <<counted, tally, Cycle>>
    BY <1>3 DEF Fire, Goto, rowVars, Cycle, TypeInv, TypeOK, JobTypes
  <2> QED
    BY <2>1
<1>4. ASSUME NEW i \in Instances, Finish(i) PROVE FreshInv'
  <2>1. /\ \A j \in Instances : pc'[j] = "create" => pc[j] = "create"
        /\ UNCHANGED <<counted, tally, Cycle>>
    BY <1>4 DEF Finish, Goto, rowVars, Cycle, TypeInv, TypeOK, JobTypes
  <2> QED
    BY <2>1
<1>5. ASSUME NEW i \in Instances, Aggregate(i) PROVE FreshInv'
  <2>1. PICK u \in todo[i] : tally' = [tally EXCEPT ![i] = TallyOf(u)]
    BY <1>5, AggregateSeller
  <2>2. /\ pc[i] = "next" /\ pc' = [pc EXCEPT ![i] = "create"]
        /\ UNCHANGED <<counted, Cycle>>
    BY <1>5 DEF Aggregate, Goto, rowVars, Cycle
  <2>3. tally'[i] = TallyOf(u)
    BY <2>1 DEF TypeInv, TypeOK, JobTypes
  <2>4. \A j \in Instances : pc'[j] = "create" => j = i
    BY <2>2, OneWorker DEF TypeInv, TypeOK, JobTypes
  <2>5. \A s \in Sales : s \in tally'[i].counted =>
          settlement[s] = "Succeed" /\ changedIn[s] = Cycle
    BY <2>3 DEF TallyOf, ChangedTo
  <2> QED
    BY <2>2, <2>4, <2>5 DEF CountInv
<1>6. ASSUME NEW i \in Instances, CreateRow(i) PROVE FreshInv'
  <2>1. \A j \in Instances : pc'[j] # "create"
    BY <1>6, CreateRowSums, OneWorker DEF TypeInv, TypeOK, JobTypes
  <2> QED
    BY <2>1
<1>7. ASSUME NEW i \in Instances, Standby(i) PROVE FreshInv'
  <2>1. /\ \A j \in Instances : pc'[j] = "create" => pc[j] = "create"
        /\ UNCHANGED <<counted, tally, Cycle>>
    BY <1>7 DEF Standby, Goto, rowVars, Cycle, TypeInv, TypeOK, JobTypes
  <2> QED
    BY <2>1
<1>8. ASSUME NEW i \in Instances, StoreKey(i) PROVE FreshInv'
  <2>1. /\ \A j \in Instances : pc'[j] = "create" => pc[j] = "create"
        /\ UNCHANGED <<counted, tally, Cycle>>
    BY <1>8 DEF StoreKey, Goto, rowVars, Cycle, TypeInv, TypeOK, JobTypes
  <2> QED
    BY <2>1
<1>9. ASSUME NEW i \in Instances, Execute(i) PROVE FreshInv'
  <2>1. /\ \A j \in Instances : pc'[j] = "create" => pc[j] = "create"
        /\ UNCHANGED <<counted, tally, Cycle>>
    BY <1>9 DEF Execute, Goto, rowVars, Cycle, TypeInv, TypeOK, JobTypes
  <2> QED
    BY <2>1
<1>10. ASSUME NEW i \in Instances, MarkFailed(i) PROVE FreshInv'
  <2>1. /\ \A j \in Instances : pc'[j] = "create" => pc[j] = "create"
        /\ UNCHANGED <<counted, tally, Cycle>>
    BY <1>10 DEF MarkFailed, Goto, rowVars, Cycle, TypeInv, TypeOK, JobTypes
  <2> QED
    BY <2>1
<1>11. ASSUME NEW i \in Instances, SellerFails(i) PROVE FreshInv'
  <2>1. /\ \A j \in Instances : pc'[j] = "create" => pc[j] = "create"
        /\ UNCHANGED <<counted, tally, Cycle>>
    BY <1>11 DEF SellerFails, Goto, rowVars, Cycle, TypeInv, TypeOK, JobTypes
  <2> QED
    BY <2>1
<1>12. ASSUME NEW i \in Instances, Crash(i) PROVE FreshInv'
  <2>1. /\ \A j \in Instances : pc'[j] = "create" => pc[j] = "create"
        /\ UNCHANGED <<counted, tally, Cycle>>
    BY <1>12 DEF Crash, Goto, rowVars, Cycle, TypeInv, TypeOK, JobTypes
  <2> QED
    BY <2>1
<1> QED
  BY <1>1, <1>2, <1>3, <1>4, <1>5, <1>6, <1>7, <1>8, <1>9, <1>10, <1>11, <1>12 DEF Next,
     JobStep, vars, saleVars, rowVars, pgVars, jobVars, SettleSale, RefundSale, SetEligible,
     LockExpires, Transfer, HookFind, HookUpdate

\* The only row that changes is made of sales that are in no other.
LEMMA OnceStep == SaleInv /\ [Next]_vars => OnceInv'
<1> SUFFICES ASSUME SaleInv, [Next]_vars PROVE OnceInv'
  OBVIOUS
<1> USE DEF SaleInv, OnceInv
<1>1. CASE UNCHANGED <<counted>>
  BY <1>1
<1>2. ASSUME NEW i \in Instances, CreateRow(i) PROVE OnceInv'
  BY <1>2, CreateRowSums DEF FreshInv
<1> QED
  BY <1>1, <1>2 DEF Next, JobStep, vars, saleVars, rowVars, pgVars, jobVars, SettleSale,
     RefundSale, SetEligible, NextPeriod, LockExpires, Fire, Finish, Aggregate, Standby,
     StoreKey, Execute, MarkFailed, SellerFails, Crash, Transfer, HookFind, HookUpdate


LEMMA SaleInit == Init => SaleInv
<1> SUFFICES ASSUME Init PROVE SaleInv
  OBVIOUS
<1>1. TypeInv
  BY InitTypes
<1>2. \A u \in Sellers, m \in Cycles : counted[u][m] = {} /\ deducted[u][m] = {}
  BY DEF Init, PerCycle
<1>3. \A i \in Instances : pc[i] # "create"
  BY DEF Init
<1> QED
  BY <1>1, <1>2, <1>3 DEF SaleInv, CountInv, DeductInv, ReadInv, FreshInv, OnceInv

LEMMA SaleStep == SaleInv /\ [Next]_vars => SaleInv'
BY TypeStep, CountStep, DeductStep, ReadStep, FreshStep, OnceStep DEF SaleInv

\* However often the sync, the refunds and the jobs of all instances run, and
\* whatever dies: a sale enters one cycle's earnings and one's deductions.
THEOREM SaleCountsOnce == Spec => []NoSaleTwice
<1>1. SaleInv => NoSaleTwice
  <2> SUFFICES ASSUME SaleInv, NEW u \in Sellers, NEW m \in Cycles, NEW n \in Cycles, m # n
               PROVE  /\ counted[u][m] \cap counted[u][n] = {}
                      /\ deducted[u][m] \cap deducted[u][n] = {}
    BY DEF NoSaleTwice
  <2>1. /\ counted[u][m] \subseteq Sales /\ deducted[u][m] \subseteq Sales
    BY DEF SaleInv, TypeInv, TypeOK, RowTypes
  <2> QED
    BY <2>1 DEF SaleInv, OnceInv, DeductInv
<1> QED
  BY <1>1, SaleInit, SaleStep, PTL DEF Spec

-----------------------------------------------------------------------------
(* Rows, transfers and what is told of them.  PayInv follows a payout from *)
(* the row through the distinct key to the webhook.                        *)

\* A row is written for a month that is over.
RowInv == \A u \in Sellers, m \in Cycles : HasRow(u, m) => m < period

\* A key in a row is that of the row's own transfer.
KeyInv ==
  \A u \in Sellers, m \in Cycles : groupKey[u][m] # None =>
    /\ HasRow(u, m)
    /\ transfer[groupKey[u][m]] # None
    /\ transfer[groupKey[u][m]].seller = u
    /\ transfer[groupKey[u][m]].cycle = m

TransferInv ==
  \A g \in Groups :
    /\ stage[g] = "unused" <=> transfer[g] = None
    /\ transfer[g] # None =>
         /\ HasRow(transfer[g].seller, transfer[g].cycle)
         /\ transfer[g].amount \in MinPayout..Total[Sales]

\* The distinct key does its work.
UniqueInv ==
  \A g, k \in Groups :
    /\ transfer[g] # None
    /\ transfer[k] # None
    /\ transfer[g].seller = transfer[k].seller
    /\ transfer[g].cycle = transfer[k].cycle
    => g = k

\* What the instance at work may rely on before each call.  Only the first
\* work on a cycle may rely on the row being fresh.
Ready(i) ==
  /\ pc[i] = "create" => tally[i].net <= Total[Sales]
  /\ pc[i] = "standby" => tally[i].net \in MinPayout..Total[Sales]
  /\ pc[i] \in {"standby", "key", "execute", "fail"} => HasRow(at[i], Cycle)
  /\ pc[i] \in {"key", "execute"} =>
       /\ stage[got[i]] = "waiting"
       /\ transfer[got[i]].seller = at[i]
       /\ transfer[got[i]].cycle = Cycle
  /\ pc[i] = "execute" => groupKey[at[i]][Cycle] = got[i]

WorkInv == \A i \in Instances : Ready(i)

FreshRow(i) ==
  at[i] \notin reran =>
    /\ pc[i] \in {"standby", "key", "execute"} => status[at[i]][Cycle] = "Pending"
    /\ pc[i] \in {"standby", "key"} => groupKey[at[i]][Cycle] = None
    /\ pc[i] = "fail" /\ groupKey[at[i]][Cycle] # None =>
         \/ groupKey[at[i]][Cycle] \in unsure
         \/ stage[groupKey[at[i]][Cycle]] \notin {"executing", "paid"}

FreshRowInv == \A i \in Instances : FreshRow(i)

\* A webhook only comes when the bank has spoken, and the bank is final.
HookInv ==
  \A h \in Hooks : hookOn[h] # None => stage[hookOn[h]] \in {"paid", "bounced"}

PayInv ==
  /\ TypeInv /\ RowInv /\ KeyInv /\ TransferInv /\ UniqueInv /\ WorkInv
  /\ FreshRowInv /\ HookInv /\ StatusTellsTruth

-----------------------------------------------------------------------------
(* What the actions do, row by row. *)

LEMMA CreateRowEffect ==
  ASSUME TypeInv, NEW i \in Instances, CreateRow(i)
  PROVE  /\ at[i] \in Sellers /\ Cycle \in Cycles
         /\ pc[i] = "create"
         /\ pc' = [pc EXCEPT ![i] = IF tally[i].net < MinPayout THEN "next" ELSE "standby"]
         /\ \/ /\ ~HasRow(at[i], Cycle)
               /\ status'[at[i]][Cycle] = IF tally[i].net < MinPayout THEN "Skipped" ELSE "Pending"
               /\ reran' = reran
            \/ /\ HasRow(at[i], Cycle)
               /\ status'[at[i]][Cycle] = status[at[i]][Cycle]
               /\ reran' = reran \cup {at[i]}
         /\ \A u \in Sellers, m \in Cycles :
              u # at[i] \/ m # Cycle => status'[u][m] = status[u][m]
         /\ UNCHANGED <<groupKey, transfer, stage, acked, period, lock, at, tally, got,
                        hookOn, unsure, Cycle>>
<1>1. at[i] \in Sellers /\ Cycle \in Cycles /\ pc[i] = "create"
  BY CycleType DEF CreateRow, TypeInv, JobInv
<1>2. status \in [Sellers -> [Cycles -> {"none", "Pending", "Succeed", "Failed", "Skipped"}]]
  BY DEF TypeInv, TypeOK, RowTypes
<1>3. UNCHANGED <<groupKey, transfer, stage, acked, period, lock, at, tally, got,
                  hookOn, unsure, Cycle>>
  BY DEF CreateRow, pgVars, Cycle
<1>4. pc' = [pc EXCEPT ![i] = IF tally[i].net < MinPayout THEN "next" ELSE "standby"]
  BY DEF CreateRow, Goto
<1>5. \/ /\ ~HasRow(at[i], Cycle)
         /\ status' = [status EXCEPT ![at[i]][Cycle] =
                         IF tally[i].net < MinPayout THEN "Skipped" ELSE "Pending"]
         /\ reran' = reran
      \/ /\ HasRow(at[i], Cycle)
         /\ status' = status
         /\ reran' = reran \cup {at[i]}
  BY DEF CreateRow
<1>6. \A u \in Sellers, m \in Cycles :
        u # at[i] \/ m # Cycle => status'[u][m] = status[u][m]
  BY <1>1, <1>2, <1>5
<1>7. \/ /\ ~HasRow(at[i], Cycle)
         /\ status'[at[i]][Cycle] = IF tally[i].net < MinPayout THEN "Skipped" ELSE "Pending"
         /\ reran' = reran
      \/ /\ HasRow(at[i], Cycle)
         /\ status'[at[i]][Cycle] = status[at[i]][Cycle]
         /\ reran' = reran \cup {at[i]}
  BY <1>1, <1>2, <1>5
<1> QED
  BY <1>1, <1>3, <1>4, <1>6, <1>7

LEMMA StandbyEffect ==
  ASSUME TypeInv, NEW i \in Instances, Standby(i)
  PROVE  /\ at[i] \in Sellers /\ Cycle \in Cycles
         /\ pc[i] = "standby"
         /\ UNCHANGED <<status, groupKey, acked, period, lock, at, tally, hookOn, reran,
                        unsure, Cycle>>
         /\ \/ /\ DistinctKeyIsFree(at[i], Cycle)
               /\ \E g \in Groups :
                    /\ transfer[g] = None
                    /\ transfer'[g] =
                         [seller |-> at[i], cycle |-> Cycle, amount |-> tally[i].net]
                    /\ stage'[g] = "waiting"
                    /\ \A k \in Groups : k # g => transfer'[k] = transfer[k] /\ stage'[k] = stage[k]
                    /\ \/ pc' = [pc EXCEPT ![i] = "key"] /\ got' = [got EXCEPT ![i] = g]
                       \/ pc' = [pc EXCEPT ![i] = "fail"] /\ got' = got
            \/ /\ pc' = [pc EXCEPT ![i] = "fail"]
               /\ UNCHANGED <<transfer, stage, got>>
<1>1. at[i] \in Sellers /\ Cycle \in Cycles /\ pc[i] = "standby"
  BY CycleType DEF Standby, TypeInv, JobInv
<1>2. UNCHANGED <<status, groupKey, acked, period, lock, at, tally, hookOn, reran,
                  unsure, Cycle>>
  BY DEF Standby, rowVars, Cycle
<1>3. DOMAIN transfer = Groups /\ DOMAIN stage = Groups
  BY DEF TypeInv, TypeOK, PayTypes
<1>4. CASE pc' = [pc EXCEPT ![i] = "fail"] /\ UNCHANGED <<transfer, stage, got>>
  BY <1>1, <1>2, <1>4
<1>5. CASE /\ DistinctKeyIsFree(at[i], Cycle)
           /\ \E g \in Groups :
                /\ transfer[g] = None
                /\ transfer' = [transfer EXCEPT ![g] =
                     [seller |-> at[i], cycle |-> Cycle, amount |-> tally[i].net]]
                /\ stage' = [stage EXCEPT ![g] = "waiting"]
                /\ \/ pc' = [pc EXCEPT ![i] = "key"] /\ got' = [got EXCEPT ![i] = g]
                   \/ pc' = [pc EXCEPT ![i] = "fail"] /\ got' = got
  BY <1>1, <1>2, <1>3, <1>5
<1> QED
  BY <1>4, <1>5 DEF Standby, Goto

LEMMA StoreKeyEffect ==
  ASSUME TypeInv, NEW i \in Instances, StoreKey(i)
  PROVE  /\ at[i] \in Sellers /\ Cycle \in Cycles /\ got[i] \in Groups
         /\ pc[i] = "key"
         /\ UNCHANGED <<status, transfer, stage, acked, period, lock, at, tally, got,
                        hookOn, reran, unsure, Cycle>>
         /\ \/ pc' = [pc EXCEPT ![i] = "execute"] /\ groupKey'[at[i]][Cycle] = got[i]
            \/ pc' = [pc EXCEPT ![i] = "fail"] /\ groupKey' = groupKey
         /\ \A u \in Sellers, m \in Cycles :
              u # at[i] \/ m # Cycle => groupKey'[u][m] = groupKey[u][m]
<1>1. at[i] \in Sellers /\ Cycle \in Cycles /\ got[i] \in Groups /\ pc[i] = "key"
  BY CycleType DEF StoreKey, TypeInv, JobInv
<1>2. groupKey \in [Sellers -> [Cycles -> Groups \cup {None}]]
  BY DEF TypeInv, TypeOK, RowTypes
<1>3. UNCHANGED <<status, transfer, stage, acked, period, lock, at, tally, got,
                  hookOn, reran, unsure, Cycle>>
  BY DEF StoreKey, pgVars, Cycle
<1>4. \/ /\ pc' = [pc EXCEPT ![i] = "execute"]
         /\ groupKey' = [groupKey EXCEPT ![at[i]][Cycle] = got[i]]
      \/ pc' = [pc EXCEPT ![i] = "fail"] /\ groupKey' = groupKey
  BY DEF StoreKey, Goto
<1> QED
  BY <1>1, <1>2, <1>3, <1>4

LEMMA MarkFailedEffect ==
  ASSUME TypeInv, NEW i \in Instances, MarkFailed(i)
  PROVE  /\ at[i] \in Sellers /\ Cycle \in Cycles
         /\ pc[i] = "fail"
         /\ pc' = [pc EXCEPT ![i] = "next"]
         /\ UNCHANGED <<groupKey, transfer, stage, acked, period, lock, at, tally, got,
                        hookOn, reran, unsure, Cycle>>
         /\ status'[at[i]][Cycle] = "Failed"
         /\ \A u \in Sellers, m \in Cycles :
              u # at[i] \/ m # Cycle => status'[u][m] = status[u][m]
<1>1. at[i] \in Sellers /\ Cycle \in Cycles /\ pc[i] = "fail"
  BY CycleType DEF MarkFailed, TypeInv, JobInv
<1>2. status \in [Sellers -> [Cycles -> {"none", "Pending", "Succeed", "Failed", "Skipped"}]]
  BY DEF TypeInv, TypeOK, RowTypes
<1>3. UNCHANGED <<groupKey, transfer, stage, acked, period, lock, at, tally, got,
                  hookOn, reran, unsure, Cycle>>
  BY DEF MarkFailed, pgVars, Cycle
<1>4. /\ pc' = [pc EXCEPT ![i] = "next"]
      /\ status' = [status EXCEPT ![at[i]][Cycle] = "Failed"]
  BY DEF MarkFailed, Goto
<1> QED
  BY <1>1, <1>2, <1>3, <1>4

LEMMA HookUpdateEffect ==
  ASSUME TypeInv, NEW h \in Hooks, HookUpdate(h)
  PROVE  /\ hookOn[h] \in Groups
         /\ hookOn' = [hookOn EXCEPT ![h] = None]
         /\ UNCHANGED <<groupKey, transfer, stage, period, lock, pc, at, tally, got,
                        reran, unsure, Cycle>>
         /\ \A u \in Sellers, m \in Cycles :
              \/ status'[u][m] = status[u][m]
              \/ /\ groupKey[u][m] = hookOn[h]
                 /\ status'[u][m] = IF stage[hookOn[h]] = "paid" THEN "Succeed" ELSE "Failed"
<1>1. hookOn[h] \in Groups /\ hookOn' = [hookOn EXCEPT ![h] = None]
  BY DEF HookUpdate, TypeInv, TypeOK, PayTypes
<1>2. UNCHANGED <<groupKey, transfer, stage, period, lock, pc, at, tally, got,
                  reran, unsure, Cycle>>
  BY DEF HookUpdate, jobVars, Cycle
<1>3. \/ status' = [u \in Sellers |-> [m \in Cycles |->
                      IF groupKey[u][m] = hookOn[h]
                      THEN IF stage[hookOn[h]] = "paid" THEN "Succeed" ELSE "Failed"
                      ELSE status[u][m]]]
      \/ status' = status
  BY DEF HookUpdate
<1> QED
  BY <1>1, <1>2, <1>3

LEMMA ExecuteEffect ==
  ASSUME TypeInv, NEW i \in Instances, Execute(i)
  PROVE  /\ at[i] \in Sellers /\ Cycle \in Cycles /\ got[i] \in Groups
         /\ pc[i] = "execute"
         /\ UNCHANGED <<status, groupKey, transfer, acked, period, lock, at, tally, got,
                        hookOn, reran, Cycle>>
         /\ \A g \in Groups : g # got[i] => stage'[g] = stage[g]
         /\ \/ stage'[got[i]] = "executing" /\ pc' = [pc EXCEPT ![i] = "next"] /\ unsure' = unsure
            \/ /\ stage'[got[i]] = "executing"
               /\ pc' = [pc EXCEPT ![i] = "fail"]
               /\ unsure' = unsure \cup {got[i]}
            \/ stage' = stage /\ pc' = [pc EXCEPT ![i] = "fail"] /\ unsure' = unsure
<1>1. at[i] \in Sellers /\ Cycle \in Cycles /\ got[i] \in Groups /\ pc[i] = "execute"
  BY CycleType DEF Execute, TypeInv, JobInv
<1>2. DOMAIN stage = Groups
  BY DEF TypeInv, TypeOK, PayTypes
<1>3. UNCHANGED <<status, groupKey, transfer, acked, period, lock, at, tally, got,
                  hookOn, reran, Cycle>>
  BY DEF Execute, rowVars, Cycle
<1>4. \/ /\ stage' = [stage EXCEPT ![got[i]] = "executing"]
         /\ \/ pc' = [pc EXCEPT ![i] = "next"] /\ unsure' = unsure
            \/ pc' = [pc EXCEPT ![i] = "fail"] /\ unsure' = unsure \cup {got[i]}
      \/ stage' = stage /\ pc' = [pc EXCEPT ![i] = "fail"] /\ unsure' = unsure
  BY DEF Execute, Goto
<1> QED
  BY <1>1, <1>2, <1>3, <1>4

LEMMA TransferEffect ==
  ASSUME TypeInv, NEW g \in Groups, Transfer(g)
  PROVE  /\ stage[g] = "executing"
         /\ stage'[g] \in {"paid", "bounced"}
         /\ \A k \in Groups : k # g => stage'[k] = stage[k]
         /\ UNCHANGED <<status, groupKey, transfer, acked, period, lock, pc, at, tally, got,
                        hookOn, reran, unsure, Cycle>>
<1>1. DOMAIN stage = Groups
  BY DEF TypeInv, TypeOK, PayTypes
<1>2. PICK result \in {"paid", "bounced"} : stage' = [stage EXCEPT ![g] = result]
  BY DEF Transfer
<1>3. UNCHANGED <<status, groupKey, transfer, acked, period, lock, pc, at, tally, got,
                  hookOn, reran, unsure, Cycle>>
  BY DEF Transfer, rowVars, jobVars, Cycle
<1> QED
  BY <1>1, <1>2, <1>3 DEF Transfer

\* Under the lock, whoever moves is the only one who does.
LEMMA OthersIdle ==
  ASSUME TypeInv, NEW i \in Instances, pc[i] # "idle",
         \E step : pc' = [pc EXCEPT ![i] = step]
  PROVE  /\ \A j \in Instances : j # i => pc[j] = "idle" /\ pc'[j] = "idle"
         /\ \A step : pc' = [pc EXCEPT ![i] = step] => pc'[i] = step
<1>1. DOMAIN pc = Instances
  BY DEF TypeInv, TypeOK, JobTypes
<1>2. \A j \in Instances : j # i => pc[j] = "idle"
  BY OneWorker
<1> QED
  BY <1>1, <1>2

\* A row stays, and one at most is added, by the job, for the month before.
LEMMA RowsStay ==
  ASSUME PayInv, [Next]_vars
  PROVE  /\ period' \in Nat /\ period <= period'
         /\ \A u \in Sellers, m \in Cycles : HasRow(u, m) => HasRow(u, m)'
         /\ \/ \A u \in Sellers, m \in Cycles : HasRow(u, m)' => HasRow(u, m)
            \/ /\ UNCHANGED period
               /\ Cycle \in Cycles
               /\ \E v \in Sellers : \A u \in Sellers, m \in Cycles :
                    HasRow(u, m)' <=> (HasRow(u, m) \/ (u = v /\ m = Cycle))
<1> USE DEF HasRow
<1>0. period \in Nat
  BY DEF PayInv, TypeInv, TypeOK, JobTypes, Periods
<1>1. CASE UNCHANGED <<status, period>>
  BY <1>0, <1>1
<1>2. CASE NextPeriod
  <2>1. UNCHANGED status /\ period' = period + 1
    BY <1>2 DEF NextPeriod, rowVars
  <2> QED
    BY <1>0, <2>1
<1>3. ASSUME NEW i \in Instances, CreateRow(i)
      PROVE  /\ UNCHANGED period
             /\ at[i] \in Sellers /\ Cycle \in Cycles
             /\ \A u \in Sellers, m \in Cycles :
                  HasRow(u, m)' <=> (HasRow(u, m) \/ (u = at[i] /\ m = Cycle))
  <2>1. status'[at[i]][Cycle] # "none"
    BY <1>3, CreateRowEffect DEF PayInv
  <2> QED
    BY <1>3, <2>1, CreateRowEffect DEF PayInv
<1>4. ASSUME NEW i \in Instances, MarkFailed(i)
      PROVE  /\ UNCHANGED period
             /\ \A u \in Sellers, m \in Cycles : HasRow(u, m)' = HasRow(u, m)
  <2>1. HasRow(at[i], Cycle)
    BY <1>4, MarkFailedEffect DEF PayInv, WorkInv, Ready
  <2> QED
    BY <1>4, <2>1, MarkFailedEffect DEF PayInv
<1>5. ASSUME NEW h \in Hooks, HookUpdate(h)
      PROVE  /\ UNCHANGED period
             /\ \A u \in Sellers, m \in Cycles : HasRow(u, m)' = HasRow(u, m)
  <2>1. hookOn[h] # None /\ hookOn[h] \in Groups
    BY <1>5, HookUpdateEffect, NoneAssumption DEF PayInv
  <2>2. \A u \in Sellers, m \in Cycles : groupKey[u][m] = hookOn[h] => HasRow(u, m)
    BY <2>1 DEF PayInv, KeyInv
  <2> QED
    BY <1>5, <2>2, HookUpdateEffect DEF PayInv
<1>6. CASE \E i \in Instances : CreateRow(i)
  <2>1. PICK i \in Instances : CreateRow(i)
    BY <1>6
  <2>2. /\ UNCHANGED period
        /\ at[i] \in Sellers /\ Cycle \in Cycles
        /\ \A u \in Sellers, m \in Cycles :
             HasRow(u, m)' <=> (HasRow(u, m) \/ (u = at[i] /\ m = Cycle))
    BY <2>1, <1>3
  <2> QED
    BY <1>0, <2>2
<1>7. CASE \E i \in Instances : MarkFailed(i)
  BY <1>0, <1>4, <1>7
<1>8. CASE \E h \in Hooks : HookUpdate(h)
  BY <1>0, <1>5, <1>8
<1> QED
  BY <1>1, <1>2, <1>6, <1>7, <1>8
     DEF Next, JobStep, vars, rowVars, jobVars, SettleSale, RefundSale, SetEligible,
         LockExpires, Fire, Finish, Aggregate, Standby, StoreKey, Execute, SellerFails, Crash,
         Transfer, HookFind


\* What Payple has prepared is never prepared again.
LEMMA TransfersStay ==
  ASSUME PayInv, [Next]_vars
  PROVE  \A g \in Groups : transfer[g] # None => transfer'[g] = transfer[g]
<1>1. ASSUME NEW i \in Instances, Standby(i)
      PROVE  \A g \in Groups : transfer[g] # None => transfer'[g] = transfer[g]
  BY <1>1, StandbyEffect DEF PayInv
<1> QED
  BY <1>1 DEF Next, JobStep, vars, saleVars, rowVars, pgVars, jobVars, SettleSale, RefundSale,
     SetEligible, NextPeriod, LockExpires, Fire, Finish, Aggregate, CreateRow, StoreKey, Execute,
     MarkFailed, SellerFails, Crash, Transfer, HookFind, HookUpdate

LEMMA RowStep == PayInv /\ [Next]_vars => RowInv'
<1> SUFFICES ASSUME PayInv, [Next]_vars, NEW u \in Sellers, NEW m \in Cycles, HasRow(u, m)'
             PROVE  m < period'
  BY DEF RowInv
<1>1. period \in Nat /\ Cycle = period - 1 /\ m \in Int
  BY DEF PayInv, TypeInv, TypeOK, JobTypes, Periods, Cycle, Cycles
<1> QED
  BY <1>1, RowsStay DEF PayInv, RowInv

\* StoreKey writes the key of the transfer that was prepared for the row.
LEMMA KeyStep == PayInv /\ [Next]_vars => KeyInv'
<1> SUFFICES ASSUME PayInv, [Next]_vars PROVE KeyInv'
  OBVIOUS
<1> USE DEF PayInv, KeyInv
<1>1. CASE UNCHANGED <<status, groupKey, transfer>>
  BY <1>1 DEF HasRow
<1>2. ASSUME NEW i \in Instances, CreateRow(i) PROVE KeyInv'
  BY <1>2, RowsStay, CreateRowEffect
<1>3. ASSUME NEW i \in Instances, Standby(i) PROVE KeyInv'
  <2>1. UNCHANGED <<groupKey, status>>
    BY <1>3, StandbyEffect
  <2>2. groupKey \in [Sellers -> [Cycles -> Groups \cup {None}]]
    BY DEF TypeInv, TypeOK, RowTypes
  <2>3. \A u \in Sellers, m \in Cycles : groupKey[u][m] # None =>
          transfer'[groupKey[u][m]] = transfer[groupKey[u][m]]
    BY <2>2, TransfersStay
  <2> QED
    BY <2>1, <2>3 DEF HasRow
<1>4. ASSUME NEW i \in Instances, StoreKey(i) PROVE KeyInv'
  <2>1. got[i] \in Groups /\ stage[got[i]] = "waiting" /\ HasRow(at[i], Cycle)
    BY <1>4, StoreKeyEffect DEF WorkInv, Ready
  <2>2. /\ transfer[got[i]] # None
        /\ transfer[got[i]].seller = at[i]
        /\ transfer[got[i]].cycle = Cycle
    BY <1>4, <2>1, StoreKeyEffect DEF WorkInv, Ready, TransferInv
  <2> QED
    BY <1>4, <2>1, <2>2, StoreKeyEffect DEF HasRow
<1>5. ASSUME NEW i \in Instances, MarkFailed(i) PROVE KeyInv'
  BY <1>5, RowsStay, MarkFailedEffect
<1>6. ASSUME NEW h \in Hooks, HookUpdate(h) PROVE KeyInv'
  BY <1>6, RowsStay, HookUpdateEffect
<1> QED
  BY <1>1, <1>2, <1>3, <1>4, <1>5, <1>6 DEF Next, JobStep, vars, saleVars, rowVars, pgVars,
     jobVars, SettleSale, RefundSale, SetEligible, NextPeriod, LockExpires, Fire, Finish,
     Aggregate, Execute, SellerFails, Crash, Transfer, HookFind

\* Standby prepares a transfer for a row, within bounds.
LEMMA TransferStep == PayInv /\ [Next]_vars => TransferInv'
<1> SUFFICES ASSUME PayInv, [Next]_vars PROVE TransferInv'
  OBVIOUS
<1> USE DEF PayInv, TransferInv
<1>1. CASE UNCHANGED <<status, transfer, stage>>
  BY <1>1 DEF HasRow
<1>2. ASSUME NEW i \in Instances, CreateRow(i) PROVE TransferInv'
  BY <1>2, RowsStay, CreateRowEffect, NoneAssumption DEF TypeInv, TypeOK, PayTypes, Transfers
<1>3. ASSUME NEW i \in Instances, Standby(i) PROVE TransferInv'
  <2>1. /\ at[i] \in Sellers /\ Cycle \in Cycles
        /\ tally[i].net \in MinPayout..Total[Sales] /\ HasRow(at[i], Cycle)
    BY <1>3, StandbyEffect DEF WorkInv, Ready
  <2>2. UNCHANGED status
    BY <1>3, StandbyEffect
  <2>3. CASE UNCHANGED <<transfer, stage>>
    BY <2>2, <2>3 DEF HasRow
  <2>4. CASE ~UNCHANGED <<transfer, stage>>
    <3> DEFINE t == [seller |-> at[i], cycle |-> Cycle, amount |-> tally[i].net]
    <3>1. PICK g \in Groups :
            /\ transfer'[g] = t
            /\ stage'[g] = "waiting"
            /\ \A k \in Groups : k # g => transfer'[k] = transfer[k] /\ stage'[k] = stage[k]
      BY <1>3, <2>4, StandbyEffect
    <3>2. tally[i].net \in Int
      BY DEF TypeInv, TypeOK, JobTypes, Tallies
    <3>3. t \in Transfers
      BY <2>1, <3>2 DEF Transfers
    <3>4. t # None
      BY <3>3, NoneAssumption
    <3>5. t.seller = at[i] /\ t.cycle = Cycle /\ t.amount = tally[i].net
      OBVIOUS
    <3> HIDE DEF t
    <3> QED
      BY <2>1, <2>2, <3>1, <3>4, <3>5 DEF HasRow
  <2> QED
    BY <2>3, <2>4
<1>4. ASSUME NEW i \in Instances, Execute(i) PROVE TransferInv'
  <2>1. got[i] \in Groups /\ stage[got[i]] = "waiting"
    BY <1>4, ExecuteEffect DEF WorkInv, Ready
  <2> QED
    BY <1>4, <2>1, ExecuteEffect DEF HasRow
<1>5. ASSUME NEW i \in Instances, MarkFailed(i) PROVE TransferInv'
  BY <1>5, RowsStay, MarkFailedEffect, NoneAssumption DEF TypeInv, TypeOK, PayTypes, Transfers
<1>6. ASSUME NEW g \in Groups, Transfer(g) PROVE TransferInv'
  BY <1>6, TransferEffect DEF HasRow
<1>7. ASSUME NEW h \in Hooks, HookUpdate(h) PROVE TransferInv'
  BY <1>7, RowsStay, HookUpdateEffect, NoneAssumption DEF TypeInv, TypeOK, PayTypes, Transfers
<1> QED
  BY <1>1, <1>2, <1>3, <1>4, <1>5, <1>6, <1>7 DEF Next, JobStep, vars, saleVars, rowVars,
     pgVars, jobVars, SettleSale, RefundSale, SetEligible, NextPeriod, LockExpires, Fire,
     Finish, Aggregate, StoreKey, SellerFails, Crash, HookFind

\* A second transfer for a row needs a second distinct key.
LEMMA UniqueStep == PayInv /\ [Next]_vars => UniqueInv'
<1> SUFFICES ASSUME PayInv, [Next]_vars PROVE UniqueInv'
  OBVIOUS
<1> USE DEF PayInv, UniqueInv
<1>1. CASE UNCHANGED <<transfer>>
  BY <1>1
<1>2. ASSUME NEW i \in Instances, Standby(i) PROVE UniqueInv'
  <2>1. CASE UNCHANGED transfer
    BY <2>1
  <2>2. CASE ~UNCHANGED transfer
    <3>0. PICK g \in Groups :
            /\ transfer'[g] = [seller |-> at[i], cycle |-> Cycle, amount |-> tally[i].net]
            /\ \A k \in Groups : k # g => transfer'[k] = transfer[k]
      BY <1>2, <2>2, StandbyEffect
    <3>1. /\ DistinctKeyIsFree(at[i], Cycle)
          /\ transfer'[g].seller = at[i] /\ transfer'[g].cycle = Cycle
          /\ \A k \in Groups : k # g => transfer'[k] = transfer[k]
      BY <1>2, <2>2, <3>0, StandbyEffect
    <3>2. \A k \in Groups : transfer[k] # None =>
            transfer[k].seller # at[i] \/ transfer[k].cycle # Cycle
      BY <3>1 DEF DistinctKeyIsFree
    <3> QED
      BY <3>1, <3>2
  <2> QED
    BY <2>1, <2>2
<1> QED
  BY <1>1, <1>2 DEF Next, JobStep, vars, saleVars, rowVars, pgVars, jobVars, SettleSale,
     RefundSale, SetEligible, NextPeriod, LockExpires, Fire, Finish, Aggregate, CreateRow,
     StoreKey, Execute, MarkFailed, SellerFails, Crash, Transfer, HookFind, HookUpdate

\* Each call of the job prepares what the next one relies on.
LEMMA WorkStep == PayInv /\ [Next]_vars => WorkInv'
<1> SUFFICES ASSUME PayInv, [Next]_vars PROVE WorkInv'
  OBVIOUS
<1> USE DEF PayInv, WorkInv, Ready
<1>1. CASE UNCHANGED <<status, groupKey, transfer, stage, period, pc, at, tally, got>>
  BY <1>1 DEF Cycle, HasRow
<1>2. ASSUME NextPeriod PROVE WorkInv'
  BY <1>2 DEF NextPeriod
<1>3. ASSUME NEW i \in Instances, Fire(i) PROVE WorkInv'
  <2>1. \A j \in Instances : pc'[j] = pc[j] \/ pc'[j] = "next"
    BY <1>3 DEF Fire, Goto, TypeInv, TypeOK, JobTypes
  <2>2. UNCHANGED <<status, groupKey, transfer, stage, at, tally, got, reran, unsure, Cycle>>
    BY <1>3 DEF Fire, rowVars, pgVars, Cycle
  <2> QED
    BY <2>1, <2>2 DEF HasRow
<1>4. ASSUME NEW i \in Instances, Finish(i) PROVE WorkInv'
  <2>1. pc[i] # "idle" /\ \E step : pc' = [pc EXCEPT ![i] = step]
    BY <1>4 DEF Finish, Goto
  <2>2. \A j \in Instances : j # i => pc'[j] = "idle"
    BY <2>1, OthersIdle
  <2>3. pc'[i] \in {"idle"}
    BY <1>4 DEF Finish, Goto, TypeInv, TypeOK, JobTypes
  <2> QED
    BY <2>2, <2>3
<1>5. ASSUME NEW i \in Instances, Aggregate(i) PROVE WorkInv'
  <2>1. pc[i] # "idle" /\ \E step : pc' = [pc EXCEPT ![i] = step]
    BY <1>5 DEF Aggregate, Goto
  <2>2. \A j \in Instances : j # i => pc'[j] = "idle"
    BY <2>1, OthersIdle
  <2>3. PICK u \in todo[i] : tally' = [tally EXCEPT ![i] = TallyOf(u)]
    BY <1>5, AggregateSeller
  <2>4. u \in Sellers
    BY DEF TypeInv, TypeOK, JobTypes
  <2>5. tally'[i].net <= Total[Sales] /\ pc'[i] = "create"
    BY <1>5, <2>3, <2>4, TallyType DEF Aggregate, Goto, TypeInv, TypeOK, JobTypes
  <2> QED
    BY <2>2, <2>5
<1>6. ASSUME NEW i \in Instances, CreateRow(i) PROVE WorkInv'
  <2>1. pc[i] # "idle" /\ \E step : pc' = [pc EXCEPT ![i] = step]
    BY <1>6 DEF CreateRow, Goto
  <2>2. \A j \in Instances : j # i => pc'[j] = "idle"
    BY <2>1, OthersIdle
  <2>3. at[i] \in Sellers /\ Cycle \in Cycles
    BY <1>6, CreateRowEffect
  <2>4. /\ tally[i].net \in Int /\ tally[i].net <= Total[Sales]
        /\ MinPayout \in Int /\ Total[Sales] \in Int
    BY <1>6, CreateRowEffect, TotalBounds, BoundAssumption DEF TypeInv, TypeOK, JobTypes,
       Tallies
  <2>5. pc'[i] = IF tally[i].net < MinPayout THEN "next" ELSE "standby"
    BY <1>6, CreateRowEffect DEF TypeInv, TypeOK, JobTypes
  <2>6. status'[at[i]][Cycle] # "none"
    BY <1>6, CreateRowEffect DEF HasRow
  <2>7. UNCHANGED <<at, tally, Cycle>>
    BY <1>6, CreateRowEffect
  <2> QED
    BY <2>2, <2>4, <2>5, <2>6, <2>7 DEF HasRow
<1>7. ASSUME NEW i \in Instances, Standby(i) PROVE WorkInv'
  <2>1. pc[i] # "idle" /\ \E step : pc' = [pc EXCEPT ![i] = step]
    BY <1>7 DEF Standby, Goto
  <2>2. \A j \in Instances : j # i => pc'[j] = "idle"
    BY <2>1, OthersIdle
  <2>3. UNCHANGED <<status, at, Cycle>> /\ HasRow(at[i], Cycle)
    BY <1>7, StandbyEffect DEF Ready
  <2>4. CASE pc'[i] = "fail"
    BY <2>2, <2>3, <2>4 DEF HasRow
  <2>5. CASE pc'[i] # "fail"
    <3>1. PICK g \in Groups :
            /\ transfer'[g] = [seller |-> at[i], cycle |-> Cycle, amount |-> tally[i].net]
            /\ stage'[g] = "waiting"
            /\ pc' = [pc EXCEPT ![i] = "key"] /\ got' = [got EXCEPT ![i] = g]
      BY <1>7, <2>5, StandbyEffect, SMTT(30) DEF TypeInv, TypeOK, JobTypes
    <3>2. pc'[i] = "key" /\ got'[i] = g
      BY <3>1 DEF TypeInv, TypeOK, JobTypes
    <3> QED
      BY <2>2, <2>3, <3>1, <3>2 DEF HasRow
  <2> QED
    BY <2>4, <2>5
<1>8. ASSUME NEW i \in Instances, StoreKey(i) PROVE WorkInv'
  <2>1. pc[i] # "idle" /\ \E step : pc' = [pc EXCEPT ![i] = step]
    BY <1>8 DEF StoreKey, Goto
  <2>2. \A j \in Instances : j # i => pc'[j] = "idle"
    BY <2>1, OthersIdle
  <2>3. pc'[i] \in {"execute", "fail"} /\ (pc'[i] = "execute" => groupKey'[at[i]][Cycle] = got[i])
    BY <1>8, StoreKeyEffect DEF TypeInv, TypeOK, JobTypes
  <2>4. UNCHANGED <<status, transfer, stage, at, got, Cycle>> /\ pc[i] = "key"
    BY <1>8, StoreKeyEffect
  <2> QED
    BY <2>2, <2>3, <2>4 DEF HasRow
<1>9. ASSUME NEW i \in Instances, Execute(i) PROVE WorkInv'
  <2>1. pc[i] # "idle" /\ \E step : pc' = [pc EXCEPT ![i] = step]
    BY <1>9 DEF Execute, Goto
  <2>2. \A j \in Instances : j # i => pc'[j] = "idle"
    BY <2>1, OthersIdle
  <2>3. pc'[i] \in {"next", "fail"}
    BY <1>9, ExecuteEffect DEF TypeInv, TypeOK, JobTypes
  <2>4. UNCHANGED <<status, at, Cycle>> /\ pc[i] = "execute"
    BY <1>9, ExecuteEffect
  <2> QED
    BY <2>2, <2>3, <2>4 DEF HasRow
<1>10. ASSUME NEW i \in Instances, MarkFailed(i) PROVE WorkInv'
  <2>1. pc[i] # "idle" /\ \E step : pc' = [pc EXCEPT ![i] = step]
    BY <1>10 DEF MarkFailed, Goto
  <2>2. \A j \in Instances : j # i => pc'[j] = "idle"
    BY <2>1, OthersIdle
  <2>3. pc'[i] \in {"next"}
    BY <1>10 DEF MarkFailed, Goto, TypeInv, TypeOK, JobTypes
  <2> QED
    BY <2>2, <2>3
<1>11. ASSUME NEW i \in Instances, SellerFails(i) PROVE WorkInv'
  <2>1. \A j \in Instances : pc'[j] = pc[j] \/ pc'[j] = "next"
    BY <1>11 DEF SellerFails, Goto, TypeInv, TypeOK, JobTypes
  <2>2. UNCHANGED <<status, groupKey, transfer, stage, at, tally, got, reran, unsure, Cycle>>
    BY <1>11 DEF SellerFails, rowVars, pgVars, Cycle
  <2> QED
    BY <2>1, <2>2 DEF HasRow
<1>12. ASSUME NEW i \in Instances, Crash(i) PROVE WorkInv'
  <2>1. pc[i] # "idle" /\ \E step : pc' = [pc EXCEPT ![i] = step]
    BY <1>12 DEF Crash, Goto
  <2>2. \A j \in Instances : j # i => pc'[j] = "idle"
    BY <2>1, OthersIdle
  <2>3. pc'[i] \in {"idle"}
    BY <1>12 DEF Crash, Goto, TypeInv, TypeOK, JobTypes
  <2> QED
    BY <2>2, <2>3
<1>13. ASSUME NEW g \in Groups, Transfer(g) PROVE WorkInv'
  <2>1. \A i \in Instances : pc[i] \in {"key", "execute"} =>
          stage'[got[i]] = stage[got[i]]
    BY <1>13, TransferEffect DEF Ready, TypeInv, JobInv
  <2>2. UNCHANGED <<status, groupKey, transfer, pc, at, tally, got, Cycle>>
    BY <1>13, TransferEffect
  <2> QED
    BY <2>1, <2>2 DEF HasRow
<1>14. ASSUME NEW h \in Hooks, HookUpdate(h) PROVE WorkInv'
  <2>1. \A i \in Instances : HasRow(at[i], Cycle) /\ at[i] \in Sellers /\ Cycle \in Cycles
                             => HasRow(at[i], Cycle)'
    BY <1>14, RowsStay, HookUpdateEffect
  <2>2. \A i \in Instances : pc[i] \notin {"idle", "next"} => at[i] \in Sellers /\ Cycle \in Cycles
    BY CycleType DEF TypeInv, JobInv
  <2>3. UNCHANGED <<groupKey, transfer, stage, pc, at, tally, got, Cycle>>
    BY <1>14, HookUpdateEffect
  <2> QED
    BY <2>1, <2>2, <2>3
<1> QED
  BY <1>1, <1>2, <1>3, <1>4, <1>5, <1>6, <1>7, <1>8, <1>9, <1>10, <1>11, <1>12, <1>13, <1>14 DEF
     Next, JobStep, vars, saleVars, rowVars, pgVars, jobVars, SettleSale, RefundSale,
     SetEligible, LockExpires, HookFind

\* A row that was worked on once is as the job left it, until the transfer is executed.
LEMMA FreshRowStep == PayInv /\ [Next]_vars => FreshRowInv'
<1> SUFFICES ASSUME PayInv, [Next]_vars PROVE FreshRowInv'
  OBVIOUS
<1> USE DEF PayInv, FreshRowInv, FreshRow
<1>1. CASE UNCHANGED <<status, groupKey, stage, period, pc, at, got, reran, unsure>>
  BY <1>1 DEF Cycle, HasRow
<1>2. ASSUME NextPeriod PROVE FreshRowInv'
  <2>1. \A i \in Instances : pc'[i] = "idle"
    BY <1>2 DEF NextPeriod
  <2> QED
    BY <2>1
<1>3. ASSUME NEW i \in Instances, Fire(i) PROVE FreshRowInv'
  <2>1. \A j \in Instances : pc'[j] = pc[j] \/ pc'[j] = "next"
    BY <1>3 DEF Fire, Goto, TypeInv, TypeOK, JobTypes
  <2>2. UNCHANGED <<status, groupKey, transfer, stage, at, tally, got, reran, unsure, Cycle>>
    BY <1>3 DEF Fire, rowVars, pgVars, Cycle
  <2> QED
    BY <2>1, <2>2 DEF HasRow
<1>4. ASSUME NEW i \in Instances, Finish(i) PROVE FreshRowInv'
  <2>1. pc[i] # "idle" /\ \E step : pc' = [pc EXCEPT ![i] = step]
    BY <1>4 DEF Finish, Goto
  <2>2. \A j \in Instances : j # i => pc'[j] = "idle"
    BY <2>1, OthersIdle
  <2>3. pc'[i] \in {"idle"}
    BY <1>4 DEF Finish, Goto, TypeInv, TypeOK, JobTypes
  <2> QED
    BY <2>2, <2>3
<1>5. ASSUME NEW i \in Instances, Aggregate(i) PROVE FreshRowInv'
  <2>1. pc[i] # "idle" /\ \E step : pc' = [pc EXCEPT ![i] = step]
    BY <1>5 DEF Aggregate, Goto
  <2>2. \A j \in Instances : j # i => pc'[j] = "idle"
    BY <2>1, OthersIdle
  <2>3. pc'[i] \in {"create"}
    BY <1>5 DEF Aggregate, Goto, TypeInv, TypeOK, JobTypes
  <2> QED
    BY <2>2, <2>3
<1>6. ASSUME NEW i \in Instances, CreateRow(i) PROVE FreshRowInv'
  <2>1. pc[i] # "idle" /\ \E step : pc' = [pc EXCEPT ![i] = step]
    BY <1>6 DEF CreateRow, Goto
  <2>2. \A j \in Instances : j # i => pc'[j] = "idle"
    BY <2>1, OthersIdle
  <2>3. at[i] \in Sellers /\ Cycle \in Cycles /\ UNCHANGED <<groupKey, at, Cycle>>
    BY <1>6, CreateRowEffect
  <2>4. pc'[i] = IF tally[i].net < MinPayout THEN "next" ELSE "standby"
    BY <1>6, CreateRowEffect DEF TypeInv, TypeOK, JobTypes
  <2>5. CASE HasRow(at[i], Cycle)
    <3>1. at'[i] \in reran'
      BY <1>6, <2>3, <2>5, CreateRowEffect
    <3> QED
      BY <2>2, <3>1
  <2>6. CASE ~HasRow(at[i], Cycle)
    <3>1. groupKey[at[i]][Cycle] = None
      BY <2>3, <2>6 DEF KeyInv
    <3>2. pc'[i] = "standby" => status'[at[i]][Cycle] = "Pending"
      BY <1>6, <2>4, <2>6, CreateRowEffect
    <3> QED
      BY <2>2, <2>3, <2>4, <3>1, <3>2
  <2> QED
    BY <2>5, <2>6
<1>7. ASSUME NEW i \in Instances, Standby(i) PROVE FreshRowInv'
  <2>1. pc[i] # "idle" /\ \E step : pc' = [pc EXCEPT ![i] = step]
    BY <1>7 DEF Standby, Goto
  <2>2. \A j \in Instances : j # i => pc'[j] = "idle"
    BY <2>1, OthersIdle
  <2>3. UNCHANGED <<status, groupKey, at, reran, Cycle>> /\ pc[i] = "standby"
    BY <1>7, StandbyEffect
  <2>4. pc' = [pc EXCEPT ![i] = "key"] \/ pc' = [pc EXCEPT ![i] = "fail"]
    BY <1>7 DEF Standby, Goto
  <2>5. pc'[i] \in {"key", "fail"}
    BY <2>4 DEF TypeInv, TypeOK, JobTypes
  <2> QED
    BY <2>2, <2>3, <2>5
<1>8. ASSUME NEW i \in Instances, StoreKey(i) PROVE FreshRowInv'
  <2>1. pc[i] # "idle" /\ \E step : pc' = [pc EXCEPT ![i] = step]
    BY <1>8 DEF StoreKey, Goto
  <2>2. \A j \in Instances : j # i => pc'[j] = "idle"
    BY <2>1, OthersIdle
  <2>3. UNCHANGED <<status, stage, at, got, reran, unsure, Cycle>> /\ pc[i] = "key"
    BY <1>8, StoreKeyEffect
  <2>4. pc'[i] \in {"execute", "fail"} /\ (pc'[i] = "fail" => groupKey' = groupKey)
    BY <1>8, StoreKeyEffect DEF TypeInv, TypeOK, JobTypes
  <2> QED
    BY <2>2, <2>3, <2>4
<1>9. ASSUME NEW i \in Instances, Execute(i) PROVE FreshRowInv'
  <2>1. pc[i] # "idle" /\ \E step : pc' = [pc EXCEPT ![i] = step]
    BY <1>9 DEF Execute, Goto
  <2>2. \A j \in Instances : j # i => pc'[j] = "idle"
    BY <2>1, OthersIdle
  <2>3. UNCHANGED <<status, groupKey, at, got, reran, Cycle>> /\ pc[i] = "execute"
    BY <1>9, ExecuteEffect
  <2>4. groupKey[at[i]][Cycle] = got[i] /\ stage[got[i]] = "waiting"
    BY <2>3 DEF WorkInv, Ready
  <2>5. \/ pc'[i] = "next"
        \/ pc'[i] = "fail" /\ got[i] \in unsure'
        \/ pc'[i] = "fail" /\ stage' = stage
    BY <1>9, ExecuteEffect DEF TypeInv, TypeOK, JobTypes
  <2> QED
    BY <2>2, <2>3, <2>4, <2>5
<1>10. ASSUME NEW i \in Instances, MarkFailed(i) PROVE FreshRowInv'
  <2>1. pc[i] # "idle" /\ \E step : pc' = [pc EXCEPT ![i] = step]
    BY <1>10 DEF MarkFailed, Goto
  <2>2. \A j \in Instances : j # i => pc'[j] = "idle"
    BY <2>1, OthersIdle
  <2>3. pc'[i] \in {"next"}
    BY <1>10 DEF MarkFailed, Goto, TypeInv, TypeOK, JobTypes
  <2> QED
    BY <2>2, <2>3
<1>11. ASSUME NEW i \in Instances, SellerFails(i) PROVE FreshRowInv'
  <2>1. \A j \in Instances : pc'[j] = pc[j] \/ pc'[j] = "next"
    BY <1>11 DEF SellerFails, Goto, TypeInv, TypeOK, JobTypes
  <2>2. UNCHANGED <<status, groupKey, transfer, stage, at, tally, got, reran, unsure, Cycle>>
    BY <1>11 DEF SellerFails, rowVars, pgVars, Cycle
  <2> QED
    BY <2>1, <2>2 DEF HasRow
<1>12. ASSUME NEW i \in Instances, Crash(i) PROVE FreshRowInv'
  <2>1. pc[i] # "idle" /\ \E step : pc' = [pc EXCEPT ![i] = step]
    BY <1>12 DEF Crash, Goto
  <2>2. \A j \in Instances : j # i => pc'[j] = "idle"
    BY <2>1, OthersIdle
  <2>3. pc'[i] \in {"idle"}
    BY <1>12 DEF Crash, Goto, TypeInv, TypeOK, JobTypes
  <2> QED
    BY <2>2, <2>3
<1>13. ASSUME NEW g \in Groups, Transfer(g) PROVE FreshRowInv'
  <2>1. \A k \in Groups : stage'[k] \in {"executing", "paid"} => stage[k] \in {"executing", "paid"}
    BY <1>13, TransferEffect
  <2>2. UNCHANGED <<status, groupKey, pc, at, reran, unsure, Cycle>>
    BY <1>13, TransferEffect
  <2>3. \A i \in Instances : pc[i] = "fail" /\ groupKey[at[i]][Cycle] # None =>
          groupKey[at[i]][Cycle] \in Groups
    BY CycleType DEF TypeInv, JobInv, TypeOK, RowTypes
  <2> QED
    BY <2>1, <2>2, <2>3
<1>14. ASSUME NEW h \in Hooks, HookUpdate(h) PROVE FreshRowInv'
  <2>1. UNCHANGED <<groupKey, stage, pc, at, got, reran, unsure, Cycle>>
    BY <1>14, HookUpdateEffect
  <2>2. hookOn[h] # None /\ stage[hookOn[h]] \in {"paid", "bounced"}
    BY <1>14, HookUpdateEffect, NoneAssumption DEF HookInv
  <2>3. \A i \in Instances : at[i] \notin reran /\ pc[i] \in {"standby", "key", "execute"} =>
          status'[at[i]][Cycle] = status[at[i]][Cycle]
    <3> SUFFICES ASSUME NEW i \in Instances, at[i] \notin reran,
                        pc[i] \in {"standby", "key", "execute"}
                 PROVE  status'[at[i]][Cycle] = status[at[i]][Cycle]
      OBVIOUS
    <3>1. at[i] \in Sellers /\ Cycle \in Cycles
      BY CycleType DEF TypeInv, JobInv
    <3>2. groupKey[at[i]][Cycle] # hookOn[h]
      BY <2>2 DEF WorkInv, Ready
    <3> QED
      BY <1>14, <3>1, <3>2, HookUpdateEffect
  <2> QED
    BY <2>1, <2>3
<1> QED
  BY <1>1, <1>2, <1>3, <1>4, <1>5, <1>6, <1>7, <1>8, <1>9, <1>10, <1>11, <1>12, <1>13, <1>14 DEF
     Next, JobStep, vars, saleVars, rowVars, pgVars, jobVars, SettleSale, RefundSale,
     SetEligible, LockExpires, HookFind

\* What the bank has said stays said while a webhook is handled.
LEMMA HookStep == PayInv /\ [Next]_vars => HookInv'
<1> SUFFICES ASSUME PayInv, [Next]_vars PROVE HookInv'
  OBVIOUS
<1> USE DEF PayInv, HookInv
<1>1. CASE UNCHANGED <<hookOn, stage>>
  BY <1>1
<1>2. ASSUME NEW i \in Instances, Standby(i) PROVE HookInv'
  <2>1. UNCHANGED hookOn /\ \A h \in Hooks : hookOn[h] \in Groups \cup {None}
    BY <1>2, StandbyEffect DEF TypeInv, TypeOK, PayTypes
  <2>2. \A g \in Groups : stage[g] # "unused" => stage'[g] = stage[g]
    <3>1. CASE UNCHANGED stage
      BY <3>1
    <3>2. CASE ~UNCHANGED stage
      <4>1. PICK k \in Groups : /\ transfer[k] = None
                                /\ stage' = [stage EXCEPT ![k] = "waiting"]
        BY <1>2, <3>2 DEF Standby
      <4> QED
        BY <4>1 DEF TransferInv, TypeInv, TypeOK, PayTypes
    <3> QED
      BY <3>1, <3>2
  <2> QED
    BY <2>1, <2>2
<1>3. ASSUME NEW i \in Instances, Execute(i) PROVE HookInv'
  <2>1. UNCHANGED hookOn /\ \A h \in Hooks : hookOn[h] \in Groups \cup {None}
    BY <1>3, ExecuteEffect DEF TypeInv, TypeOK, PayTypes
  <2>2. stage[got[i]] = "waiting"
    BY <1>3, ExecuteEffect DEF WorkInv, Ready
  <2> QED
    BY <1>3, <2>1, <2>2, ExecuteEffect
<1>4. ASSUME NEW g \in Groups, Transfer(g) PROVE HookInv'
  <2>1. UNCHANGED hookOn /\ \A h \in Hooks : hookOn[h] \in Groups \cup {None}
    BY <1>4 DEF Transfer, TypeInv, TypeOK, PayTypes
  <2> QED
    BY <1>4, <2>1, TransferEffect
<1>5. ASSUME NEW h \in Hooks, NEW g \in Groups, HookFind(h, g) PROVE HookInv'
  BY <1>5 DEF HookFind, TypeInv, TypeOK, PayTypes
<1>6. ASSUME NEW h \in Hooks, HookUpdate(h) PROVE HookInv'
  BY <1>6, HookUpdateEffect DEF TypeInv, TypeOK, PayTypes
<1> QED
  BY <1>1, <1>2, <1>3, <1>4, <1>5, <1>6 DEF Next, JobStep, vars, saleVars, rowVars, pgVars,
     jobVars, SettleSale, RefundSale, SetEligible, NextPeriod, LockExpires, Fire, Finish, Aggregate,
     CreateRow, StoreKey, MarkFailed, SellerFails, Crash

\* A verdict is given by the job before the execution, or by the webhook after the transfer.
LEMMA TruthStep == PayInv /\ [Next]_vars => StatusTellsTruth'
<1> SUFFICES ASSUME PayInv, [Next]_vars PROVE StatusTellsTruth'
  OBVIOUS
<1> USE DEF PayInv, StatusTellsTruth
<1>1. CASE UNCHANGED <<status, groupKey, transfer, stage, reran, unsure>>
  BY <1>1 DEF HasRow
<1>2. ASSUME NEW i \in Instances, CreateRow(i) PROVE StatusTellsTruth'
  <2>1. UNCHANGED <<groupKey, transfer, stage, unsure>> /\ reran \subseteq reran'
    BY <1>2, CreateRowEffect
  <2>2. \A u \in Sellers, m \in Cycles : status'[u][m] \in {"Succeed", "Failed"} =>
          status'[u][m] = status[u][m]
    BY <1>2, CreateRowEffect
  <2> QED
    BY <2>1, <2>2
<1>3. ASSUME NEW i \in Instances, Standby(i) PROVE StatusTellsTruth'
  <2>1. UNCHANGED <<status, groupKey, reran, unsure>>
    BY <1>3, StandbyEffect
  <2>2. \A g \in Groups : transfer[g] # None => transfer'[g] = transfer[g] /\ stage'[g] = stage[g]
    BY <1>3, StandbyEffect
  <2>3. \A u \in Sellers, m \in Cycles : groupKey[u][m] # None =>
          groupKey[u][m] \in Groups /\ transfer[groupKey[u][m]] # None
    BY DEF KeyInv, TypeInv, TypeOK, RowTypes
  <2> QED
    BY <2>1, <2>2, <2>3
<1>4. ASSUME NEW i \in Instances, StoreKey(i) PROVE StatusTellsTruth'
  <2>1. /\ UNCHANGED <<status, transfer, stage, reran, unsure>>
        /\ at[i] \in Sellers /\ Cycle \in Cycles /\ got[i] \in Groups /\ pc[i] = "key"
    BY <1>4, StoreKeyEffect
  <2>2. /\ stage[got[i]] = "waiting"
        /\ transfer[got[i]].seller = at[i]
        /\ transfer[got[i]].cycle = Cycle
        /\ transfer[got[i]] # None
    BY <2>1 DEF WorkInv, Ready, TransferInv
  <2>3. status[at[i]][Cycle] # "Succeed"
    <3> SUFFICES ASSUME status[at[i]][Cycle] = "Succeed" PROVE FALSE
      OBVIOUS
    <3> DEFINE k == groupKey[at[i]][Cycle]
    <3>1. k # None /\ stage[k] = "paid"
      BY <2>1
    <3>2. k \in Groups
      BY <2>1, <3>1 DEF TypeInv, TypeOK, RowTypes
    <3>3. transfer[k] # None /\ transfer[k].seller = at[i] /\ transfer[k].cycle = Cycle
      BY <2>1, <3>1 DEF KeyInv
    <3>4. k = got[i]
      BY <2>1, <2>2, <3>2, <3>3 DEF UniqueInv
    <3> QED
      BY <2>2, <3>1, <3>4
  <2>4. status'[at[i]][Cycle] = "Failed" /\ at[i] \notin reran' => FALSE
    BY <2>1 DEF FreshRowInv, FreshRow
  <2>5. \A u \in Sellers, m \in Cycles :
          u # at[i] \/ m # Cycle => groupKey'[u][m] = groupKey[u][m]
    BY <1>4, StoreKeyEffect
  <2> QED
    BY <2>1, <2>3, <2>4, <2>5
<1>5. ASSUME NEW i \in Instances, Execute(i) PROVE StatusTellsTruth'
  <2>1. /\ UNCHANGED <<status, groupKey, transfer, reran>> /\ unsure \subseteq unsure'
        /\ at[i] \in Sellers /\ Cycle \in Cycles /\ got[i] \in Groups /\ pc[i] = "execute"
    BY <1>5, ExecuteEffect
  <2>2. /\ stage[got[i]] = "waiting"
        /\ transfer[got[i]].seller = at[i]
        /\ transfer[got[i]].cycle = Cycle
    BY <2>1 DEF WorkInv, Ready
  <2>3. \A k \in Groups : stage[k] # "waiting" => stage'[k] = stage[k]
    BY <1>5, <2>2, ExecuteEffect
  <2>4. \A u \in Sellers, m \in Cycles : groupKey[u][m] = got[i] => u = at[i] /\ m = Cycle
    BY <2>1, <2>2, NoneAssumption DEF KeyInv
  <2>5. at[i] \notin reran => status[at[i]][Cycle] = "Pending"
    BY <2>1 DEF FreshRowInv, FreshRow
  <2>6. \A k \in Groups : k # got[i] => stage'[k] = stage[k]
    BY <1>5, ExecuteEffect
  <2>7. \A u \in Sellers, m \in Cycles : groupKey[u][m] # None => groupKey[u][m] \in Groups
    BY DEF TypeInv, TypeOK, RowTypes
  <2> QED
    BY <2>1, <2>2, <2>3, <2>4, <2>5, <2>6, <2>7
<1>6. ASSUME NEW i \in Instances, MarkFailed(i) PROVE StatusTellsTruth'
  <2>1. /\ UNCHANGED <<groupKey, transfer, stage, reran, unsure>>
        /\ at[i] \in Sellers /\ Cycle \in Cycles /\ pc[i] = "fail"
    BY <1>6, MarkFailedEffect
  <2>2. /\ at[i] \notin reran
        /\ groupKey[at[i]][Cycle] # None
        /\ groupKey[at[i]][Cycle] \notin unsure
        => stage[groupKey[at[i]][Cycle]] \notin {"executing", "paid"}
    BY <2>1 DEF FreshRowInv, FreshRow
  <2> QED
    BY <1>6, <2>1, <2>2, MarkFailedEffect
<1>7. ASSUME NEW g \in Groups, Transfer(g) PROVE StatusTellsTruth'
  <2>1. UNCHANGED <<status, groupKey, transfer, reran, unsure>>
    BY <1>7, TransferEffect
  <2>2. \A k \in Groups : /\ stage[k] = "paid" => stage'[k] = "paid"
                          /\ stage'[k] \in {"executing", "paid"} =>
                               stage[k] \in {"executing", "paid"}
    BY <1>7, TransferEffect
  <2>3. \A u \in Sellers, m \in Cycles : groupKey[u][m] # None => groupKey[u][m] \in Groups
    BY DEF TypeInv, TypeOK, RowTypes
  <2> QED
    BY <2>1, <2>2, <2>3
<1>8. ASSUME NEW h \in Hooks, HookUpdate(h) PROVE StatusTellsTruth'
  <2>1. UNCHANGED <<groupKey, transfer, stage, reran, unsure>>
    BY <1>8, HookUpdateEffect
  <2>2. hookOn[h] # None /\ stage[hookOn[h]] \in {"paid", "bounced"}
    BY <1>8, HookUpdateEffect, NoneAssumption DEF HookInv
  <2>3. \A u \in Sellers, m \in Cycles : groupKey[u][m] # None =>
          transfer[groupKey[u][m]].seller = u /\ transfer[groupKey[u][m]].cycle = m
    BY DEF KeyInv
  <2> QED
    BY <1>8, <2>1, <2>2, <2>3, HookUpdateEffect
<1> QED
  BY <1>1, <1>2, <1>3, <1>4, <1>5, <1>6, <1>7, <1>8 DEF Next, JobStep, vars, saleVars, rowVars,
     pgVars, jobVars, SettleSale, RefundSale, SetEligible, NextPeriod, LockExpires, Fire,
     Finish, Aggregate, SellerFails, Crash, HookFind


LEMMA PayStep == PayInv /\ [Next]_vars => PayInv'
BY TypeStep, RowStep, KeyStep, TransferStep, UniqueStep, WorkStep, FreshRowStep, HookStep,
   TruthStep DEF PayInv

LEMMA PayInit == Init => PayInv
<1> SUFFICES ASSUME Init PROVE PayInv
  OBVIOUS
<1>1. TypeInv
  BY InitTypes
<1>2. \A u \in Sellers, m \in Cycles : status[u][m] = "none" /\ groupKey[u][m] = None
  BY DEF Init, PerCycle
<1>3. \A g \in Groups : transfer[g] = None /\ stage[g] = "unused"
  BY DEF Init
<1>4. (\A i \in Instances : pc[i] = "idle") /\ (\A h \in Hooks : hookOn[h] = None)
  BY DEF Init
<1> QED
  BY <1>1, <1>2, <1>3, <1>4
     DEF PayInv, RowInv, KeyInv, TransferInv, UniqueInv, WorkInv, Ready, FreshRowInv, FreshRow,
         HookInv, StatusTellsTruth, HasRow

\* A payout that is closed as Succeed was transferred, and one that is closed as
\* Failed was not, unless its execution was not answered or its cycle was worked on
\* twice; whatever else fails or dies, and however often webhooks come.
THEOREM StatusAlwaysTellsTruth == Spec => []StatusTellsTruth
<1>1. PayInv => StatusTellsTruth
  BY DEF PayInv
<1> QED
  BY <1>1, PayInit, PayStep, PTL DEF Spec

-----------------------------------------------------------------------------
(* The refinement. *)

LEMMA SamePayments ==
  ASSUME PayInv, [Next]_vars,
         \A g \in Groups : stage'[g] = "paid" <=> stage[g] = "paid"
  PROVE  UNCHANGED Payments
<1>1. {x \in Groups : stage'[x] = "paid"} = {x \in Groups : stage[x] = "paid"}
  OBVIOUS
<1>2. \A g \in Groups : stage[g] = "paid" => transfer'[g] = transfer[g]
  BY TransfersStay DEF PayInv, TransferInv
<1>3. \A g \in Groups : stage[g] = "paid" => Payment(g)' = Payment(g)
  BY <1>2 DEF Payment
<1> QED
  BY <1>1, <1>3 DEF Payments

\* Only the bank adds a payment.
LEMMA PaidOrSame ==
  ASSUME PayInv, [Next]_vars
  PROVE  \/ \E g \in Groups : Transfer(g)
         \/ UNCHANGED Payments
<1>1. ASSUME NEW i \in Instances, Standby(i)
      PROVE  \A g \in Groups : stage'[g] = "paid" <=> stage[g] = "paid"
  BY <1>1, StandbyEffect DEF PayInv, TransferInv
<1>2. ASSUME NEW i \in Instances, Execute(i)
      PROVE  \A g \in Groups : stage'[g] = "paid" <=> stage[g] = "paid"
  <2>1. stage[got[i]] = "waiting"
    BY <1>2, ExecuteEffect DEF PayInv, WorkInv, Ready
  <2> QED
    BY <1>2, <2>1, ExecuteEffect DEF PayInv
<1>3. CASE UNCHANGED stage
  BY <1>3, SamePayments
<1>4. CASE \E i \in Instances : Standby(i) \/ Execute(i)
  BY <1>1, <1>2, <1>4, SamePayments
<1>5. CASE \E g \in Groups : Transfer(g)
  BY <1>5
<1> QED
  BY <1>3, <1>4, <1>5
     DEF Next, JobStep, vars, pgVars, SettleSale, RefundSale, SetEligible, NextPeriod,
         LockExpires, Fire, Finish, Aggregate, CreateRow, StoreKey, MarkFailed, SellerFails,
         Crash, HookFind, HookUpdate

LEMMA TransferPays ==
  ASSUME PayInv, [Next]_vars, NEW g \in Groups, Transfer(g)
  PROVE  [Ledger!Next]_Ledger!vars
<1>1. UNCHANGED <<period, status, transfer>>
  BY TransferEffect DEF PayInv
<1>2. UNCHANGED Booked
  BY <1>1 DEF Booked, HasRow
<1>3. \A k \in Groups : k # g => stage'[k] = stage[k]
  BY TransferEffect DEF PayInv
<1>4. \A k \in Groups : Payment(k)' = Payment(k)
  BY <1>1 DEF Payment
<1>5. stage[g] = "executing" /\ stage'[g] \in {"paid", "bounced"}
  BY TransferEffect DEF PayInv
<1>6. CASE stage'[g] = "bounced"
  <2>1. UNCHANGED Payments
    BY <1>3, <1>5, <1>6, SamePayments
  <2> QED
    BY <1>1, <1>2, <2>1 DEF Ledger!vars
<1>7. CASE stage'[g] = "paid"
  <2>1. {x \in Groups : stage'[x] = "paid"} = {x \in Groups : stage[x] = "paid"} \cup {g}
    BY <1>3, <1>7
  <2>2. Payments' = Payments \cup {Payment(g)}
    BY <1>4, <2>1 DEF Payments
  <2>3. transfer[g] # None
    BY <1>5 DEF PayInv, TransferInv
  <2>4. /\ transfer[g].seller \in Sellers /\ transfer[g].cycle \in Cycles
        /\ transfer[g].amount \in MinPayout..Total[Sales]
        /\ HasRow(transfer[g].seller, transfer[g].cycle)
    BY <2>3 DEF PayInv, TransferInv, TypeInv, TypeOK, PayTypes, Transfers
  <2>5. <<transfer[g].seller, transfer[g].cycle>> \in Booked
    BY <2>4 DEF Booked
  <2>6. \A p \in Payments : <<p.seller, p.cycle>> # <<transfer[g].seller, transfer[g].cycle>>
    <3> SUFFICES ASSUME NEW k \in Groups, stage[k] = "paid",
                        transfer[k].seller = transfer[g].seller,
                        transfer[k].cycle = transfer[g].cycle
                 PROVE  FALSE
      BY DEF Payments, Payment
    <3>1. transfer[k] # None
      BY DEF PayInv, TransferInv
    <3>2. k = g
      BY <2>3, <3>1 DEF PayInv, UniqueInv
    <3> QED
      BY <1>5, <3>2
  <2>7. Ledger!Pay(g, transfer[g].seller, transfer[g].cycle, transfer[g].amount)
    BY <1>1, <1>2, <2>2, <2>5, <2>6 DEF Ledger!Pay, Payment
  <2> QED
    BY <2>4, <2>7 DEF Ledger!Next, Ledger!Cycles, Cycles
<1> QED
  BY <1>5, <1>6, <1>7

LEMMA BookedChange ==
  ASSUME PayInv, [Next]_vars
  PROVE  \/ UNCHANGED Booked
         \/ /\ UNCHANGED period
            /\ Cycle \in Cycles /\ Cycle < period
            /\ \E v \in Sellers : Booked' = Booked \cup {<<v, Cycle>>}
<1>1. CASE \A u \in Sellers, m \in Cycles : HasRow(u, m)' => HasRow(u, m)
  <2>1. \A u \in Sellers, m \in Cycles : HasRow(u, m)' <=> HasRow(u, m)
    BY <1>1, RowsStay
  <2> QED
    BY <2>1 DEF Booked
<1>2. ASSUME UNCHANGED period, Cycle \in Cycles, NEW v \in Sellers,
             \A u \in Sellers, m \in Cycles :
               HasRow(u, m)' <=> (HasRow(u, m) \/ (u = v /\ m = Cycle))
      PROVE  Booked' = Booked \cup {<<v, Cycle>>} /\ Cycle < period
  <2>1. Booked' = Booked \cup {<<v, Cycle>>}
    BY <1>2 DEF Booked
  <2>2. Cycle < period
    BY DEF PayInv, TypeInv, TypeOK, JobTypes, Periods, Cycle
  <2> QED
    BY <2>1, <2>2
<1> QED
  BY <1>1, <1>2, RowsStay

\* At most one transfer per seller and cycle, after the cycle, for a row, and of
\* no amount under the minimum or above all sales, although the job may run
\* again and again.
THEOREM ImplementsPayoutLedger == Spec => PayoutLedgerSpec
<1>1. Init => Ledger!Init
  <2> SUFFICES ASSUME Init PROVE period = 1 /\ Booked = {} /\ Payments = {}
    BY DEF Ledger!Init
  <2>1. \A u \in Sellers, m \in Cycles : ~HasRow(u, m)
    BY DEF Init, PerCycle, HasRow
  <2>2. \A g \in Groups : stage[g] # "paid"
    BY DEF Init
  <2>3. period = 1
    BY DEF Init
  <2> QED
    BY <2>1, <2>2, <2>3 DEF Booked, Payments
<1>2. PayInv /\ [Next]_vars => [Ledger!Next]_Ledger!vars
  <2> SUFFICES ASSUME PayInv, [Next]_vars PROVE [Ledger!Next]_Ledger!vars
    OBVIOUS
  <2>1. CASE \E g \in Groups : Transfer(g)
    BY <2>1, TransferPays
  <2>2. CASE UNCHANGED Payments /\ UNCHANGED period
    <3>1. CASE UNCHANGED Booked
      BY <2>2, <3>1 DEF Ledger!vars
    <3>2. ASSUME Cycle \in Cycles, Cycle < period, NEW v \in Sellers,
                 Booked' = Booked \cup {<<v, Cycle>>}
          PROVE  Ledger!Next
      <4>1. Ledger!Book(v, Cycle)
        BY <2>2, <3>2 DEF Ledger!Book
      <4> QED
        BY <3>2, <4>1 DEF Ledger!Next, Ledger!Cycles, Cycles
    <3> QED
      BY <3>1, <3>2, BookedChange
  <2>3. CASE UNCHANGED Payments /\ NextPeriod
    <3>1. period < LastPeriod /\ period' = period + 1 /\ UNCHANGED status
      BY <2>3 DEF NextPeriod, rowVars
    <3>2. UNCHANGED Booked
      BY <3>1 DEF Booked, HasRow
    <3> QED
      BY <2>3, <3>1, <3>2 DEF Ledger!Next, Ledger!Turn
  <2>4. UNCHANGED period \/ NextPeriod
    BY DEF Next, JobStep, vars, jobVars, SettleSale, RefundSale, SetEligible, LockExpires, Fire,
       Finish, Aggregate, CreateRow, Standby, StoreKey, Execute, MarkFailed, SellerFails, Crash,
       Transfer, HookFind, HookUpdate
  <2> QED
    BY <2>1, <2>2, <2>3, <2>4, PaidOrSame
<1> QED
  BY <1>1, <1>2, PayInit, PayStep, PTL DEF Spec, PayoutLedgerSpec, Ledger!Spec
-----------------------------------------------------------------------------
(* The money.  What was prepared for a seller, with what the job is about  *)
(* to prepare, stays within his books: a debt that a row leaves is what    *)
(* the next row is short of.                                               *)

Prepared(u) == {g \in Groups : transfer[g] # None /\ transfer[g].seller = u}
Due(u)      == SumFunctionOnSet(AmountOf, Prepared(u))
Books(u)    == Total[InRows(u, counted)] - Total[InRows(u, deducted)]

EmptyInv ==
  \A u \in Sellers, m \in Cycles : ~HasRow(u, m) => counted[u][m] = {} /\ deducted[u][m] = {}

NetInv ==
  \A i \in Instances, u \in Sellers : pc[i] = "create" /\ at[i] = u =>
    tally[i].net = Total[tally[i].counted] - Total[tally[i].deducted] - CarryOver(u)

DueInv ==
  \A u \in Sellers \ reran : Due(u) - CarryOver(u) <= Books(u)

ComingInv ==
  \A i \in Instances, u \in Sellers \ reran : pc[i] = "standby" /\ at[i] = u =>
    Due(u) + tally[i].net - CarryOver(u) <= Books(u)

MoneyInv ==
  /\ IsFiniteSet({g \in Groups : transfer[g] # None})
  /\ EmptyInv /\ NetInv /\ DueInv /\ ComingInv

BalanceInv == PayInv /\ SaleInv /\ MoneyInv

\* A seller's last row is one, so what is carried over is that row's debt.
LEMMA CarryOverIs ==
  ASSUME NEW u \in Sellers, NEW m \in Cycles
  PROVE  /\ IsLastRow(u, m) => CarryOver(u) = IF net[u][m] < 0 THEN - net[u][m] ELSE 0
         /\ IsLastRow(u, m)' => CarryOver(u)' = IF net'[u][m] < 0 THEN - net'[u][m] ELSE 0
<1>1. ASSUME IsLastRow(u, m) PROVE CarryOver(u) = IF net[u][m] < 0 THEN - net[u][m] ELSE 0
  <2>1. \A n \in Cycles : IsLastRow(u, n) <=> n = m
    BY <1>1, BoundAssumption DEF IsLastRow, Cycles
  <2>2. (CHOOSE n \in Cycles : IsLastRow(u, n)) = m
    BY <2>1
  <2> QED
    BY <2>1, <2>2 DEF CarryOver
<1>2. ASSUME IsLastRow(u, m)' PROVE CarryOver(u)' = IF net'[u][m] < 0 THEN - net'[u][m] ELSE 0
  <2>1. \A n \in Cycles : IsLastRow(u, n)' <=> n = m
    BY <1>2, BoundAssumption DEF IsLastRow, Cycles
  <2>2. (CHOOSE n \in Cycles : IsLastRow(u, n)') = m
    BY <2>1
  <2> QED
    BY <2>1, <2>2 DEF CarryOver
<1> QED
  BY <1>1, <1>2

LEMMA NothingCarried ==
  ASSUME NEW u \in Sellers
  PROVE  /\ (\A m \in Cycles : ~IsLastRow(u, m)) => CarryOver(u) = 0
         /\ (\A m \in Cycles : ~IsLastRow(u, m)') => CarryOver(u)' = 0
BY DEF CarryOver

LEMMA CarryOverStays ==
  ASSUME NEW u \in Sellers,
         \A m \in Cycles : HasRow(u, m)' <=> HasRow(u, m),
         \A m \in Cycles : net'[u][m] = net[u][m]
  PROVE  CarryOver(u)' = CarryOver(u)
<1>1. \A m \in Cycles : IsLastRow(u, m)' <=> IsLastRow(u, m)
  BY DEF IsLastRow
<1>2. CASE \E m \in Cycles : IsLastRow(u, m)
  <2>1. PICK m \in Cycles : IsLastRow(u, m)
    BY <1>2
  <2>2. IsLastRow(u, m)'
    BY <1>1, <2>1
  <2> QED
    BY <2>1, <2>2, CarryOverIs
<1>3. CASE \A m \in Cycles : ~IsLastRow(u, m)
  <2>1. \A m \in Cycles : ~IsLastRow(u, m)'
    BY <1>1, <1>3
  <2> QED
    BY <1>3, <2>1, NothingCarried
<1> QED
  BY <1>2, <1>3

\* What a seller's rows add up to is an integer.
LEMMA BooksInt ==
  ASSUME TypeOK, NEW u \in Sellers
  PROVE  /\ InRows(u, counted) \in SUBSET Sales /\ InRows(u, deducted) \in SUBSET Sales
         /\ Books(u) \in Int
<1>1. InRows(u, counted) \in SUBSET Sales /\ InRows(u, deducted) \in SUBSET Sales
  BY DEF TypeOK, RowTypes, InRows
<1>2. Total[InRows(u, counted)] \in Nat /\ Total[InRows(u, deducted)] \in Nat
  BY <1>1, TotalBounds
<1> QED
  BY <1>1, <1>2 DEF Books

\* What is prepared for a seller is a sum of amounts.
LEMMA AmountsNat ==
  ASSUME PayInv
  PROVE  \A g \in Groups : AmountOf[g] \in Nat
<1> SUFFICES ASSUME NEW g \in Groups PROVE AmountOf[g] \in Nat
  OBVIOUS
<1>1. CASE transfer[g] = None
  BY <1>1 DEF AmountOf
<1>2. CASE transfer[g] # None
  <2>1. transfer[g].amount \in MinPayout..Total[Sales] /\ MinPayout \in Nat /\ Total[Sales] \in Nat
    BY <1>2, BoundAssumption, TotalBounds DEF PayInv, TransferInv
  <2>2. transfer[g].amount \in Nat
    BY <2>1
  <2> QED
    BY <1>2, <2>2 DEF AmountOf
<1> QED
  BY <1>1, <1>2

LEMMA DueNat ==
  ASSUME BalanceInv, NEW u \in Sellers
  PROVE  IsFiniteSet(Prepared(u)) /\ Due(u) \in Nat
<1>1. PICK S : S = Prepared(u)
  OBVIOUS
<1>2. IsFiniteSet(S) /\ \A g \in S : g \in Groups
  <2>1. PICK R : R = {g \in Groups : transfer[g] # None} /\ IsFiniteSet(R)
    BY DEF BalanceInv, MoneyInv
  <2>2. S \subseteq R
    BY <1>1, <2>1 DEF Prepared
  <2> QED
    BY <2>1, <2>2, FS_Subset
<1>3. \A g \in S : AmountOf[g] \in Nat
  BY <1>2, AmountsNat DEF BalanceInv
<1>4. SumFunctionOnSet(AmountOf, S) \in Nat
  BY <1>2, <1>3, SumNat
<1> QED
  BY <1>1, <1>2, <1>4 DEF Due

LEMMA DueStays ==
  ASSUME UNCHANGED transfer
  PROVE  \A u \in Sellers : Due(u)' = Due(u)
BY DEF Due, Prepared, AmountOf

LEMMA BooksStay ==
  ASSUME NEW u \in Sellers,
         \A m \in Cycles : counted'[u][m] = counted[u][m] /\ deducted'[u][m] = deducted[u][m]
  PROVE  Books(u)' = Books(u)
<1>1. InRows(u, counted)' = InRows(u, counted)
  BY DEF InRows
<1>2. InRows(u, deducted)' = InRows(u, deducted)
  BY DEF InRows
<1> QED
  BY <1>1, <1>2 DEF Books

\* Whoever writes no row, prepares nothing and is not about to, moves no money.
LEMMA MoneyStays ==
  ASSUME BalanceInv, UNCHANGED <<counted, deducted, net, transfer>>,
         \A u \in Sellers, m \in Cycles : HasRow(u, m)' <=> HasRow(u, m),
         reran' = reran,
         \A i \in Instances : pc'[i] \in {"create", "standby"} =>
           pc[i] = pc'[i] /\ at'[i] = at[i] /\ tally'[i] = tally[i]
  PROVE  MoneyInv'
<1>1. \A u \in Sellers : CarryOver(u)' = CarryOver(u)
  BY CarryOverStays
<1>2. \A u \in Sellers : Due(u)' = Due(u)
  BY DueStays
<1>3. \A u \in Sellers : Books(u)' = Books(u)
  BY BooksStay
<1>4. IsFiniteSet({g \in Groups : transfer'[g] # None})
  BY DEF BalanceInv, MoneyInv
<1>5. EmptyInv'
  BY DEF BalanceInv, MoneyInv, EmptyInv
<1>6. NetInv'
  BY <1>1 DEF BalanceInv, MoneyInv, NetInv
<1>7. DueInv'
  BY <1>1, <1>2, <1>3 DEF BalanceInv, MoneyInv, DueInv
<1>8. ComingInv'
  BY <1>1, <1>2, <1>3 DEF BalanceInv, MoneyInv, ComingInv
<1> QED
  BY <1>4, <1>5, <1>6, <1>7, <1>8 DEF MoneyInv

\* The job reads what a seller earned, what it must deduct, and his debt.
LEMMA AggregateMoney ==
  ASSUME BalanceInv, NEW i \in Instances, Aggregate(i) PROVE MoneyInv'
<1>1. PICK u \in todo[i] : /\ at' = [at EXCEPT ![i] = u]
                           /\ tally' = [tally EXCEPT ![i] = TallyOf(u)]
  BY AggregateSeller
<1>2. /\ pc[i] = "next" /\ pc' = [pc EXCEPT ![i] = "create"]
      /\ UNCHANGED <<status, counted, deducted, net, transfer, reran>>
  BY DEF Aggregate, Goto, rowVars, pgVars
<1>3. /\ \A j \in Instances : j # i => pc'[j] = "idle"
      /\ pc'[i] = "create" /\ at'[i] = u /\ tally'[i] = TallyOf(u)
  <2>1. pc'[i] = "create" /\ at'[i] = u /\ tally'[i] = TallyOf(u)
    BY <1>1, <1>2 DEF BalanceInv, PayInv, TypeInv, TypeOK, JobTypes
  <2>2. \A j \in Instances : j # i => pc'[j] = "idle"
    BY <1>2, OthersIdle DEF BalanceInv, PayInv
  <2> QED
    BY <2>1, <2>2
<1>4. \A v \in Sellers : /\ CarryOver(v)' = CarryOver(v) /\ Due(v)' = Due(v)
                         /\ Books(v)' = Books(v)
  BY <1>2, CarryOverStays, DueStays, BooksStay DEF HasRow
<1>5. IsFiniteSet({g \in Groups : transfer'[g] # None}) /\ EmptyInv'
  BY <1>2 DEF BalanceInv, MoneyInv, EmptyInv, HasRow
<1>6. NetInv'
  <2>1. tally'[i].net = Total[tally'[i].counted] - Total[tally'[i].deducted] - CarryOver(u)
    BY <1>3 DEF TallyOf
  <2> QED
    BY <1>3, <1>4, <2>1 DEF NetInv
<1>7. DueInv'
  BY <1>2, <1>4 DEF BalanceInv, MoneyInv, DueInv
<1>8. ComingInv'
  BY <1>3 DEF ComingInv
<1> QED
  BY <1>5, <1>6, <1>7, <1>8 DEF MoneyInv

\* A row that was not there adds what was read to the books.
LEMMA RowBooks ==
  ASSUME BalanceInv, NEW i \in Instances, pc[i] = "create", NEW u \in Sellers, u = at[i],
         Cycle \in Cycles, ~HasRow(u, Cycle),
         \A m \in Cycles : /\ counted'[u][m] = IF m = Cycle THEN tally[i].counted ELSE counted[u][m]
                           /\ deducted'[u][m] = IF m = Cycle THEN tally[i].deducted ELSE deducted[u][m]
  PROVE  Books(u)' = Books(u) + Total[tally[i].counted] - Total[tally[i].deducted]
<1>1. PICK A, B, C, D \in SUBSET Sales :
        /\ A = InRows(u, counted) /\ B = tally[i].counted
        /\ C = InRows(u, deducted) /\ D = tally[i].deducted
  BY BooksInt DEF BalanceInv, PayInv, TypeInv, TypeOK, JobTypes, Tallies
<1>2. counted[u][Cycle] = {} /\ deducted[u][Cycle] = {}
  BY DEF BalanceInv, MoneyInv, EmptyInv
<1>3. InRows(u, counted)' = A \cup B
  BY <1>1, <1>2 DEF InRows
<1>4. InRows(u, deducted)' = C \cup D
  BY <1>1, <1>2 DEF InRows
<1>5. A \cap B = {}
  <2> SUFFICES ASSUME NEW s \in Sales, s \in A, s \in B PROVE FALSE
    OBVIOUS
  <2>1. PICK m \in Cycles : s \in counted[u][m]
    BY <1>1 DEF InRows
  <2>2. m = Cycle
    BY <1>1, <2>1 DEF BalanceInv, SaleInv, FreshInv
  <2> QED
    BY <1>2, <2>1, <2>2
<1>6. C \cap D = {}
  <2> SUFFICES ASSUME NEW s \in Sales, s \in C, s \in D PROVE FALSE
    OBVIOUS
  <2>1. PICK m \in Cycles : s \in deducted[u][m]
    BY <1>1 DEF InRows
  <2>2. changedIn[s] = m /\ changedIn[s] = Cycle
    BY <1>1, <2>1 DEF BalanceInv, SaleInv, DeductInv, ReadInv
  <2> QED
    BY <1>2, <2>1, <2>2
<1>7. PICK a, b, c, d \in Nat : a = Total[A] /\ b = Total[B] /\ c = Total[C] /\ d = Total[D]
  BY TotalBounds
<1>8. Total[A \cup B] = a + b /\ Total[C \cup D] = c + d
  BY <1>5, <1>6, <1>7, TotalAssumption
<1>9. Books(u)' = (a + b) - (c + d)
  BY <1>3, <1>4, <1>8 DEF Books
<1>10. Books(u) = a - c
  BY <1>1, <1>7 DEF Books
<1> QED
  BY <1>1, <1>7, <1>9, <1>10

LEMMA NewRowMoney ==
  ASSUME BalanceInv, [Next]_vars, NEW i \in Instances, CreateRow(i), ~HasRow(at[i], Cycle)
  PROVE  MoneyInv'
<1>1. PICK u \in Sellers : u = at[i]
  BY CreateRowEffect DEF BalanceInv, PayInv
<1>2. /\ Cycle \in Cycles /\ pc[i] = "create" /\ ~HasRow(u, Cycle)
      /\ pc' = [pc EXCEPT ![i] = IF tally[i].net < MinPayout THEN "next" ELSE "standby"]
      /\ UNCHANGED <<transfer, at, tally, reran>>
  BY <1>1, CreateRowEffect DEF BalanceInv, PayInv
<1>3. \A v \in Sellers, m \in Cycles :
        /\ counted'[v][m] = IF v = u /\ m = Cycle THEN tally[i].counted ELSE counted[v][m]
        /\ deducted'[v][m] = IF v = u /\ m = Cycle THEN tally[i].deducted ELSE deducted[v][m]
        /\ net'[v][m] = IF v = u /\ m = Cycle THEN tally[i].net ELSE net[v][m]
  <2>1. /\ counted' = [counted EXCEPT ![u][Cycle] = tally[i].counted]
        /\ deducted' = [deducted EXCEPT ![u][Cycle] = tally[i].deducted]
        /\ net' = [net EXCEPT ![u][Cycle] = tally[i].net]
    BY <1>1, <1>2 DEF CreateRow
  <2>2. /\ counted \in [Sellers -> [Cycles -> SUBSET Sales]]
        /\ deducted \in [Sellers -> [Cycles -> SUBSET Sales]]
        /\ net \in [Sellers -> [Cycles -> Int]]
    BY DEF BalanceInv, PayInv, TypeInv, TypeOK, RowTypes
  <2> QED
    BY <1>2, <2>1, <2>2
<1>4. \A v \in Sellers, m \in Cycles : HasRow(v, m)' <=> (HasRow(v, m) \/ (v = u /\ m = Cycle))
  <2>1. status'[u][Cycle] # "none"
    BY <1>1, <1>2, CreateRowEffect DEF BalanceInv, PayInv
  <2>2. \A v \in Sellers, m \in Cycles : v # u \/ m # Cycle => status'[v][m] = status[v][m]
    BY <1>1, CreateRowEffect DEF BalanceInv, PayInv
  <2> QED
    BY <1>2, <2>1, <2>2 DEF HasRow
<1>5. \A v \in Sellers : v # u => CarryOver(v)' = CarryOver(v) /\ Books(v)' = Books(v)
  BY <1>3, <1>4, CarryOverStays, BooksStay
<1>6. \A v \in Sellers : Due(v)' = Due(v)
  BY <1>2, DueStays
<1>7. PICK n, c, d, e, b \in Int :
        /\ n = tally[i].net /\ c = CarryOver(u) /\ d = Due(u) /\ b = Books(u)
        /\ e = Total[tally[i].counted] - Total[tally[i].deducted]
  <2>1. tally[i].net \in Int /\ tally[i].counted \in SUBSET Sales /\ tally[i].deducted \in SUBSET Sales
    BY DEF BalanceInv, PayInv, TypeInv, TypeOK, JobTypes, Tallies
  <2>2. CarryOver(u) \in Int /\ Due(u) \in Int /\ Books(u) \in Int
    BY CarryOverNat, DueNat, BooksInt DEF BalanceInv, PayInv, TypeInv
  <2>3. Total[tally[i].counted] \in Nat /\ Total[tally[i].deducted] \in Nat
    BY <2>1, TotalBounds
  <2>4. Total[tally[i].counted] - Total[tally[i].deducted] \in Int
    BY <2>3
  <2> QED
    BY <2>1, <2>2, <2>4
<1>8. n = e - c
  BY <1>1, <1>2, <1>7 DEF BalanceInv, MoneyInv, NetInv
<1>9. CarryOver(u)' = IF n < 0 THEN - n ELSE 0
  <2>1. IsLastRow(u, Cycle)'
    <3>1. \A m \in Cycles : HasRow(u, m)' => m <= Cycle
      <4>1. \A m \in Cycles : HasRow(u, m) => m < period
        BY DEF BalanceInv, PayInv, RowInv
      <4>2. \A m \in Cycles : m < period => m <= Cycle
        BY DEF BalanceInv, PayInv, TypeInv, TypeOK, JobTypes, Periods, Cycles, Cycle
      <4>3. Cycle <= Cycle
        BY <1>2 DEF Cycles
      <4> QED
        BY <1>4, <4>1, <4>2, <4>3
    <3>2. Cycle' = Cycle
      BY CreateRowEffect DEF BalanceInv, PayInv
    <3>3. HasRow(u, Cycle)'
      BY <1>2, <1>4, <3>2 DEF HasRow
    <3> QED
      BY <3>1, <3>2, <3>3 DEF IsLastRow, HasRow
  <2>2. PICK m \in Cycles : m = Cycle /\ m = Cycle'
    BY <1>2, CreateRowEffect DEF BalanceInv, PayInv
  <2>3. IsLastRow(u, m)'
    BY <2>1, <2>2 DEF IsLastRow, HasRow
  <2> QED
    BY <1>3, <1>7, <2>2, <2>3, CarryOverIs
<1>10. Books(u)' = b + e
  <2>1. Books(u)' = Books(u) + Total[tally[i].counted] - Total[tally[i].deducted]
    BY <1>1, <1>2, <1>3, RowBooks
  <2>2. Total[tally[i].counted] \in Nat /\ Total[tally[i].deducted] \in Nat
    BY TotalBounds DEF BalanceInv, PayInv, TypeInv, TypeOK, JobTypes, Tallies
  <2> QED
    BY <1>7, <2>1, <2>2
<1>11. EmptyInv'
  BY <1>3, <1>4 DEF BalanceInv, MoneyInv, EmptyInv
<1>12. /\ \A j \in Instances : j # i => pc'[j] = "idle"
       /\ pc'[i] = IF tally[i].net < MinPayout THEN "next" ELSE "standby"
  BY <1>2, OthersIdle DEF BalanceInv, PayInv
<1>13. NetInv'
  BY <1>12 DEF NetInv
<1>14. ASSUME u \notin reran
       PROVE  Due(u)' - CarryOver(u)' <= Books(u)' /\ (n >= MinPayout => Due(u)' + n - CarryOver(u)' <= Books(u)')
  <2>1. d - c <= b
    BY <1>7, <1>14 DEF BalanceInv, MoneyInv, DueInv
  <2>2. MinPayout \in Nat /\ Due(u)' = d
    BY <1>6, <1>7, BoundAssumption
  <2>3. CASE n < 0
    BY <1>8, <1>9, <1>10, <2>1, <2>2, <2>3
  <2>4. CASE ~ (n < 0)
    BY <1>8, <1>9, <1>10, <2>1, <2>2, <2>4
  <2> QED
    BY <2>3, <2>4
<1>15. DueInv'
  BY <1>2, <1>5, <1>6, <1>14 DEF BalanceInv, MoneyInv, DueInv
<1>16. ComingInv'
  <2> SUFFICES ASSUME u \notin reran, pc'[i] = "standby"
               PROVE  Due(u)' + n - CarryOver(u)' <= Books(u)'
    BY <1>1, <1>2, <1>7, <1>12 DEF ComingInv
  <2>1. n >= MinPayout
    BY <1>7, <1>12, BoundAssumption
  <2> QED
    BY <1>14, <2>1
<1>17. IsFiniteSet({g \in Groups : transfer'[g] # None})
  BY <1>2 DEF BalanceInv, MoneyInv
<1> QED
  BY <1>11, <1>13, <1>15, <1>16, <1>17 DEF MoneyInv

\* A row that was there is left as it is, and its seller is marked.
LEMMA OldRowMoney ==
  ASSUME BalanceInv, NEW i \in Instances, CreateRow(i), HasRow(at[i], Cycle)
  PROVE  MoneyInv'
<1>1. PICK u \in Sellers : u = at[i]
  BY CreateRowEffect DEF BalanceInv, PayInv
<1>2. /\ pc[i] = "create" /\ reran' = reran \cup {u}
      /\ pc' = [pc EXCEPT ![i] = IF tally[i].net < MinPayout THEN "next" ELSE "standby"]
      /\ UNCHANGED <<transfer, at, tally>>
  BY <1>1, CreateRowEffect DEF BalanceInv, PayInv
<1>3. UNCHANGED <<status, counted, deducted, net>>
  BY DEF CreateRow
<1>4. \A v \in Sellers : /\ CarryOver(v)' = CarryOver(v) /\ Due(v)' = Due(v)
                         /\ Books(v)' = Books(v)
  BY <1>2, <1>3, CarryOverStays, DueStays, BooksStay DEF HasRow
<1>5. /\ \A j \in Instances : j # i => pc'[j] = "idle"
      /\ pc'[i] # "create"
  <2>1. \A j \in Instances : j # i => pc'[j] = "idle"
    BY <1>2, OthersIdle DEF BalanceInv, PayInv
  <2>2. pc'[i] # "create"
    BY <1>2 DEF BalanceInv, PayInv, TypeInv, TypeOK, JobTypes
  <2> QED
    BY <2>1, <2>2
<1>6. IsFiniteSet({g \in Groups : transfer'[g] # None}) /\ EmptyInv'
  BY <1>2, <1>3 DEF BalanceInv, MoneyInv, EmptyInv, HasRow
<1>7. NetInv'
  BY <1>5 DEF NetInv
<1>8. DueInv'
  BY <1>2, <1>4 DEF BalanceInv, MoneyInv, DueInv
<1>9. ComingInv'
  BY <1>1, <1>2, <1>5 DEF ComingInv
<1> QED
  BY <1>6, <1>7, <1>8, <1>9 DEF MoneyInv

\* Payple prepares what the job computed, once, or nothing.
LEMMA StandbyMoney ==
  ASSUME BalanceInv, NEW i \in Instances, Standby(i) PROVE MoneyInv'
<1>1. PICK u \in Sellers : u = at[i]
  BY StandbyEffect DEF BalanceInv, PayInv
<1>2. /\ pc[i] = "standby" /\ UNCHANGED <<status, at, tally, reran>>
      /\ UNCHANGED <<counted, deducted, net>>
  BY StandbyEffect DEF BalanceInv, PayInv, Standby, rowVars
<1>3. \E step \in {"key", "fail"} : pc' = [pc EXCEPT ![i] = step]
  BY StandbyEffect DEF BalanceInv, PayInv
<1>4. \A j \in Instances : pc'[j] \notin {"create", "standby"}
  BY <1>2, <1>3, OthersIdle DEF BalanceInv, PayInv
<1>5. \A v \in Sellers : CarryOver(v)' = CarryOver(v) /\ Books(v)' = Books(v)
  BY <1>2, CarryOverStays, BooksStay DEF HasRow
<1>6. NetInv' /\ ComingInv'
  BY <1>4 DEF NetInv, ComingInv
<1>7. EmptyInv'
  BY <1>2 DEF BalanceInv, MoneyInv, EmptyInv, HasRow
<1>8. CASE UNCHANGED transfer
  <2>1. IsFiniteSet({g \in Groups : transfer'[g] # None})
    BY <1>8 DEF BalanceInv, MoneyInv
  <2>2. DueInv'
    BY <1>2, <1>5, <1>8, DueStays DEF BalanceInv, MoneyInv, DueInv
  <2> QED
    BY <1>6, <1>7, <2>1, <2>2 DEF MoneyInv
<1>9. ASSUME NEW g \in Groups, transfer[g] = None,
             transfer'[g] = [seller |-> u, cycle |-> Cycle, amount |-> tally[i].net],
             \A k \in Groups : k # g => transfer'[k] = transfer[k]
      PROVE  MoneyInv'
  <2>1. transfer'[g] # None /\ transfer'[g].seller = u /\ transfer'[g].amount = tally[i].net
    <3>1. Cycle \in Cycles /\ tally[i].net \in Int
      BY StandbyEffect DEF BalanceInv, PayInv, TypeInv, TypeOK, JobTypes, Tallies
    <3>2. [seller |-> u, cycle |-> Cycle, amount |-> tally[i].net] \in Transfers
      BY <3>1 DEF Transfers
    <3> QED
      BY <1>9, <3>2, NoneAssumption
  <2>2. IsFiniteSet({k \in Groups : transfer'[k] # None})
    <3>1. PICK R : R = {k \in Groups : transfer[k] # None} /\ IsFiniteSet(R)
      BY DEF BalanceInv, MoneyInv
    <3>2. {k \in Groups : transfer'[k] # None} = R \cup {g}
      BY <1>9, <2>1, <3>1
    <3>3. IsFiniteSet(R \cup {g})
      BY <3>1, FS_AddElement
    <3> QED
      BY <3>2, <3>3
  <2>3. \A v \in Sellers : Prepared(v)' = IF v = u THEN Prepared(v) \cup {g} ELSE Prepared(v)
    <3> SUFFICES ASSUME NEW v \in Sellers
                 PROVE  Prepared(v)' = IF v = u THEN Prepared(v) \cup {g} ELSE Prepared(v)
      OBVIOUS
    <3>1. \A k \in Groups : (transfer'[k] # None /\ transfer'[k].seller = v)
                             <=> (transfer[k] # None /\ transfer[k].seller = v) \/ (k = g /\ v = u)
      BY <1>9, <2>1
    <3>2. Prepared(v)' = {k \in Groups : transfer'[k] # None /\ transfer'[k].seller = v}
      BY DEF Prepared
    <3> QED
      BY <3>1, <3>2 DEF Prepared
  <2>4. \A v \in Sellers : SumFunctionOnSet(AmountOf', Prepared(v)) = Due(v)
    <3> SUFFICES ASSUME NEW v \in Sellers PROVE SumFunctionOnSet(AmountOf', Prepared(v)) = Due(v)
      OBVIOUS
    <3>1. PICK S : S = Prepared(v) /\ IsFiniteSet(S)
      BY DueNat
    <3>2. PICK f, h : f = AmountOf /\ h = AmountOf'
      OBVIOUS
    <3>3. \A k \in S : k \in Groups /\ k # g
      BY <1>9, <3>1 DEF Prepared
    <3>4. \A k \in S : f[k] \in Int /\ f[k] = h[k]
      <4>1. \A k \in Groups : f[k] \in Nat
        BY <3>2, AmountsNat DEF BalanceInv
      <4>2. \A k \in Groups : k # g => f[k] = h[k]
        BY <1>9, <3>2 DEF AmountOf
      <4> QED
        BY <3>3, <4>1, <4>2
    <3>5. SumFunctionOnSet(f, S) = SumFunctionOnSet(h, S)
      BY <3>1, <3>4, SumEqual
    <3> QED
      BY <3>1, <3>2, <3>5 DEF Due
  <2>5. \A v \in Sellers : v # u => Due(v)' = Due(v)
    BY <2>3, <2>4 DEF Due
  <2>6. Due(u)' = tally[i].net + Due(u)
    <3>1. PICK S : S = Prepared(u) /\ IsFiniteSet(S)
      BY DueNat
    <3>2. PICK h : h = AmountOf'
      OBVIOUS
    <3>3. g \notin S /\ h[g] = tally[i].net /\ h[g] \in Int
      <4>1. tally[i].net \in Int
        BY DEF BalanceInv, PayInv, TypeInv, TypeOK, JobTypes, Tallies
      <4> QED
        BY <1>9, <2>1, <3>1, <3>2, <4>1 DEF AmountOf, Prepared
    <3>4. \A k \in S : h[k] \in Int
      <4>1. \A k \in S : k \in Groups /\ k # g
        BY <1>9, <3>1 DEF Prepared
      <4>2. \A k \in Groups : k # g => AmountOf[k] = h[k]
        BY <1>9, <3>2 DEF AmountOf
      <4>3. \A k \in Groups : AmountOf[k] \in Nat
        BY AmountsNat DEF BalanceInv
      <4> QED
        BY <4>1, <4>2, <4>3
    <3>5. \A k \in S \cup {g} : h[k] \in Int
      BY <3>3, <3>4
    <3>6. SumFunctionOnSet(h, S \cup {g}) = h[g] + SumFunctionOnSet(h, S)
      BY <3>1, <3>3, <3>5, SumAdd
    <3>7. SumFunctionOnSet(h, S) = Due(u)
      BY <2>4, <3>1, <3>2
    <3>8. Due(u)' = SumFunctionOnSet(h, S \cup {g})
      BY <2>3, <3>1, <3>2 DEF Due
    <3> QED
      BY <3>3, <3>6, <3>7, <3>8
  <2>7. u \notin reran => Due(u)' - CarryOver(u)' <= Books(u)'
    <3> SUFFICES ASSUME u \notin reran PROVE Due(u)' - CarryOver(u)' <= Books(u)'
      OBVIOUS
    <3>1. Due(u) + tally[i].net - CarryOver(u) <= Books(u)
      BY <1>1, <1>2 DEF BalanceInv, MoneyInv, ComingInv
    <3>2. PICK n, d, c, b \in Int : n = tally[i].net /\ d = Due(u) /\ c = CarryOver(u) /\ b = Books(u)
      BY DueNat, CarryOverNat, BooksInt DEF BalanceInv, PayInv, TypeInv, TypeOK, JobTypes, Tallies
    <3>3. (n + d) - c <= b
      BY <3>1, <3>2
    <3>4. Due(u)' = n + d /\ CarryOver(u)' = c /\ Books(u)' = b
      BY <1>5, <2>6, <3>2
    <3> QED
      BY <3>3, <3>4
  <2>8. DueInv'
    BY <1>2, <1>5, <2>5, <2>7 DEF BalanceInv, MoneyInv, DueInv
  <2> QED
    BY <1>6, <1>7, <2>2, <2>8 DEF MoneyInv
<1>10. \/ UNCHANGED transfer
       \/ \E g \in Groups :
            /\ transfer[g] = None
            /\ transfer'[g] = [seller |-> u, cycle |-> Cycle, amount |-> tally[i].net]
            /\ \A k \in Groups : k # g => transfer'[k] = transfer[k]
  BY <1>1, StandbyEffect DEF BalanceInv, PayInv
<1> QED
  BY <1>8, <1>9, <1>10

LEMMA MoneyStep == BalanceInv /\ [Next]_vars => MoneyInv'
<1> SUFFICES ASSUME BalanceInv, [Next]_vars PROVE MoneyInv'
  OBVIOUS
<1>1. ASSUME NEW i \in Instances, Aggregate(i) PROVE MoneyInv'
  BY <1>1, AggregateMoney
<1>2. ASSUME NEW i \in Instances, CreateRow(i) PROVE MoneyInv'
  BY <1>2, NewRowMoney, OldRowMoney
<1>3. ASSUME NEW i \in Instances, Standby(i) PROVE MoneyInv'
  BY <1>3, StandbyMoney
<1>4. ASSUME NEW i \in Instances, MarkFailed(i) PROVE MoneyInv'
  <2>1. /\ UNCHANGED <<counted, deducted, net, transfer, reran, at, tally>>
        /\ \A j \in Instances : pc'[j] \in {"create", "standby"} => pc[j] = pc'[j]
    BY <1>4 DEF MarkFailed, Goto, pgVars, BalanceInv, PayInv, TypeInv, TypeOK, JobTypes
  <2>2. \A u \in Sellers, m \in Cycles : HasRow(u, m)' <=> HasRow(u, m)
    <3>1. HasRow(at[i], Cycle)
      BY <1>4, MarkFailedEffect DEF BalanceInv, PayInv, WorkInv, Ready
    <3> QED
      BY <1>4, <3>1, MarkFailedEffect DEF BalanceInv, PayInv, HasRow
  <2> QED
    BY <2>1, <2>2, MoneyStays
<1>5. ASSUME NEW h \in Hooks, HookUpdate(h) PROVE MoneyInv'
  <2>1. UNCHANGED <<counted, deducted, net, transfer, reran, at, tally, pc>>
    BY <1>5 DEF HookUpdate, jobVars
  <2>2. \A u \in Sellers, m \in Cycles : HasRow(u, m)' <=> HasRow(u, m)
    <3>1. hookOn[h] # None /\ hookOn[h] \in Groups
      BY <1>5, HookUpdateEffect, NoneAssumption DEF BalanceInv, PayInv
    <3>2. \A u \in Sellers, m \in Cycles : groupKey[u][m] = hookOn[h] => HasRow(u, m)
      BY <3>1 DEF BalanceInv, PayInv, KeyInv
    <3> QED
      BY <1>5, <3>2, HookUpdateEffect DEF BalanceInv, PayInv, HasRow
  <2> QED
    BY <2>1, <2>2, MoneyStays
<1>6. ASSUME UNCHANGED <<status, counted, deducted, net, transfer, reran>>,
             \A i \in Instances : pc'[i] \in {"create", "standby"} =>
               pc[i] = pc'[i] /\ at'[i] = at[i] /\ tally'[i] = tally[i]
      PROVE  MoneyInv'
  BY <1>6, MoneyStays DEF HasRow
<1>7. ASSUME NEW i \in Instances,
             Fire(i) \/ Finish(i) \/ StoreKey(i) \/ Execute(i) \/ SellerFails(i) \/ Crash(i)
      PROVE  MoneyInv'
  <2>1. UNCHANGED <<status, counted, deducted, net, transfer, reran, at, tally>>
    BY <1>7 DEF Fire, Finish, StoreKey, Execute, SellerFails, Crash, rowVars, pgVars
  <2>2. \E step \in {"next", "idle", "execute", "fail"} : pc' = [pc EXCEPT ![i] = step] \/ pc' = pc
    BY <1>7 DEF Fire, Finish, StoreKey, Execute, SellerFails, Crash, Goto
  <2>3. \A j \in Instances : pc'[j] \in {"create", "standby"} => pc[j] = pc'[j]
    BY <2>2 DEF BalanceInv, PayInv, TypeInv, TypeOK, JobTypes
  <2> QED
    BY <1>6, <2>1, <2>3
<1>8. CASE UNCHANGED <<status, counted, deducted, net, transfer, reran, pc, at, tally>>
  BY <1>6, <1>8
<1>9. CASE UNCHANGED vars
  BY <1>8, <1>9 DEF vars
<1>10. CASE Next
  <2>1. CASE \E i \in Instances : JobStep(i) \/ SellerFails(i) \/ Crash(i)
    BY <1>1, <1>2, <1>3, <1>4, <1>7, <2>1 DEF JobStep
  <2>2. CASE \E h \in Hooks : HookUpdate(h)
    BY <1>5, <2>2
  <2>3. CASE \E s \in Sales : SettleSale(s) \/ RefundSale(s)
    BY <1>8, <2>3 DEF SettleSale, RefundSale, rowVars, pgVars, jobVars
  <2>4. CASE \/ NextPeriod \/ LockExpires
             \/ (\E u \in Sellers : SetEligible(u)) \/ (\E g \in Groups : Transfer(g))
    BY <1>8, <2>4 DEF NextPeriod, LockExpires, SetEligible, Transfer, rowVars, pgVars, jobVars
  <2>5. CASE \E h \in Hooks, g \in Groups : HookFind(h, g)
    BY <1>8, <2>5 DEF HookFind, rowVars, jobVars
  <2> QED
    BY <1>10, <2>1, <2>2, <2>3, <2>4, <2>5 DEF Next
<1> QED
  BY <1>9, <1>10

LEMMA MoneyInit == Init => MoneyInv
<1> SUFFICES ASSUME Init PROVE MoneyInv
  OBVIOUS
<1>1. /\ \A u \in Sellers, m \in Cycles : ~HasRow(u, m) /\ counted[u][m] = {} /\ deducted[u][m] = {}
      /\ \A i \in Instances : pc[i] = "idle"
      /\ \A g \in Groups : transfer[g] = None
  BY DEF Init, PerCycle, HasRow
<1>2. EmptyInv /\ NetInv /\ ComingInv
  BY <1>1 DEF EmptyInv, NetInv, ComingInv
<1>3. {g \in Groups : transfer[g] # None} = {} /\ IsFiniteSet({})
  BY <1>1, FS_EmptySet
<1>4. DueInv
  <2> SUFFICES ASSUME NEW u \in Sellers PROVE Due(u) - CarryOver(u) <= Books(u)
    BY DEF DueInv
  <2>1. CarryOver(u) = 0
    BY <1>1, NothingCarried DEF IsLastRow
  <2>2. Due(u) = 0
    <3>1. Prepared(u) = {}
      BY <1>1 DEF Prepared
    <3> QED
      BY <3>1, SumEmpty DEF Due
  <2>3. Books(u) = 0
    <3>1. InRows(u, counted) = {} /\ InRows(u, deducted) = {}
      BY <1>1 DEF InRows
    <3> QED
      BY <3>1, TotalAssumption DEF Books
  <2> QED
    BY <2>1, <2>2, <2>3
<1> QED
  BY <1>2, <1>3, <1>4 DEF MoneyInv

\* What a seller was paid, less the debt carried over, is covered by his rows,
\* for any sales and months, whatever fails or dies, unless a cycle of his was
\* worked on twice.
THEOREM NobodyOverpaid == Spec => []NeverOverpaid
<1>1. Init => BalanceInv
  BY PayInit, SaleInit, MoneyInit DEF BalanceInv
<1>2. BalanceInv /\ [Next]_vars => BalanceInv'
  BY PayStep, SaleStep, MoneyStep DEF BalanceInv
<1>3. BalanceInv => NeverOverpaid
  <2> SUFFICES ASSUME BalanceInv, NEW u \in Sellers \ reran
               PROVE  Paid(u) - CarryOver(u) <= Total[InRows(u, counted)] - Total[InRows(u, deducted)]
    BY DEF NeverOverpaid
  <2>1. PICK S, T : /\ S = Prepared(u) /\ T = {g \in Groups : stage[g] = "paid" /\ transfer[g].seller = u}
    OBVIOUS
  <2>2. T \in SUBSET S
    BY <2>1 DEF BalanceInv, PayInv, TransferInv, Prepared
  <2>3. IsFiniteSet(S) /\ (\A g \in S : AmountOf[g] \in Nat) /\ (\A g \in T : AmountOf[g] \in Nat)
    <3>1. \A g \in S : g \in Groups
      BY <2>1 DEF Prepared
    <3>2. IsFiniteSet(S) /\ \A g \in Groups : AmountOf[g] \in Nat
      BY <2>1, DueNat, AmountsNat DEF BalanceInv
    <3> QED
      BY <2>2, <3>1, <3>2
  <2>4. SumFunctionOnSet(AmountOf, T) <= SumFunctionOnSet(AmountOf, S)
    BY <2>2, <2>3, SumMonotone
  <2>5. SumFunctionOnSet(AmountOf, T) \in Nat /\ IsFiniteSet(T)
    <3>1. IsFiniteSet(T)
      BY <2>2, <2>3, FS_Subset
    <3> QED
      BY <2>3, <3>1, SumNat
  <2>6. PICK p, d, c, b \in Int : p = Paid(u) /\ d = Due(u) /\ c = CarryOver(u) /\ b = Books(u) /\ p <= d
    <3>1. Paid(u) \in Nat /\ Paid(u) <= Due(u)
      BY <2>1, <2>4, <2>5 DEF Paid, Due
    <3>2. Due(u) \in Nat /\ CarryOver(u) \in Nat /\ Books(u) \in Int
      BY DueNat, CarryOverNat, BooksInt DEF BalanceInv, PayInv, TypeInv
    <3> QED
      BY <3>1, <3>2
  <2>7. d - c <= b
    BY <2>6 DEF BalanceInv, MoneyInv, DueInv
  <2>8. p - c <= b
    BY <2>6, <2>7
  <2> QED
    BY <2>6, <2>8 DEF Books
<1> QED
  BY <1>1, <1>2, <1>3, PTL DEF Spec
=============================================================================
