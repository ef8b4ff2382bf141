------------------------------ MODULE SyncProofs ------------------------------
(***************************************************************************)
(* Proofs about SettlementSync: for any number of instances, sales, pages  *)
(* and days, no approval is lost between pages and runs, and every row     *)
(* moves as SettlementBook says.                                           *)
(***************************************************************************)
EXTENDS SettlementSync, SequenceTheorems, TLAPS

\* The n-th item of day d has been dealt with: what ResumeSkipsNothing asks.
Dealt(d, n) ==
  LET item == Statement[d][n] IN
    item.txnType = "APPROVAL" /\ item.same =>
      item.sale \in excused \/ settlement[item.sale] \in {"Succeed", "Refunded"}

DealtUpTo(d, k) == \A n \in 1..k : Dealt(d, n)

\* The cursor in Redis points into its day's list, past items dealt with.
CursorsInv ==
  \A d \in Days :
    /\ cursor[d] <= Len(Statement[d])
    /\ DealtUpTo(d, cursor[d])
    /\ d \in finished => DealtUpTo(d, Len(Statement[d]))

\* So does the place of a run, which ends before the page it works on does;
\* a row about to be settled is Payple's word for our amount.
RunInv(i) ==
  /\ run[i] # "idle" => today > 1
  /\ run[i] \in {"fetch", "item", "update"} =>
       key[i] <= Len(List) /\ DealtUpTo(Yesterday, key[i])
  /\ run[i] \in {"item", "update"} => key[i] <= last[i] /\ last[i] <= Len(List)
  /\ run[i] = "update" => /\ key[i] < last[i]
                          /\ Current(i).txnType = "APPROVAL" /\ Current(i).same
                          /\ settlement[Current(i).sale] # "none"

RunsInv == \A i \in Instances : RunInv(i)

\* Nobody runs on the first morning.
MorningInv == today = 1 => syncFired = Instances

SyncInv == SyncTypeOK /\ CursorsInv /\ RunsInv /\ MorningInv
-----------------------------------------------------------------------------
\* The items of a day's list are items.
LEMMA ListItems ==
  ASSUME NEW d \in Days, NEW n \in 1..Len(Statement[d])
  PROVE  Len(Statement[d]) \in Nat /\ Statement[d][n] \in Items
PROOF
  BY SyncAssumption DEF SyncAssumption

LEMMA ListLength == \A d \in Days : Len(Statement[d]) \in Nat
PROOF
  BY SyncAssumption DEF SyncAssumption

\* What is dealt with stays dealt with: rows are not reopened.
LEMMA DealtStays ==
  ASSUME SyncTypeOK,
         excused \subseteq excused',
         \A s \in Sales : settlement[s] \in {"Succeed", "Refunded"} =>
                            settlement'[s] \in {"Succeed", "Refunded"}
  PROVE  \A d \in Days : \A k \in 0..Len(Statement[d]) : DealtUpTo(d, k) => DealtUpTo(d, k)'
PROOF
  <1> TAKE d \in Days
  <1> TAKE k \in 0..Len(Statement[d])
  <1> SUFFICES ASSUME DealtUpTo(d, k), NEW n \in 1..k PROVE Dealt(d, n)'
    BY DEF DealtUpTo
  <1>1. Statement[d][n] \in Items
    BY ListItems, ListLength
  <1>2. Dealt(d, n)
    BY DEF DealtUpTo
  <1> QED BY <1>1, <1>2 DEF Dealt, Items

LEMMA SyncInitInv == SyncInit => SyncInv
PROOF
  <1> SUFFICES ASSUME SyncInit PROVE SyncInv
    OBVIOUS
  <1>1. SyncTypeOK
    BY SyncAssumption DEF SyncInit, SyncTypeOK, SyncAssumption, Days
  <1>2. CursorsInv
    BY ListLength DEF SyncInit, CursorsInv, DealtUpTo
  <1> QED BY <1>1, <1>2 DEF SyncInv, SyncInit, RunsInv, RunInv, MorningInv
-----------------------------------------------------------------------------
(* The steps of the rest of the system.                                     *)

\* A step that reopens no row and leaves the places of the runs alone.
LEMMA RowStep ==
  ASSUME SyncInv,
         UNCHANGED <<cursor, today, run, key, last, excused, finished>>,
         \A s \in Sales : settlement[s] \in {"Succeed", "Refunded"} =>
                            settlement'[s] \in {"Succeed", "Refunded"},
         \A s \in Sales : settlement[s] # "none" => settlement'[s] # "none"
  PROVE  CursorsInv' /\ RunsInv'
PROOF
  <1> USE DEF SyncInv
  <1>1. \A d \in Days : \A k \in 0..Len(Statement[d]) : DealtUpTo(d, k) => DealtUpTo(d, k)'
    BY DealtStays
  <1>2. CursorsInv'
    BY <1>1, ListLength DEF CursorsInv, SyncTypeOK
  <1>3. ASSUME NEW i \in Instances PROVE RunInv(i)'
    <2>1. run[i] # "idle" => Yesterday \in Days
      BY SyncAssumption DEF RunsInv, RunInv, Yesterday, Days, SyncTypeOK, SyncAssumption
    <2>2. run[i] = "update" => Current(i) \in Items
      BY <2>1, ListItems, ListLength DEF RunsInv, RunInv, Current, List, SyncTypeOK
    <2> QED
      BY <1>1, <2>1, <2>2, ListLength
      DEF RunsInv, RunInv, List, Yesterday, Current, SyncTypeOK, Items
  <1> QED BY <1>2, <1>3 DEF RunsInv

LEMMA WorldStep ==
  ASSUME SyncInv,
         \/ \E s \in Sales : BookSale(s) \/ RefundSale(s)
         \/ LockExpires \/ AuthRefused
  PROVE  SyncInv'
PROOF
  <1>1. SyncTypeOK'
    <2> USE DEF SyncInv, SyncTypeOK, ghostVars, localVars
    <2>1. ASSUME NEW s \in Sales, BookSale(s) PROVE SyncTypeOK'
      BY <2>1 DEF BookSale
    <2>2. ASSUME NEW s \in Sales, RefundSale(s) PROVE SyncTypeOK'
      BY <2>2 DEF RefundSale
    <2>3. CASE LockExpires
      BY <2>3 DEF LockExpires
    <2>4. CASE AuthRefused
      BY <2>4, SyncAssumption DEF AuthRefused, Slip, SyncAssumption
    <2> QED BY <2>1, <2>2, <2>3, <2>4
  <1>2. UNCHANGED <<cursor, today, syncFired, run, key, last, excused, finished>>
    BY DEF BookSale, RefundSale, LockExpires, AuthRefused, ghostVars, localVars
  <1>3. \A s \in Sales :
          /\ settlement[s] \in {"Succeed", "Refunded"} =>
               settlement'[s] \in {"Succeed", "Refunded"}
          /\ settlement[s] # "none" => settlement'[s] # "none"
    BY DEF SyncInv, SyncTypeOK, BookSale, RefundSale, LockExpires, AuthRefused
  <1>4. CursorsInv' /\ RunsInv'
    BY <1>2, <1>3, RowStep
  <1> QED BY <1>1, <1>2, <1>4 DEF SyncInv, MorningInv

\* Nobody runs in the night, and the older days' cursors go.
LEMMA NightStep ==
  ASSUME SyncInv, NextMorning
  PROVE  SyncInv'
PROOF
  <1>1. SyncTypeOK'
    <2>1. today' \in Days
      BY SyncAssumption DEF SyncInv, SyncTypeOK, NextMorning, Days, SyncAssumption
    <2>2. cursor' \in [Days -> Nat]
      BY DEF SyncInv, SyncTypeOK, NextMorning
    <2> QED BY <2>1, <2>2 DEF SyncInv, SyncTypeOK, NextMorning, ghostVars, localVars
  <1>2. \A d \in Days : \A k \in 0..Len(Statement[d]) : DealtUpTo(d, k) => DealtUpTo(d, k)'
    BY DealtStays DEF SyncInv, NextMorning, ghostVars
  <1>3. \A d \in Days : DealtUpTo(d, 0)'
    BY DEF DealtUpTo
  <1>4. CursorsInv'
    BY <1>2, <1>3, ListLength DEF SyncInv, CursorsInv, NextMorning, ghostVars, SyncTypeOK
  <1>5. RunsInv'
    BY DEF NextMorning, RunsInv, RunInv
  <1> QED BY <1>1, <1>4, <1>5 DEF SyncInv, MorningInv, NextMorning, SyncTypeOK, Days
-----------------------------------------------------------------------------
(* The steps of a run.                                                      *)

\* A run that is not idle has a list before it.
LEMMA RunningList ==
  ASSUME SyncInv, NEW i \in Instances, run[i] # "idle"
  PROVE  Yesterday \in Days /\ Len(List) \in Nat
PROOF
  <1>1. today \in Nat /\ today > 1 /\ today <= LastDay /\ LastDay \in Nat
    BY SyncAssumption DEF SyncInv, RunsInv, RunInv, SyncTypeOK, Days, SyncAssumption
  <1>2. Yesterday \in Days
    BY <1>1 DEF Yesterday, Days
  <1> QED BY <1>2, ListLength DEF List

\* The item a run looks at is one of the list.
LEMMA CurrentItem ==
  ASSUME SyncInv, NEW i \in Instances, run[i] \in {"item", "update"}, key[i] < last[i]
  PROVE  /\ key[i] \in Nat /\ last[i] \in Nat
         /\ key[i] + 1 \in 1..Len(List)
         /\ Current(i) \in Items /\ Current(i).sale \in Sales
PROOF
  <1>1. Yesterday \in Days /\ Len(List) \in Nat
    BY RunningList
  <1>2. key[i] \in Nat /\ last[i] \in Nat /\ last[i] <= Len(List)
    BY DEF SyncInv, RunsInv, RunInv, SyncTypeOK
  <1>3. key[i] + 1 \in 1..Len(List)
    BY <1>1, <1>2
  <1>4. List[key[i] + 1] \in Items
    BY <1>1, <1>3, ListItems DEF List
  <1> QED BY <1>2, <1>3, <1>4 DEF Current, Items

LEMMA RunTypeStep ==
  ASSUME SyncInv, NEW i \in Instances, Fire(i) \/ RunStep(i) \/ Die(i)
  PROVE  SyncTypeOK'
PROOF
  <1> USE DEF SyncInv, SyncTypeOK, ghostVars, localVars, Goto
  <1>a. run[i] # "idle" => Yesterday \in Days /\ Len(List) \in Nat
    BY RunningList
  <1>c. run[i] \in {"item", "update"} /\ key[i] < last[i] => Current(i).sale \in Sales
    BY CurrentItem
  <1>d. run[i] = "update" => key[i] < last[i]
    BY DEF RunsInv, RunInv
  <1>1. CASE Fire(i)
    BY <1>1 DEF Fire
  <1>2. CASE ReadKey(i)
    <2>1. cursor[Yesterday] \in Nat
      BY <1>2, <1>a DEF ReadKey
    <2>2. /\ key' \in [Instances -> Nat] /\ page' \in [Instances -> 0..MaxPages]
          /\ run' \in [Instances -> {"idle", "key", "fetch", "item", "update", "release"}]
      BY <1>2, <2>1, SyncAssumption DEF ReadKey, SyncAssumption
    <2> QED BY <1>2, <2>2 DEF ReadKey
  <1>3. CASE FetchPage(i)
    <2>1. EndOfPage(key[i]) \in Nat
      BY <1>3, <1>a, SyncAssumption DEF FetchPage, EndOfPage, SyncAssumption
    <2>2. page[i] + 1 \in 0..MaxPages
      BY <1>3, SyncAssumption DEF FetchPage, SyncAssumption
    <2> QED BY <1>3, <2>1, <2>2 DEF FetchPage, FetchAuth
  <1>s. Slip => slips' \in 0..MaxSlips
    BY SyncAssumption DEF Slip, SyncAssumption
  <1>4. CASE FetchFails(i)
    BY <1>4, <1>s DEF FetchFails
  <1>5. CASE PageBudgetSpent(i)
    BY <1>5 DEF PageBudgetSpent
  <1>6. CASE SkipItem(i)
    BY <1>6 DEF SkipItem, NextItem
  <1>7. CASE FindSale(i)
    BY <1>7, <1>c DEF FindSale, NextItem
  <1>8. CASE SettlePending(i)
    BY <1>8, <1>c, <1>d DEF SettlePending, NextItem
  <1>9. CASE ItemFails(i)
    BY <1>9, <1>c, <1>d, <1>s DEF ItemFails, NextItem
  <1>10. CASE PageDone(i)
    <2>1. CASE last[i] = Len(List)
      <3>1. cursor' = [cursor EXCEPT ![Yesterday] = 0] /\ finished' \in SUBSET Days
        BY <1>10, <1>a, <2>1 DEF PageDone
      <3> QED BY <1>10, <2>1, <3>1 DEF PageDone
    <2>2. CASE last[i] # Len(List)
      BY <1>10, <1>a, <2>2 DEF PageDone
    <2> QED BY <2>1, <2>2
  <1>11. CASE RedisFails(i)
    BY <1>11, <1>s DEF RedisFails
  <1>12. CASE Release(i)
    BY <1>12 DEF Release
  <1>13. CASE Die(i)
    BY <1>13, <1>s DEF Die
  <1> QED
    BY <1>1, <1>2, <1>3, <1>4, <1>5, <1>6, <1>7, <1>8, <1>9, <1>10, <1>11, <1>12, <1>13
    DEF RunStep

\* A step of run i that leaves the others' places alone, dealing with the
\* items it passes and the ones it puts behind the cursor.
LEMMA PlaceStep ==
  ASSUME SyncInv, NEW i \in Instances, today > 1, UNCHANGED today,
         excused \subseteq excused',
         \A s \in Sales : settlement[s] \in {"Succeed", "Refunded"} =>
                            settlement'[s] \in {"Succeed", "Refunded"},
         \A s \in Sales : settlement[s] # "none" => settlement'[s] # "none",
         \A j \in Instances \ {i} :
           run'[j] = run[j] /\ key'[j] = key[j] /\ last'[j] = last[j],
         CursorsInv', RunInv(i)', SyncTypeOK'
  PROVE  SyncInv'
PROOF
  <1>1. \A d \in Days : \A k \in 0..Len(Statement[d]) : DealtUpTo(d, k) => DealtUpTo(d, k)'
    BY DealtStays DEF SyncInv
  <1>2. ASSUME NEW j \in Instances \ {i} PROVE RunInv(j)'
    <2>1. run[j] # "idle" => Yesterday \in Days /\ Len(List) \in Nat
      BY RunningList
    <2>2. RunInv(j) /\ key[j] \in Nat /\ Yesterday' = Yesterday /\ List' = List
      BY DEF SyncInv, RunsInv, SyncTypeOK, Yesterday, List
    <2>3. run'[j] = run[j] /\ key'[j] = key[j] /\ last'[j] = last[j] /\ today' = today
      OBVIOUS
    <2>4. run[j] \in {"fetch", "item", "update"} => DealtUpTo(Yesterday, key[j])'
      <3> SUFFICES ASSUME run[j] \in {"fetch", "item", "update"}
                   PROVE  DealtUpTo(Yesterday, key[j])'
        OBVIOUS
      <3>1. key[j] \in 0..Len(Statement[Yesterday]) /\ DealtUpTo(Yesterday, key[j])
        BY <2>1, <2>2 DEF RunInv, List
      <3> QED BY <1>1, <2>1, <2>2, <2>3, <3>1 DEF DealtUpTo
    <2>5. run[j] = "update" => settlement'[Current(j).sale] # "none" /\ Current(j)' = Current(j)
      BY <2>2, <2>3, CurrentItem DEF RunInv, Current
    <2> QED BY <2>2, <2>3, <2>4, <2>5 DEF RunInv
  <1>3. RunsInv'
    BY <1>2 DEF RunsInv
  <1>4. MorningInv'
    BY SyncAssumption DEF MorningInv, SyncInv, SyncTypeOK, Days, SyncAssumption
  <1> QED BY <1>3, <1>4 DEF SyncInv

\* Cursors and the ends of lists that stay where they are remain sound.
LEMMA CursorsStay ==
  ASSUME SyncInv, UNCHANGED <<cursor, finished>>,
         excused \subseteq excused',
         \A s \in Sales : settlement[s] \in {"Succeed", "Refunded"} =>
                            settlement'[s] \in {"Succeed", "Refunded"}
  PROVE  CursorsInv'
PROOF
  <1>1. \A d \in Days : \A k \in 0..Len(Statement[d]) : DealtUpTo(d, k) => DealtUpTo(d, k)'
    BY DealtStays DEF SyncInv
  <1> QED BY <1>1, ListLength DEF SyncInv, CursorsInv, SyncTypeOK

\* A run on its way to a step that has no place in a list.
LEMMA PlainStep ==
  ASSUME SyncInv, NEW i \in Instances, NEW s \in {"idle", "key", "release"},
         today > 1, Goto(i, s),
         UNCHANGED <<settlement, cursor, today, localVars, ghostVars>>, SyncTypeOK'
  PROVE  SyncInv'
PROOF
  <1>1. CursorsInv'
    BY CursorsStay DEF ghostVars
  <1>2. RunInv(i)'
    BY DEF RunInv, Goto, SyncInv, SyncTypeOK
  <1> QED BY <1>1, <1>2, PlaceStep DEF Goto, ghostVars, localVars, SyncInv, SyncTypeOK

\* A run that has dealt with the item before it.
LEMMA ItemStep ==
  ASSUME SyncInv, NEW i \in Instances, run[i] \in {"item", "update"}, key[i] < last[i],
         NextItem(i),
         NEW d \in Days, NEW k \in Nat, d = Yesterday, k = key[i], Dealt(d, k + 1)',
         UNCHANGED <<cursor, today, page, last, finished>>,
         excused \subseteq excused',
         \A s \in Sales : settlement[s] \in {"Succeed", "Refunded"} =>
                            settlement'[s] \in {"Succeed", "Refunded"},
         \A s \in Sales : settlement[s] # "none" => settlement'[s] # "none",
         SyncTypeOK'
  PROVE  SyncInv'
PROOF
  <1>1. CursorsInv'
    BY CursorsStay
  <1>2. Len(Statement[d]) \in Nat /\ List = Statement[d] /\ today > 1
    BY RunningList DEF SyncInv, RunsInv, RunInv, List
  <1>3. /\ last[i] \in Nat /\ last[i] <= Len(Statement[d]) /\ k < last[i]
        /\ DealtUpTo(d, k)
    BY <1>2 DEF SyncInv, RunsInv, RunInv, SyncTypeOK
  <1>4. d = Yesterday' /\ List' = Statement[d]
    BY DEF Yesterday, List
  <1>5. DealtUpTo(d, k)'
    BY <1>2, <1>3, DealtStays DEF SyncInv
  <1>6. DealtUpTo(d, k + 1)'
    BY <1>5 DEF DealtUpTo
  <1>7. run'[i] = "item" /\ key'[i] = k + 1 /\ last'[i] = last[i]
    BY DEF NextItem, Goto, SyncInv, SyncTypeOK
  <1>8. RunInv(i)'
    BY <1>2, <1>3, <1>4, <1>6, <1>7 DEF RunInv
  <1>9. \A j \in Instances \ {i} :
          run'[j] = run[j] /\ key'[j] = key[j] /\ last'[j] = last[j]
    BY DEF NextItem, Goto, SyncInv, SyncTypeOK
  <1> QED BY <1>1, <1>2, <1>8, <1>9, PlaceStep

\* The cron takes the lock or leaves the morning to who has it.
LEMMA FireStep == ASSUME SyncInv, NEW i \in Instances, Fire(i) PROVE SyncInv'
PROOF
  <1>1. SyncTypeOK'
    BY RunTypeStep
  <1>2. today > 1
    BY SyncAssumption DEF SyncInv, MorningInv, SyncTypeOK, Days, Fire, SyncAssumption
  <1>3. CASE syncLock = NoInstance
    BY <1>1, <1>2, <1>3, PlainStep DEF Fire
  <1>4. CASE syncLock # NoInstance
    <2>1. CursorsInv' /\ RunsInv'
      BY <1>4, RowStep DEF Fire, ghostVars, localVars
    <2> QED BY <1>1, <1>2, <2>1, SyncAssumption
          DEF SyncInv, MorningInv, Fire, SyncTypeOK, Days, SyncAssumption
  <1> QED BY <1>3, <1>4

\* The steps that end a run.
LEMMA EndStep ==
  ASSUME SyncInv, NEW i \in Instances,
         \/ FetchFails(i) \/ PageBudgetSpent(i) \/ RedisFails(i) \/ Release(i) \/ Die(i)
  PROVE  SyncInv'
PROOF
  <1>1. run[i] # "idle"
    BY DEF FetchFails, PageBudgetSpent, RedisFails, Release, Die
  <1>2. SyncTypeOK'
    BY RunTypeStep DEF RunStep
  <1>3. today > 1
    BY <1>1 DEF SyncInv, RunsInv, RunInv
  <1>4. PICK s \in {"idle", "key", "release"} : Goto(i, s)
    BY DEF FetchFails, PageBudgetSpent, RedisFails, Release, Die
  <1>5. UNCHANGED <<settlement, cursor, today, localVars, ghostVars>>
    BY DEF FetchFails, PageBudgetSpent, RedisFails, Release, Die, ghostVars
  <1> QED BY <1>2, <1>3, <1>4, <1>5, PlainStep

LEMMA ReadKeyStep == ASSUME SyncInv, NEW i \in Instances, ReadKey(i) PROVE SyncInv'
PROOF
  <1>1. SyncTypeOK'
    BY RunTypeStep DEF RunStep
  <1>2. CursorsInv'
    BY CursorsStay DEF ReadKey, ghostVars
  <1>3. PICK d \in Days : d = Yesterday
    BY RunningList DEF ReadKey
  <1>4. List = Statement[d] /\ d = Yesterday' /\ List' = Statement[d] /\ today > 1
    BY <1>3 DEF List, Yesterday, ReadKey, SyncInv, RunsInv, RunInv
  <1>5. run'[i] = "fetch" /\ key'[i] = cursor[d] /\ cursor' = cursor
    BY <1>3 DEF ReadKey, Goto, SyncInv, SyncTypeOK
  <1>6. cursor[d] <= Len(Statement[d]) /\ DealtUpTo(d, cursor[d])'
    BY <1>2, <1>5 DEF SyncInv, CursorsInv, DealtUpTo
  <1>7. today' = today
    BY DEF ReadKey
  <1>8. DealtUpTo(d, key[i])'
    BY <1>5, <1>6 DEF DealtUpTo
  <1>9. RunInv(i)'
    BY <1>4, <1>5, <1>6, <1>7, <1>8 DEF RunInv
  <1>10. \A j \in Instances \ {i} :
           run'[j] = run[j] /\ key'[j] = key[j] /\ last'[j] = last[j]
    BY DEF ReadKey, Goto, SyncInv, SyncTypeOK
  <1> QED BY <1>1, <1>2, <1>4, <1>7, <1>9, <1>10, PlaceStep DEF ReadKey, ghostVars

LEMMA FetchPageStep == ASSUME SyncInv, NEW i \in Instances, FetchPage(i) PROVE SyncInv'
PROOF
  <1>1. SyncTypeOK'
    BY RunTypeStep DEF RunStep
  <1>2. CursorsInv'
    BY CursorsStay DEF FetchPage, ghostVars
  <1>3. PICK d \in Days, k \in Nat : d = Yesterday /\ k = key[i]
    BY RunningList DEF FetchPage, SyncInv, SyncTypeOK
  <1>4. /\ List = Statement[d] /\ d = Yesterday' /\ List' = Statement[d] /\ today > 1
        /\ Len(Statement[d]) \in Nat /\ k <= Len(Statement[d]) /\ DealtUpTo(d, k)
    BY <1>3, ListLength DEF List, Yesterday, FetchPage, SyncInv, RunsInv, RunInv
  <1>5. EndOfPage(k) >= k /\ EndOfPage(k) <= Len(Statement[d])
    BY <1>4, SyncAssumption DEF EndOfPage, SyncAssumption
  <1>6. run'[i] = "item" /\ key'[i] = k /\ last'[i] = EndOfPage(k) /\ today' = today
    BY <1>3 DEF FetchPage, Goto, SyncInv, SyncTypeOK
  <1>7. DealtUpTo(d, k)'
    BY <1>4, DealtStays DEF SyncInv, FetchPage, ghostVars
  <1>8. DealtUpTo(d, key[i])'
    BY <1>6, <1>7 DEF DealtUpTo
  <1>9. RunInv(i)'
    BY <1>4, <1>5, <1>6, <1>8 DEF RunInv
  <1>10. \A j \in Instances \ {i} :
           run'[j] = run[j] /\ key'[j] = key[j] /\ last'[j] = last[j]
    BY DEF FetchPage, Goto, SyncInv, SyncTypeOK
  <1> QED BY <1>1, <1>2, <1>4, <1>6, <1>9, <1>10, PlaceStep DEF FetchPage, ghostVars

\* The items of a page, one by one.
LEMMA SkipItemStep == ASSUME SyncInv, NEW i \in Instances, SkipItem(i) PROVE SyncInv'
PROOF
  <1>1. SyncTypeOK'
    BY RunTypeStep DEF RunStep
  <1>2. PICK d \in Days, k \in Nat : d = Yesterday /\ k = key[i]
    BY RunningList DEF SkipItem, SyncInv, SyncTypeOK
  <1>3. Dealt(d, k + 1)'
    BY <1>2 DEF SkipItem, Current, List, Dealt
  <1> QED BY <1>1, <1>2, <1>3, ItemStep DEF SkipItem, ghostVars

LEMMA SettlePendingStep == ASSUME SyncInv, NEW i \in Instances, SettlePending(i) PROVE SyncInv'
PROOF
  <1>1. SyncTypeOK'
    BY RunTypeStep DEF RunStep
  <1>2. PICK d \in Days, k \in Nat : d = Yesterday /\ k = key[i]
    BY RunningList DEF SettlePending, SyncInv, SyncTypeOK
  <1>3. run[i] = "update" /\ k < last[i] /\ settlement[Current(i).sale] # "none"
    BY <1>2 DEF SettlePending, SyncInv, RunsInv, RunInv
  <1>4. PICK s \in Sales : s = Current(i).sale
    BY <1>2, <1>3, CurrentItem
  <1>5. settlement' = [settlement EXCEPT ![s] = IF @ = "Pending" THEN "Succeed" ELSE @]
    BY <1>4 DEF SettlePending
  <1>6. settlement'[s] \in {"Succeed", "Refunded"}
    BY <1>3, <1>4, <1>5 DEF SyncInv, SyncTypeOK
  <1>7. Dealt(d, k + 1)'
    BY <1>2, <1>4, <1>6 DEF Current, List, Dealt
  <1>8. \A x \in Sales :
          /\ settlement[x] \in {"Succeed", "Refunded"} =>
               settlement'[x] \in {"Succeed", "Refunded"}
          /\ settlement[x] # "none" => settlement'[x] # "none"
    BY <1>5 DEF SyncInv, SyncTypeOK
  <1> QED BY <1>1, <1>2, <1>3, <1>7, <1>8, ItemStep DEF SettlePending, ghostVars

LEMMA ItemFailsStep == ASSUME SyncInv, NEW i \in Instances, ItemFails(i) PROVE SyncInv'
PROOF
  <1>1. SyncTypeOK'
    BY RunTypeStep DEF RunStep
  <1>2. PICK d \in Days, k \in Nat : d = Yesterday /\ k = key[i]
    BY RunningList DEF ItemFails, SyncInv, SyncTypeOK
  <1>3. run[i] \in {"item", "update"} /\ k < last[i]
    BY <1>2 DEF ItemFails, SyncInv, RunsInv, RunInv
  <1>4. Dealt(d, k + 1)'
    BY <1>2 DEF ItemFails, Current, List, Dealt
  <1> QED BY <1>1, <1>2, <1>3, <1>4, ItemStep DEF ItemFails

LEMMA FindSaleStep == ASSUME SyncInv, NEW i \in Instances, FindSale(i) PROVE SyncInv'
PROOF
  <1>1. SyncTypeOK'
    BY RunTypeStep DEF RunStep
  <1>2. PICK d \in Days, k \in Nat : d = Yesterday /\ k = key[i]
    BY RunningList DEF FindSale, SyncInv, SyncTypeOK
  <1>3. PICK item \in Items : item = Current(i)
    BY CurrentItem DEF FindSale
  <1>4. /\ run[i] = "item" /\ key[i] < last[i]
        /\ item.txnType = "APPROVAL"
        /\ excused' = IF settlement[item.sale] = "none" THEN excused \cup {item.sale} ELSE excused
        /\ UNCHANGED <<settlement, cursor, today, syncFired, page, last, finished>>
    BY <1>3 DEF FindSale
  <1>5. CASE settlement[item.sale] = "none" \/ ~ item.same
    <2>1. NextItem(i)
      BY <1>3, <1>5 DEF FindSale
    <2>2. Dealt(d, k + 1)'
      BY <1>2, <1>3, <1>4, <1>5 DEF Dealt, Current, List
    <2> QED BY <1>1, <1>2, <1>4, <2>1, <2>2, ItemStep
  <1>6. CASE settlement[item.sale] # "none" /\ item.same
    <2>1. run' = [run EXCEPT ![i] = "update"] /\ UNCHANGED <<key, excused>>
      BY <1>3, <1>4, <1>6 DEF FindSale, Goto
    <2>2. CursorsInv'
      BY <1>4, <2>1, CursorsStay
    <2>3. /\ today > 1 /\ List' = List /\ Yesterday' = Yesterday
          /\ key[i] <= Len(List) /\ DealtUpTo(Yesterday, key[i]) /\ last[i] <= Len(List)
          /\ key[i] \in Nat /\ last[i] \in Nat
      BY <1>4 DEF SyncInv, RunsInv, RunInv, List, Yesterday, SyncTypeOK
    <2>4. DealtUpTo(Yesterday, key[i])'
      BY <1>4, <2>1, <2>3 DEF DealtUpTo, Dealt
    <2>5. Current(i)' = item
      BY <1>3, <2>1, <2>3 DEF Current
    <2>6. run'[i] = "update" /\ key'[i] = key[i] /\ last'[i] = last[i]
      BY <1>4, <2>1 DEF SyncInv, SyncTypeOK
    <2>7. RunInv(i)'
      BY <1>4, <1>6, <2>3, <2>4, <2>5, <2>6 DEF RunInv
    <2>8. \A j \in Instances \ {i} :
            run'[j] = run[j] /\ key'[j] = key[j] /\ last'[j] = last[j]
      BY <1>4, <2>1 DEF SyncInv, SyncTypeOK
    <2> QED BY <1>1, <1>4, <2>1, <2>2, <2>3, <2>7, <2>8, PlaceStep
  <1> QED BY <1>5, <1>6

\* The end of a page: what the cursor is put behind is dealt with.
LEMMA PageDoneStep == ASSUME SyncInv, NEW i \in Instances, PageDone(i) PROVE SyncInv'
PROOF
  <1>1. SyncTypeOK'
    BY RunTypeStep DEF RunStep
  <1>2. PICK d \in Days, k \in Nat : d = Yesterday /\ k = key[i]
    BY RunningList DEF PageDone, SyncInv, SyncTypeOK
  <1>3. /\ List = Statement[d] /\ d = Yesterday' /\ List' = Statement[d] /\ today > 1
        /\ Len(Statement[d]) \in Nat /\ k <= Len(Statement[d]) /\ DealtUpTo(d, k)
        /\ last[i] = k
    BY <1>2, ListLength DEF List, Yesterday, PageDone, SyncInv, RunsInv, RunInv
  <1>4. UNCHANGED <<settlement, today, syncFired, key, page, last, excused>>
    BY DEF PageDone, localVars
  <1>5. \A e \in Days, m \in Nat : DealtUpTo(e, m) => DealtUpTo(e, m)'
    BY <1>4 DEF DealtUpTo, Dealt
  <1>6. \A e \in Days \ {d} : cursor'[e] = cursor[e] /\ (e \in finished' => e \in finished)
    BY <1>2 DEF PageDone, SyncInv, SyncTypeOK
  <1>7. /\ cursor'[d] \in {0, k}
        /\ d \in finished' => d \in finished \/ k = Len(Statement[d])
    BY <1>2, <1>3 DEF PageDone, SyncInv, SyncTypeOK
  <1>8. CursorsInv'
    <2> SUFFICES ASSUME NEW e \in Days
                 PROVE  /\ cursor'[e] <= Len(Statement[e])
                        /\ DealtUpTo(e, cursor[e])'
                        /\ e \in finished' => DealtUpTo(e, Len(Statement[e]))'
      BY DEF CursorsInv
    <2>1. /\ cursor[e] <= Len(Statement[e]) /\ cursor[e] \in Nat
          /\ DealtUpTo(e, cursor[e]) /\ Len(Statement[e]) \in Nat
          /\ e \in finished => DealtUpTo(e, Len(Statement[e]))
      BY ListLength DEF SyncInv, CursorsInv, SyncTypeOK
    <2>2. PICK c \in Nat : c = cursor'[e]
      BY <1>1 DEF SyncTypeOK
    <2>3. c <= Len(Statement[e]) /\ DealtUpTo(e, c)
      BY <1>3, <1>6, <1>7, <2>1, <2>2 DEF DealtUpTo
    <2>4. e \in finished' => DealtUpTo(e, Len(Statement[e]))
      BY <1>3, <1>6, <1>7, <2>1
    <2>5. DealtUpTo(e, c)'
      BY <1>5, <2>3
    <2> QED BY <1>5, <2>1, <2>2, <2>3, <2>4, <2>5 DEF DealtUpTo
  <1>9. RunInv(i)'
    <2>1. run'[i] \in {"release", "fetch"} /\ key'[i] = k
      BY <1>2, <1>4 DEF PageDone, Goto, SyncInv, SyncTypeOK
    <2>2. DealtUpTo(d, key[i])'
      BY <1>3, <1>5, <2>1 DEF DealtUpTo
    <2> QED BY <1>3, <1>4, <2>1, <2>2 DEF RunInv
  <1>10. \A j \in Instances \ {i} :
           run'[j] = run[j] /\ key'[j] = key[j] /\ last'[j] = last[j]
    BY <1>4 DEF PageDone, Goto, SyncInv, SyncTypeOK
  <1> QED BY <1>1, <1>3, <1>4, <1>8, <1>9, <1>10, PlaceStep
-----------------------------------------------------------------------------
LEMMA SyncNextInv == SyncInv /\ [SyncNext]_syncVars => SyncInv'
PROOF
  <1> SUFFICES ASSUME SyncInv, [SyncNext]_syncVars PROVE SyncInv'
    OBVIOUS
  <1>1. CASE UNCHANGED syncVars
    BY <1>1 DEF syncVars, SyncInv, SyncTypeOK, CursorsInv, RunsInv, RunInv, MorningInv, DealtUpTo,
                Dealt, Current, List, Yesterday
  <1>2. CASE NextMorning
    BY <1>2, NightStep
  <1>3. CASE \/ \E s \in Sales : BookSale(s) \/ RefundSale(s)
             \/ LockExpires \/ AuthRefused
    BY <1>3, WorldStep
  <1>4. ASSUME NEW i \in Instances, Fire(i) \/ RunStep(i) \/ Die(i) PROVE SyncInv'
    BY <1>4, FireStep, EndStep, ReadKeyStep, FetchPageStep, SkipItemStep, FindSaleStep,
       SettlePendingStep, ItemFailsStep, PageDoneStep
    DEF RunStep
  <1> QED BY <1>1, <1>2, <1>3, <1>4 DEF SyncNext

LEMMA SyncAlways == SyncSpec => []SyncInv
PROOF
  BY SyncInitInv, SyncNextInv, PTL DEF SyncSpec

\* Types, for any bounds.
THEOREM SyncTypes == SyncSpec => []SyncTypeOK
PROOF
  <1>1. SyncInv => SyncTypeOK
    BY DEF SyncInv
  <1> QED BY <1>1, SyncAlways, PTL

\* Nothing is skipped by a run that resumes where another stopped, however many
\* runs overlap or die and whatever fails.
THEOREM NothingSkipped == SyncSpec => []ResumeSkipsNothing
PROOF
  <1>1. SyncInv => ResumeSkipsNothing
    <2> SUFFICES ASSUME SyncInv, NEW d \in Days, NEW n \in 1..Covered(d)
                 PROVE  Dealt(d, n)
      BY DEF ResumeSkipsNothing, Dealt
    <2> QED BY DEF SyncInv, CursorsInv, DealtUpTo, Covered
  <1> QED BY <1>1, SyncAlways, PTL
-----------------------------------------------------------------------------
(* The sync implements SettlementBook.                                      *)

\* A row is settled on Payple's word only.
LEMMA SettleIsConfirmed ==
  ASSUME SyncInv, NEW i \in Instances, SettlePending(i)
  PROVE  Book!BookNext \/ UNCHANGED settlement
PROOF
  <1>1. run[i] = "update" /\ key[i] < last[i]
    BY DEF SettlePending, SyncInv, RunsInv, RunInv
  <1>2. PICK item \in Items : item = Current(i)
    BY <1>1, CurrentItem
  <1>3. item.txnType = "APPROVAL" /\ item.same
    BY <1>1, <1>2 DEF SyncInv, RunsInv, RunInv
  <1>4. \E d \in Days : \E n \in 1..Len(Statement[d]) : Statement[d][n] = item
    <2>1. Yesterday \in Days /\ key[i] + 1 \in 1..Len(Statement[Yesterday])
      BY <1>1, CurrentItem, RunningList DEF List
    <2> QED BY <1>2, <2>1 DEF Current, List
  <1>5. item = [txnType |-> "APPROVAL", sale |-> item.sale, same |-> TRUE] /\ item.sale \in Sales
    BY <1>3 DEF Items
  <1>6. item.sale \in Confirmed
    BY <1>4, <1>5 DEF Confirmed
  <1>7. settlement' = [settlement EXCEPT
          ![item.sale] = IF @ = "Pending" THEN "Succeed" ELSE @]
    BY <1>2 DEF SettlePending
  <1>8. CASE settlement[item.sale] = "Pending"
    BY <1>5, <1>6, <1>7, <1>8 DEF Book!BookNext, Book!Settle
  <1>9. CASE settlement[item.sale] # "Pending"
    BY <1>5, <1>7, <1>9 DEF SyncInv, SyncTypeOK
  <1> QED BY <1>8, <1>9

\* Every step of the sync is a step of the book, or none.
LEMMA BookStep == SyncInv /\ [SyncNext]_syncVars => [Book!BookNext]_settlement
PROOF
  <1> SUFFICES ASSUME SyncInv, [SyncNext]_syncVars PROVE Book!BookNext \/ UNCHANGED settlement
    OBVIOUS
  <1>1. CASE UNCHANGED syncVars
    BY <1>1 DEF syncVars
  <1>2. ASSUME NEW s \in Sales, BookSale(s) PROVE Book!BookNext
    BY <1>2 DEF BookSale, Book!BookNext, Book!Open
  <1>3. ASSUME NEW s \in Sales, RefundSale(s) PROVE Book!BookNext
    BY <1>3 DEF RefundSale, Book!BookNext, Book!GiveBack
  <1>4. CASE NextMorning \/ LockExpires \/ AuthRefused
    BY <1>4 DEF NextMorning, LockExpires, AuthRefused
  <1>5. ASSUME NEW i \in Instances, Fire(i) \/ RunStep(i) \/ Die(i), ~ SettlePending(i)
        PROVE  UNCHANGED settlement
    BY <1>5 DEF RunStep, Fire, ReadKey, FetchPage, FetchFails, PageBudgetSpent, SkipItem,
                FindSale, ItemFails, PageDone, RedisFails, Release, Die
  <1> QED BY <1>1, <1>2, <1>3, <1>4, <1>5, SettleIsConfirmed DEF SyncNext

\* A sale is settled only once Payple confirmed it, and a refund is final: the
\* job, with all its runs and failures, implements the book.
THEOREM SyncImplementsBook == SyncSpec => BookSpec
PROOF
  <1>1. SyncInit => Book!BookInit
    BY DEF SyncInit, Book!BookInit
  <1>2. SyncInv /\ [SyncNext]_syncVars => [Book!BookNext]_settlement
    BY BookStep
  <1> QED BY <1>1, <1>2, SyncAlways, PTL DEF SyncSpec, BookSpec, Book!BookSpec
=============================================================================
