---------------------------- MODULE SettlementSync ----------------------------
(***************************************************************************)
(* The daily settlement sync (settlement-sync.service.ts).  Every morning  *)
(* each server instance fires the job; the one that gets the Redis lock    *)
(* asks Payple page by page for what was settled yesterday, moves the      *)
(* settlements it finds from Pending to Succeed, and keeps the cursor of   *)
(* the next page in Redis so that another run for the same day goes on     *)
(* where this one stopped.  The lock has a time to live, and is deleted    *)
(* without a look at whose it is.                                          *)
(***************************************************************************)
EXTENDS Naturals, Sequences

CONSTANTS
  Sales,       \* sales, each with a Payment and, once booked, a Settlement
  Instances,   \* server instances
  NoInstance,  \* nobody holds the lock
  LastDay,     \* bound: the last morning of the model
  Statement,   \* Payple's settlement list of each day
  PageLimit,   \* PCD_LIMIT
  MaxPages,    \* pages per run
  MaxSlips     \* bound on failed calls, dead runs and failed items

Days == 1..LastDay

\* An item of Payple's list; "same" says that its amount is the one we booked.
Items == [txnType : {"APPROVAL", "CANCEL", "OTHER"}, sale : Sales, same : BOOLEAN]

ASSUME SyncAssumption ==
  /\ LastDay \in Nat \ {0} /\ PageLimit \in Nat \ {0} /\ MaxPages \in Nat /\ MaxSlips \in Nat
  /\ Statement \in [Days -> Seq(Items)]
  /\ NoInstance \notin Instances

VARIABLES
  settlement,  \* Settlement.status, "none" before the sale is booked
  cursor,      \* lastKey of a day in Redis: how much of its list it covers
  syncLock,    \* payple:settlement:sync:lock
  auth,        \* the cached partner auth: none, good, or refused by Payple
  today,       \* the day whose job may fire; it asks for the day before
  syncFired,   \* instances whose cron fired today
  run,         \* an instance's await
  key, page,   \* its locals: how much is covered, pages fetched
  last,        \* the end of the page it works on; key + 1 .. last is left
  \* for the properties and the bound only
  finished,    \* days whose list some run reached the end of
  excused,     \* sales whose item failed, or was not booked when looked at
  slips

syncVars == <<settlement, cursor, syncLock, auth, today, syncFired, run, key, page,
              last, finished, excused, slips>>

localVars == <<key, page, last>>
ghostVars == <<finished, excused>>

SyncTypeOK ==
  /\ settlement \in [Sales -> {"none", "Pending", "Succeed", "Refunded"}]
  /\ cursor \in [Days -> Nat]
  /\ syncLock \in Instances \cup {NoInstance}
  /\ auth \in {"none", "good", "refused"}
  /\ today \in Days
  /\ syncFired \in SUBSET Instances
  /\ run \in [Instances -> {"idle", "key", "fetch", "item", "update", "release"}]
  /\ key \in [Instances -> Nat]
  /\ page \in [Instances -> 0..MaxPages]
  /\ last \in [Instances -> Nat]
  /\ finished \in SUBSET Days
  /\ excused \in SUBSET Sales
  /\ slips \in 0..MaxSlips

SyncInit ==
  /\ settlement = [s \in Sales |-> "none"]
  /\ cursor = [d \in Days |-> 0]
  /\ syncLock = NoInstance
  /\ auth = "none"
  /\ today = 1
  /\ syncFired = Instances  \* there is nothing to sync before the first day is over
  /\ run = [i \in Instances |-> "idle"]
  /\ key = [i \in Instances |-> 0]
  /\ page = [i \in Instances |-> 0]
  /\ last = [i \in Instances |-> 0]
  /\ finished = {}
  /\ excused = {}
  /\ slips = 0

\* getYesterdayKst: the day a run asks for.
Yesterday == today - 1
List == Statement[Yesterday]

Slip == slips < MaxSlips /\ slips' = slips + 1
Goto(i, step) == run' = [run EXCEPT ![i] = step]

-----------------------------------------------------------------------------
(* The rest of the system.                                                  *)

\* A sale is booked (Purchase), with its settlement.
BookSale(s) ==
  /\ settlement[s] = "none"
  /\ settlement' = [settlement EXCEPT ![s] = "Pending"]
  /\ UNCHANGED <<cursor, syncLock, auth, today, syncFired, run, localVars, ghostVars, slips>>

\* A sale is refunded (Refund), settled or not.
RefundSale(s) ==
  /\ settlement[s] \in {"Pending", "Succeed"}
  /\ settlement' = [settlement EXCEPT ![s] = "Refunded"]
  /\ UNCHANGED <<cursor, syncLock, auth, today, syncFired, run, localVars, ghostVars, slips>>

\* The next morning.  No run lasts a day, and keys live for 24 hours.
NextMorning ==
  /\ today < LastDay
  /\ \A i \in Instances : run[i] = "idle"
  /\ today' = today + 1
  /\ syncFired' = {}
  /\ cursor' = [d \in Days |-> IF d = today THEN cursor[d] ELSE 0]
  /\ syncLock' = NoInstance
  /\ auth' = "none"
  /\ UNCHANGED <<settlement, run, localVars, ghostVars, slips>>

\* The lock's time to live is over: its run may still be going on.
LockExpires ==
  /\ syncLock # NoInstance
  /\ syncLock' = NoInstance
  /\ UNCHANGED <<settlement, cursor, auth, today, syncFired, run, localVars,
                 finished, excused, slips>>

\* Payple no longer accepts an auth key that is still in the cache.
AuthRefused ==
  /\ auth = "good"
  /\ Slip
  /\ auth' = "refused"
  /\ UNCHANGED <<settlement, cursor, syncLock, today, syncFired, run, localVars, ghostVars>>
-----------------------------------------------------------------------------
(* The job.                                                                 *)

\* The cron fires once a day; SET NX EX takes the lock or the run is skipped.
Fire(i) ==
  /\ run[i] = "idle"
  /\ i \notin syncFired
  /\ syncFired' = syncFired \cup {i}
  /\ IF syncLock = NoInstance
       THEN syncLock' = i /\ Goto(i, "key")
       ELSE UNCHANGED <<syncLock, run>>
  /\ UNCHANGED <<settlement, cursor, auth, today, localVars, ghostVars, slips>>

\* The cursor an earlier run for the day left, if any.
ReadKey(i) ==
  /\ run[i] = "key"
  /\ key' = [key EXCEPT ![i] = cursor[Yesterday]]
  /\ page' = [page EXCEPT ![i] = 0]
  /\ Goto(i, "fetch")
  /\ UNCHANGED <<settlement, cursor, syncLock, auth, today, syncFired, last, ghostVars, slips>>

\* fetchPaypleSettlementAuth: the cached auth as it is, else a fresh one.
FetchAuth == auth' = IF auth = "none" THEN "good" ELSE auth

EndOfPage(k) == IF k + PageLimit < Len(List) THEN k + PageLimit ELSE Len(List)

\* Mutant: one page more than the budget.
FetchPageLate(i) ==
  /\ run[i] = "fetch"
  /\ page[i] <= MaxPages
  /\ auth # "refused"
  /\ FetchAuth
  /\ last' = [last EXCEPT ![i] = EndOfPage(key[i])]
  /\ page' = [page EXCEPT ![i] = @ + 1]
  /\ Goto(i, "item")
  /\ UNCHANGED <<settlement, cursor, syncLock, today, syncFired, key, ghostVars, slips>>

\* Mutant: the cursor of the next page is saved as soon as the page is there.
FetchPageAndSave(i) ==
  /\ run[i] = "fetch"
  /\ page[i] < MaxPages
  /\ auth # "refused"
  /\ FetchAuth
  /\ last' = [last EXCEPT ![i] = EndOfPage(key[i])]
  /\ cursor' = [cursor EXCEPT ![Yesterday] = EndOfPage(key[i])]
  /\ page' = [page EXCEPT ![i] = @ + 1]
  /\ Goto(i, "item")
  /\ UNCHANGED <<settlement, syncLock, today, syncFired, key, ghostVars, slips>>

FetchPage(i) ==
  /\ run[i] = "fetch"
  /\ page[i] < MaxPages
  /\ auth # "refused"
  /\ FetchAuth
  /\ last' = [last EXCEPT ![i] = EndOfPage(key[i])]
  /\ page' = [page EXCEPT ![i] = @ + 1]
  /\ Goto(i, "item")
  /\ UNCHANGED <<settlement, cursor, syncLock, today, syncFired, key, ghostVars, slips>>

\* A page that cannot be had, for the auth, the query or the network, ends
\* the run and leaves the cursor where it is.
FetchFails(i) ==
  /\ run[i] = "fetch"
  /\ page[i] < MaxPages
  /\ \/ auth = "refused" /\ UNCHANGED slips
     \/ auth # "refused" /\ Slip
  /\ Goto(i, "release")
  /\ UNCHANGED <<settlement, cursor, syncLock, auth, today, syncFired, localVars, ghostVars>>

PageBudgetSpent(i) ==
  /\ run[i] = "fetch"
  /\ page[i] = MaxPages
  /\ Goto(i, "release")
  /\ UNCHANGED <<settlement, cursor, syncLock, auth, today, syncFired, localVars, ghostVars, slips>>

Current(i) == List[key[i] + 1]
NextItem(i) == key' = [key EXCEPT ![i] = @ + 1] /\ Goto(i, "item")

\* The item loop.  Cancellations and unknown types are counted, no more.
SkipItem(i) ==
  /\ run[i] = "item" /\ key[i] < last[i]
  /\ Current(i).txnType # "APPROVAL"
  /\ NextItem(i)
  /\ UNCHANGED <<settlement, cursor, syncLock, auth, today, syncFired, page, last, ghostVars, slips>>

\* processApproval, the read: no such sale, another amount, or go on.
FindSale(i) ==
  /\ run[i] = "item" /\ key[i] < last[i]
  /\ LET item == Current(i) IN
       /\ item.txnType = "APPROVAL"
       /\ excused' = IF settlement[item.sale] = "none" THEN excused \cup {item.sale} ELSE excused
       /\ IF settlement[item.sale] = "none" \/ ~ item.same
            THEN NextItem(i)
            ELSE Goto(i, "update") /\ UNCHANGED key
  /\ UNCHANGED <<settlement, cursor, syncLock, auth, today, syncFired, page, last,
                 finished, slips>>

\* Mutant: the row is set to Succeed whatever its status is by now.
SettleAnyStatus(i) ==
  /\ run[i] = "update"
  /\ settlement' = [settlement EXCEPT ![Current(i).sale] = "Succeed"]
  /\ NextItem(i)
  /\ UNCHANGED <<cursor, syncLock, auth, today, syncFired, page, last, ghostVars, slips>>

\* processApproval, the write: updateMany WHERE status = Pending.
SettlePending(i) ==
  /\ run[i] = "update"
  /\ settlement' = [settlement EXCEPT ![Current(i).sale] = IF @ = "Pending" THEN "Succeed" ELSE @]
  /\ NextItem(i)
  /\ UNCHANGED <<cursor, syncLock, auth, today, syncFired, page, last, ghostVars, slips>>

\* A statement of processApproval throws: the item is counted as failed.
ItemFails(i) ==
  /\ \/ run[i] = "update"
     \/ run[i] = "item" /\ key[i] < last[i] /\ Current(i).txnType = "APPROVAL"
  /\ Slip
  /\ excused' = excused \cup {Current(i).sale}
  /\ NextItem(i)
  /\ UNCHANGED <<settlement, cursor, syncLock, auth, today, syncFired, page, last, finished>>

\* After the page's items: the end of the list drops the cursor, a further
\* page keeps it for whoever goes on.
PageDone(i) ==
  /\ run[i] = "item" /\ key[i] = last[i]
  /\ IF last[i] = Len(List)
       THEN /\ cursor' = [cursor EXCEPT ![Yesterday] = 0]
            /\ finished' = finished \cup {Yesterday}
            /\ Goto(i, "release")
       ELSE /\ cursor' = [cursor EXCEPT ![Yesterday] = last[i]]
            /\ Goto(i, "fetch")
            /\ UNCHANGED finished
  /\ UNCHANGED <<settlement, syncLock, auth, today, syncFired, localVars, excused, slips>>

\* Redis fails when the cursor is read, saved or dropped: the job gives up.
RedisFails(i) ==
  /\ \/ run[i] = "key"
     \/ run[i] = "item" /\ key[i] = last[i]
  /\ Slip
  /\ Goto(i, "release")
  /\ UNCHANGED <<settlement, cursor, syncLock, auth, today, syncFired, localVars, ghostVars>>

\* The finally block: DEL of the lock, whoever holds it now.
Release(i) ==
  /\ run[i] = "release"
  /\ syncLock' = NoInstance
  /\ Goto(i, "idle")
  /\ UNCHANGED <<settlement, cursor, auth, today, syncFired, localVars, finished, excused, slips>>

\* The process dies; the lock stays until it expires.
Die(i) ==
  /\ run[i] # "idle"
  /\ Slip
  /\ Goto(i, "idle")
  /\ UNCHANGED <<settlement, cursor, syncLock, auth, today, syncFired, localVars, ghostVars>>

RunStep(i) ==
  \/ ReadKey(i) \/ FetchPage(i) \/ FetchFails(i) \/ PageBudgetSpent(i)
  \/ SkipItem(i) \/ FindSale(i) \/ SettlePending(i) \/ ItemFails(i)
  \/ PageDone(i) \/ RedisFails(i) \/ Release(i)

SyncNext ==
  \/ \E s \in Sales : BookSale(s) \/ RefundSale(s)
  \/ NextMorning \/ LockExpires \/ AuthRefused
  \/ \E i \in Instances : Fire(i) \/ RunStep(i) \/ Die(i)

SyncSpec == SyncInit /\ [][SyncNext]_syncVars
-----------------------------------------------------------------------------
(* Properties.                                                              *)

\* What of a day's list has been gone through by some run.
Covered(d) == IF d \in finished THEN Len(Statement[d]) ELSE cursor[d]

\* No approval is lost between two pages or two runs: once the cursor kept in
\* Redis, or the end of the list, is past an approval with our amount, its
\* settlement is no longer Pending, unless its item failed or was looked at
\* before the sale was booked.  A run that resumes at lastKey relies on it.
ResumeSkipsNothing ==
  \A d \in Days : \A n \in 1..Covered(d) :
    LET item == Statement[d][n] IN
      item.txnType = "APPROVAL" /\ item.same =>
        item.sale \in excused \/ settlement[item.sale] \in {"Succeed", "Refunded"}

\* A sale is settled only on Payple's word for our amount, and a refund is
\* never undone, although the sync reads a row before it writes it.
Confirmed == {s \in Sales :
  \E d \in Days : \E n \in 1..Len(Statement[d]) :
    Statement[d][n] = [txnType |-> "APPROVAL", sale |-> s, same |-> TRUE]}

Book == INSTANCE SettlementBook WITH book <- settlement
BookSpec == Book!BookSpec
=============================================================================
