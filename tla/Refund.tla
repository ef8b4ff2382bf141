------------------------------- MODULE Refund -------------------------------
(***************************************************************************)
(* Giving a purchase back (src/refunds), with the first download of the    *)
(* content (prompt.download.service.ts), which decides between the two     *)
(* ways of doing it, and the settlement of the sale.                       *)
(*                                                                         *)
(* Within seven days and unopened, the buyer cancels the payment at once.  *)
(* Opened, within three months, the buyer files a request that an admin    *)
(* rejects or approves; an approval cancels the payment at Payple, and     *)
(* when Payple refuses, an admin wires the money and completes by hand.    *)
(* Each handler is split at its awaits; Payple and the database are two    *)
(* systems, so a handler may die, or lose Payple's answer, between them.   *)
(***************************************************************************)
EXTENDS Naturals

CONSTANTS
  Purchases,   \* paid purchases, each with its Payment and Settlement
  Calls,       \* slots for running handlers
  NoPurchase,  \* what an idle slot works on
  MaxFaults    \* bound on runs that die and answers that get lost

ASSUME PurchaseAssumption == NoPurchase \notin Purchases
ASSUME FaultAssumption == MaxFaults \in Nat

VARIABLES
  \* the database
  payment,     \* Payment.status
  settlement,  \* Settlement.status
  refund,      \* Refund.status, "none" when there is no row
  failCode,    \* purchases whose refund has a payple_fail_code
  downloaded,  \* purchases with a downloaded_at
  \* the world
  age,         \* which refund deadlines have passed
  pg,          \* what Payple did with the payment
  wired,       \* purchases an admin returned by bank transfer
  \* the running handlers
  pc, on,      \* the await before which a handler stands, and its purchase
  \* for the properties and the bound only
  died,        \* purchases on which a run died or a statement failed
  misled,      \* purchases cancelled at Payple behind the server's back
  faults

dbVars    == <<payment, settlement, refund, failCode, downloaded>>
worldVars == <<age, pg, wired>>
ghostVars == <<died, misled, faults>>
vars == <<payment, settlement, refund, failCode, downloaded, age, pg, wired,
          pc, on, died, misled, faults>>

\* The awaits of the five handlers that have more than one.
AutoSteps     == {"autoCancel", "autoBook"}
ApproveSteps  == {"approveCancel", "approveBook", "approveFail"}
Steps == {"idle", "file", "stamp"} \cup AutoSteps \cup ApproveSteps

Statuses == {"none", "REQUESTED", "APPROVED", "REJECTED", "COMPLETED"}

TypeOK ==
  /\ payment \in [Purchases -> {"Succeed", "Refunded"}]
  /\ settlement \in [Purchases -> {"Pending", "Succeed", "Refunded"}]
  /\ refund \in [Purchases -> Statuses]
  /\ failCode \in SUBSET Purchases
  /\ downloaded \in SUBSET Purchases
  /\ age \in [Purchases -> {"week", "quarter", "over"}]
  /\ pg \in [Purchases -> {"captured", "cancelled"}]
  /\ wired \in SUBSET Purchases
  /\ pc \in [Calls -> Steps]
  /\ on \in [Calls -> Purchases \cup {NoPurchase}]
  /\ \A c \in Calls : pc[c] # "idle" => on[c] \in Purchases
  /\ died \in SUBSET Purchases
  /\ misled \in SUBSET Purchases
  /\ faults \in 0..MaxFaults

Init ==
  /\ payment = [p \in Purchases |-> "Succeed"]
  /\ settlement = [p \in Purchases |-> "Pending"]
  /\ refund = [p \in Purchases |-> "none"]
  /\ failCode = {}
  /\ downloaded = {}
  /\ age = [p \in Purchases |-> "week"]
  /\ pg = [p \in Purchases |-> "captured"]
  /\ wired = {}
  /\ pc = [c \in Calls |-> "idle"]
  /\ on = [c \in Calls |-> NoPurchase]
  /\ died = {}
  /\ misled = {}
  /\ faults = 0

-----------------------------------------------------------------------------
(* Policy (refund-policy.ts).                                                *)

\* checkCommon: paid for, and no refund was ever filed.
Refundable(p) == payment[p] = "Succeed" /\ refund[p] = "none"

CheckAutoRefund(p)   == Refundable(p) /\ p \notin downloaded /\ age[p] = "week"
CheckManualRefund(p) == Refundable(p) /\ p \in downloaded /\ age[p] # "over"

\* isRefundSettled: from here on the content is closed to the buyer.
IsRefundSettled(p) == refund[p] \in {"APPROVED", "COMPLETED"}

-----------------------------------------------------------------------------
(* The rest of the world.                                                   *)

\* The end of the seventh day, or of the third month.
Tick(p) ==
  /\ age[p] # "over"
  /\ age' = [age EXCEPT ![p] = IF @ = "week" THEN "quarter" ELSE "over"]
  /\ UNCHANGED <<dbVars, pg, wired, pc, on, ghostVars>>

\* processApproval of the settlement sync.
SettleSale(p) ==
  /\ settlement[p] = "Pending"
  /\ settlement' = [settlement EXCEPT ![p] = "Succeed"]
  /\ UNCHANGED <<payment, refund, failCode, downloaded, worldVars, pc, on, ghostVars>>

\* External: an admin who is shown an approved refund with a fail code wires
\* the money, as the answer of approveRefund tells him to.
Wire(p) ==
  /\ refund[p] = "APPROVED"
  /\ p \in failCode
  /\ p \notin wired
  /\ wired' = wired \cup {p}
  /\ UNCHANGED <<dbVars, age, pg, pc, on, ghostVars>>

-----------------------------------------------------------------------------
(* Parts of the handlers.                                                   *)

Enter(c, p, step) ==
  /\ pc[c] = "idle"
  /\ pc' = [pc EXCEPT ![c] = step]
  /\ on' = [on EXCEPT ![c] = p]

Goto(c, step) == pc' = [pc EXCEPT ![c] = step] /\ UNCHANGED on

Leave(c) ==
  /\ pc' = [pc EXCEPT ![c] = "idle"]
  /\ on' = [on EXCEPT ![c] = NoPurchase]

\* Mutant: only what the sync has not touched is moved to Refunded.
MarkPendingRefunded(p) ==
  /\ payment' = [payment EXCEPT ![p] = "Refunded"]
  /\ settlement' = [settlement EXCEPT ![p] = IF @ = "Pending" THEN "Refunded" ELSE @]

\* markPaymentRefunded, inside the caller's transaction.
MarkPaymentRefunded(p) ==
  /\ payment' = [payment EXCEPT ![p] = "Refunded"]
  /\ settlement' = [settlement EXCEPT ![p] = "Refunded"]

\* requestPaypleRefund.  Payple cancels and says so, or refuses (too late for
\* the card company, already cancelled, no auth), or cancels and its answer
\* is lost, which the caller sees as the same error as a refusal.  The money
\* of a payment goes back once; a repeated cancel may be answered either way.
PaypleCancel(c, p, onSuccess, onError) ==
  \/ /\ pg' = [pg EXCEPT ![p] = "cancelled"]
     /\ onSuccess
     /\ UNCHANGED ghostVars
  \/ /\ onError
     /\ UNCHANGED <<pg, ghostVars>>
  \/ /\ pg[p] = "captured"
     /\ faults < MaxFaults
     /\ pg' = [pg EXCEPT ![p] = "cancelled"]
     /\ misled' = misled \cup {p}
     /\ faults' = faults + 1
     /\ onError
     /\ UNCHANGED died

-----------------------------------------------------------------------------
(* POST /refunds: the automatic refund (refundPurchase).                    *)

AutoRefund(c, p) ==
  /\ CheckAutoRefund(p)
  /\ Enter(c, p, "autoCancel")
  /\ UNCHANGED <<dbVars, worldVars, ghostVars>>

AutoCancel(c) ==
  /\ pc[c] = "autoCancel"
  /\ PaypleCancel(c, on[c], Goto(c, "autoBook"), Leave(c))
  /\ UNCHANGED <<dbVars, age, wired>>

\* The transaction: a refund row that is already there is returned as it is.
AutoBook(c) ==
  LET p == on[c]
  IN /\ pc[c] = "autoBook"
     /\ \/ /\ refund[p] = "none"
           /\ refund' = [refund EXCEPT ![p] = "COMPLETED"]
           /\ MarkPaymentRefunded(p)
        \/ /\ refund[p] # "none"
           /\ UNCHANGED <<refund, payment, settlement>>
     /\ Leave(c)
     /\ UNCHANGED <<failCode, downloaded, worldVars, ghostVars>>

-----------------------------------------------------------------------------
(* POST /refunds/request (requestManualRefund).                             *)

RequestManualRefund(c, p) ==
  /\ CheckManualRefund(p)
  /\ Enter(c, p, "file")
  /\ UNCHANGED <<dbVars, worldVars, ghostVars>>

\* The row is created, or the unique index on the purchase answers 409.  An
\* automatic refund of the purchase may be on its way to Payple meanwhile.
FileRequest(c) ==
  LET p == on[c]
  IN /\ pc[c] = "file"
     /\ \/ /\ refund[p] = "none"
           /\ refund' = [refund EXCEPT ![p] = "REQUESTED"]
           /\ misled' = IF \E a \in Calls : pc[a] \in AutoSteps /\ on[a] = p
                        THEN misled \cup {p} ELSE misled
        \/ /\ refund[p] # "none"
           /\ UNCHANGED <<refund, misled>>
     /\ Leave(c)
     /\ UNCHANGED <<payment, settlement, failCode, downloaded, worldVars, died, faults>>

-----------------------------------------------------------------------------
(* The admin's handlers.                                                    *)

\* Mutant: an approval may be repeated, to try the cancellation again.
ApproveAgain(c, p) ==
  /\ refund[p] \in {"REQUESTED", "APPROVED"}
  /\ refund' = [refund EXCEPT ![p] = "APPROVED"]
  /\ Enter(c, p, "approveCancel")
  /\ UNCHANGED <<payment, settlement, failCode, downloaded, worldVars, ghostVars>>

\* approveRefund claims the request by one conditional UPDATE.
Approve(c, p) ==
  /\ refund[p] = "REQUESTED"
  /\ refund' = [refund EXCEPT ![p] = "APPROVED"]
  /\ Enter(c, p, "approveCancel")
  /\ UNCHANGED <<payment, settlement, failCode, downloaded, worldVars, ghostVars>>

ApproveCancel(c) ==
  /\ pc[c] = "approveCancel"
  /\ PaypleCancel(c, on[c], Goto(c, "approveBook"), Goto(c, "approveFail"))
  /\ UNCHANGED <<dbVars, age, wired>>

\* Mutant: a fail code of its own status, which the enum lacks.
ApproveFailStatus(c) ==
  /\ pc[c] = "approveFail"
  /\ failCode' = failCode \cup {on[c]}
  /\ refund' = [refund EXCEPT ![on[c]] = "FAILED"]
  /\ Leave(c)
  /\ UNCHANGED <<payment, settlement, downloaded, worldVars, ghostVars>>

\* Mutant: the failure is only logged.
ApproveFailUnrecorded(c) ==
  /\ pc[c] = "approveFail"
  /\ Leave(c)
  /\ UNCHANGED <<dbVars, worldVars, ghostVars>>

\* Payple's refusal is noted next to the approval, which stands.
ApproveFail(c) ==
  /\ pc[c] = "approveFail"
  /\ failCode' = failCode \cup {on[c]}
  /\ Leave(c)
  /\ UNCHANGED <<payment, settlement, refund, downloaded, worldVars, ghostVars>>

\* Mutant: one try block around Payple and the database, so that a failed
\* transaction is noted as a failed cancellation.
ApproveBookInTry(c) ==
  LET p == on[c]
  IN /\ pc[c] = "approveBook"
     /\ \/ /\ refund' = [refund EXCEPT ![p] = "COMPLETED"]
           /\ failCode' = failCode \ {p}
           /\ MarkPaymentRefunded(p)
           /\ Leave(c)
        \/ /\ Goto(c, "approveFail")
           /\ UNCHANGED <<refund, failCode, payment, settlement>>
     /\ UNCHANGED <<downloaded, worldVars, ghostVars>>

\* The transaction after a cancellation.  When it fails the handler answers
\* RefundStateSyncFailed: that is Die.
ApproveBook(c) ==
  LET p == on[c]
  IN /\ pc[c] = "approveBook"
     /\ refund' = [refund EXCEPT ![p] = "COMPLETED"]
     /\ failCode' = failCode \ {p}
     /\ MarkPaymentRefunded(p)
     /\ Leave(c)
     /\ UNCHANGED <<downloaded, worldVars, ghostVars>>

\* Mutant: find and then update, where the code has one conditional UPDATE.
RejectAny(p) ==
  /\ refund[p] \in {"REQUESTED", "APPROVED"}
  /\ refund' = [refund EXCEPT ![p] = "REJECTED"]
  /\ UNCHANGED <<payment, settlement, failCode, downloaded, worldVars, pc, on, ghostVars>>

Reject(p) ==
  /\ refund[p] = "REQUESTED"
  /\ refund' = [refund EXCEPT ![p] = "REJECTED"]
  /\ UNCHANGED <<payment, settlement, failCode, downloaded, worldVars, pc, on, ghostVars>>

\* completeManualRefund asks only for an approval: not for a fail code, nor
\* whether the approval's own cancellation is still under way.
CompleteManual(p) ==
  /\ refund[p] = "APPROVED"
  /\ refund' = [refund EXCEPT ![p] = "COMPLETED"]
  /\ MarkPaymentRefunded(p)
  /\ UNCHANGED <<failCode, downloaded, worldVars, pc, on, ghostVars>>

-----------------------------------------------------------------------------
(* GET the content of a paid prompt (getPromptContent).                     *)

\* The content is handed out at once when downloaded_at is set already: that
\* run changes nothing here and is left out.
Download(c, p) ==
  /\ ~IsRefundSettled(p)
  /\ payment[p] = "Succeed"
  /\ p \notin downloaded
  /\ Enter(c, p, "stamp")
  /\ UNCHANGED <<dbVars, worldVars, ghostVars>>

Stamp(c) ==
  /\ pc[c] = "stamp"
  /\ downloaded' = downloaded \cup {on[c]}
  /\ Leave(c)
  /\ UNCHANGED <<payment, settlement, refund, failCode, worldVars, ghostVars>>

-----------------------------------------------------------------------------

\* A run ends at an await: the process dies or a statement throws.
Die(c) ==
  /\ pc[c] # "idle"
  /\ faults < MaxFaults
  /\ faults' = faults + 1
  /\ died' = died \cup {on[c]}
  /\ Leave(c)
  /\ UNCHANGED <<dbVars, worldVars, misled>>

HandlerStep(c) ==
  \/ AutoCancel(c) \/ AutoBook(c) \/ FileRequest(c)
  \/ ApproveCancel(c) \/ ApproveFail(c) \/ ApproveBook(c)
  \/ Stamp(c)

Next ==
  \/ \E p \in Purchases :
       Tick(p) \/ SettleSale(p) \/ Wire(p) \/ Reject(p) \/ CompleteManual(p)
  \/ \E c \in Calls, p \in Purchases :
       \/ AutoRefund(c, p) \/ RequestManualRefund(c, p)
       \/ Approve(c, p) \/ Download(c, p)
  \/ \E c \in Calls : HandlerStep(c) \/ Die(c)

Spec == Init /\ [][Next]_vars

-----------------------------------------------------------------------------
(* Properties. *)

\* The three rows agree at all times: a sale is Refunded in Payment and in
\* Settlement exactly when its refund is COMPLETED, so that the payout never
\* counts a returned sale, in whatever order sync, buyer and admins come.
BooksAgree ==
  \A p \in Purchases :
    /\ payment[p] = "Refunded" <=> refund[p] = "COMPLETED"
    /\ settlement[p] = "Refunded" <=> refund[p] = "COMPLETED"

\* However many admins approve at once, one approval goes to Payple, and what
\* it acts for is never a request that was rejected.
OneApproval ==
  \A c \in Calls : pc[c] \in ApproveSteps =>
    /\ refund[on[c]] \in {"APPROVED", "COMPLETED"}
    /\ \A d \in Calls \ {c} : pc[d] \in ApproveSteps => on[d] # on[c]

\* An approved refund is being worked on or shows its fail code: it is never
\* left to wait for an admin who cannot see why, unless a run died.
ApprovedIsVisible ==
  \A p \in Purchases \ died :
    refund[p] = "APPROVED" =>
      p \in failCode \/ \E c \in Calls : pc[c] \in ApproveSteps /\ on[c] = p

\* A buyer gets the money back once: not by Payple and by wire.  The two ways
\* around this that the code leaves open are named: the server never learned
\* of a cancellation (the run died, the answer was lost), or a request was
\* filed while an automatic refund was under way.
PaidBackOnce ==
  \A p \in Purchases \ (died \cup misled) :
    ~(pg[p] = "cancelled" /\ p \in wired)

\* Each purchase keeps to RefundWorkflow: decided once, no way back from
\* REJECTED or COMPLETED, a request only for what was opened, and the books
\* turn in the same step as the refund.
Workflow == INSTANCE RefundWorkflow WITH
              status   <- refund,
              opened   <- downloaded,
              returned <- {p \in Purchases : payment[p] = "Refunded"}

WorkflowSpec == Workflow!Spec

\* A fail code says that Payple did not cancel: the admin is told to wire.
FailCodeMeansNotCancelled ==
  \A p \in Purchases : p \in failCode => pg[p] = "captured"

\* After the first download there is no automatic refund any more.
NoAutoRefundOnceOpened ==
  [][\A p \in Purchases :
       refund[p] = "none" /\ refund'[p] = "COMPLETED" => p \notin downloaded]_vars
=============================================================================
