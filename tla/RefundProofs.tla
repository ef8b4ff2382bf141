---------------------------- MODULE RefundProofs ----------------------------
(***************************************************************************)
(* Proofs about Refund for every number of purchases, overlapping handlers *)
(* and faults.                                                             *)
(***************************************************************************)
EXTENDS Refund, TLAPS

Approving(c, p)  == pc[c] \in ApproveSteps /\ on[c] = p
Returning(c, p)  == pc[c] \in AutoSteps /\ on[c] = p

\* A request is only filed for what was downloaded.
FileInv == \A c \in Calls : pc[c] = "file" => on[c] \in downloaded

\* Fail codes and wires belong to approvals whose handler has come to its end.
RowInv ==
  \A p \in failCode \cup wired :
    /\ refund[p] \in {"APPROVED", "COMPLETED"}
    /\ \A c \in Calls : ~Approving(c, p)

\* What the server knows of a purchase no run died on and no answer misled it
\* about.  A cancelled payment without a refund row is about to be booked; a
\* request, and an approval before its cancellation, still has the money; and
\* an automatic refund never runs beside a request.
PaidInv ==
  \A p \in Purchases \ (died \cup misled) :
    /\ refund[p] = "none" /\ pg[p] = "cancelled" =>
         \E c \in Calls : pc[c] = "autoBook" /\ on[c] = p
    /\ refund[p] \in {"REQUESTED", "REJECTED"} => pg[p] = "captured"
    /\ \A c \in Calls :
         on[c] = p /\ pc[c] \in {"approveCancel", "approveFail"} => pg[p] = "captured"
    /\ p \in failCode \cup wired => pg[p] = "captured"
    /\ \A c \in Calls : Returning(c, p) =>
         /\ refund[p] \in {"none", "COMPLETED"}
         /\ p \notin failCode \cup wired
         /\ \A d \in Calls : ~Approving(d, p)

IInv == TypeOK /\ BooksAgree /\ FileInv /\ OneApproval /\ RowInv /\ ApprovedIsVisible /\ PaidInv

-----------------------------------------------------------------------------
(* Every step keeps every part of the invariant. *)

\* Every variable stays in its type.
LEMMA TypeStep == TypeOK /\ [Next]_vars => TypeOK'
<1> SUFFICES ASSUME TypeOK, [Next]_vars PROVE TypeOK'
  OBVIOUS
<1> USE PurchaseAssumption, FaultAssumption DEF TypeOK, Steps, AutoSteps, ApproveSteps,
        Statuses
<1>1. CASE UNCHANGED vars
  BY <1>1 DEF vars
<1>2. ASSUME NEW p \in Purchases, Tick(p) PROVE TypeOK'
  BY <1>2 DEF Tick, dbVars, ghostVars
<1>3. ASSUME NEW p \in Purchases, SettleSale(p) PROVE TypeOK'
  BY <1>3 DEF SettleSale, worldVars, ghostVars
<1>4. ASSUME NEW p \in Purchases, Wire(p) PROVE TypeOK'
  BY <1>4 DEF Wire, dbVars, ghostVars
<1>5. ASSUME NEW p \in Purchases, Reject(p) PROVE TypeOK'
  BY <1>5 DEF Reject, worldVars, ghostVars
<1>6. ASSUME NEW p \in Purchases, CompleteManual(p) PROVE TypeOK'
  BY <1>6 DEF CompleteManual, MarkPaymentRefunded, worldVars, ghostVars
<1>7. ASSUME NEW c \in Calls, NEW p \in Purchases, AutoRefund(c, p) PROVE TypeOK'
  BY <1>7 DEF AutoRefund, Enter, dbVars, worldVars, ghostVars
<1>8. ASSUME NEW c \in Calls, NEW p \in Purchases, RequestManualRefund(c, p) PROVE TypeOK'
  BY <1>8 DEF RequestManualRefund, Enter, dbVars, worldVars, ghostVars
<1>9. ASSUME NEW c \in Calls, NEW p \in Purchases, Approve(c, p) PROVE TypeOK'
  BY <1>9 DEF Approve, Enter, worldVars, ghostVars
<1>10. ASSUME NEW c \in Calls, NEW p \in Purchases, Download(c, p) PROVE TypeOK'
  BY <1>10 DEF Download, Enter, dbVars, worldVars, ghostVars
<1>11. ASSUME NEW c \in Calls, AutoCancel(c) PROVE TypeOK'
  BY <1>11 DEF AutoCancel, PaypleCancel, Goto, Leave, dbVars, ghostVars
<1>12. ASSUME NEW c \in Calls, AutoBook(c) PROVE TypeOK'
  BY <1>12 DEF AutoBook, MarkPaymentRefunded, Leave, worldVars, ghostVars
<1>13. ASSUME NEW c \in Calls, FileRequest(c) PROVE TypeOK'
  BY <1>13 DEF FileRequest, Leave, worldVars
<1>14. ASSUME NEW c \in Calls, ApproveCancel(c) PROVE TypeOK'
  BY <1>14 DEF ApproveCancel, PaypleCancel, Goto, dbVars, ghostVars
<1>15. ASSUME NEW c \in Calls, ApproveFail(c) PROVE TypeOK'
  BY <1>15 DEF ApproveFail, Leave, worldVars, ghostVars
<1>16. ASSUME NEW c \in Calls, ApproveBook(c) PROVE TypeOK'
  BY <1>16 DEF ApproveBook, MarkPaymentRefunded, Leave, worldVars, ghostVars
<1>17. ASSUME NEW c \in Calls, Stamp(c) PROVE TypeOK'
  BY <1>17 DEF Stamp, Leave, worldVars, ghostVars
<1>18. ASSUME NEW c \in Calls, Die(c) PROVE TypeOK'
  BY <1>18 DEF Die, Leave, dbVars, worldVars
<1> QED
  BY <1>1, <1>2, <1>3, <1>4, <1>5, <1>6, <1>7, <1>8, <1>9, <1>10, <1>11, <1>12, <1>13,
     <1>14, <1>15, <1>16, <1>17, <1>18 DEF Next, HandlerStep, vars

\* No step takes the three rows of a sale apart.
LEMMA BooksStep == TypeOK /\ BooksAgree /\ [Next]_vars => BooksAgree'
<1> SUFFICES ASSUME TypeOK, BooksAgree, [Next]_vars PROVE BooksAgree'
  OBVIOUS
<1> USE DEF TypeOK, Steps, AutoSteps, ApproveSteps, Statuses, BooksAgree
<1>1. CASE UNCHANGED <<payment, settlement, refund>>
  BY <1>1
<1>2. ASSUME NEW p \in Purchases, SettleSale(p) PROVE BooksAgree'
  BY <1>2 DEF SettleSale, worldVars, ghostVars
<1>3. ASSUME NEW p \in Purchases, Reject(p) PROVE BooksAgree'
  BY <1>3 DEF Reject, worldVars, ghostVars
<1>4. ASSUME NEW p \in Purchases, CompleteManual(p) PROVE BooksAgree'
  BY <1>4 DEF CompleteManual, MarkPaymentRefunded, worldVars, ghostVars
<1>5. ASSUME NEW p \in Purchases, Tick(p) \/ Wire(p)
      PROVE  UNCHANGED <<payment, settlement, refund>>
  BY <1>5 DEF Tick, dbVars, ghostVars, Wire
<1>6. ASSUME NEW c \in Calls, NEW p \in Purchases, Approve(c, p) PROVE BooksAgree'
  BY <1>6 DEF Approve, Enter, worldVars, ghostVars
<1>7. ASSUME NEW c \in Calls, NEW p \in Purchases,
            AutoRefund(c, p) \/ RequestManualRefund(c, p) \/ Download(c, p)
      PROVE  UNCHANGED <<payment, settlement, refund>>
  BY <1>7 DEF AutoRefund, Enter, dbVars, worldVars, ghostVars, RequestManualRefund,
     Download
<1>8. ASSUME NEW c \in Calls, AutoBook(c) PROVE BooksAgree'
  BY <1>8 DEF AutoBook, MarkPaymentRefunded, Leave, worldVars, ghostVars
<1>9. ASSUME NEW c \in Calls, FileRequest(c) PROVE BooksAgree'
  BY <1>9 DEF FileRequest, Leave, worldVars
<1>10. ASSUME NEW c \in Calls, ApproveBook(c) PROVE BooksAgree'
  BY <1>10 DEF ApproveBook, MarkPaymentRefunded, Leave, worldVars, ghostVars
<1>11. ASSUME NEW c \in Calls,
            AutoCancel(c) \/ ApproveCancel(c) \/ ApproveFail(c) \/ Stamp(c) \/ Die(c)
      PROVE  UNCHANGED <<payment, settlement, refund>>
  BY <1>11 DEF AutoCancel, PaypleCancel, Goto, Leave, dbVars, ghostVars, ApproveCancel,
     ApproveFail, worldVars, Stamp, Die
<1> QED
  BY <1>1, <1>2, <1>3, <1>4, <1>5, <1>6, <1>7, <1>8, <1>9, <1>10, <1>11 DEF Next, HandlerStep, vars

\* A download is never taken back.
LEMMA FileStep == TypeOK /\ FileInv /\ [Next]_vars => FileInv'
<1> SUFFICES ASSUME TypeOK, FileInv, [Next]_vars PROVE FileInv'
  OBVIOUS
<1> USE DEF TypeOK, Steps, AutoSteps, ApproveSteps, Statuses, FileInv
<1>1. CASE UNCHANGED <<pc, on, downloaded>>
  BY <1>1
<1>2. ASSUME NEW p \in Purchases,
            Tick(p) \/ SettleSale(p) \/ Wire(p) \/ Reject(p) \/ CompleteManual(p)
      PROVE  UNCHANGED <<pc, on, downloaded>>
  BY <1>2 DEF Tick, dbVars, ghostVars, SettleSale, worldVars, Wire, Reject,
     CompleteManual, MarkPaymentRefunded
<1>3. ASSUME NEW c \in Calls, NEW p \in Purchases, AutoRefund(c, p) PROVE FileInv'
  BY <1>3 DEF AutoRefund, Enter, dbVars, worldVars, ghostVars
<1>4. ASSUME NEW c \in Calls, NEW p \in Purchases, RequestManualRefund(c, p) PROVE FileInv'
  BY <1>4 DEF RequestManualRefund, Enter, dbVars, worldVars, ghostVars,
     CheckManualRefund
<1>5. ASSUME NEW c \in Calls, NEW p \in Purchases, Approve(c, p) PROVE FileInv'
  BY <1>5 DEF Approve, Enter, worldVars, ghostVars
<1>6. ASSUME NEW c \in Calls, NEW p \in Purchases, Download(c, p) PROVE FileInv'
  BY <1>6 DEF Download, Enter, dbVars, worldVars, ghostVars
<1>7. ASSUME NEW c \in Calls, AutoCancel(c) PROVE FileInv'
  BY <1>7 DEF AutoCancel, PaypleCancel, Goto, Leave, dbVars, ghostVars
<1>8. ASSUME NEW c \in Calls, AutoBook(c) PROVE FileInv'
  BY <1>8 DEF AutoBook, MarkPaymentRefunded, Leave, worldVars, ghostVars
<1>9. ASSUME NEW c \in Calls, FileRequest(c) PROVE FileInv'
  BY <1>9 DEF FileRequest, Leave, worldVars
<1>10. ASSUME NEW c \in Calls, ApproveCancel(c) PROVE FileInv'
  BY <1>10 DEF ApproveCancel, PaypleCancel, Goto, dbVars, ghostVars
<1>11. ASSUME NEW c \in Calls, ApproveFail(c) PROVE FileInv'
  BY <1>11 DEF ApproveFail, Leave, worldVars, ghostVars
<1>12. ASSUME NEW c \in Calls, ApproveBook(c) PROVE FileInv'
  BY <1>12 DEF ApproveBook, MarkPaymentRefunded, Leave, worldVars, ghostVars
<1>13. ASSUME NEW c \in Calls, Stamp(c) PROVE FileInv'
  BY <1>13 DEF Stamp, Leave, worldVars, ghostVars
<1>14. ASSUME NEW c \in Calls, Die(c) PROVE FileInv'
  BY <1>14 DEF Die, Leave, dbVars, worldVars
<1> QED
  BY <1>1, <1>2, <1>3, <1>4, <1>5, <1>6, <1>7, <1>8, <1>9, <1>10, <1>11, <1>12, <1>13,
     <1>14 DEF Next, HandlerStep, vars

\* A claim is won from REQUESTED only, where nobody is approving.
LEMMA ApprovalStep == TypeOK /\ OneApproval /\ [Next]_vars => OneApproval'
<1> SUFFICES ASSUME TypeOK, OneApproval, [Next]_vars PROVE OneApproval'
  OBVIOUS
<1> USE DEF TypeOK, Steps, AutoSteps, ApproveSteps, Statuses, OneApproval
<1>1. CASE UNCHANGED <<pc, on, refund>>
  BY <1>1
<1>2. ASSUME NEW p \in Purchases, Reject(p) PROVE OneApproval'
  BY <1>2 DEF Reject, worldVars, ghostVars
<1>3. ASSUME NEW p \in Purchases, CompleteManual(p) PROVE OneApproval'
  BY <1>3 DEF CompleteManual, MarkPaymentRefunded, worldVars, ghostVars
<1>4. ASSUME NEW p \in Purchases, Tick(p) \/ SettleSale(p) \/ Wire(p)
      PROVE  UNCHANGED <<pc, on, refund>>
  BY <1>4 DEF Tick, dbVars, ghostVars, SettleSale, worldVars, Wire
<1>5. ASSUME NEW c \in Calls, NEW p \in Purchases, AutoRefund(c, p) PROVE OneApproval'
  BY <1>5 DEF AutoRefund, Enter, dbVars, worldVars, ghostVars
<1>6. ASSUME NEW c \in Calls, NEW p \in Purchases, RequestManualRefund(c, p) PROVE OneApproval'
  BY <1>6 DEF RequestManualRefund, Enter, dbVars, worldVars, ghostVars
<1>7. ASSUME NEW c \in Calls, NEW p \in Purchases, Approve(c, p) PROVE OneApproval'
  BY <1>7 DEF Approve, Enter, worldVars, ghostVars
<1>8. ASSUME NEW c \in Calls, NEW p \in Purchases, Download(c, p) PROVE OneApproval'
  BY <1>8 DEF Download, Enter, dbVars, worldVars, ghostVars
<1>9. ASSUME NEW c \in Calls, AutoCancel(c) PROVE OneApproval'
  BY <1>9 DEF AutoCancel, PaypleCancel, Goto, Leave, dbVars, ghostVars
<1>10. ASSUME NEW c \in Calls, AutoBook(c) PROVE OneApproval'
  BY <1>10 DEF AutoBook, MarkPaymentRefunded, Leave, worldVars, ghostVars
<1>11. ASSUME NEW c \in Calls, FileRequest(c) PROVE OneApproval'
  BY <1>11 DEF FileRequest, Leave, worldVars
<1>12. ASSUME NEW c \in Calls, ApproveCancel(c) PROVE OneApproval'
  BY <1>12 DEF ApproveCancel, PaypleCancel, Goto, dbVars, ghostVars
<1>13. ASSUME NEW c \in Calls, ApproveFail(c) PROVE OneApproval'
  BY <1>13 DEF ApproveFail, Leave, worldVars, ghostVars
<1>14. ASSUME NEW c \in Calls, ApproveBook(c) PROVE OneApproval'
  BY <1>14 DEF ApproveBook, MarkPaymentRefunded, Leave, worldVars, ghostVars
<1>15. ASSUME NEW c \in Calls, Stamp(c) PROVE OneApproval'
  BY <1>15 DEF Stamp, Leave, worldVars, ghostVars
<1>16. ASSUME NEW c \in Calls, Die(c) PROVE OneApproval'
  BY <1>16 DEF Die, Leave, dbVars, worldVars
<1> QED
  BY <1>1, <1>2, <1>3, <1>4, <1>5, <1>6, <1>7, <1>8, <1>9, <1>10, <1>11, <1>12, <1>13,
     <1>14, <1>15, <1>16 DEF Next, HandlerStep, vars

\* Nothing starts on a refund that has a fail code or was wired.
LEMMA RowStep == TypeOK /\ OneApproval /\ RowInv /\ [Next]_vars => RowInv'
<1> SUFFICES ASSUME TypeOK, OneApproval, RowInv, [Next]_vars PROVE RowInv'
  OBVIOUS
<1> USE DEF TypeOK, Steps, AutoSteps, ApproveSteps, Statuses, OneApproval, RowInv,
        Approving
<1>1. CASE UNCHANGED <<failCode, wired, refund, pc, on>>
  BY <1>1
<1>2. ASSUME NEW p \in Purchases, Wire(p) PROVE RowInv'
  BY <1>2 DEF Wire, dbVars, ghostVars
<1>3. ASSUME NEW p \in Purchases, Reject(p) PROVE RowInv'
  BY <1>3 DEF Reject, worldVars, ghostVars
<1>4. ASSUME NEW p \in Purchases, CompleteManual(p) PROVE RowInv'
  BY <1>4 DEF CompleteManual, MarkPaymentRefunded, worldVars, ghostVars
<1>5. ASSUME NEW p \in Purchases, Tick(p) \/ SettleSale(p)
      PROVE  UNCHANGED <<failCode, wired, refund, pc, on>>
  BY <1>5 DEF Tick, dbVars, ghostVars, SettleSale, worldVars
<1>6. ASSUME NEW c \in Calls, NEW p \in Purchases, AutoRefund(c, p) PROVE RowInv'
  BY <1>6 DEF AutoRefund, Enter, dbVars, worldVars, ghostVars
<1>7. ASSUME NEW c \in Calls, NEW p \in Purchases, RequestManualRefund(c, p) PROVE RowInv'
  BY <1>7 DEF RequestManualRefund, Enter, dbVars, worldVars, ghostVars
<1>8. ASSUME NEW c \in Calls, NEW p \in Purchases, Approve(c, p) PROVE RowInv'
  BY <1>8 DEF Approve, Enter, worldVars, ghostVars
<1>9. ASSUME NEW c \in Calls, NEW p \in Purchases, Download(c, p) PROVE RowInv'
  BY <1>9 DEF Download, Enter, dbVars, worldVars, ghostVars
<1>10. ASSUME NEW c \in Calls, AutoCancel(c) PROVE RowInv'
  BY <1>10 DEF AutoCancel, PaypleCancel, Goto, Leave, dbVars, ghostVars
<1>11. ASSUME NEW c \in Calls, AutoBook(c) PROVE RowInv'
  BY <1>11 DEF AutoBook, MarkPaymentRefunded, Leave, worldVars, ghostVars
<1>12. ASSUME NEW c \in Calls, FileRequest(c) PROVE RowInv'
  BY <1>12 DEF FileRequest, Leave, worldVars
<1>13. ASSUME NEW c \in Calls, ApproveCancel(c) PROVE RowInv'
  BY <1>13 DEF ApproveCancel, PaypleCancel, Goto, dbVars, ghostVars
<1>14. ASSUME NEW c \in Calls, ApproveFail(c) PROVE RowInv'
  BY <1>14 DEF ApproveFail, Leave, worldVars, ghostVars
<1>15. ASSUME NEW c \in Calls, ApproveBook(c) PROVE RowInv'
  BY <1>15 DEF ApproveBook, MarkPaymentRefunded, Leave, worldVars, ghostVars
<1>16. ASSUME NEW c \in Calls, Stamp(c) PROVE RowInv'
  BY <1>16 DEF Stamp, Leave, worldVars, ghostVars
<1>17. ASSUME NEW c \in Calls, Die(c) PROVE RowInv'
  BY <1>17 DEF Die, Leave, dbVars, worldVars
<1> QED
  BY <1>1, <1>2, <1>3, <1>4, <1>5, <1>6, <1>7, <1>8, <1>9, <1>10, <1>11, <1>12, <1>13,
     <1>14, <1>15, <1>16, <1>17 DEF Next, HandlerStep, vars

\* An approval ends in a fail code, in COMPLETED, or in a dead run.
LEMMA VisibleStep == TypeOK /\ OneApproval /\ ApprovedIsVisible /\ [Next]_vars => ApprovedIsVisible'
<1> SUFFICES ASSUME TypeOK, OneApproval, ApprovedIsVisible, [Next]_vars PROVE ApprovedIsVisible'
  OBVIOUS
<1> USE DEF TypeOK, Steps, AutoSteps, ApproveSteps, Statuses, OneApproval,
        ApprovedIsVisible
<1>1. CASE UNCHANGED <<refund, failCode, died, pc, on>>
  BY <1>1
<1>2. ASSUME NEW p \in Purchases, Reject(p) PROVE ApprovedIsVisible'
  BY <1>2 DEF Reject, worldVars, ghostVars
<1>3. ASSUME NEW p \in Purchases, CompleteManual(p) PROVE ApprovedIsVisible'
  BY <1>3 DEF CompleteManual, MarkPaymentRefunded, worldVars, ghostVars
<1>4. ASSUME NEW p \in Purchases, Tick(p) \/ SettleSale(p) \/ Wire(p)
      PROVE  UNCHANGED <<refund, failCode, died, pc, on>>
  BY <1>4 DEF Tick, dbVars, ghostVars, SettleSale, worldVars, Wire
<1>5. ASSUME NEW c \in Calls, NEW p \in Purchases, AutoRefund(c, p) PROVE ApprovedIsVisible'
  BY <1>5 DEF AutoRefund, Enter, dbVars, worldVars, ghostVars
<1>6. ASSUME NEW c \in Calls, NEW p \in Purchases, RequestManualRefund(c, p) PROVE ApprovedIsVisible'
  BY <1>6 DEF RequestManualRefund, Enter, dbVars, worldVars, ghostVars
<1>7. ASSUME NEW c \in Calls, NEW p \in Purchases, Approve(c, p) PROVE ApprovedIsVisible'
  BY <1>7 DEF Approve, Enter, worldVars, ghostVars
<1>8. ASSUME NEW c \in Calls, NEW p \in Purchases, Download(c, p) PROVE ApprovedIsVisible'
  BY <1>8 DEF Download, Enter, dbVars, worldVars, ghostVars
<1>9. ASSUME NEW c \in Calls, AutoCancel(c) PROVE ApprovedIsVisible'
  BY <1>9 DEF AutoCancel, PaypleCancel, Goto, Leave, dbVars, ghostVars
<1>10. ASSUME NEW c \in Calls, AutoBook(c) PROVE ApprovedIsVisible'
  BY <1>10 DEF AutoBook, MarkPaymentRefunded, Leave, worldVars, ghostVars
<1>11. ASSUME NEW c \in Calls, FileRequest(c) PROVE ApprovedIsVisible'
  BY <1>11 DEF FileRequest, Leave, worldVars
<1>12. ASSUME NEW c \in Calls, ApproveCancel(c) PROVE ApprovedIsVisible'
  BY <1>12 DEF ApproveCancel, PaypleCancel, Goto, dbVars, ghostVars
<1>13. ASSUME NEW c \in Calls, ApproveFail(c) PROVE ApprovedIsVisible'
  BY <1>13 DEF ApproveFail, Leave, worldVars, ghostVars
<1>14. ASSUME NEW c \in Calls, ApproveBook(c) PROVE ApprovedIsVisible'
  BY <1>14 DEF ApproveBook, MarkPaymentRefunded, Leave, worldVars, ghostVars
<1>15. ASSUME NEW c \in Calls, Stamp(c) PROVE ApprovedIsVisible'
  BY <1>15 DEF Stamp, Leave, worldVars, ghostVars
<1>16. ASSUME NEW c \in Calls, Die(c) PROVE ApprovedIsVisible'
  BY <1>16 DEF Die, Leave, dbVars, worldVars
<1> QED
  BY <1>1, <1>2, <1>3, <1>4, <1>5, <1>6, <1>7, <1>8, <1>9, <1>10, <1>11, <1>12, <1>13,
     <1>14, <1>15, <1>16 DEF Next, HandlerStep, vars

\* The money of a request waits for its approval.
LEMMA PaidStep == TypeOK /\ OneApproval /\ RowInv /\ PaidInv /\ [Next]_vars => PaidInv'
<1> SUFFICES ASSUME TypeOK, OneApproval, RowInv, PaidInv, [Next]_vars PROVE PaidInv'
  OBVIOUS
<1> USE DEF TypeOK, Steps, AutoSteps, ApproveSteps, Statuses, OneApproval, RowInv,
        PaidInv, Approving, Returning
<1>1. CASE UNCHANGED <<refund, pg, failCode, wired, died, misled, pc, on>>
  BY <1>1
<1>2. ASSUME NEW p \in Purchases, Wire(p) PROVE PaidInv'
  BY <1>2 DEF Wire, dbVars, ghostVars
<1>3. ASSUME NEW p \in Purchases, Reject(p) PROVE PaidInv'
  BY <1>3 DEF Reject, worldVars, ghostVars
<1>4. ASSUME NEW p \in Purchases, CompleteManual(p) PROVE PaidInv'
  BY <1>4 DEF CompleteManual, MarkPaymentRefunded, worldVars, ghostVars
<1>5. ASSUME NEW p \in Purchases, Tick(p) \/ SettleSale(p)
      PROVE  UNCHANGED <<refund, pg, failCode, wired, died, misled, pc, on>>
  BY <1>5 DEF Tick, dbVars, ghostVars, SettleSale, worldVars
<1>6. ASSUME NEW c \in Calls, NEW p \in Purchases, AutoRefund(c, p) PROVE PaidInv'
  BY <1>6 DEF AutoRefund, Enter, dbVars, worldVars, ghostVars, CheckAutoRefund,
     Refundable
<1>7. ASSUME NEW c \in Calls, NEW p \in Purchases, RequestManualRefund(c, p) PROVE PaidInv'
  BY <1>7 DEF RequestManualRefund, Enter, dbVars, worldVars, ghostVars
<1>8. ASSUME NEW c \in Calls, NEW p \in Purchases, Approve(c, p) PROVE PaidInv'
  BY <1>8 DEF Approve, Enter, worldVars, ghostVars
<1>9. ASSUME NEW c \in Calls, NEW p \in Purchases, Download(c, p) PROVE PaidInv'
  BY <1>9 DEF Download, Enter, dbVars, worldVars, ghostVars
<1>10. ASSUME NEW c \in Calls, AutoCancel(c) PROVE PaidInv'
  BY <1>10 DEF AutoCancel, PaypleCancel, Goto, Leave, dbVars, ghostVars
<1>11. ASSUME NEW c \in Calls, AutoBook(c) PROVE PaidInv'
  BY <1>11 DEF AutoBook, MarkPaymentRefunded, Leave, worldVars, ghostVars
<1>12. ASSUME NEW c \in Calls, FileRequest(c) PROVE PaidInv'
  BY <1>12 DEF FileRequest, Leave, worldVars
<1>13. ASSUME NEW c \in Calls, ApproveCancel(c) PROVE PaidInv'
  BY <1>13 DEF ApproveCancel, PaypleCancel, Goto, dbVars, ghostVars
<1>14. ASSUME NEW c \in Calls, ApproveFail(c) PROVE PaidInv'
  BY <1>14 DEF ApproveFail, Leave, worldVars, ghostVars
<1>15. ASSUME NEW c \in Calls, ApproveBook(c) PROVE PaidInv'
  BY <1>15 DEF ApproveBook, MarkPaymentRefunded, Leave, worldVars, ghostVars
<1>16. ASSUME NEW c \in Calls, Stamp(c) PROVE PaidInv'
  BY <1>16 DEF Stamp, Leave, worldVars, ghostVars
<1>17. ASSUME NEW c \in Calls, Die(c) PROVE PaidInv'
  BY <1>17 DEF Die, Leave, dbVars, worldVars
<1> QED
  BY <1>1, <1>2, <1>3, <1>4, <1>5, <1>6, <1>7, <1>8, <1>9, <1>10, <1>11, <1>12, <1>13,
     <1>14, <1>15, <1>16, <1>17 DEF Next, HandlerStep, vars

LEMMA InvInit == Init => IInv
<1> SUFFICES ASSUME Init PROVE IInv
  OBVIOUS
<1> USE DEF Init
<1>1. TypeOK
  BY PurchaseAssumption, FaultAssumption DEF TypeOK, Steps, Statuses
<1>2. BooksAgree /\ FileInv /\ OneApproval /\ ApprovedIsVisible
  BY DEF BooksAgree, FileInv, OneApproval, ApprovedIsVisible, ApproveSteps
<1>3. RowInv /\ PaidInv
  BY DEF RowInv, PaidInv, Returning, AutoSteps
<1> QED
  BY <1>1, <1>2, <1>3 DEF IInv

LEMMA Invariance == Spec => []IInv
<1>1. IInv /\ [Next]_vars => IInv'
  BY TypeStep, BooksStep, FileStep, ApprovalStep, RowStep, VisibleStep, PaidStep DEF IInv
<1> QED
  BY <1>1, InvInit, PTL DEF Spec

\* Every variable of the refund service always has its type.
THEOREM TypeCorrect == Spec => []TypeOK
<1>1. IInv => TypeOK
  BY DEF IInv
<1> QED
  BY <1>1, Invariance, PTL

\* Payment, Settlement and Refund rows never disagree about a return.
THEOREM BooksAlwaysAgree == Spec => []BooksAgree
<1>1. IInv => BooksAgree
  BY DEF IInv
<1> QED
  BY <1>1, Invariance, PTL

\* However many admins act, one approval per purchase is under way, and never
\* for a rejected request.
THEOREM OneApprovalAlways == Spec => []OneApproval
<1>1. IInv => OneApproval
  BY DEF IInv
<1> QED
  BY <1>1, Invariance, PTL

\* An approval is never left behind unseen by a handler that came to its end.
THEOREM ApprovedAlwaysVisible == Spec => []ApprovedIsVisible
<1>1. IInv => ApprovedIsVisible
  BY DEF IInv
<1> QED
  BY <1>1, Invariance, PTL

\* Unless a run died, an answer was lost or a request crossed an automatic
\* refund, no buyer is paid back by Payple and by wire.
THEOREM PaidBackOnceAlways == Spec => []PaidBackOnce
<1>1. TypeOK /\ PaidInv => PaidBackOnce
  BY DEF TypeOK, PaidInv, PaidBackOnce
<1>2. IInv => TypeOK /\ PaidInv
  BY DEF IInv
<1> QED
  BY <1>1, <1>2, Invariance, PTL

-----------------------------------------------------------------------------
(* Implementation of RefundWorkflow.                                         *)

LEMMA WorkflowInit == Init => Workflow!Init
BY DEF Init, Workflow!Init

LEMMA ReturnedGrows ==
  ASSUME TypeOK, NEW p \in Purchases, MarkPaymentRefunded(p)
  PROVE  {q \in Purchases : payment'[q] = "Refunded"}
           = {q \in Purchases : payment[q] = "Refunded"} \cup {p}
BY DEF TypeOK, MarkPaymentRefunded

LEMMA WorkflowStep == IInv /\ [Next]_vars => [Workflow!Next]_Workflow!vars
<1> SUFFICES ASSUME IInv, [Next]_vars PROVE [Workflow!Next]_Workflow!vars
  OBVIOUS
<1> USE DEF IInv, TypeOK
<1>1. CASE UNCHANGED <<payment, refund, downloaded>>
  BY <1>1 DEF Workflow!vars
<1>2. ASSUME NEW p \in Purchases, Tick(p) \/ SettleSale(p) \/ Wire(p)
      PROVE  UNCHANGED <<payment, refund, downloaded>>
  BY <1>2 DEF Tick, SettleSale, Wire, dbVars
<1>3. ASSUME NEW p \in Purchases, Reject(p)
      PROVE  Workflow!Next
  <2>1. Workflow!Decide(p, "REJECTED")
    BY <1>3 DEF Reject, Workflow!Decide
  <2> QED
    BY <2>1 DEF Workflow!Next
<1>4. ASSUME NEW p \in Purchases, CompleteManual(p)
      PROVE  Workflow!Next
  <2>1. Workflow!Complete(p)
    BY <1>4, ReturnedGrows DEF CompleteManual, Workflow!Complete
  <2> QED
    BY <2>1 DEF Workflow!Next
<1>5. ASSUME NEW c \in Calls, NEW p \in Purchases, Approve(c, p)
      PROVE  Workflow!Next
  <2>1. Workflow!Decide(p, "APPROVED")
    BY <1>5 DEF Approve, Workflow!Decide
  <2> QED
    BY <2>1 DEF Workflow!Next
<1>6. ASSUME NEW c \in Calls, NEW p \in Purchases,
             AutoRefund(c, p) \/ RequestManualRefund(c, p) \/ Download(c, p)
      PROVE  UNCHANGED <<payment, refund, downloaded>>
  BY <1>6 DEF AutoRefund, RequestManualRefund, Download, dbVars
<1>7. ASSUME NEW c \in Calls, AutoCancel(c) \/ ApproveCancel(c) \/ ApproveFail(c) \/ Die(c)
      PROVE  UNCHANGED <<payment, refund, downloaded>>
  BY <1>7 DEF AutoCancel, ApproveCancel, ApproveFail, Die, dbVars
<1>8. ASSUME NEW c \in Calls, AutoBook(c)
      PROVE  [Workflow!Next]_Workflow!vars
  <2>1. PICK p \in Purchases : p = on[c]
    BY <1>8 DEF AutoBook
  <2>2. CASE refund[p] = "none" /\ refund' = [refund EXCEPT ![p] = "COMPLETED"]
             /\ MarkPaymentRefunded(p)
    <3>1. Workflow!Complete(p)
      BY <1>8, <2>2, ReturnedGrows DEF AutoBook, Workflow!Complete
    <3> QED
      BY <3>1 DEF Workflow!Next
  <2>3. CASE UNCHANGED <<refund, payment>>
    BY <1>1, <1>8, <2>3 DEF AutoBook
  <2> QED
    BY <1>8, <2>1, <2>2, <2>3 DEF AutoBook
<1>9. ASSUME NEW c \in Calls, FileRequest(c)
      PROVE  [Workflow!Next]_Workflow!vars
  <2>1. PICK p \in Purchases : p = on[c] /\ p \in downloaded
    BY <1>9 DEF FileRequest, FileInv
  <2>2. CASE refund[p] = "none" /\ refund' = [refund EXCEPT ![p] = "REQUESTED"]
    <3>1. Workflow!Request(p)
      BY <1>9, <2>1, <2>2 DEF FileRequest, Workflow!Request
    <3> QED
      BY <3>1 DEF Workflow!Next
  <2>3. CASE UNCHANGED refund
    BY <1>1, <1>9, <2>3 DEF FileRequest
  <2> QED
    BY <1>9, <2>1, <2>2, <2>3 DEF FileRequest
<1>10. ASSUME NEW c \in Calls, ApproveBook(c)
       PROVE  [Workflow!Next]_Workflow!vars
  <2>1. PICK p \in Purchases : p = on[c] /\ refund[p] \in {"APPROVED", "COMPLETED"}
    BY <1>10 DEF ApproveBook, OneApproval, ApproveSteps
  <2>2. refund' = [refund EXCEPT ![p] = "COMPLETED"] /\ MarkPaymentRefunded(p)
    BY <1>10, <2>1 DEF ApproveBook
  <2>3. CASE refund[p] = "APPROVED"
    <3>1. Workflow!Complete(p)
      BY <1>10, <2>2, <2>3, ReturnedGrows DEF ApproveBook, Workflow!Complete
    <3> QED
      BY <3>1 DEF Workflow!Next
  <2>4. CASE refund[p] = "COMPLETED"
    \* An admin completed it by hand meanwhile: the books say so already.
    BY <1>1, <1>10, <2>2, <2>4 DEF ApproveBook, BooksAgree, MarkPaymentRefunded
  <2> QED
    BY <2>1, <2>3, <2>4
<1>11. ASSUME NEW c \in Calls, Stamp(c)
       PROVE  Workflow!Next
  <2>1. PICK p \in Purchases : p = on[c]
    BY <1>11 DEF Stamp
  <2>2. Workflow!Open(p)
    BY <1>11, <2>1 DEF Stamp, Workflow!Open
  <2> QED
    BY <2>2 DEF Workflow!Next
<1>12. CASE UNCHANGED vars
  BY <1>1, <1>12 DEF vars
<1> QED
  BY <1>1, <1>2, <1>3, <1>4, <1>5, <1>6, <1>7, <1>8, <1>9, <1>10, <1>11, <1>12
     DEF Next, HandlerStep

\* Buyers, admins, faults and late handlers notwithstanding, each purchase
\* keeps to the refund workflow, and the books turn with it.
THEOREM ImplementsWorkflow == Spec => WorkflowSpec
<1> QED
  BY WorkflowInit, WorkflowStep, Invariance, PTL DEF Spec, WorkflowSpec, Workflow!Spec
=============================================================================
