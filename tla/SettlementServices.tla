-------------------------- MODULE SettlementServices --------------------------
(***************************************************************************)
(* The smaller parts of src/settlements, and the withdrawals and refund    *)
(* deadlines that go with them.  They share no row with each other, so a   *)
(* behaviour of one of them at a time shows all there is to see: "part"    *)
(* picks it in the initial state, and the others stand still.              *)
(***************************************************************************)
EXTENDS SettlementSync, SellerVerification, SellerAccount, RefundCalendar, Earnings

VARIABLE part

Parts == {"sync", "verification", "account", "calendar", "earnings"}

TypeOK ==
  /\ part \in Parts
  /\ SyncTypeOK /\ VerifyTypeOK /\ SellerTypeOK /\ CalendarTypeOK /\ EarningsTypeOK

Init ==
  /\ part \in Parts
  /\ SyncInit /\ VerifyInit /\ SellerInit /\ CalendarInit /\ EarningsInit
  /\ part = "calendar" \/ boughtAt = 0

Next ==
  \/ /\ part = "sync" /\ SyncNext
     /\ UNCHANGED <<part, verifyVars, sellerVars, boughtAt, earningsVars>>
  \/ /\ part = "verification" /\ VerifyNext
     /\ UNCHANGED <<part, syncVars, sellerVars, boughtAt, earningsVars>>
  \/ /\ part = "account" /\ SellerNext
     /\ UNCHANGED <<part, syncVars, verifyVars, boughtAt, earningsVars>>
  \/ /\ part = "calendar" /\ CalendarNext
     /\ UNCHANGED <<part, syncVars, verifyVars, sellerVars, earningsVars>>
  \/ /\ part = "earnings" /\ EarningsNext
     /\ UNCHANGED <<part, syncVars, verifyVars, sellerVars, boughtAt>>

vars == <<part, syncVars, verifyVars, sellerVars, boughtAt, earningsVars>>

Spec == Init /\ [][Next]_vars
===============================================================================
