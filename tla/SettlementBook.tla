---------------------------- MODULE SettlementBook ----------------------------
(***************************************************************************)
(* What the settlement sync promises about one Settlement row, whatever    *)
(* runs overlap, die or are refused: a sale is settled only because Payple *)
(* listed its approval with our amount, and what was refunded stays so.    *)
(***************************************************************************)
CONSTANTS
  Sales,      \* sales of the shop
  Confirmed   \* sales whose approval Payple lists with the amount we booked

VARIABLE book

BookInit == book = [s \in Sales |-> "none"]

Open(s)   == book[s] = "none"    /\ book' = [book EXCEPT ![s] = "Pending"]
Settle(s) == book[s] = "Pending" /\ s \in Confirmed
                                 /\ book' = [book EXCEPT ![s] = "Succeed"]
GiveBack(s) == book[s] \in {"Pending", "Succeed"}
                                 /\ book' = [book EXCEPT ![s] = "Refunded"]

BookNext == \E s \in Sales : Open(s) \/ Settle(s) \/ GiveBack(s)

BookSpec == BookInit /\ [][BookNext]_book
=============================================================================
