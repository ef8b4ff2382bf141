------------------------- MODULE MCSettlementServices -------------------------
(***************************************************************************)
(* SettlementServices for TLC: two sales on two days of Payple's list, two *)
(* users and four registrations, two years of purchase dates and a year of *)
(* two months.                                                             *)
(***************************************************************************)
EXTENDS SettlementServices, TLC

CONSTANTS s1, s2, u1, u2, t1, t2, t3, t4, n1, r1, r2, r3

Approval(s, same) == [txnType |-> "APPROVAL", sale |-> s, same |-> same]
Cancellation(s)   == [txnType |-> "CANCEL", sale |-> s, same |-> TRUE]

\* Day 1 takes three pages, one more than a run's budget; day 2 lists a sale
\* with another amount.
MCStatement == <<<<Approval(s1, TRUE), Cancellation(s1), Approval(s2, TRUE)>>,
                 <<Approval(s2, FALSE)>>>>

\* Both users register a business under one number, u1 twice, and he also
\* registers as an individual.
MCOwnerOf  == t1 :> u1 @@ t2 :> u1 @@ t3 :> u2 @@ t4 :> u1
MCKindOf   == t1 :> "INDIVIDUAL" @@ t2 :> "BUSINESS" @@ t3 :> "BUSINESS" @@ t4 :> "BUSINESS"
MCNumberOf == t1 :> NoNumber @@ t2 :> n1 @@ t3 :> n1 @@ t4 :> n1

\* Two years from a January on and what a purchase of December reaches into; the
\* second is a leap year.
MCMonthLength == [n \in 1..27 |->
  LET m == ((n - 1) % 12) + 1 IN
    IF m = 2 THEN (IF n = 14 THEN 29 ELSE 28) ELSE IF m \in {4, 6, 9, 11} THEN 30 ELSE 31]

MCPrice    == r1 :> 7 @@ r2 :> 5 @@ r3 :> 6
MCFee      == r1 :> 1 @@ r2 :> 0 @@ r3 :> 1
MCSoldOn   == r1 :> 0 @@ r2 :> 3 @@ r3 :> 4   \* r2 on the last day of month 1
MCMonthEnd == <<3, 5>>
===============================================================================
