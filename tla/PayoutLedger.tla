---------------------------- MODULE PayoutLedger ----------------------------
(***************************************************************************)
(* What the payout cycle promises: a seller gets at most one transfer per  *)
(* cycle, for a cycle that is over and has its payout row, and only of     *)
(* the amounts that may be transferred.                                    *)
(***************************************************************************)
EXTENDS Naturals

CONSTANTS Sellers, Keys, Amounts, LastPeriod

VARIABLES now,     \* the running period
          booked,  \* the pairs of a seller and a cycle that have a row
          paid     \* the transfers made

vars == <<now, booked, paid>>

Cycles == 1..(LastPeriod - 1)

Init == now = 1 /\ booked = {} /\ paid = {}

Turn == /\ now < LastPeriod
        /\ now' = now + 1
        /\ UNCHANGED <<booked, paid>>

Book(u, m) == /\ m < now
              /\ booked' = booked \cup {<<u, m>>}
              /\ UNCHANGED <<now, paid>>

Pay(k, u, m, a) ==
  /\ <<u, m>> \in booked
  /\ \A p \in paid : <<p.seller, p.cycle>> # <<u, m>>
  /\ paid' = paid \cup {[key |-> k, seller |-> u, cycle |-> m, amount |-> a]}
  /\ UNCHANGED <<now, booked>>

Next == \/ Turn
        \/ \E u \in Sellers, m \in Cycles :
             Book(u, m) \/ \E k \in Keys, a \in Amounts : Pay(k, u, m, a)

Spec == Init /\ [][Next]_vars
=============================================================================
