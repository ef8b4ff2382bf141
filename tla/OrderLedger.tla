---------------------------- MODULE OrderLedger ----------------------------
(***************************************************************************)
(* What the purchase service promises about one order number (Payple's     *)
(* PCD_PAY_OID): the buyer's money is taken at most once, a sale is only   *)
(* booked for money that was taken and for the price on the order sheet,   *)
(* and a booked sale can only be returned, once, for good.  An admin who   *)
(* deletes a prompt erases its sales, which nothing books again.           *)
(***************************************************************************)
CONSTANTS Orders,   \* the order numbers
          Amounts   \* the prices an order sheet may carry

VARIABLES stage,    \* how far each order has come
          due,      \* the price on the order sheet
          booked    \* the amount of the booked sale

vars == <<stage, due, booked>>

Stages == {"open", "charged", "sold", "returned", "erased"}

Init == /\ stage = [o \in Orders |-> "open"]
        /\ due \in [Orders -> Amounts]
        /\ booked = [o \in Orders |-> 0]

\* While nothing was charged the sheet may still be (re)written.
Quote(o, a) == /\ stage[o] = "open"
               /\ due' = [due EXCEPT ![o] = a]
               /\ UNCHANGED <<stage, booked>>

Charge(o) == /\ stage[o] = "open"
             /\ stage' = [stage EXCEPT ![o] = "charged"]
             /\ UNCHANGED <<due, booked>>

Book(o) == /\ stage[o] = "charged"
           /\ stage' = [stage EXCEPT ![o] = "sold"]
           /\ booked' = [booked EXCEPT ![o] = due[o]]
           /\ UNCHANGED due

GiveBack(o) == /\ stage[o] = "sold"
               /\ stage' = [stage EXCEPT ![o] = "returned"]
               /\ UNCHANGED <<due, booked>>

\* The sales of one prompt, all at once.
Erase(S) == /\ S # {}
            /\ \A o \in S : stage[o] \in {"sold", "returned"}
            /\ stage' = [o \in Orders |-> IF o \in S THEN "erased" ELSE stage[o]]
            /\ booked' = [o \in Orders |-> IF o \in S THEN 0 ELSE booked[o]]
            /\ UNCHANGED due

Next == \/ \E o \in Orders : \/ \E a \in Amounts : Quote(o, a)
                             \/ Charge(o)
                             \/ Book(o)
                             \/ GiveBack(o)
        \/ \E S \in SUBSET Orders : Erase(S)

Spec == Init /\ [][Next]_vars
=============================================================================
