--------------------------- MODULE PurchaseProofs ---------------------------
(***************************************************************************)
(* Proofs about Purchase for every number of buyers, prompts, orders,      *)
(* prices and overlapping handlers.                                        *)
(***************************************************************************)
EXTENDS Purchase, TLAPS

\* What a handler has established when it stands before a given await.
\* /complete knows its price from "existing" on, the webhook from "confirm" on.
KnowsPrice(c) ==
  \/ pc[c] \in {"confirm", "recheck", "record"}
  \/ c \in CompleteCalls /\ pc[c] \in {"existing", "prior"}

\* Payple and the database only know orders that were handed out.
IssuedInv ==
  \A o \in Orders : pg[o] # "unpaid" \/ payment[o] # "none" => order[o] \in Sheet

\* A running handler serves an order that was handed out.
ServingInv ==
  \A c \in Calls :
    pc[c] # "idle" => serving[c] \in Orders /\ order[serving[c]] \in Sheet

\* That order left Payple's window, its price is the one on the sheet, and
\* past the confirm call it is charged.
HandlerInv ==
  \A c \in Calls :
    pc[c] # "idle" =>
      /\ pg[serving[c]] # "unpaid"
      /\ KnowsPrice(c) => quoted[c] = order[serving[c]].total
      /\ pc[c] \in {"recheck", "record"} => Charged(serving[c])

\* An order without rows has no amount either.
NoRowInv == \A o \in Orders : payment[o] = "none" => amount[o] = 0

\* An erased sale was charged, has no row any more, and its prompt is gone for
\* good: nothing books it again.
ErasedInv ==
  \A o \in erased : PromptGone(o) /\ Charged(o) /\ payment[o] = "none"

TypeInv == TypeOK /\ IssuedInv /\ ServingInv

IInv == /\ TypeInv /\ HandlerInv /\ NoRowInv /\ ErasedInv
        /\ BooksAgree /\ SuccessIsRecorded

-----------------------------------------------------------------------------
\* Every step keeps every variable in its type; that the orders answered with
\* success are orders, and the price read a price, needs that a running
\* handler serves an issued one.
LEMMA TypeStep == TypeInv /\ [Next]_vars => TypeInv'
<1> SUFFICES ASSUME TypeInv, [Next]_vars PROVE TypeInv'
  OBVIOUS
<1> USE OrderAssumption, PriceAssumption, BoundAssumption
    DEF TypeInv, TypeOK, IssuedInv, ServingInv, Steps
<1>1. ASSUME NEW p \in Prompts, NEW v \in Prices, NEW f \in BOOLEAN, EditPrompt(p, v, f)
      PROVE  TypeInv'
  BY <1>1 DEF EditPrompt, callVars
<1>2. ASSUME NEW o \in Orders, NEW b \in Buyers, NEW p \in Prompts, IssueOrder(o, b, p)
      PROVE  TypeInv'
  BY <1>2 DEF IssueOrder, dbVars, callVars, Sheet
<1>3. ASSUME NEW o \in Orders, Certify(o)
      PROVE  TypeInv'
  BY <1>3 DEF Certify, dbVars, callVars
<1>4. ASSUME NEW o \in Orders, SettleSale(o)
      PROVE  TypeInv'
  BY <1>4 DEF SettleSale, callVars
<1>5. ASSUME NEW o \in Orders, RefundSale(o)
      PROVE  TypeInv'
  BY <1>5 DEF RefundSale, callVars
<1>6. ASSUME NEW c \in Calls, NEW o \in Orders, Begin(c, o)
      PROVE  TypeInv'
  BY <1>6 DEF Begin, dbVars, ExistingFor, Existing
<1>7. ASSUME NEW c \in Calls, HandlerStep(c)
      PROVE  TypeInv'
  <2> USE DEF Goto, Leave, ReplySuccess, ReplyFailure, dbVars
  <2>1. CASE Lookup(c)
    BY <2>1 DEF Lookup
  <2>2. CASE CheckPrice(c)
    <3> DEFINE sheet == order[serving[c]]
    <3>1. sheet \in Sheet /\ sheet.prompt \in Prompts
      BY <2>2 DEF CheckPrice, Sheet
    <3> HIDE DEF sheet
    <3>2. UNCHANGED <<dbVars, order, pg, erased, faults>>
      BY <2>2 DEF CheckPrice
    <3>3. CASE quoted' = [quoted EXCEPT ![c] = price[sheet.prompt]]
               /\ Goto(c, IF c \in CompleteCalls THEN "existing" ELSE "confirm")
               /\ UNCHANGED <<acked, found, thanked>>
      BY <2>2, <3>1, <3>2, <3>3 DEF CheckPrice
    <3>4. CASE ReplyFailure(c)
      BY <2>2, <3>2, <3>4
    <3> QED
      BY <2>2, <3>3, <3>4 DEF CheckPrice, sheet
  <2>3. CASE CheckExisting(c)
    <3>1. UNCHANGED <<dbVars, order, pg, erased, faults, acked, thanked>>
      BY <2>3 DEF CheckExisting
    <3>2. /\ pc' \in [Calls -> Steps] /\ serving' \in [Calls -> Orders \cup {NoOrder}]
          /\ quoted' \in [Calls -> Prices \cup {0}] /\ owned' \in [Calls -> SUBSET Orders]
          /\ \A d \in Calls : pc'[d] # "idle" => pc[d] # "idle" /\ serving'[d] = serving[d]
      BY <2>3 DEF CheckExisting
    <3>3. found' \in [Calls -> Orders \cup {NoOrder}]
      <4>1. ExistingFor(serving[c]) \subseteq Orders
        BY DEF ExistingFor, Existing
      <4> QED
        BY <2>3, <4>1 DEF CheckExisting
    <3> QED
      BY <3>1, <3>2, <3>3
  <2>4. CASE Confirm(c)
    BY <2>4, SMTT(30) DEF Confirm
  <2>5. CASE Recheck(c)
    BY <2>5, SMTT(30) DEF Recheck, ExistingFor, Existing
  <2>6. CASE CheckPrior(c)
    BY <2>6, SMTT(30) DEF CheckPrior
  <2>7. CASE Record(c)
    BY <2>7, SMTT(30) DEF Record
  <2> QED
    BY <1>7, <2>1, <2>2, <2>3, <2>4, <2>5, <2>6, <2>7 DEF HandlerStep
<1>8. ASSUME NEW c \in Calls, Abort(c)
      PROVE  TypeInv'
  BY <1>8 DEF Abort, ReplyFailure, Leave, dbVars
<1>9. ASSUME NEW p \in Prompts, DeletePrompt(p)
      PROVE  TypeInv'
  BY <1>9 DEF DeletePrompt, callVars
<1>10. ASSUME NEW p \in Prompts, AdminDeletePrompt(p)
       PROVE  TypeInv'
  <2>1. SalesOf(p) \subseteq Orders
    BY DEF SalesOf, OrdersFor
  <2> QED
    BY <1>10, <2>1 DEF AdminDeletePrompt, callVars
<1>11. CASE UNCHANGED vars
  BY <1>11 DEF vars
<1> QED
  BY <1>1, <1>2, <1>3, <1>4, <1>5, <1>6, <1>7, <1>8, <1>9, <1>10, <1>11 DEF Next

\* The variables never leave their types, whatever the constants.
THEOREM TypeCorrect == Spec => []TypeOK
<1>1. Init => TypeInv
  BY BoundAssumption, OrderAssumption DEF Init, TypeInv, TypeOK, IssuedInv, ServingInv, Steps
<1>2. TypeInv => TypeOK
  BY DEF TypeInv
<1> QED
  BY <1>1, <1>2, TypeStep, PTL DEF Spec

-----------------------------------------------------------------------------
(* The books.  The argument: a handler reaches "record" only over Confirm,   *)
(* which charges the order it serves, with the price it compared with the   *)
(* sheet; sheets, charges and rows are never taken back, so what one        *)
(* handler established survives the steps of all others.                    *)

\* The steps outside the handlers keep the invariant.
LEMMA OutsideStep ==
  ASSUME IInv, TypeInv',
         \/ \E p \in Prompts, v \in Prices, f \in BOOLEAN : EditPrompt(p, v, f)
         \/ \E p \in Prompts : DeletePrompt(p) \/ AdminDeletePrompt(p)
         \/ \E o \in Orders, b \in Buyers, p \in Prompts : IssueOrder(o, b, p)
         \/ \E o \in Orders : Certify(o) \/ SettleSale(o) \/ RefundSale(o)
         \/ \E c \in Calls, o \in Orders : Begin(c, o)
         \/ UNCHANGED vars
  PROVE  IInv'
<1> USE DEF IInv, TypeInv, TypeOK, Steps
<1>1. ASSUME NEW p \in Prompts, NEW v \in Prices, NEW f \in BOOLEAN, EditPrompt(p, v, f)
      PROVE  IInv'
  BY <1>1 DEF EditPrompt, callVars, HandlerInv, KnowsPrice, NoRowInv, BooksAgree,
              SuccessIsRecorded, Booked, Charged, ErasedInv, PromptGone
<1>2. ASSUME NEW o \in Orders, NEW b \in Buyers, NEW p \in Prompts, IssueOrder(o, b, p)
      PROVE  IInv'
  <2>1. order[o] \notin Sheet /\ \A x \in Orders \ {o} : order'[x] = order[x]
    BY <1>2, OrderAssumption DEF IssueOrder
  <2>2. UNCHANGED <<dbVars, pg, acked, callVars, thanked, erased, faults>>
    BY <1>2 DEF IssueOrder
  <2>3. HandlerInv'
    BY <2>1, <2>2 DEF dbVars, callVars, HandlerInv, KnowsPrice, Charged, ServingInv
  <2>4. NoRowInv' /\ SuccessIsRecorded'
    BY <2>2 DEF dbVars, NoRowInv, SuccessIsRecorded, Booked
  <2>5. BooksAgree'
    BY <2>1, <2>2 DEF dbVars, BooksAgree, Booked, Charged
  <2>6. ErasedInv'
    BY <2>1, <2>2 DEF dbVars, ErasedInv, PromptGone, Charged
  <2> QED
    BY <2>3, <2>4, <2>5, <2>6
<1>3. ASSUME NEW o \in Orders, Certify(o)
      PROVE  IInv'
  BY <1>3 DEF Certify, dbVars, callVars, HandlerInv, KnowsPrice, NoRowInv, BooksAgree,
              SuccessIsRecorded, Booked, Charged, ServingInv,
              ErasedInv, PromptGone
<1>4. ASSUME NEW o \in Orders, SettleSale(o)
      PROVE  IInv'
  BY <1>4 DEF SettleSale, callVars, HandlerInv, KnowsPrice, NoRowInv, BooksAgree,
              SuccessIsRecorded, Booked, Charged,
              ErasedInv, PromptGone
<1>5. ASSUME NEW o \in Orders, RefundSale(o)
      PROVE  IInv'
  BY <1>5 DEF RefundSale, callVars, HandlerInv, KnowsPrice, NoRowInv, BooksAgree,
              SuccessIsRecorded, Booked, Charged, ServingInv,
              ErasedInv, PromptGone
<1>6. ASSUME NEW c \in Calls, NEW o \in Orders, Begin(c, o)
      PROVE  IInv'
  BY <1>6 DEF Begin, dbVars, HandlerInv, KnowsPrice, NoRowInv, BooksAgree,
              SuccessIsRecorded, Booked, Charged,
              ErasedInv, PromptGone
<1>7. ASSUME NEW p \in Prompts, DeletePrompt(p)
      PROVE  IInv'
  BY <1>7 DEF DeletePrompt, callVars, HandlerInv, KnowsPrice, NoRowInv, BooksAgree,
              SuccessIsRecorded, Booked, Charged, ErasedInv, PromptGone
<1>8. ASSUME NEW p \in Prompts, AdminDeletePrompt(p)
      PROVE  IInv'
  <2>1. UNCHANGED <<order, pg, acked, thanked, callVars>>
    BY <1>8 DEF AdminDeletePrompt
  <2>2. HandlerInv'
    BY <2>1 DEF callVars, HandlerInv, KnowsPrice, Charged
  <2>3. NoRowInv' /\ BooksAgree'
    BY <1>8 DEF AdminDeletePrompt, NoRowInv, BooksAgree, Booked, Charged
  <2>4. \A o \in SalesOf(p) :
          order[o] \in Sheet /\ order[o].prompt = p /\ Charged(o) /\ o \in OrdersFor(p)
    BY DEF SalesOf, OrdersFor, BooksAgree, Booked
  <2>5. ErasedInv'
    <3> SUFFICES ASSUME NEW o \in erased'
                 PROVE  PromptGone(o)' /\ Charged(o)' /\ payment'[o] = "none"
      BY DEF ErasedInv
    <3>1. CASE o \in SalesOf(p)
      BY <1>8, <2>1, <2>4, <3>1 DEF AdminDeletePrompt, PromptGone, Charged
    <3>2. CASE o \in erased
      BY <1>8, <2>1, <3>2 DEF AdminDeletePrompt, ErasedInv, PromptGone, Charged
    <3> QED
      BY <1>8, <3>1, <3>2 DEF AdminDeletePrompt
  <2>6. SuccessIsRecorded'
    <3> SUFFICES ASSUME NEW o \in acked \cup thanked
                 PROVE  Booked(o)' \/ o \in erased'
      BY <2>1 DEF SuccessIsRecorded
    <3>1. CASE o \in erased
      BY <1>8, <3>1 DEF AdminDeletePrompt
    <3>2. CASE Booked(o) /\ o \in OrdersFor(p)
      BY <1>8, <3>2 DEF AdminDeletePrompt, SalesOf, Booked
    <3>3. CASE Booked(o) /\ o \notin OrdersFor(p)
      BY <1>8, <3>3 DEF AdminDeletePrompt, Booked
    <3> QED
      BY <3>1, <3>2, <3>3 DEF SuccessIsRecorded
  <2> QED
    BY <2>2, <2>3, <2>5, <2>6
<1>9. CASE UNCHANGED vars
  BY <1>9 DEF vars, HandlerInv, KnowsPrice, NoRowInv, BooksAgree,
              SuccessIsRecorded, Booked, Charged,
              ErasedInv, PromptGone
<1> QED
  BY <1>1, <1>2, <1>3, <1>4, <1>5, <1>6, <1>7, <1>8, <1>9

\* A step of handler c that writes no row and undoes no charge keeps the
\* invariant if c itself has established what its new place demands and
\* answers success only for a booked order.
LEMMA LocalStep ==
  ASSUME IInv, TypeInv', NEW c \in Calls,
         UNCHANGED <<dbVars, order, erased>>,
         \A o \in Orders : /\ pg[o] # "unpaid" => pg'[o] # "unpaid"
                           /\ Charged(o) => Charged(o)',
         \A d \in Calls \ {c} : /\ pc'[d] = pc[d]
                                /\ serving'[d] = serving[d]
                                /\ quoted'[d] = quoted[d],
         pc'[c] # "idle" =>
           /\ pg'[serving'[c]] # "unpaid"
           /\ KnowsPrice(c)' => quoted'[c] = order[serving'[c]].total
           /\ pc'[c] \in {"recheck", "record"} => Charged(serving[c])' /\ serving'[c] = serving[c],
         \A o \in (acked' \cup thanked') \ (acked \cup thanked) : Booked(o)
  PROVE  IInv'
<1> USE DEF IInv, TypeInv, TypeOK, dbVars
<1>1. HandlerInv'
  BY DEF HandlerInv, KnowsPrice, ServingInv, Charged
<1>2. NoRowInv' /\ SuccessIsRecorded'
  BY DEF NoRowInv, SuccessIsRecorded, Booked
<1>3. BooksAgree'
  BY DEF BooksAgree, Booked, Charged
<1>4. ErasedInv'
  BY DEF ErasedInv, PromptGone
<1> QED
  BY <1>1, <1>2, <1>3, <1>4

\* A handler that fails keeps the invariant: it only forgets its locals.
LEMMA FailureStep ==
  ASSUME IInv, TypeInv', NEW c \in Calls, ReplyFailure(c),
         UNCHANGED <<dbVars, order, pg, erased>>
  PROVE  IInv'
<1>1. pc'[c] = "idle"
  BY DEF ReplyFailure, Leave, IInv, TypeInv, TypeOK
<1>2. \A d \in Calls \ {c} : pc'[d] = pc[d] /\ serving'[d] = serving[d] /\ quoted'[d] = quoted[d]
  BY DEF ReplyFailure, Leave, IInv, TypeInv, TypeOK
<1>3. \A o \in Orders : /\ pg[o] # "unpaid" => pg'[o] # "unpaid"
                        /\ Charged(o) => Charged(o)'
  BY DEF Charged
<1>4. (acked' \cup thanked') \ (acked \cup thanked) = {}
  BY DEF ReplyFailure
<1> QED
  BY <1>1, <1>2, <1>3, <1>4, LocalStep

\* Likewise a handler that answers success for an order that is booked.
LEMMA SuccessStep ==
  ASSUME IInv, TypeInv', NEW c \in Calls, ReplySuccess(c), pc[c] # "idle",
         Booked(serving[c]), UNCHANGED <<dbVars, order, pg, erased>>
  PROVE  IInv'
<1>1. pc'[c] = "idle"
  BY DEF ReplySuccess, Leave, IInv, TypeInv, TypeOK
<1>2. \A d \in Calls \ {c} : pc'[d] = pc[d] /\ serving'[d] = serving[d] /\ quoted'[d] = quoted[d]
  BY DEF ReplySuccess, Leave, IInv, TypeInv, TypeOK
<1>3. \A o \in Orders : /\ pg[o] # "unpaid" => pg'[o] # "unpaid"
                        /\ Charged(o) => Charged(o)'
  BY DEF Charged
<1>4. \A o \in (acked' \cup thanked') \ (acked \cup thanked) : Booked(o)
  BY DEF ReplySuccess
<1> QED
  BY <1>1, <1>2, <1>3, <1>4, LocalStep

\* A handler that moves on to its next await.
LEMMA GotoStep ==
  ASSUME IInv, TypeInv', NEW c \in Calls, NEW step \in Steps, Goto(c, step), pc[c] # "idle",
         UNCHANGED <<dbVars, order, erased, acked, thanked>>,
         \A o \in Orders : /\ pg[o] # "unpaid" => pg'[o] # "unpaid"
                           /\ Charged(o) => Charged(o)',
         \A d \in Calls \ {c} : quoted'[d] = quoted[d],
         KnowsPrice(c)' => quoted'[c] = order[serving[c]].total,
         step \in {"recheck", "record"} => Charged(serving[c])'
  PROVE  IInv'
<1>1. pc'[c] = step /\ serving'[c] = serving[c]
  BY DEF Goto, IInv, TypeInv, TypeOK
<1>2. \A d \in Calls \ {c} : pc'[d] = pc[d] /\ serving'[d] = serving[d] /\ quoted'[d] = quoted[d]
  BY DEF Goto, IInv, TypeInv, TypeOK
<1>3. pg'[serving'[c]] # "unpaid"
  BY <1>1 DEF IInv, TypeInv, ServingInv, HandlerInv
<1>4. (acked' \cup thanked') \ (acked \cup thanked) = {}
  OBVIOUS
<1> QED
  BY <1>1, <1>2, <1>3, <1>4, LocalStep

LEMMA HandlerKeeps ==
  ASSUME IInv, TypeInv', NEW c \in Calls, HandlerStep(c)
  PROVE  IInv'
<1> DEFINE o == serving[c]
<1>0. pc[c] # "idle" /\ o \in Orders
  BY DEF HandlerStep, Lookup, CheckPrice, CheckExisting, Confirm, Recheck, CheckPrior,
         Record, IInv, TypeInv, ServingInv
<1>a. UNCHANGED pg => \A x \in Orders : /\ pg[x] # "unpaid" => pg'[x] # "unpaid"
                                       /\ Charged(x) => Charged(x)'
  BY DEF Charged
<1>b. ASSUME UNCHANGED quoted
      PROVE  \A d \in Calls \ {c} : quoted'[d] = quoted[d]
  BY <1>b
<1>1. CASE Lookup(c)
  <2>1. UNCHANGED <<dbVars, order, pg, erased>>
    BY <1>1 DEF Lookup
  <2>2. CASE payment[o] = "Succeed" /\ ReplySuccess(c)
    BY <1>0, <2>1, <2>2, SuccessStep DEF Booked
  <2>3. CASE /\ Goto(c, IF c \in CompleteCalls THEN "price" ELSE "existing")
             /\ UNCHANGED <<acked, quoted, found, thanked>>
    <3> DEFINE step == IF c \in CompleteCalls THEN "price" ELSE "existing"
    <3>1. step \in Steps /\ step \notin {"recheck", "record"}
      BY DEF Steps
    <3>2. pc'[c] = step
      BY <2>3 DEF Goto, IInv, TypeInv, TypeOK
    <3>3. ~KnowsPrice(c)'
      BY <3>2 DEF KnowsPrice
    <3> HIDE DEF step
    <3> QED
      BY <1>0, <1>a, <1>b, <2>1, <2>3, <3>1, <3>3, GotoStep DEF step
  <2> QED
    BY <1>1, <2>2, <2>3 DEF Lookup
<1>2. CASE CheckPrice(c)
  <2>1. UNCHANGED <<dbVars, order, pg, erased>>
    BY <1>2 DEF CheckPrice
  <2>2. CASE ReplyFailure(c)
    BY <2>1, <2>2, FailureStep
  <2>3. CASE /\ order[o].prompt \in offered
             /\ order[o].total = price[order[o].prompt]
             /\ quoted' = [quoted EXCEPT ![c] = price[order[o].prompt]]
             /\ Goto(c, IF c \in CompleteCalls THEN "existing" ELSE "confirm")
             /\ UNCHANGED <<acked, found, thanked>>
    <3> DEFINE step == IF c \in CompleteCalls THEN "existing" ELSE "confirm"
    <3>1. step \in Steps /\ step \notin {"recheck", "record"}
      BY DEF Steps
    <3>2. quoted'[c] = order[o].total /\ \A d \in Calls \ {c} : quoted'[d] = quoted[d]
      BY <2>3 DEF IInv, TypeInv, TypeOK
    <3> HIDE DEF step
    <3> QED
      BY <1>0, <1>a, <2>1, <2>3, <3>1, <3>2, GotoStep DEF step
  <2> QED
    BY <1>2, <2>2, <2>3 DEF CheckPrice
<1>3. CASE CheckExisting(c)
  <2>1. UNCHANGED <<dbVars, order, pg, erased>> /\ pc[c] = "existing"
    BY <1>3 DEF CheckExisting
  <2>2. CASE ReplyFailure(c)
    BY <2>1, <2>2, FailureStep
  <2>3. CASE /\ Goto(c, IF c \in CompleteCalls THEN "confirm" ELSE "price")
             /\ UNCHANGED <<acked, quoted, found, thanked>>
    <3> DEFINE step == IF c \in CompleteCalls THEN "confirm" ELSE "price"
    <3>1. step \in Steps /\ step \notin {"recheck", "record"}
      BY DEF Steps
    <3>2. pc'[c] = step
      BY <2>3 DEF Goto, IInv, TypeInv, TypeOK
    <3>3. KnowsPrice(c)' => quoted'[c] = order[o].total
      BY <2>1, <2>3, <3>2 DEF KnowsPrice, IInv, HandlerInv
    <3> HIDE DEF step
    <3> QED
      BY <1>0, <1>a, <1>b, <2>1, <2>3, <3>1, <3>3, GotoStep DEF step
  <2>4. CASE /\ c \notin CompleteCalls
             /\ Goto(c, "prior")
             /\ UNCHANGED <<acked, quoted, thanked>>
    <3>1. ~KnowsPrice(c)'
      BY <2>4 DEF KnowsPrice, Goto, IInv, TypeInv, TypeOK
    <3> QED
      BY <1>0, <1>a, <1>b, <2>1, <2>4, <3>1, GotoStep DEF Steps
  <2> QED
    BY <1>3, <2>2, <2>3, <2>4 DEF CheckExisting
<1>4. CASE Confirm(c)
  <2>1. UNCHANGED <<dbVars, order, erased>> /\ pc[c] = "confirm"
    BY <1>4 DEF Confirm
  <2>2. CASE ReplyFailure(c) /\ UNCHANGED pg
    BY <2>1, <2>2, FailureStep
  <2>3. CASE /\ pg' = [pg EXCEPT ![o] = IF @ = "certified" THEN "captured" ELSE @]
             /\ Goto(c, IF c \in CompleteCalls THEN "recheck" ELSE "record")
             /\ UNCHANGED <<acked, quoted, found, thanked>>
    <3> DEFINE step == IF c \in CompleteCalls THEN "recheck" ELSE "record"
    <3>1. step \in Steps
      BY DEF Steps
    <3>2. Charged(o)'
      <4>1. pg[o] # "unpaid"
        BY <1>0 DEF IInv, HandlerInv
      <4> QED
        BY <1>0, <2>3, <4>1 DEF Charged, Goto, IInv, TypeInv, TypeOK
    <3>3. \A x \in Orders : /\ pg[x] # "unpaid" => pg'[x] # "unpaid"
                            /\ Charged(x) => Charged(x)'
      BY <1>0, <2>3 DEF Charged, IInv, TypeInv, TypeOK
    <3>4. quoted[c] = order[o].total
      BY <1>0, <2>1 DEF IInv, HandlerInv, KnowsPrice
    <3> HIDE DEF step
    <3> QED
      BY <1>0, <1>b, <2>1, <2>3, <3>1, <3>2, <3>3, <3>4, GotoStep DEF step
  <2> QED
    BY <1>4, <2>2, <2>3 DEF Confirm
<1>5. CASE Recheck(c)
  <2>1. UNCHANGED <<dbVars, order, pg, erased, acked, quoted, thanked>> /\ pc[c] = "recheck"
    BY <1>5 DEF Recheck
  <2>2. Charged(o) /\ quoted[c] = order[o].total
    BY <1>0, <2>1 DEF IInv, HandlerInv, KnowsPrice
  <2>3. \E step \in Steps : Goto(c, step)
    BY <1>5 DEF Recheck, Steps
  <2>4. PICK step \in Steps : Goto(c, step)
    BY <2>3
  <2>5. Charged(o)' /\ (KnowsPrice(c)' => quoted'[c] = order[o].total)
    BY <2>1, <2>2, <2>4 DEF Charged, Goto
  <2> QED
    BY <1>0, <1>a, <1>b, <2>1, <2>4, <2>5, GotoStep
<1>6. CASE CheckPrior(c)
  <2>1. UNCHANGED <<dbVars, order, pg, erased>>
    BY <1>6 DEF CheckPrior
  <2>2. CASE payment[o] = "Succeed" /\ ReplySuccess(c)
    BY <1>0, <2>1, <2>2, SuccessStep DEF Booked
  <2>3. CASE ReplyFailure(c)
    BY <2>1, <2>3, FailureStep
  <2> QED
    BY <1>6, <2>2, <2>3 DEF CheckPrior
<1>7. CASE Record(c)
  <2>1. UNCHANGED <<order, pg, offered, erased>> /\ pc[c] = "record"
    BY <1>7 DEF Record
  <2>2. CASE ReplyFailure(c) /\ UNCHANGED <<amount, payment, settlement>>
    <3>1. UNCHANGED dbVars
      BY <1>7, <2>2 DEF Record, dbVars
    <3> QED
      BY <2>1, <2>2, <3>1, FailureStep
  <2>3. CASE /\ payment[o] = "none"
             /\ order[o].prompt \in offered
             /\ amount' = [amount EXCEPT ![o] = quoted[c]]
             /\ payment' = [payment EXCEPT ![o] = "Succeed"]
             /\ settlement' = [settlement EXCEPT ![o] = "Pending"]
             /\ ReplySuccess(c)
    <3>1. Charged(o) /\ quoted[c] = order[o].total /\ order[o] \in Sheet
      BY <1>0, <2>1 DEF IInv, TypeInv, ServingInv, HandlerInv, KnowsPrice
    <3>2. HandlerInv'
      BY <2>1, <2>3 DEF ReplySuccess, Leave, IInv, TypeInv, TypeOK, HandlerInv, KnowsPrice, Charged
    <3>3. NoRowInv'
      BY <1>0, <2>3 DEF IInv, TypeInv, TypeOK, NoRowInv
    <3>4. BooksAgree'
      BY <1>0, <2>1, <2>3, <3>1 DEF IInv, TypeInv, TypeOK, BooksAgree, Booked, Charged
    <3>5. SuccessIsRecorded'
      BY <1>0, <2>1, <2>3 DEF ReplySuccess, IInv, TypeInv, TypeOK, SuccessIsRecorded, Booked
    <3>6. ErasedInv'
      BY <1>0, <2>1, <2>3 DEF IInv, TypeInv, TypeOK, ErasedInv, PromptGone, Charged
    <3> QED
      BY <3>2, <3>3, <3>4, <3>5, <3>6 DEF IInv
  <2> QED
    BY <1>7, <2>2, <2>3 DEF Record
<1> QED
  BY <1>1, <1>2, <1>3, <1>4, <1>5, <1>6, <1>7 DEF HandlerStep

LEMMA InvStep == IInv /\ [Next]_vars => IInv'
<1> SUFFICES ASSUME IInv, [Next]_vars PROVE IInv'
  OBVIOUS
<1>1. TypeInv'
  BY TypeStep DEF IInv
<1>2. ASSUME NEW c \in Calls, HandlerStep(c)
      PROVE  IInv'
  BY <1>1, <1>2, HandlerKeeps
<1>3. ASSUME NEW c \in Calls, Abort(c)
      PROVE  IInv'
  BY <1>1, <1>3, FailureStep DEF Abort
<1> QED
  BY <1>1, <1>2, <1>3, OutsideStep DEF Next

LEMMA InvInit == Init => IInv
BY BoundAssumption, OrderAssumption
   DEF Init, IInv, TypeInv, TypeOK, Steps, IssuedInv, ServingInv, HandlerInv, NoRowInv,
       ErasedInv, BooksAgree, SuccessIsRecorded, Booked

LEMMA Invariance == Spec => []IInv
BY InvInit, InvStep, PTL DEF Spec

\* A sale is booked only for a charged order and for its quoted price, and the
\* settlement of a refunded sale stays refunded.
THEOREM BooksAlwaysAgree == Spec => []BooksAgree
<1>1. IInv => BooksAgree
  BY DEF IInv
<1> QED
  BY <1>1, Invariance, PTL

\* Nobody is told of a success that the database does not hold.
THEOREM SuccessAlwaysRecorded == Spec => []SuccessIsRecorded
<1>1. IInv => SuccessIsRecorded
  BY DEF IInv
<1> QED
  BY <1>1, Invariance, PTL

-----------------------------------------------------------------------------
(* No second sale.  What the buyer owned when a handler started are booked   *)
(* sales of the same prompt; such a sale may be refunded or erased but never *)
(* revived, so once the handler has found no live purchase, none is live.   *)

\* The handler's last look at the buyer's purchases before the charge is done.
PastCheck(c) ==
  pc[c] \in {"confirm", "recheck", "record"} \cup
           (IF c \in CompleteCalls THEN {} ELSE {"price"})

OwnedInv ==
  \A c \in Calls : pc[c] # "idle" =>
    \A x \in owned[c] :
      /\ order[x] \in Sheet
      /\ order[x].buyer = order[serving[c]].buyer
      /\ order[x].prompt = order[serving[c]].prompt
      /\ Booked(x) \/ x \in erased
      /\ PastCheck(c) => payment[x] # "Succeed"

\* Sheets stay as they are, a booked sale stays booked or is erased, an erased
\* one stays erased, and neither a refund nor an erased sale comes alive again.
Frame ==
  /\ \A o \in Orders : order[o] \in Sheet => order'[o] = order[o]
  /\ \A o \in Orders : Booked(o) \/ o \in erased => Booked(o)' \/ o \in erased'
  /\ \A o \in Orders : (Booked(o) \/ o \in erased) /\ payment'[o] = "Succeed"
                         => payment[o] = "Succeed"

LEMMA FrameStep == IInv /\ [Next]_vars => Frame
<1> SUFFICES ASSUME IInv, [Next]_vars PROVE Frame
  OBVIOUS
<1> USE DEF IInv, TypeInv, TypeOK, Frame, Booked
<1>1. ASSUME NEW p \in Prompts, NEW v \in Prices, NEW f \in BOOLEAN, EditPrompt(p, v, f)
      PROVE  Frame
  BY <1>1 DEF EditPrompt
<1>2. ASSUME NEW o \in Orders, NEW b \in Buyers, NEW p \in Prompts, IssueOrder(o, b, p)
      PROVE  Frame
  BY <1>2, OrderAssumption DEF IssueOrder, dbVars
<1>3. ASSUME NEW o \in Orders, Certify(o) \/ SettleSale(o) \/ RefundSale(o)
      PROVE  Frame
  BY <1>3 DEF Certify, SettleSale, RefundSale, dbVars
<1>4. ASSUME NEW c \in Calls, NEW o \in Orders, Begin(c, o)
      PROVE  Frame
  BY <1>4 DEF Begin, dbVars
<1>5. ASSUME NEW c \in Calls, HandlerStep(c) \/ Abort(c)
      PROVE  Frame
  <2>1. CASE Record(c)
    <3>1. PICK o \in Orders : o = serving[c]
      BY <2>1 DEF Record, ServingInv
    <3>2. order[o].prompt \notin offered => UNCHANGED payment
      BY <2>1, <3>1 DEF Record
    <3>3. o \in erased => UNCHANGED payment
      BY <3>2 DEF ErasedInv, PromptGone
    <3>4. payment' = payment \/ (payment[o] = "none" /\ payment' = [payment EXCEPT ![o] = "Succeed"])
      BY <2>1, <3>1 DEF Record
    <3>5. UNCHANGED <<order, erased>>
      BY <2>1 DEF Record
    <3> QED
      BY <3>3, <3>4, <3>5
  <2>2. CASE ~Record(c)
    BY <1>5, <2>2 DEF HandlerStep, Lookup, CheckPrice, CheckExisting, Confirm, Recheck,
                      CheckPrior, Abort, dbVars
  <2> QED
    BY <2>1, <2>2
<1>6. ASSUME NEW p \in Prompts, DeletePrompt(p)
      PROVE  Frame
  BY <1>6 DEF DeletePrompt
<1>7. ASSUME NEW p \in Prompts, AdminDeletePrompt(p)
      PROVE  Frame
  BY <1>7 DEF AdminDeletePrompt, SalesOf
<1>8. CASE UNCHANGED vars
  BY <1>8 DEF vars
<1> QED
  BY <1>1, <1>2, <1>3, <1>4, <1>5, <1>6, <1>7, <1>8 DEF Next

\* What one step does to the place of a handler.
LEMMA PlaceStep ==
  ASSUME TypeInv, [Next]_vars, NEW d \in Calls, pc'[d] # "idle"
  PROVE  \/ /\ pc'[d] = pc[d] /\ serving'[d] = serving[d] /\ owned'[d] = owned[d]
         \/ /\ pc[d] # "idle" /\ serving'[d] = serving[d] /\ owned'[d] = owned[d]
            /\ PastCheck(d)' => PastCheck(d) \/ ExistingFor(serving[d]) = {}
         \/ /\ pc'[d] = "lookup" /\ serving'[d] \in Orders
            /\ order[serving'[d]] \in Sheet
            /\ owned'[d] = ExistingFor(serving'[d])
<1> USE DEF TypeInv, TypeOK, Steps
<1>1. CASE \E c \in Calls, o \in Orders : Begin(c, o)
  BY <1>1 DEF Begin, IssuedInv
<1>2. CASE \E c \in Calls \ {d} : HandlerStep(c) \/ Abort(c)
  BY <1>2 DEF HandlerStep, Lookup, CheckPrice, CheckExisting, Confirm, Recheck, CheckPrior,
              Record, Abort, ReplySuccess, ReplyFailure, Leave, Goto
<1>3. CASE HandlerStep(d)
  <2> USE DEF ReplySuccess, ReplyFailure, Leave, Goto, PastCheck
  <2>1. CASE Lookup(d)
    BY <2>1 DEF Lookup
  <2>2. CASE CheckPrice(d)
    BY <2>2 DEF CheckPrice
  <2>3. CASE CheckExisting(d)
    BY <2>3 DEF CheckExisting
  <2>4. CASE Confirm(d)
    BY <2>4 DEF Confirm
  <2>5. CASE Recheck(d)
    BY <2>5 DEF Recheck
  <2>6. CASE CheckPrior(d)
    BY <2>6 DEF CheckPrior
  <2>7. CASE Record(d)
    BY <2>7 DEF Record
  <2> QED
    BY <1>3, <2>1, <2>2, <2>3, <2>4, <2>5, <2>6, <2>7 DEF HandlerStep
<1>4. CASE Abort(d)
  BY <1>4 DEF Abort, ReplyFailure, Leave
<1>5. CASE UNCHANGED <<pc, serving, owned>>
  BY <1>5
<1> QED
  BY <1>1, <1>2, <1>3, <1>4, <1>5
     DEF Next, vars, EditPrompt, DeletePrompt, AdminDeletePrompt, IssueOrder, Certify,
         SettleSale, RefundSale, callVars

LEMMA OwnedStep == IInv /\ OwnedInv /\ [Next]_vars => OwnedInv'
<1> SUFFICES ASSUME IInv, OwnedInv, [Next]_vars,
                    NEW d \in Calls, pc'[d] # "idle", NEW x \in owned'[d]
             PROVE  /\ order'[x] \in Sheet
                    /\ order'[x].buyer = order'[serving'[d]].buyer
                    /\ order'[x].prompt = order'[serving'[d]].prompt
                    /\ Booked(x)' \/ x \in erased'
                    /\ PastCheck(d)' => payment'[x] # "Succeed"
  BY DEF OwnedInv
<1>1. Frame
  BY FrameStep
<1>2. TypeInv /\ TypeInv'
  BY TypeStep DEF IInv
<1>3. x \in Orders /\ serving'[d] \in Orders
  BY <1>2 DEF TypeInv, TypeOK, ServingInv
<1>4. CASE /\ pc'[d] = "lookup" /\ order[serving'[d]] \in Sheet
           /\ owned'[d] = ExistingFor(serving'[d])
  BY <1>1, <1>3, <1>4 DEF ExistingFor, Existing, Frame, Booked, PastCheck
<1>5. CASE /\ pc[d] # "idle" /\ serving'[d] = serving[d] /\ owned'[d] = owned[d]
           /\ PastCheck(d)' => PastCheck(d) \/ ExistingFor(serving[d]) = {}
  <2>1. order[serving[d]] \in Sheet /\ serving[d] \in Orders
    BY <1>2, <1>5 DEF TypeInv, ServingInv
  <2>2. /\ order[x] \in Sheet /\ (Booked(x) \/ x \in erased)
        /\ order[x].buyer = order[serving[d]].buyer
        /\ order[x].prompt = order[serving[d]].prompt
        /\ PastCheck(d) => payment[x] # "Succeed"
    BY <1>5 DEF OwnedInv
  <2>3. ExistingFor(serving[d]) = {} => payment[x] # "Succeed"
    BY <1>3, <2>2 DEF ExistingFor, Existing
  <2> QED
    BY <1>1, <1>3, <1>5, <2>1, <2>2, <2>3 DEF Frame
<1>6. CASE pc'[d] = pc[d] /\ serving'[d] = serving[d] /\ owned'[d] = owned[d]
  BY <1>5, <1>6 DEF PastCheck
<1> QED
  BY <1>2, <1>4, <1>5, <1>6, PlaceStep

\* No handler charges for, or books, an order while a purchase that its buyer
\* already had when the handler started is live.
THEOREM NoSecondSaleHolds == Spec => NoSecondSale
<1>1. Init => OwnedInv
  BY DEF Init, OwnedInv
<1>2. ASSUME TypeInv, OwnedInv, [Next]_vars, NEW c \in Calls,
             pc[c] # "idle", pc'[c] # pc[c],
             pg[serving[c]] # pg'[serving[c]] \/ payment[serving[c]] # payment'[serving[c]],
             NEW x \in owned[c]
      PROVE  payment[x] # "Succeed"
  <2>1. HandlerStep(c) \/ Abort(c)
    <3>1. ASSUME NEW d \in Calls, d # c, HandlerStep(d) \/ Abort(d)
          PROVE  pc'[c] = pc[c]
      BY <1>2, <3>1 DEF HandlerStep, Lookup, CheckPrice, CheckExisting, Confirm, Recheck,
                  CheckPrior, Record, Abort, ReplySuccess, ReplyFailure, Leave, Goto,
                  TypeInv, TypeOK
    <3>2. ASSUME NEW d \in Calls, NEW o \in Orders, Begin(d, o)
          PROVE  pc'[c] = pc[c]
      BY <1>2, <3>2 DEF Begin, TypeInv, TypeOK
    <3> QED
      BY <1>2, <3>1, <3>2 DEF Next, vars, EditPrompt, DeletePrompt, AdminDeletePrompt,
                              IssueOrder, Certify, SettleSale, RefundSale, callVars
  <2>2. PastCheck(c)
    BY <1>2, <2>1 DEF HandlerStep, Lookup, CheckPrice, CheckExisting, Confirm, Recheck,
                      CheckPrior, Record, Abort, dbVars, PastCheck
  <2> QED
    BY <1>2, <2>2 DEF OwnedInv
<1>3. TypeInv /\ OwnedInv /\ [Next]_vars =>
        [\A c \in Calls :
           /\ pc[c] # "idle" /\ pc'[c] # pc[c]
           /\ \/ pg[serving[c]] # pg'[serving[c]]
              \/ payment[serving[c]] # payment'[serving[c]]
           => \A x \in owned[c] \ {serving[c]} : payment[x] # "Succeed"]_vars
  BY <1>2
<1>4. IInv => TypeInv
  BY DEF IInv
<1> QED
  BY <1>1, <1>3, <1>4, OwnedStep, Invariance, PTL DEF Spec, NoSecondSale

-----------------------------------------------------------------------------
(* Implementation of OrderLedger.  Only four steps touch what the ledger     *)
(* sees; each of them finds the order in the stage the ledger asks for.      *)

\* A step that leaves stage, sheet and amount of every order alone stutters.
LEMMA StutterStep ==
  ASSUME UNCHANGED <<order, amount>>, \A o \in Orders : Stage(o)' = Stage(o)
  PROVE  UNCHANGED Ledger!vars
BY DEF Ledger!vars

LEMMA StageSame ==
  ASSUME NEW o \in Orders, payment'[o] = payment[o], Charged(o)' = Charged(o),
         o \in erased' <=> o \in erased
  PROVE  Stage(o)' = Stage(o)
BY DEF Stage

LEMMA LedgerStep == IInv /\ [Next]_vars => [Ledger!Next]_Ledger!vars
<1> SUFFICES ASSUME IInv, [Next]_vars PROVE [Ledger!Next]_Ledger!vars
  OBVIOUS
<1> USE DEF IInv, TypeInv, TypeOK
<1>1. CASE UNCHANGED <<order, amount, payment, pg, erased>>
  BY <1>1, StutterStep, StageSame DEF Charged
<1>2. ASSUME NEW o \in Orders, NEW b \in Buyers, NEW p \in Prompts, IssueOrder(o, b, p)
      PROVE  Ledger!Next
  <2>1. Stage(o) = "open"
    BY <1>2, OrderAssumption DEF IssueOrder, IssuedInv, ErasedInv, PromptGone, Stage, Charged
  <2>2. \A x \in Orders : Stage(x)' = Stage(x)
    BY <1>2, StageSame DEF IssueOrder, dbVars, Charged
  <2>3. order' = [order EXCEPT ![o] = [buyer |-> b, prompt |-> p, total |-> price[p]]]
    BY <1>2 DEF IssueOrder
  <2>4. PICK a \in Prices : a = price[p]
    OBVIOUS
  <2>5. order'[o] \in Sheet /\ order'[o].total = a
    BY <2>3, <2>4 DEF Sheet
  <2> DEFINE Due(x) == IF order[x] \in Sheet THEN order[x].total ELSE AnyPrice
             NewDue(x) == IF order'[x] \in Sheet THEN order'[x].total ELSE AnyPrice
  <2>6. [x \in Orders |-> NewDue(x)] = [[x \in Orders |-> Due(x)] EXCEPT ![o] = a]
    <3>1. NewDue(o) = a
      BY <2>5
    <3>2. \A x \in Orders \ {o} : NewDue(x) = Due(x)
      BY <2>3
    <3> HIDE DEF Due, NewDue
    <3> QED
      BY <3>1, <3>2
  <2>7. UNCHANGED amount
    BY <1>2 DEF IssueOrder, dbVars
  <2>8. [x \in Orders |-> Stage(x)'] = [x \in Orders |-> Stage(x)]
    BY <2>2
  <2>9. Ledger!Quote(o, a)
    BY <2>1, <2>6, <2>7, <2>8 DEF Ledger!Quote
  <2> QED
    BY <2>9 DEF Ledger!Next
<1>3. ASSUME NEW o \in Orders, Certify(o)
      PROVE  UNCHANGED Ledger!vars
  <2>1. \A x \in Orders : payment'[x] = payment[x] /\ Charged(x)' = Charged(x)
    BY <1>3 DEF Certify, dbVars, Charged
  <2> QED
    BY <1>3, <2>1, StutterStep, StageSame DEF Certify, dbVars
<1>4. ASSUME NEW o \in Orders, RefundSale(o)
      PROVE  Ledger!Next
  <2>1. Stage(o) = "sold" /\ Stage(o)' = "returned"
    BY <1>4 DEF RefundSale, ErasedInv, Stage
  <2>2. \A x \in Orders \ {o} : Stage(x)' = Stage(x)
    BY <1>4, StageSame DEF RefundSale, Charged
  <2>3. Ledger!GiveBack(o)
    BY <1>4, <2>1, <2>2 DEF Ledger!GiveBack, RefundSale
  <2> QED
    BY <2>3 DEF Ledger!Next
<1>5. ASSUME NEW c \in Calls, Confirm(c)
      PROVE  [Ledger!Next]_Ledger!vars
  <2>1. PICK o \in Orders : o = serving[c]
    BY <1>5 DEF Confirm, ServingInv
  <2>2. CASE pg[o] = "certified" /\ pg' = [pg EXCEPT ![o] = "captured"]
    <3>1. payment[o] = "none"
      BY <2>1, <2>2 DEF BooksAgree, Booked, Charged
    <3>2. Stage(o) = "open" /\ Stage(o)' = "charged"
      BY <1>5, <2>1, <2>2, <3>1 DEF Confirm, dbVars, ErasedInv, Stage, Charged
    <3>3. \A x \in Orders \ {o} : Stage(x)' = Stage(x)
      BY <1>5, <2>1, <2>2, StageSame DEF Confirm, dbVars, Charged
    <3>4. Ledger!Charge(o)
      BY <1>5, <2>1, <3>2, <3>3 DEF Ledger!Charge, Confirm, dbVars
    <3> QED
      BY <2>1, <3>4 DEF Ledger!Next
  <2>3. CASE UNCHANGED pg
    BY <1>1, <1>5, <2>3 DEF Confirm, dbVars
  <2> QED
    BY <1>5, <2>1, <2>2, <2>3 DEF Confirm
<1>6. ASSUME NEW c \in Calls, Record(c)
      PROVE  [Ledger!Next]_Ledger!vars
  <2>1. PICK o \in Orders : o = serving[c] /\ order[o] \in Sheet
    BY <1>6 DEF Record, ServingInv
  <2>2. CASE /\ payment[o] = "none" /\ payment' = [payment EXCEPT ![o] = "Succeed"]
             /\ order[o].prompt \in offered
             /\ amount' = [amount EXCEPT ![o] = quoted[c]]
    <3>1. Charged(o) /\ quoted[c] = order[o].total
      BY <1>6, <2>1 DEF Record, HandlerInv, KnowsPrice
    <3>2. Stage(o) = "charged" /\ Stage(o)' = "sold"
      BY <1>6, <2>1, <2>2, <3>1 DEF Record, ErasedInv, PromptGone, Stage
    <3>3. \A x \in Orders \ {o} : Stage(x)' = Stage(x)
      BY <1>6, <2>1, <2>2, StageSame DEF Record, Charged
    <3>4. UNCHANGED order
      BY <1>6 DEF Record
    <3>5. amount' = [amount EXCEPT ![o] = order[o].total]
      BY <2>2, <3>1
    <3>6. Ledger!Book(o)
      BY <2>1, <3>2, <3>3, <3>4, <3>5 DEF Ledger!Book
    <3> QED
      BY <2>1, <3>6 DEF Ledger!Next
  <2>3. CASE UNCHANGED <<amount, payment>>
    BY <1>1, <1>6, <2>3 DEF Record
  <2> QED
    BY <1>6, <2>1, <2>2, <2>3 DEF Record
<1>7. ASSUME NEW p \in Prompts, NEW v \in Prices, NEW f \in BOOLEAN, EditPrompt(p, v, f)
      PROVE  UNCHANGED <<order, amount, payment, pg, erased>>
  BY <1>7 DEF EditPrompt
<1>8. ASSUME NEW o \in Orders, SettleSale(o)
      PROVE  UNCHANGED <<order, amount, payment, pg, erased>>
  BY <1>8 DEF SettleSale
<1>9. ASSUME NEW c \in Calls, NEW o \in Orders, Begin(c, o)
      PROVE  UNCHANGED <<order, amount, payment, pg, erased>>
  BY <1>9 DEF Begin, dbVars
<1>10. ASSUME NEW c \in Calls,
              Lookup(c) \/ CheckPrice(c) \/ CheckExisting(c) \/ Recheck(c)
                \/ CheckPrior(c) \/ Abort(c)
       PROVE  UNCHANGED <<order, amount, payment, pg, erased>>
  BY <1>10 DEF Lookup, CheckPrice, CheckExisting, Recheck, CheckPrior, Abort, dbVars
<1>11. ASSUME NEW p \in Prompts, DeletePrompt(p)
       PROVE  UNCHANGED <<order, amount, payment, pg, erased>>
  BY <1>11 DEF DeletePrompt
<1>12. ASSUME NEW p \in Prompts, AdminDeletePrompt(p)
       PROVE  [Ledger!Next]_Ledger!vars
  <2> DEFINE S == SalesOf(p)
  <2>1. S \subseteq Orders
    BY DEF SalesOf, OrdersFor
  <2>2. \A o \in S : Stage(o) \in {"sold", "returned"} /\ Stage(o)' = "erased"
    <3> SUFFICES ASSUME NEW o \in S
                 PROVE  Stage(o) \in {"sold", "returned"} /\ Stage(o)' = "erased"
      OBVIOUS
    <3>1. o \in Orders /\ payment[o] \in {"Succeed", "Refunded"} /\ o \notin erased
      BY DEF SalesOf, OrdersFor, ErasedInv
    <3>2. o \in erased'
      BY <1>12 DEF AdminDeletePrompt
    <3> HIDE DEF S
    <3> QED
      BY <3>1, <3>2 DEF Stage
  <2>3. ASSUME NEW o \in Orders \ S
        PROVE  Stage(o)' = Stage(o) /\ amount'[o] = amount[o]
    <3>1. payment'[o] = payment[o] /\ amount'[o] = amount[o]
      BY <1>12, <2>3 DEF AdminDeletePrompt, SalesOf, NoRowInv
    <3>2. Charged(o)' = Charged(o) /\ (o \in erased' <=> o \in erased)
      BY <1>12, <2>3 DEF AdminDeletePrompt, Charged
    <3> QED
      BY <3>1, <3>2, StageSame
  <2>4. \A o \in S : amount'[o] = 0
    BY <1>12 DEF AdminDeletePrompt, SalesOf, OrdersFor
  <2>5. UNCHANGED order /\ amount' = [o \in Orders |-> IF o \in S THEN 0 ELSE amount[o]]
    <3>1. DOMAIN amount' = Orders /\ UNCHANGED order
          /\ amount' = [o \in Orders |-> amount'[o]]
      BY <1>12 DEF AdminDeletePrompt
    <3> QED
      BY <2>3, <2>4, <3>1
  <2> HIDE DEF S
  <2>6. CASE S = {}
    BY <2>3, <2>5, <2>6, StutterStep
  <2>7. CASE S # {}
    <3> DEFINE Old == [o \in Orders |-> Stage(o)]
               New == [o \in Orders |-> Stage(o)']
    <3>a. New = [o \in Orders |-> IF o \in S THEN "erased" ELSE Old[o]]
      BY <2>1, <2>2, <2>3
    <3>b. \A o \in S : Old[o] \in {"sold", "returned"}
      BY <2>1, <2>2
    <3>1. Ledger!Erase(S)
      BY <2>5, <2>7, <3>a, <3>b DEF Ledger!Erase
    <3> QED
      BY <2>1, <3>1 DEF Ledger!Next
  <2> QED
    BY <2>6, <2>7
<1>13. CASE UNCHANGED vars
  BY <1>1, <1>13 DEF vars
<1> QED
  BY <1>1, <1>2, <1>3, <1>4, <1>5, <1>6, <1>7, <1>8, <1>9, <1>10, <1>11, <1>12, <1>13
     DEF Next, HandlerStep

LEMMA LedgerInit == Init => Ledger!Init
<1> SUFFICES ASSUME Init PROVE Ledger!Init
  OBVIOUS
<1>1. \A o \in Orders : Stage(o) = "open"
  BY DEF Init, Stage, Charged
<1>2. AnyPrice \in Prices
  BY PriceAssumption DEF AnyPrice
<1> QED
  BY <1>1, <1>2, OrderAssumption DEF Init, Ledger!Init

\* Whatever the handlers, the seller, the admins and the refunds do, each order keeps to
\* the ledger: charged once, booked once for its quoted price, returned once,
\* and never booked again once erased.
THEOREM ImplementsLedger == Spec => LedgerSpec
<1> QED
  BY LedgerInit, LedgerStep, Invariance, PTL DEF Spec, LedgerSpec, Ledger!Spec
=============================================================================
