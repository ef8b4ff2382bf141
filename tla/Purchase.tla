------------------------------ MODULE Purchase ------------------------------
(***************************************************************************)
(* Buying a paid prompt (src/purchases).  A buyer asks for an order sheet, *)
(* authenticates at Payple, and the authentication result then reaches the *)
(* server on up to three paths that may overlap: the buyer's own           *)
(* POST /complete, the browser redirect, and Payple's server-to-server     *)
(* webhook, which is redelivered until it is answered with 200.  Each path *)
(* is a handler with several awaits; every await is a step of its own      *)
(* here, so handlers interleave between any two database or Payple calls.  *)
(* Approval of the authenticated payment, inside the handler, is what      *)
(* moves the money.                                                        *)
(*                                                                         *)
(* A paid Purchase row and its Payment row are created by one transaction  *)
(* and never separated, so both are kept under the order number.           *)
(***************************************************************************)
EXTENDS Naturals

CONSTANTS
  Buyers, Prompts,  \* users who buy, paid prompts on offer
  Orders,           \* order numbers (PCD_PAY_OID, a fresh uuid per sheet)
  Prices,           \* prices a seller may set
  CompleteCalls,    \* slots for running POST /complete handlers
  RedirectCalls,    \* slots for running browser-redirect handlers
  HookCalls,        \* slots for running webhook handlers
  NoOrder,          \* no order sheet / no order
  RepeatRefused,    \* may Payple refuse to approve what it approved before?
  Deletions,        \* are prompts deleted in this instance?
  MaxFaults         \* bound on the handler runs that die half-way

Calls == CompleteCalls \cup RedirectCalls \cup HookCalls

Sheet == [buyer : Buyers, prompt : Prompts, total : Prices]

ASSUME SlotAssumption ==
  /\ CompleteCalls \cap (RedirectCalls \cup HookCalls) = {}
  /\ RedirectCalls \cap HookCalls = {}
ASSUME OrderAssumption == NoOrder \notin Orders \cup Sheet
ASSUME PriceAssumption == Prices # {} /\ Prices \subseteq Nat \ {0}
ASSUME BoundAssumption ==
  RepeatRefused \in BOOLEAN /\ Deletions \in BOOLEAN /\ MaxFaults \in Nat

VARIABLES
  \* the database
  offered,        \* the prompts that have a row
  price, isFree,  \* Prompt.price and Prompt.is_free
  amount,         \* Purchase.amount of an order's row, 0 when there is none
  payment,        \* Payment.status of an order's row
  settlement,     \* Settlement.status of that payment
  \* Payple
  order,          \* the order sheets handed out
  pg,             \* what Payple did for an order
  acked,          \* orders whose webhook was answered with 200
  \* the running handlers
  pc,             \* the await a handler stands before
  serving,        \* the order it handles
  quoted,         \* serverPrice, read from the prompt
  found,          \* the existing purchase it read
  \* for the properties only
  thanked,        \* orders whose buyer was answered with success
  owned,          \* the buyer's live purchases when the handler started
  erased,         \* booked orders whose rows went with their prompt
  faults

dbVars   == <<offered, price, isFree, amount, payment, settlement>>
callVars == <<pc, serving, quoted, found, owned>>
vars     == <<offered, price, isFree, amount, payment, settlement, order, pg, acked,
              pc, serving, quoted, found, thanked, owned, erased, faults>>

Steps == {"idle", "lookup", "price", "existing", "confirm", "recheck",
          "prior", "record"}

TypeOK ==
  /\ offered \in SUBSET Prompts
  /\ price \in [Prompts -> Prices]
  /\ isFree \in [Prompts -> BOOLEAN]
  /\ amount \in [Orders -> Prices \cup {0}]
  /\ payment \in [Orders -> {"none", "Succeed", "Refunded"}]
  /\ settlement \in [Orders -> {"none", "Pending", "Succeed", "Refunded"}]
  /\ order \in [Orders -> Sheet \cup {NoOrder}]
  /\ pg \in [Orders -> {"unpaid", "certified", "captured", "cancelled"}]
  /\ acked \in SUBSET Orders
  /\ pc \in [Calls -> Steps]
  /\ serving \in [Calls -> Orders \cup {NoOrder}]
  /\ quoted \in [Calls -> Prices \cup {0}]
  /\ found \in [Calls -> Orders \cup {NoOrder}]
  /\ thanked \in SUBSET Orders
  /\ owned \in [Calls -> SUBSET Orders]
  /\ erased \in SUBSET Orders
  /\ faults \in 0..MaxFaults

Init ==
  /\ offered = Prompts
  /\ price \in [Prompts -> Prices]
  /\ isFree = [p \in Prompts |-> FALSE]
  /\ amount = [o \in Orders |-> 0]
  /\ payment = [o \in Orders |-> "none"]
  /\ settlement = [o \in Orders |-> "none"]
  /\ order = [o \in Orders |-> NoOrder]
  /\ pg = [o \in Orders |-> "unpaid"]
  /\ acked = {}
  /\ pc = [c \in Calls |-> "idle"]
  /\ serving = [c \in Calls |-> NoOrder]
  /\ quoted = [c \in Calls |-> 0]
  /\ found = [c \in Calls |-> NoOrder]
  /\ thanked = {}
  /\ owned = [c \in Calls |-> {}]
  /\ erased = {}
  /\ faults = 0

-----------------------------------------------------------------------------
(* Database reads. *)

\* findExistingPurchase: the orders whose purchase by b of p is paid for.
Existing(b, p) ==
  {o \in Orders : /\ order[o] \in Sheet
                  /\ order[o].buyer = b
                  /\ order[o].prompt = p
                  /\ payment[o] = "Succeed"}

ExistingFor(o) == Existing(order[o].buyer, order[o].prompt)

\* The orders placed for p, and those of them that have rows.
OrdersFor(p) == {o \in Orders : order[o] \in Sheet /\ order[o].prompt = p}
SalesOf(p)   == {o \in OrdersFor(p) : payment[o] # "none"}

-----------------------------------------------------------------------------
(* Steps of the seller, of Payple and of the other parts of the server.     *)

\* updatePrompt saves price and is_free as sent, whatever is being bought.
EditPrompt(p, v, f) ==
  /\ p \in offered
  /\ <<v, f>> # <<price[p], isFree[p]>>
  /\ price' = [price EXCEPT ![p] = v]
  /\ isFree' = [isFree EXCEPT ![p] = f]
  /\ UNCHANGED <<offered, amount, payment, settlement, order, pg, acked,
                 callVars, thanked, erased, faults>>

\* deletePromptRepo: the owner, unless the prompt was bought.  A paid prompt is
\* refused for its purchases; under one set free since, the foreign key of
\* their settlements refuses.  An order without rows stops nobody.
DeletePrompt(p) ==
  /\ Deletions
  /\ p \in offered
  /\ SalesOf(p) = {}
  /\ offered' = offered \ {p}
  /\ UNCHANGED <<price, isFree, amount, payment, settlement, order, pg, acked,
                 callVars, thanked, erased, faults>>

\* adminDeletePromptRepo: any prompt, with the settlements, the payments and
\* the purchases of its sales.  Payple is not told.
AdminDeletePrompt(p) ==
  /\ Deletions
  /\ p \in offered
  /\ offered' = offered \ {p}
  /\ amount' = [o \in Orders |-> IF o \in OrdersFor(p) THEN 0 ELSE amount[o]]
  /\ payment' = [o \in Orders |-> IF o \in OrdersFor(p) THEN "none" ELSE payment[o]]
  /\ settlement' = [o \in Orders |-> IF o \in OrdersFor(p) THEN "none" ELSE settlement[o]]
  /\ erased' = erased \cup SalesOf(p)
  /\ UNCHANGED <<price, isFree, order, pg, acked, callVars, thanked, faults>>

\* createPurchaseRequest hands out an order sheet and writes nothing.
IssueOrder(o, b, p) ==
  /\ order[o] = NoOrder
  /\ p \in offered
  /\ ~isFree[p]
  /\ Existing(b, p) = {}
  /\ order' = [order EXCEPT ![o] = [buyer |-> b, prompt |-> p, total |-> price[p]]]
  /\ UNCHANGED <<dbVars, pg, acked, callVars, thanked, erased, faults>>

\* External: the buyer authenticates in Payple's window; no money moves yet.
Certify(o) ==
  /\ order[o] # NoOrder
  /\ pg[o] = "unpaid"
  /\ pg' = [pg EXCEPT ![o] = "certified"]
  /\ UNCHANGED <<dbVars, order, acked, callVars, thanked, erased, faults>>

\* Mutant: updateMany without its status condition.
SettleSaleAnyStatus(o) ==
  /\ settlement[o] # "none"
  /\ settlement' = [settlement EXCEPT ![o] = "Succeed"]
  /\ UNCHANGED <<offered, price, isFree, amount, payment, order, pg, acked,
                 callVars, thanked, erased, faults>>

\* processApproval of the settlement sync: only a Pending settlement moves.
SettleSale(o) ==
  /\ settlement[o] = "Pending"
  /\ settlement' = [settlement EXCEPT ![o] = "Succeed"]
  /\ UNCHANGED <<offered, price, isFree, amount, payment, order, pg, acked,
                 callVars, thanked, erased, faults>>

\* Mutant: a status of the shared Status enum that no payment ever has.
RefundSaleToPending(o) ==
  /\ payment[o] = "Succeed"
  /\ pg' = [pg EXCEPT ![o] = "cancelled"]
  /\ payment' = [payment EXCEPT ![o] = "Pending"]
  /\ settlement' = [settlement EXCEPT ![o] = "Refunded"]
  /\ UNCHANGED <<offered, price, isFree, amount, order, acked, callVars, thanked,
                 erased, faults>>

\* A refund that went through: Payple cancelled and markPaymentRefunded ran.
\* Module Refund opens this step up.
RefundSale(o) ==
  /\ payment[o] = "Succeed"
  /\ pg' = [pg EXCEPT ![o] = "cancelled"]
  /\ payment' = [payment EXCEPT ![o] = "Refunded"]
  /\ settlement' = [settlement EXCEPT ![o] = "Refunded"]
  /\ UNCHANGED <<offered, price, isFree, amount, order, acked, callVars, thanked,
                 erased, faults>>

-----------------------------------------------------------------------------
(* The handlers.  CompleteCalls run completePurchase, the others run        *)
(* handlePaypleResult.                                                      *)

\* A result of a certified order arrives.  Payple stops delivering a webhook
\* once it is acknowledged; the other two paths may come at any time.
Begin(c, o) ==
  /\ pc[c] = "idle"
  /\ pg[o] # "unpaid"
  /\ c \in HookCalls => o \notin acked
  /\ pc' = [pc EXCEPT ![c] = "lookup"]
  /\ serving' = [serving EXCEPT ![c] = o]
  /\ owned' = [owned EXCEPT ![c] = ExistingFor(o)]
  /\ UNCHANGED <<dbVars, order, pg, acked, quoted, found, thanked, erased, faults>>

Goto(c, step) ==
  /\ pc' = [pc EXCEPT ![c] = step]
  /\ UNCHANGED <<serving, owned>>

\* The handler ends, and its locals with it.
Leave(c) ==
  /\ pc' = [pc EXCEPT ![c] = "idle"]
  /\ serving' = [serving EXCEPT ![c] = NoOrder]
  /\ quoted' = [quoted EXCEPT ![c] = 0]
  /\ found' = [found EXCEPT ![c] = NoOrder]
  /\ owned' = [owned EXCEPT ![c] = {}]

\* 200 to Payple, or a success answer or redirect to the buyer.
ReplySuccess(c) ==
  /\ Leave(c)
  /\ acked' = IF c \in HookCalls THEN acked \cup {serving[c]} ELSE acked
  /\ thanked' = IF c \in HookCalls THEN thanked ELSE thanked \cup {serving[c]}

\* Mutant: the webhook's catch block answers 200 as well.
AcknowledgeFailure(c) ==
  /\ Leave(c)
  /\ acked' = IF c \in HookCalls THEN acked \cup {serving[c]} ELSE acked
  /\ UNCHANGED thanked

\* A thrown error: 4xx/5xx or an error redirect; a webhook will come again.
ReplyFailure(c) ==
  /\ Leave(c)
  /\ UNCHANGED <<acked, thanked>>

\* findPaymentByOid: an order that is already recorded is answered at once.
Lookup(c) ==
  /\ pc[c] = "lookup"
  /\ \/ /\ payment[serving[c]] = "Succeed"
        /\ ReplySuccess(c)
     \/ /\ payment[serving[c]] # "Succeed"
        /\ Goto(c, IF c \in CompleteCalls THEN "price" ELSE "existing")
        /\ UNCHANGED <<acked, quoted, found, thanked>>
  /\ UNCHANGED <<dbVars, order, pg, erased, faults>>

\* findPromptWithSeller: the prompt must still be there, and the amount paid
\* must be today's price.
CheckPrice(c) ==
  LET sheet == order[serving[c]]
  IN /\ pc[c] = "price"
     /\ \/ /\ sheet.prompt \in offered
           /\ sheet.total = price[sheet.prompt]
           /\ quoted' = [quoted EXCEPT ![c] = price[sheet.prompt]]
           /\ Goto(c, IF c \in CompleteCalls THEN "existing" ELSE "confirm")
           /\ UNCHANGED <<acked, found, thanked>>
        \/ /\ sheet.prompt \notin offered \/ sheet.total # price[sheet.prompt]
           /\ ReplyFailure(c)
     /\ UNCHANGED <<dbVars, order, pg, erased, faults>>

\* Mutant: the webhook trusts findPaymentByOid and skips this check.
CheckExistingCompleteOnly(c) ==
  /\ pc[c] = "existing"
  /\ \/ /\ c \in CompleteCalls => ExistingFor(serving[c]) = {}
        /\ Goto(c, IF c \in CompleteCalls THEN "confirm" ELSE "price")
        /\ UNCHANGED <<acked, quoted, found, thanked>>
     \/ /\ c \in CompleteCalls
        /\ ExistingFor(serving[c]) # {}
        /\ ReplyFailure(c)
  /\ UNCHANGED <<dbVars, order, pg, erased, faults>>

\* findExistingPurchase, before any money moves: /complete refuses with 409,
\* the webhook first looks whether the purchase is this very order's.
CheckExisting(c) ==
  /\ pc[c] = "existing"
  /\ \/ /\ ExistingFor(serving[c]) = {}
        /\ Goto(c, IF c \in CompleteCalls THEN "confirm" ELSE "price")
        /\ UNCHANGED <<acked, quoted, found, thanked>>
     \/ /\ c \in CompleteCalls
        /\ ExistingFor(serving[c]) # {}
        /\ ReplyFailure(c)
     \/ /\ c \notin CompleteCalls
        /\ \E x \in ExistingFor(serving[c]) : found' = [found EXCEPT ![c] = x]
        /\ Goto(c, "prior")
        /\ UNCHANGED <<acked, quoted, thanked>>
  /\ UNCHANGED <<dbVars, order, pg, erased, faults>>

\* verifyPayplePayment: the confirm call charges the buyer, once per order.
\* What Payple says to a repeated confirm is its own business (RepeatRefused).
Confirm(c) ==
  LET o == serving[c]
  IN /\ pc[c] = "confirm"
     /\ \/ /\ pg' = [pg EXCEPT ![o] = IF @ = "certified" THEN "captured" ELSE @]
           /\ Goto(c, IF c \in CompleteCalls THEN "recheck" ELSE "record")
           /\ UNCHANGED <<acked, quoted, found, thanked>>
        \/ /\ pg[o] = "certified" \/ RepeatRefused
           /\ ReplyFailure(c)
           /\ UNCHANGED pg
     /\ UNCHANGED <<dbVars, order, erased, faults>>

\* findExistingPurchase again, after the money moved; /complete only.
Recheck(c) ==
  /\ pc[c] = "recheck"
  /\ \/ /\ ExistingFor(serving[c]) = {}
        /\ Goto(c, "record")
        /\ UNCHANGED found
     \/ /\ \E x \in ExistingFor(serving[c]) : found' = [found EXCEPT ![c] = x]
        /\ Goto(c, "prior")
  /\ UNCHANGED <<dbVars, order, pg, acked, quoted, thanked, erased, faults>>

\* Mutant: any existing purchase counts as this order's.
CheckPriorAny(c) ==
  /\ pc[c] = "prior"
  /\ ReplySuccess(c)
  /\ UNCHANGED <<dbVars, order, pg, erased, faults>>

\* findPaymentByOid: is the purchase that was found the one this order made?
CheckPrior(c) ==
  LET o == serving[c]
  IN /\ pc[c] = "prior"
     /\ IF payment[o] = "Succeed" /\ found[c] = o
        THEN ReplySuccess(c)
        ELSE ReplyFailure(c)
     /\ UNCHANGED <<dbVars, order, pg, erased, faults>>

\* Mutant: upsert where the code creates, so a second run overwrites.
RecordUpsert(c) ==
  LET o == serving[c]
  IN /\ pc[c] = "record"
     /\ amount' = [amount EXCEPT ![o] = quoted[c]]
     /\ payment' = [payment EXCEPT ![o] = "Succeed"]
     /\ settlement' = [settlement EXCEPT ![o] = "Pending"]
     /\ ReplySuccess(c)
     /\ UNCHANGED <<offered, price, isFree, order, pg, erased, faults>>

\* The transaction: Purchase, Payment and Settlement rows together, or none
\* of them when pcd_pay_oid is already taken (unique) or the prompt is gone
\* (foreign key).
Record(c) ==
  LET o == serving[c]
  IN /\ pc[c] = "record"
     /\ \/ /\ payment[o] = "none"
           /\ order[o].prompt \in offered
           /\ amount' = [amount EXCEPT ![o] = quoted[c]]
           /\ payment' = [payment EXCEPT ![o] = "Succeed"]
           /\ settlement' = [settlement EXCEPT ![o] = "Pending"]
           /\ ReplySuccess(c)
        \/ /\ payment[o] # "none" \/ order[o].prompt \notin offered
           /\ ReplyFailure(c)
           /\ UNCHANGED <<amount, payment, settlement>>
     /\ UNCHANGED <<offered, price, isFree, order, pg, erased, faults>>

\* The run ends at an await: the process dies, a statement throws, or the
\* answer of Payple is lost (after Confirm, that is after the money moved).
Abort(c) ==
  /\ pc[c] # "idle"
  /\ faults < MaxFaults
  /\ faults' = faults + 1
  /\ ReplyFailure(c)
  /\ UNCHANGED <<dbVars, order, pg, erased>>

HandlerStep(c) ==
  \/ Lookup(c) \/ CheckPrice(c) \/ CheckExisting(c) \/ Confirm(c)
  \/ Recheck(c) \/ CheckPrior(c) \/ Record(c)

Next ==
  \/ \E p \in Prompts, v \in Prices, f \in BOOLEAN : EditPrompt(p, v, f)
  \/ \E p \in Prompts : DeletePrompt(p) \/ AdminDeletePrompt(p)
  \/ \E o \in Orders, b \in Buyers, p \in Prompts : IssueOrder(o, b, p)
  \/ \E o \in Orders : Certify(o) \/ SettleSale(o) \/ RefundSale(o)
  \/ \E c \in Calls, o \in Orders : Begin(c, o)
  \/ \E c \in Calls : HandlerStep(c) \/ Abort(c)

Spec == Init /\ [][Next]_vars

-----------------------------------------------------------------------------
(* Fairness, for the recovery property only.  A handler that runs gets to   *)
(* its next await (the event loop is fair, axios and Prisma calls end), and *)
(* Payple redelivers the webhook of an order until it is acknowledged.      *)
Fairness ==
  /\ \A c \in HookCalls : WF_vars(HandlerStep(c))
  /\ \A o \in Orders : SF_vars(\E c \in HookCalls : Begin(c, o))

FairSpec == Spec /\ Fairness

-----------------------------------------------------------------------------
(* Properties. *)

Charged(o) == pg[o] \in {"captured", "cancelled"}
Booked(o)  == payment[o] # "none"

\* A sale is in the books only for an order whose money Payple took, for the
\* price on its order sheet, and the three rows agree about a refund: no
\* settlement of a refunded sale can still be paid to the seller, however the
\* sync, a refund and a late handler interleave.
BooksAgree ==
  \A o \in Orders :
    /\ Booked(o) => Charged(o) /\ order[o] \in Sheet /\ amount[o] = order[o].total
    /\ settlement[o] = "none" <=> payment[o] = "none"
    /\ settlement[o] = "Refunded" <=> payment[o] = "Refunded"

\* Whoever was told that a payment succeeded, the buyer by an answer or a
\* redirect, Payple by a 200 that stops the redelivery, was told the truth:
\* the sale is in the books, unless an admin has erased it with its prompt.
SuccessIsRecorded == \A o \in acked \cup thanked : Booked(o) \/ o \in erased

\* A buyer who already owns the prompt when a handler starts is not charged
\* for another order by it, nor is another sale booked by it: duplicates can
\* only come from handlers that overlap.
NoSecondSale ==
  [][\A c \in Calls :
       /\ pc[c] # "idle" /\ pc'[c] # pc[c]
       /\ \/ pg[serving[c]] # pg'[serving[c]]
          \/ payment[serving[c]] # payment'[serving[c]]
       => \A x \in owned[c] \ {serving[c]} : payment[x] # "Succeed"]_vars

\* Every order goes through the stages of OrderLedger, in that order: charged
\* at most once, booked only when charged and for the quoted price, and a
\* refunded or erased order is never booked again by a handler that comes late.
Stage(o) == IF o \in erased THEN "erased"
            ELSE IF payment[o] = "Refunded" THEN "returned"
            ELSE IF payment[o] = "Succeed" THEN "sold"
            ELSE IF Charged(o) THEN "charged"
            ELSE "open"

AnyPrice == CHOOSE v \in Prices : TRUE

Ledger == INSTANCE OrderLedger WITH
            Amounts <- Prices,
            stage   <- [o \in Orders |-> Stage(o)],
            due     <- [o \in Orders |-> IF order[o] \in Sheet THEN order[o].total ELSE AnyPrice],
            booked  <- amount

LedgerSpec == Ledger!Spec

\* The prompt an order is for was deleted.
PromptGone(o) == order[o] \in Sheet /\ order[o].prompt \notin offered

\* The webhook exists so that no payment result is lost: an order that was
\* charged is booked in the end, or its buyer owns the prompt by another one.
\* Said of a price that stands still (Prices is a singleton in the run), and
\* not of an order whose prompt is deleted before a redelivery came through:
\* no redelivery gets past the lookup of the prompt then.
ChargeIsBookedOrDuplicate ==
  \A o \in Orders : pg[o] = "captured" ~>
    \/ Booked(o)
    \/ order[o] \in Sheet /\ ExistingFor(o) # {}
    \/ PromptGone(o)

\* The same without the escape: what the webhook's documentation promises.
ChargeIsBooked == \A o \in Orders : pg[o] = "captured" ~> Booked(o)
=============================================================================
