# PromptPlace backend: a TLA+ model

PromptPlace sells prompts. The backend is an Express server over MySQL
(Prisma) and Redis; money moves at Payple, an external payment gateway. This
directory models what its handlers do to their rows, to Redis, to S3 and to the
maps they keep in memory, with the steps of several handlers interleaved as the
server may interleave them; checks the models with TLC on small instances; and
proves all of their safety properties with TLAPS for instances of any size.
The parts where money moves come first and go deepest.

Paths below are relative to `src/src/` of the repository unless they start with
`prisma/`.

## 1. The system

The server keeps no shared state in memory that matters for money: every
handler is an async function that reads rows, calls Payple, and writes rows,
and any other handler may run between two of its awaits. There is no
row locking; what protects the rows are unique indexes, conditional updates
(`updateMany ... WHERE status = ...`) and transactions.

| Component | State | Operations | Works with |
|---|---|---|---|
| Purchase flow (`purchases/`) | `Purchase`, `Payment` (unique `pcd_pay_oid`), `Settlement` rows | order sheet, `POST /complete`, browser redirect, Payple webhook | Payple confirm; price and deletion of the prompt; refund flow and settlement sync change the same rows later |
| Refund flow (`refunds/`) | `Refund` row (unique per purchase), `Payment.status`, `Settlement.status` | automatic refund, manual request, approve, reject, manual completion | Payple cancel; download (`downloaded_at`); settlement sync |
| Content download (`prompts/services/prompt.download.service.ts`) | `Purchase.downloaded_at` | first download of a paid or a free prompt | closes the automatic refund |
| Settlement sync (`settlements/services/settlement-sync.service.ts`) | `Settlement.status`, Redis lock, Redis lastKey | daily job: page through Payple's list, Pending to Succeed | refund flow, payout cycle |
| Payout cycle (`settlements/services/settlement-payout.service.ts`, `settlements/controllers/payout-webhook.controller.ts`) | `SettlementPayout` rows, Redis lock | monthly job per seller, Payple standby and execute, result webhook | reads settlements; Payple Hub |
| Seller account (`settlements/services/`) | `SettlementAccount`, business info, one-time tokens in Redis | account verification, registration, admin approval | payout eligibility |
| Withdrawals and reports (`withdrawals/`, `settlements/*/settlement.history.*`) | `WithdrawRequest` rows | draw earnings by hand; monthly, yearly and pending sums | reads settlements |
| Catalogue (`prompts/`) | `Prompt`, `PromptImage`, `PromptLike` rows, S3 objects | create, edit, delete, images, like, search | purchase price; deletion of sold prompts |
| Accounts (`auth/`, `signup/`, `signin/`, `password/`, `members/`) | users, refresh tokens, codes and tokens in process memory | OAuth callbacks and token routes, sign-up, sign-in, reset, leaving, ban | everything behind a login |
| Profiles (`members/`) | followings, nicknames, introductions, careers, links | follow, edit, list of members | notifications |
| Chat (`chat/`, `socket/`) | rooms, participants, messages, read marks, blocks | open a room, send, read, leave, block, pin | socket broadcast |
| Notifications (`notifications/`) | notifications, subscriptions, check times | listeners, list, anything new | in-process event emitter |
| Desk (`messages/`, `inquiries/`, `reviews/`, `announcements/`, `tips/`, `reports/`) | one or two tables each | create, read, edit, delete, lists by cursor or page | a reply sends a message |
| Statistics (`stats/`, `utils/visitor-tracking.ts`, `utils/user-activity.ts`) | daily snapshots, visitor sets and throttle keys in Redis | cron at midnight and at every start, reports | read-only towards the rest |
| Plumbing (`middlewares/`, `config/`, `utils/`) | none of interest here | JWT check, `isAdmin`, upload, mail | guards of the routes |

What is hard in it, and the property that says it goes right (file and line of
each hazard are in `PROJECT.json`):

- *Three paths bring one result.* The buyer's own call, his browser's redirect
  and Payple's webhook carry the same order and may overlap. One sale must come
  out of it (`LedgerSpec`, `BooksAgree`), and whoever is told "success" must be
  told the truth (`SuccessIsRecorded`).
- *Two orders for one prompt.* A buyer may have several sheets open. A handler
  must not charge a buyer who already owns the prompt (`NoSecondSale`).
- *The money moves before the booking.* Payple captures inside the confirm
  call; then the process may die or the answer be lost. The webhook's
  redelivery is the recovery (`ChargeIsBookedOrDuplicate`), unless the price was
  edited (`ChargeIsBooked`, which the code does not meet) or the prompt deleted
  meanwhile.
- *Prompts are deleted under their orders.* Before the booking by their owner, at any
  time by an admin, with the sales: nothing may book those again (`LedgerSpec`).
- *A refund crosses two systems.* Cancelled at Payple and booked here, or
  neither; and never paid a second time by bank transfer (`PaidBackOnce`,
  refund `BooksAgree`).
- *Several admins.* One decision per request (`OneApproval`, `WorkflowSpec`),
  and no approval that waits unseen (`ApprovedIsVisible`).
- *Downloads race refunds.* The download is looked at before Payple is called
  and not after (`NoAutoRefundOnceOpened`, which the code does not meet).
- *Several servers run one cron.* The Redis lock keeps the payout jobs apart in
  time, not to one run a month; the upsert of the payout row and Payple's
  distinct key must do the rest (`PayoutLedgerSpec`, `NeverOverpaid`,
  `SkippedIsNotPaid`, which the code does not meet).
- *A payout is closed by two hands.* The job's catch block and Payple's webhook
  both write the final status, without looking at it (`StatusTellsTruth`).
- *Earnings are selected by `updated_at`.* Any write to a settlement moves it to
  another month (`NoSaleTwice`).
- *A lock with a time to live, and a cursor that outlives its run.* A sync that is
  slower than its lock deletes another's; one that dies leaves a cursor from which
  the next goes on, if there is a next for that day (`BookSpec`,
  `ResumeSkipsNothing`).
- *Look, then write.* Most handlers look for what forbids their write, and write in
  a later statement: registrations against admin decisions (`AccountIsOwners`,
  `IndividualIsApproved`), withdrawals (`NotOverdrawn`), followings, nicknames,
  careers and subscriptions (`WritesHold`), social logins against bans (`StaysOut`),
  first downloads (`PaidIsKept`).
- *One-time things.* Tokens in Redis with a time to live, tokens in a map of the
  process, a counter per day (`TokenRedeemedOnce`, `TempTokenUsedOnce`,
  `LimitIsDaily`).
- *Reading while others write.* Pages by number, by cursor and by id, a read mark, a
  check time, the last message of a room (`PagesMissNothing`, `NothingGetsLost`,
  `NewIsNoticed`, `LastMessageIsLatest`).
- *Objects outside the database.* Images leave S3 before the transaction that may
  refuse to delete their prompt (`PaidIsKept`).
- *Clocks.* Deadlines, months and snapshot days are cut at midnights, some of Korea
  and some of UTC (`DeadlinesAsPromised`, `ReportsAgree`, `StatsTell`).

## 2. Modules

| Module | Models | Extends or instantiates |
|---|---|---|
| `OrderLedger` | abstract: what the service promises about one order number | |
| `Purchase` | purchase flow | instantiates `OrderLedger` as `Ledger` |
| `PurchaseProofs` | its theorems | `Purchase`, `TLAPS` |
| `MCPurchase` | instances for TLC | `Purchase` |
| `RefundWorkflow` | abstract: what the service promises about one refund | |
| `Refund` | refund flow, first download, settlement of the sale | instantiates `RefundWorkflow` as `Workflow` |
| `RefundProofs` | its theorems | `Refund`, `TLAPS` |
| `MCRefund` | instances for TLC | `Refund` |
| `PayoutLedger` | abstract: what the payout cycle promises about transfers | |
| `PayoutCycle` | monthly payout job, payout rows, Payple transfers and webhook | instantiates `PayoutLedger` as `Ledger` |
| `PayoutProofs` | its theorems | `PayoutCycle`, `DataTheorems` |
| `MCPayoutCycle` | instances for TLC | `PayoutCycle` |
| `SettlementBook` | abstract: what the sync promises about one settlement | |
| `SettlementSync` | daily sync job | instantiates `SettlementBook` as `Book` |
| `SyncProofs` | its theorems | `SettlementSync`, `TLAPS` |
| `SellerVerification` | account check, daily limit, register tokens | |
| `SellerAccount` | registrations, admin decisions, cancellation | |
| `RefundCalendar` | the refund deadlines as dates | |
| `Earnings` | settlement reports, withdrawals | |
| `SettlementServices` | the last five beside each other | `SettlementSync`, `SellerVerification`, `SellerAccount`, `RefundCalendar`, `Earnings` |
| `SettlementProofs` | their theorems, but for the sync's own | `SettlementServices`, `SyncProofs`, `DataTheorems` |
| `MCSettlementServices` | instances for TLC | `SettlementServices` |
| `Requests` | what a controller gets once the middlewares are through | |
| `Pages` | a page of a list that is ordered by id | |
| `Credentials` | e-mail sign-up, password reset, what a sign-in compares | |
| `Membership` | who comes in: social logins, sign-in, ban, deletion, leaving | `Requests` |
| `Profile` | followings, nicknames, careers and links, list of members | `Requests` |
| `Chat` | rooms, messages, socket, paging, read mark | `Pages`, `Requests` |
| `Notices` | events, listeners, subscriptions, the list and "anything new" | `Pages`, `Requests` |
| `Community` | the last five beside each other | `Credentials`, `Membership`, `Profile`, `Chat`, `Notices` |
| `CommunityProofs` | their theorems | `Community`, `DataTheorems` |
| `MCCommunity` | instances for TLC | `Community` |
| `Catalogue` | prompts, images, likes, sales and downloads of them | `Requests` |
| `Lists` | eight lists that are read page after page | `Pages`, `Requests` |
| `Desk` | inquiries and replies, reviews | `Requests` |
| `Statistics` | snapshots, visitors, activity | `Requests` |
| `Marketplace` | the last four beside each other | `Catalogue`, `Lists`, `Desk`, `Statistics` |
| `MarketplaceProofs` | their theorems | `Marketplace`, `DataTheorems` |
| `MCCatalogue` | instances for TLC | `Marketplace` |
| `DataTheorems` | lemmas on sums, least and greatest numbers, pages | `Pages`, `TLAPS` |

The parts of `SettlementServices` and of `Marketplace` share no variable; their
`part` says in the initial state which of them moves.

### Purchase

A `Purchase` row with `amount > 0` and its `Payment` are created by one
transaction and never parted, so the model keeps both under the order number
(`PCD_PAY_OID`): `amount[o]`, `payment[o]`, and `settlement[o]` for the
settlement row. `order[o]` is the order sheet, `pg[o]` what Payple did
(`unpaid`, `certified` = the buyer authenticated, `captured`, `cancelled`).
Running handlers live in slots: `CompleteCalls` for
`completePurchase`, `HookCalls` and `RedirectCalls` for the webhook and the
redirect, which run the same `handlePaypleResult` and differ only in their
answer. `pc[c]` is the await before which the handler stands; `serving`,
`quoted` and `found` are its locals. `offered` has the prompts with a row;
`erased` names the orders whose rows went with their prompt.

| Step | Code |
|---|---|
| `IssueOrder` | `createPurchaseRequest` (two reads, nothing written) |
| `EditPrompt` | `updatePrompt`, price and `is_free` only |
| `DeletePrompt` | `deletePromptRepo`: by the owner, of a prompt without sales |
| `AdminDeletePrompt` | `adminDeletePromptRepo`: any prompt, with the rows of its sales |
| `Begin` | a result of a certified order reaches one of the paths |
| `Lookup` | `findPaymentByOid`; already recorded is success |
| `CheckPrice`, `CheckExisting` | the checks of prompt and price and of an existing purchase, in the order each path makes them |
| `Confirm` | `verifyPayplePayment`: the capture |
| `Recheck`, `CheckPrior` | the second look for a purchase (`/complete`), and whether it is this order's |
| `Record` | the transaction, or the unique index on `pcd_pay_oid`, or the foreign key of a prompt that is gone |
| `Abort` | crash, database error, or Payple's lost answer, at any await |
| `SettleSale`, `RefundSale` | the sync's and the refund flow's effect on the rows |

`verifyPayplePayment` is one action. Its own checks of Payple's answer
(amount, order number) can only refuse; refusing is a branch of `Confirm`.
Capture with a lost answer is `Confirm` followed by `Abort`.

### Refund

The database rows of one paid purchase: `payment`, `settlement`, `refund`
(`Refund.status`), `failCode` (`payple_fail_code` is set), `downloaded`. The
world: `age` (neither deadline passed, the first, both), `pg` (captured or
cancelled), `wired` (an admin returned the money by bank transfer).
`died` and `misled` name the two kinds of history a property excuses.

| Step | Code |
|---|---|
| `AutoRefund`, `AutoCancel`, `AutoBook` | `refundPurchase`: checks, `requestPaypleRefund`, transaction |
| `RequestManualRefund`, `FileRequest` | `requestManualRefund`: checks, create |
| `Approve`, `ApproveCancel`, `ApproveFail`, `ApproveBook` | `approveRefund`: conditional claim, cancellation, fail code or transaction |
| `Reject`, `CompleteManual` | one conditional update; one transaction |
| `Download`, `Stamp` | `getPromptContent`, paid prompt |
| `SettleSale` | `processApproval` of the sync |
| `Tick`, `Wire` | time; the admin's bank transfer (external) |
| `Die` | a run ends at an await |

`PaypleCancel` is `requestPaypleRefund`: Payple cancels, refuses, or cancels
and its answer is lost, which the code reports like a refusal
(`NETWORK_ERROR`).

### PayoutCycle

Months are numbered; `period` is the running one and the job of a month works on
the cycle `period - 1`. Per seller and cycle there is one `SettlementPayout` row
(unique on `user_id`, `cycle_start`): `status` (`none` is no row), `counted` and
`deducted` (the sales in `amount_gross` and `amount_refund`), `net`, `groupKey`.
A sale has its `settlement` status and the month of its last change
(`changedIn`, that is `updated_at`). Payple has `transfer` (what was prepared
under a group key) and `stage` (`waiting`, `executing`, `paid`, `bounced`). An
instance is at the await `pc[i]` with its locals `todo`, `at`, `tally`, `got`.

| Step | Code |
|---|---|
| `SettleSale`, `RefundSale` | `processApproval`, `markPaymentRefunded` on the settlement row |
| `SetEligible` | approval and loss of the account that `findEligibleSellers` asks for |
| `Fire`, `Finish` | `runPayoutCycle`: `SET NX`, list of sellers; `DEL` in `finally` |
| `Aggregate` | `aggregateUnsettledForCycle` and `getCarryOverFromLastPayout` |
| `CreateRow` | `createPendingPayout` (upsert with an empty update), Pending or Skipped |
| `Standby`, `StoreKey`, `Execute` | the three calls in the `try` |
| `MarkFailed` | the `catch` |
| `SellerFails`, `Crash` | the per-seller `catch` of the loop; the process dies |
| `Transfer` | the bank (external) |
| `LockExpires` | the time to live of a dead job's lock is over |
| `HookFind`, `HookUpdate` | `handlePayoutWebhook`: the look for a Pending row; the update by `payout_id` |

The two reads of `Aggregate` are one step: they concern months that are over, so
what may change between them only leaves the month, and rows are written under
the lock. The worth of sales is a constant function `Total` on sets of sales,
of which only additivity is assumed (`TotalAssumption`); `MCPayoutCycle` gives
it as a sum. A call to Payple may be carried out and not answered; both are
branches of the step, and the loss counts as a fault.

A job that works is done within the half an hour its lock lives; the lock of one
that died goes by `LockExpires`, at any time after. Each instance fires once a month,
but at its own time: the second may find the lock taken, or free again. The branch for a seller without a billing key cannot be reached, as
`findEligibleSellers` already asks for one. The webhook's checks of its origin
and of `billing_tran_id` are left out.

Two histories are named so that a property can excuse them: `unsure`, groups
whose execution was carried out but not answered, and `reran`, sellers of whom a
cycle was worked on twice.

### SettlementSync

Per sale its `settlement` (`none`, `Pending`, `Succeed`, `Refunded`), per day the
`cursor` in Redis (`settlement:lastKey:...`), the lock, and per instance its step
`run[i]` with the locals `key` (items gone through), `page`, `last`. Payple's list
of each day is the constant `Statement`; `auth` says whether the partner key is
still accepted. A day number stands for a morning; a run asks for `Yesterday`.

| Step | Code |
|---|---|
| `Fire`, `Release` | `runSettlementSyncJob`: `SET NX EX`, `DEL` in `finally` |
| `ReadKey`, `FetchAuth`, `FetchPage`, `FetchFails`, `PageBudgetSpent`, `PageDone` | `runSettlementSyncForDate` |
| `SkipItem`, `FindSale`, `SettlePending`, `ItemFails` | the item loop and `processApproval` |
| `LockExpires`, `NextMorning`, `RedisFails`, `Die` | the lock's time to live, the cron, failures at any await |
| `BookSale`, `RefundSale` | `completePurchase`, `markPaymentRefunded` |

`finished` (days read to the end) and `excused` (sales whose item failed or was
looked at before they were booked) are for the property only.

### SellerVerification and SellerAccount

`VerifyAccount`, `StartCounter`, `CountInquiry`, `Inquire`, `RecordConsent`,
`IssueToken` are `verifySellerAccount` from await to await, `ConsumeToken` is
`consumeRegisterToken`; `Minute` and `Midnight` let keys expire. `inquired` counts
what `Inquire` sends to Payple, not what the limit lets through; the calls that were
let through and not yet sent at midnight are `overdue`. `SellerAccount`
keeps the one row of each user; `RegisterIndividual ... UpsertIndividual` and
`RegisterBusiness ... CreateBusiness`, `UpdateBusiness` are the two registrations,
`DecideApproval`, `Approve`, `DecideRejection`, `Reject` the admin's two decisions,
`Cancel`, `CancelSeller` the way back. A payload is what a register token carries:
its owner, the kind of seller and the business number. `overtaken` names
users whose row was written by one call while another was between the read of that
row and a decision on it or an update of it.

### RefundCalendar and Earnings

`RefundCalendar` has `getAutoRefundDeadline` and `getManualRefundDeadline` over a
calendar that is given by the lengths of its months, and lets the time of the
purchase run through it; `Refund` takes of it only which deadline has passed.
`Earnings` has the three statements of `requestWithdrawal` and the sums of
`settlement.history.repository.ts` over the same rows. A fee is any number up to
the price, which covers every rounding of `purchases/utils/fee.ts`.

### Requests

A controller sees a user (or `Guest`), whether `isAdmin` lets him through, and
whether the body and the path parameters are valid. Every `...Route` operator is a
controller: its guard on the request, then the service. What is modelled of the
middlewares is this guard.

`Pages` has the two halves of a page of Prisma's: the rows behind a cursor
(`Older`) and the first so many of them (`LatestOf`), as sets of ids.

### Credentials and Membership

`codeMap` and `tempMap` are the maps of `signup.service.ts` and
`password.service.ts`, gone at `ServerRestarts`; `form[f]` is a running handler.
An account comes from a registration or, with no password and no consents, from a
first social login (`SocialAccount`); a reset gives it its first password.
`SendSignupCode`/`MailCode`, `VerifySignupCode`, `Register`/`CreateUser`/
`CreateConsents` and `SendResetCode`, `VerifyResetCode`, `ResetRoute`/`LookUpUser`/
`StorePassword` are the two flows. `Membership` keeps of a `User` row `status`,
`userstatus` and the age of `inactive_date`, and the refresh tokens; `visit[v]` is a
request with the row it has read. Callbacks, token routes, `Login`,
`CompleteSignup`, `Reactivate`, `GenerateTokens`, `Logout`, the admin's three orders
and `DeactivateUser` are actions; passport's strategies are the guards of
`ComesIn`. `expelled` has whom an admin's order put out, until an admin takes him
back or a web login lets him.

### Profile, Chat, Notices

`Profile`: `FollowMember`/`CreateFollow`, `UnfollowMember`/`DeleteFollow`,
`UpdateMember`/`UpdateUser` (nickname), `JoinRoster`, `NameAtSignup` and
`CompleteInitialSetup` (registrations and first social logins, `completeSignup`, the
first set-up: they look for no other's nickname), careers and links with `Check` before `EditEntry`/`DeleteEntry`,
introduction and image, and `GetAllMembers` page after page. `Chat`: a sender is
`SendMessage` (insert, with the room's row shared by the foreign key), `UpdateRoom`
(or `DeadlockVictim`, when two transactions wait for each other), `Broadcast`; the
reader is `JoinRoom`, `DetailRoute`, `LoadPage`, `ResetUnreadCount`, `LeaveRoom`,
with the two queries of the detail side by side. `Notices`: `Emit` puts an event to
its listeners, `CreateNotification` inserts one row, `ListenerFails` ends the loop,
`ProcessRestarts` loses what was under way; a list is `ListRoute` with the three
statements of its check time.

### Catalogue, Lists, Desk, Statistics

`Catalogue` sees a sale as a `Purchase` row that is `free`, `paid`, `approved` (an
admin approved its refund) or `refunded`. `door[d]` is a download between its
awaits (`GetPromptContent`, `FindPurchase`, `StampDownload`; `FindFreePurchase`,
`RecordFreePurchase`; `IncreaseDownload`), `crew[c]` a deletion (`DeleteS3Images`,
then `DeletePromptRepo` or `AdminDeletePromptRepo`; `DeletePromptImage`, then
`DeletePromptImageByOrder`). `Lists` reads one list at a time to its end while rows
are made, changed and deleted by their routes; Prisma's cursor is external. The
search is two lists, one by recency and one (`sorted`) by keys that change while one
reads: likes, views, downloads, the rating, for which the rows come in no order at
all, and filters whose rows an edit changes. Any of the prompts may be on such a
page.
`Desk` has `CreateInquiryReply` in its two inserts and the thirty days of a review.
`Statistics` has a run of the snapshot job in its four statements, started by
`StartInstance` and by `Midnight`, and the throttled update of
`last_active_at`.

## 3. What is checked

### Runs

| Run | Question | Bounds |
|---|---|---|
| `purchase` | all safety properties and the refinement of `OrderLedger` | two orders of one buyer for one prompt, one `/complete` and one webhook slot, two prices, one fault, deletions; 544,584 states |
| `purchase_recovery` | does redelivery book what was charged? | two orders, the same two slots, one price, one fault, deletions; 138,548 states |
| `purchase_price_edit` | the same with a seller who edits the price | one order, one webhook slot: violated |
| `refund` | all safety properties and the refinement of `RefundWorkflow` | one purchase, four runs at a time, two faults; 17,364 states |
| `refund_fail_code` | does a fail code mean that Payple did not cancel? | one purchase, two runs, no fault: violated |
| `refund_after_open` | is there no automatic refund after the first download? | one purchase, two runs, no fault: violated |
| `payout` | all safety properties and the refinement of `PayoutLedger` | one seller, one sale below the minimum and one that reaches it, two instances, two webhooks, two group keys, two cycles, one fault; 481,288 states |
| `payout_rerun` | is a skipped payout never transferred? | the same, no fault: violated |
| `payout_minimum` | is what was skipped carried over? | one instance, no fault: violated |
| `settlement_services` | all properties of the sync, the seller's account, the deadlines, the reports and withdrawals | 291,332 states; see below |
| `community` | all properties of accounts, profiles, chat and notifications | 318,410 states; see below |
| `catalogue` | all properties of prompts, lists, desk and statistics | 584,367 states; see below |

The runs `settlement_services`, `community` and `catalogue` check several modules that share no row (of `User` each has
other columns). In the initial state `part` picks which one moves and the others
stand still, so that the states of the parts are added, not multiplied; nothing is
lost, for no property relates two of them. `Profile`, `Chat`, `Notices`,
`Catalogue`, `Desk` and `Statistics` are split further by groups of operations.
The two groups of `Notices`, which have `following` in common, only differ in whose
handlers move; `Catalogue`'s groups contain whatever writes what they read.

Why the bounds suffice. A purchase hazard needs two handlers, of one order or
of two orders that share buyer and prompt; two orders and two slots (used again
and again) give both. Two prices are what a price comparison can tell apart.
The redirect slot is empty under TLC, because it runs the webhook's function
and a third slot makes millions of states; the proofs cover any number of slots
of each kind. Different buyers or prompts meet in no row. Refunds of
different purchases meet in no row either; four slots let the
automatic refund, a download, a request and an approval overlap. A slot is
free again after its run, so the number of runs is not bounded.

Sellers meet in no payout row, and the job works on them one after the other;
the proofs cover several. Two cycles are what a carry-over and a sale that is
counted in one month and refunded in the next need; two instances and
two webhooks give every overlap of two; two group keys are one per cycle, and
leave one for a transfer that should not be. With the minimum at two, sales
worth one and two give every relation of an amount to the minimum and to zero
that a refund or a debt can make.

Sync: a list of three items on pages of one, more than a run's budget of two pages,
so that a second run has to go on at the cursor; a cancellation between two
approvals; a day with another amount; two instances, of which one may outlive its
lock; two slips (a failed call, item or statement, a dead run). Verification: two
checks of one user (users meet in no key), a limit of two, one midnight. Account:
two users who want the same business number, one of whom registers twice as a
business and once as an individual; two overlapping calls. Calendar: every unit of
every day of two years, one of them a leap year, with a day of eight units of
which Korea is three ahead. Earnings: three sales on both sides of a month's end,
two withdrawals.

Community: one e-mail address, two overlapping forms, two passwords that differ
only by capitals, three tokens; one member with two visits (each request concerns
one row); two users, two slots and two names; two rooms of three users, two
senders, pages of one message and three messages, so that a page is not
the whole; an audience of two with two listeners' events and two readers.

Catalogue: one prompt, as prompts meet in no row, a seller who is approved and a
buyer who is not; two downloads and two purchases at once; one deletion, two images
with two places. Lists: pages of two and four rows, so that rows can go before and
after the cursor while a second page remains. Desk: one inquiry, two replies, two
handlers, a review and its thirty days as one. Statistics: one instance whose run
from its start and whose run from the cron overlap (two instances exceed what TLC
finishes; they would add a third such run), four days with a period of one.

`MaxFaults` bounds handler runs that die (and, in `Refund`, lost
answers); with a bound of one, every await is tried as the place of the fault.
Nothing else is cut off: order numbers run out, which leaves the purchase model
running (price edits go on) until its prompt is deleted, and purchases come to rest in
the refund model, hence `CHECK_DEADLOCK FALSE` in both. In the three runs of several parts, `MaxSlips`,
`MaxNights`, `MaxTokens`, `MaxFollows`, `MaxEntries`, `MaxMessages`, `MaxEvents`,
`MaxSales`, `MaxPictures`, `MaxPosts`, `MaxInquiries`, `MaxReplies`, `MaxReviews`,
`MaxHits` and the last days bound what would grow for ever; each is a named
constant in the guard of the action that makes the row, and where all are used up a
part comes to rest, hence `CHECK_DEADLOCK FALSE`.

### Properties

`Purchase`: `TypeOK`; `BooksAgree` (a booked sale was charged, at the price on
the sheet, and the settlement agrees with the payment about a refund);
`SuccessIsRecorded`; `NoSecondSale` (a step property); `LedgerSpec` (refinement);
`ChargeIsBookedOrDuplicate` (liveness). `Refund`: `TypeOK`; `BooksAgree` (three
rows); `OneApproval`; `ApprovedIsVisible`; `PaidBackOnce`; `WorkflowSpec`
(refinement). `PayoutCycle`: `TypeOK`; `StatusTellsTruth` (row and money);
`NoSaleTwice` (rows of different cycles); `NeverOverpaid` (money and rows);
`PayoutLedgerSpec` (refinement). `SettlementSync`: `ResumeSkipsNothing` (cursor and
rows), `BookSpec` (refinement). `SellerVerification`:
`TokenRedeemedOnce`, `LimitIsDaily`. `SellerAccount`: `AccountIsOwners`,
`IndividualIsApproved`. `RefundCalendar`: `DeadlinesAsPromised` (reference
definition: seven to eight days, three months by the shortest and the longest,
never earlier for who buys later). `Earnings`: `ReportsAgree`, `NotOverdrawn`.
`Credentials`: `TempTokenUsedOnce`, `PasswordOpens`. `Membership`: `StaysOut` (a step
property).
`Profile` and `Notices`: `WritesHold`, `NewIsNoticed`. `Profile` and `Chat`:
`PagesMissNothing`; `Chat`: `LastMessageIsLatest`. `Catalogue`: `PaidIsKept`.
`Lists` and `Desk`: `NothingGetsLost`. `Statistics`: `StatsTell`. `TypeOK` of a run
is the conjunction over its modules.

Where the code leaves a gap, the property names the history that falls into it and
holds for all others; the ghost variables exist for this only:

| Property | Excused | Because |
|---|---|---|
| `SuccessIsRecorded` | `erased` | an admin deletes a prompt with its sales |
| `ChargeIsBookedOrDuplicate` | another purchase; the prompt gone; one price | `/complete` answers 409 after the capture; a redelivery looks for the prompt first; a price edit is finding 1 |
| `ResumeSkipsNothing` | `excused` | an item that failed, or was listed before its sale was booked, is passed and not looked at again |
| `LimitIsDaily` | `overdue`; `stranded` | a call is counted before midnight and sent after it; the counter expires between `SET NX EX` and `INCR` and comes back without a time to live |
| `AccountIsOwners`, `IndividualIsApproved` | `overtaken` | PENDING is read and the status set unconditionally; an update keeps a licence of a row that was replaced |
| `NotOverdrawn` | `overlapped` | two withdrawals sum before either inserts |
| `TempTokenUsedOnce` | `halfway`, `social` | the consents are a statement of their own after the user's insert; a social login asks for none |
| `PasswordOpens` | capitals at registration | the registration hashes what was typed, sign-in and reset its lower case |
| `StaysOut` | `stale`; a month away; the token routes' own looks | a request sets the member active by his id, on a row it read earlier; leaving replaces the admin's mark; Google's and Naver's token routes look at `status`, which no order of an admin clears, Kakao's at nothing |
| `WritesHold` | `overlapped`, `unchecked`, `letGo` | no unique index; registration, social login, `completeSignup` and the first set-up look for no other's nickname, which counts when it was taken; unfollowing leaves the subscription |
| `PagesMissNothing` | `unsent` | a process dies between commit and broadcast |
| `NewIsNoticed` | `slipped`, `buried` | a notification inserted while a list was under way, or on another page of it |
| `NothingGetsLost` | `slips`, `cut`; `unsent` | pages by number shift, a cursor that no longer fits the filter takes the next row with it, a cursor that is gone ends the list, a search that is not by recency alone may lose any row; the message of a reply is inserted after it, and its failure swallowed |
| `PaidIsKept` | several purchases or an approved refund; `raced`; `damaged` | `findFirst` takes any purchase; two first downloads look before either records; the objects go before the transaction |
| `StatsTell` | `spoilt`, no run of the day, `unwritten` | a run across midnight stamps one day and reads another; no instance was up; an update failed |

Each such gap is a hazard with its line in `PROJECT.json`, and the property would
be violated without its excuse.

`NoSecondSale` speaks of the purchases the buyer owned when the handler
*started*, since that is what the code achieves: two handlers of two orders
that overlap can both pass `findExistingPurchase` and both charge. No unique
index on (buyer, prompt) stops them.

`ChargeIsBookedOrDuplicate` has the escape "or the buyer owns the prompt by
another order": `/complete` answers 409 after the capture when the other order
was booked meanwhile, and nothing cancels the charge. And it says nothing of an
order whose prompt is deleted before a redelivery came through: a charged order
without rows does not keep the owner from deleting its prompt, and the redelivery
stops at `if (!prompt)`. No document of the code speaks of that case, so it is
no finding; it is a hazard in `PROJECT.json`.

`StaysOut` is about the logins through a provider. What the two ways in without one
look at is all in their guards: `Login` asks for `status`, `CompleteSignup` for no
more than a row at the address.

`PaidBackOnce` excuses two histories by name. A purchase is in `died` when a
run on it died or a statement failed: the code leaves such a refund APPROVED
and tells an admin to look (`RefundStateSyncFailed`). It is in `misled` when
Payple's answer was lost or when a request was filed while an automatic
refund was at Payple. What remains is that no interleaving of healthy runs,
downloads, decisions and manual completions pays twice.

`StatusTellsTruth` needs no excuse for Succeed. For Failed it excuses `unsure`: when
the execution's answer is lost the job marks the row Failed, the webhook then
finds no Pending row, answers 200 and drops the result, so that a paid
payout stays Failed. `NeverOverpaid` excuses `reran`, which finding 5 explains.
A Failed payout is never tried again and its amount is in no later cycle: this
is what the code does, and no document says otherwise.

### Fairness

Safety is checked without fairness. `FairSpec` of `Purchase` adds, for the recovery
property: weak fairness of each webhook handler's next step (the Node event loop
runs every ready continuation, axios has a time limit and Prisma calls end), and
strong fairness, per order, of the webhook being delivered again while it is not
acknowledged (Payple redelivers until it gets 200; the slot may be busy with another
order's webhook in between, hence strong). Nothing is assumed of `/complete`, of the
redirect, of the seller, or of admins. `Confirm` may refuse a certified order
forever; the property starts at the capture, and this run takes
`RepeatRefused = FALSE`: Payple answers a repeated approval of a captured order as it did the first
time.

### Findings

1. *A price edit locks a charged order out* (`purchase_price_edit`). The
   webhook compares the amount with today's price, before looking at what
   was charged. If a run dies after the capture and the seller edits the price,
   every redelivery ends in 500. `purchases/routes/purchase.webhook.route.ts:20-21`
   promises that the webhook prevents lost results.
2. *A refund that was made is booked as not made* (`refund_fail_code`). With
   no fault at all: an automatic refund is at Payple, the buyer opens the prompt
   and files a request, the refund's transaction finds the REQUESTED row and
   returns it, payment and settlement keep `Succeed`. An approval is then
   refused by Payple and gets a fail code, on which admins wire the money:
   the double refund `refunds/services/admin-refund.service.ts:171-172` warns of.
3. *A refund after the first download* (`refund_after_open`).
   `prompts/services/prompt.download.service.ts:46` says no refund is possible
   from the first download on; `refundPurchase` looks before the Payple call only.
4. *What is below the minimum is lost* (`payout_minimum`).
   `settlements/services/settlement-payout.service.ts:10` says that it is skipped
   and carried over. Only a negative amount is carried over.
5. *A second run pays a skipped cycle* (`payout_rerun`). With no fault: an
   instance whose cron fires after another's job has ended takes the lock and
   works through the cycle again. The debt to carry over is read from the latest
   row, which now is the cycle's own. Where the first run skipped the cycle
   because a debt ate the earnings, the second reads no debt (or a smaller one),
   gets the Skipped row back from the upsert and has Payple pay.
   `settlements/repositories/settlement-payout.repository.ts:20` and `:55` say
   that the carry-over is the previous cycle's and that a cycle is made once.

Four more were met on the way and have no run of their own. A sale that is settled
and refunded within one month is deducted from that month's payout though no payout
ever counted it (`aggregateUnsettledForCycle` takes every Refunded row of the
month); the seller loses its amount once. And the webhook of an order
that was refunded meanwhile is not recognised as processed (only `Succeed`
counts), is confirmed again and ends in 500 at the unique index, where
`purchases/routes/purchase.webhook.route.ts:26` promises an idempotent 200. No
money is involved: the ledger refinement shows that it books nothing.
`settlements/utils/payple.ts:82` says that `SET NX EX` removes the race from the
daily limit; `SET` and `INCR` are two calls, the key lives to midnight and may
expire between them, and `INCR` makes it anew without a time to live: once it is
over the limit, its user is told to try tomorrow for good (`stranded` in
`SellerVerification`). And
`settlements/services/settlement-sync.service.ts:17` says that at the page limit the
cursor is kept and the next cron goes on from it; the job runs once a day and asks
for yesterday, the cursor is kept under its date, so the next cron asks for another
one, and unless another instance's cron fires later in the same morning the
approvals past the limit stay Pending.

## 4. What is proved

Every theorem holds for every value of the constants; what it assumes of them is
named in the module that declares them, and TLC evaluates it on every run:

- purchase, refund: any orders, buyers, prompts, prices and slots and any fault
  bound; the slots of the three paths are disjoint, `NoOrder` and `NoPurchase` are no
  orders, sheets or purchases, prices are positive;
- payouts: any sellers, sales, instances, webhooks, group keys and months, and any
  additive worth of the sales;
- sync: any lists, pages and budgets; seller's account: any payloads, limits and
  times to live;
- earnings: any finite set of sales with a price and a fee up to it, over any months
  that follow each other; deadlines: any number of months of 28 to 31 days in which
  three in a row have 89 to 92, any offset of the time zone within a day;
- credentials: any addresses, passwords and policy, where what is accepted in lower
  case is as good as typed; members, profiles, chat, notifications: any users,
  rooms, names, slots, page sizes and bounds;
- catalogue, desk: any users, prompts, prices, slots and bounds; lists: any page size
  and any number of rows; statistics: any prompts, visitors, instances, buckets, and
  any period that is shorter than the retention.

| Module | Theorem | States |
|---|---|---|
| `PurchaseProofs` | `TypeCorrect` | `Spec => []TypeOK` |
| | `BooksAlwaysAgree` | `Spec => []BooksAgree` |
| | `SuccessAlwaysRecorded` | `Spec => []SuccessIsRecorded` |
| | `NoSecondSaleHolds` | `Spec => NoSecondSale` |
| | `ImplementsLedger` | `Spec => LedgerSpec` |
| `RefundProofs` | `TypeCorrect` | `Spec => []TypeOK` |
| | `BooksAlwaysAgree` | `Spec => []BooksAgree` |
| | `OneApprovalAlways` | `Spec => []OneApproval` |
| | `ApprovedAlwaysVisible` | `Spec => []ApprovedIsVisible` |
| | `PaidBackOnceAlways` | `Spec => []PaidBackOnce` |
| | `ImplementsWorkflow` | `Spec => WorkflowSpec` |
| `PayoutProofs` | `TypeCorrect` | `Spec => []TypeOK` |
| | `SaleCountsOnce` | `Spec => []NoSaleTwice` |
| | `StatusAlwaysTellsTruth` | `Spec => []StatusTellsTruth` |
| | `ImplementsPayoutLedger` | `Spec => PayoutLedgerSpec` |
| | `NobodyOverpaid` | `Spec => []NeverOverpaid` |
| `SyncProofs` | `SyncTypes` | `SyncSpec => []SyncTypeOK` |
| | `NothingSkipped` | `SyncSpec => []ResumeSkipsNothing` |
| | `SyncImplementsBook` | `SyncSpec => BookSpec` |
| `SettlementProofs` | `AccountsAreOwners` | `SellerSpec => []AccountIsOwners` |
| | `IndividualsAreApproved` | `SellerSpec => []IndividualIsApproved` |
| | `TokensRedeemedOnce` | `VerifySpec => []TokenRedeemedOnce` |
| | `InquiriesAreLimited` | `VerifySpec => []LimitIsDaily` |
| | `NeverOverdrawn` | `EarningsSpec => []NotOverdrawn` |
| | `ReportsAlwaysAgree` | `EarningsSpec => []ReportsAgree` |
| | `DeadlinesAlwaysAsPromised` | `CalendarSpec => []DeadlinesAsPromised` |
| | `SettlementTypes` | `Spec => []TypeOK` |
| `CommunityProofs` | `TokensUsedOnce` | `CredSpec => []TempTokenUsedOnce` |
| | `PasswordsOpen` | `CredSpec => []PasswordOpens` |
| | `CommunityTypes` | `CommunitySpec => []TypeOK` |
| | `StaysOutAlways` | `MemberSpec => StaysOut` |
| | `WritesAlwaysHold` | `ProfileSpec /\ NoticeSpec => []WritesHold` |
| | `PagesNeverMiss` | `ProfileSpec /\ ChatSpec => []PagesMissNothing` |
| | `LastAlwaysLatest` | `ChatSpec => []LastMessageIsLatest` |
| | `NewAlwaysNoticed` | `NoticeSpec => []NewIsNoticed` |
| `MarketplaceProofs` | `CatalogueTypes` | `CatalogueSpec => []CatalogueTypeOK` |
| | `PaidIsAlwaysKept` | `CatalogueSpec => []PaidIsKept` |
| | `NothingEverGetsLost` | `ListSpec /\ DeskSpec => []NothingGetsLost` |
| | `StatsAlwaysTell` | `StatSpec => []StatsTell` |
| | `MarketTypes` | `Spec => []TypeOK` |
| | `PartsRunBeside` | `Spec => CatalogueSpec /\ ListSpec /\ DeskSpec /\ StatSpec` |

Every invariant and action property the passing runs check is the subject of a
theorem.

**Purchase.** `TypeOK` alone is not inductive: a handler indexes arrays with the
order it serves. `TypeInv` adds that a running handler serves an issued order
(`ServingInv`) and that Payple only knows issued orders (`IssuedInv`). `BooksAgree`
needs to know what `Record` writes: `HandlerInv` says that behind the price
check `quoted` is the sheet's total, and behind `Confirm` the order is
charged; `NoRowInv` that an order without payment has no amount, `ErasedInv` that
an order whose rows went with its prompt is never booked again. For
`NoSecondSale`, `OwnedInv` relates what a handler has passed to
what its buyer owned at the start: behind the existence check, every purchase
that was there then has been refunded since (a payment never returns to
`Succeed`). The implementation proof takes each action to the step of
`OrderLedger` it performs, or to a stutter.

**Refund.** `IInv` conjoins the checked invariants with `FileInv` (a
request is filed for an opened purchase), `RowInv` (what the refund row may be
while an approval is at work) and `PaidInv` (which makes `PaidBackOnce`
inductive: a cancellation is known to the books, or somebody is on the way to
record it, unless the purchase is excused). `WorkflowSpec` follows step by step
from `IInv`.

**PayoutCycle.** `TypeInv` adds to the types that whoever is at work holds the
lock and has a seller, and a group once Payple answered (`JobInv`); hence
no two instances are at work at once (`OneWorker`). `SaleInv` ties a
counted sale to its row by the month of the sale's last change, which holds
until it is refunded (`CountInv`); since a refund may fall between the job's
read and its write, `FreshInv` says that what is read is in no other row.
`PayInv` follows a payout from the row through the distinct key
(`UniqueInv`) and the group key (`KeyInv`) to the webhook (`HookInv`), with what
the job may rely on before each call (`WorkInv`) and what it may rely on
only when the cycle is worked on for the first time (`FreshRowInv`). The
refinement follows from `PayInv`: `RowsStay` says what happens to the rows,
`PaidOrSame` that only the bank adds a payment. `NeverOverpaid` compares what was
paid with the worth of sales, which says nothing of a transfer on its way:
`MoneyInv` says that for a seller whose cycle was not rerun, all that was ever
prepared for him less the debt of his last row is at most his books, the worth of
the sales counted less that of the sales deducted (`DueInv`), and still is once the
transfer about to be prepared is added (`ComingInv`); `NetInv` says how the job
computed that one. A refund meanwhile touches no row, so it leaves the books alone;
what was paid is part of what was prepared.

**SettlementSync.** `ResumeSkipsNothing` speaks of the cursor in Redis and of days
read to the end, a run writes them from its locals: `RunsInv` says that everything
before a run's own place `key[i]` has been dealt with, and that a row about to be
settled is an approval of our amount (which the refinement needs); `CursorsInv`
that the cursor stays inside its list. Other runs, refunds and bookings only ever
help: what has been dealt with stays so.

**SellerAccount, SellerVerification.** `LocalsInv` says for whom and with which
payload a call works, `ReadsInv` that the business row a decision or update has read
is still there or its user overtaken, `RowsInv` is the checked invariant per row.
`TokenInv` ties the life of a token to the longer one of its mark in Redis,
`CounterInv` what was sent on a day, together with what was let through and still
waits, to the counter and to what is overdue from the day before.

**Earnings, RefundCalendar.** `AloneInv`: as long as no two withdrawals overlapped,
one at most is under way, its second sum is what is drawn, and its first is at most
what was earned, which only a sale raises. `ReportsAgree` needs no invariant but the
types: the three reports are sums over the same rows, cut by status, by month and by
the end of a year, and each cut is a partition (`SumDisjoint`, `SumParts`). For the
deadlines, the Korean day of a time and its end are bounded by whole days (`KstDay`,
`NextKstDay`, `EndOfDay`), the first days of months grow with the months, and the
day of a date three months on is bounded from both sides (`ClampedSpan`) and never
falls behind that of an earlier date (`ClampedGrows`).

**Credentials.** `TokenInv`: a token is in one place, a map, the hands of one
handler, or used; since nothing is awaited between the lookup in the map and its
deletion, it leaves the map into one pair of hands. `PasswordInv` relates what is
stored to what was typed, `StoreInv` says that a reset stores for who is registered.

**Membership, Profile, Chat, Notices.** `VisitInv` says of each step of a request
what the row it has read may have become: it is as read, or the visit is marked
`stale`; hence a callback that revives works for who had left a month ago.
`ExpelledInv` says that whom an admin has expelled keeps the mark of it in
`userstatus`, on which `StaysOut` rests.
`EntryInv` numbers the rows, so that no later row has the id that a handler has
checked; `FollowInv` and `NameInv` say that a handler that nobody overtook still
finds no such row and no such name (`NicknameGiven` treats the names that are given
without a look); `RosterInv` says that a list of members has
shown everybody up to its cursor. In `Chat`, `IdInv` ties ids to the AUTO_INCREMENT,
and says that a message under way is later than all its room has, so that the holder
of the lock writes the latest one (`LastInv`); `ShownInv` says of every message
where it is: on the screen, on a page not yet loaded, in a broadcast on its way, or
before the reader's return; `MarkInv` that the read mark, and what the detail is
about to mark, is covered by the screen. In `Notices`, `NewInv` is the property of
each user's own check time, and `ListingInv` what it will be when a list under way
is through: its rows and its check time were read at different times, and what came
between is the property's `slipped`.

**Catalogue.** `SaleInv` numbers the purchases and says that a charged one has a
settlement (is not free), so that the foreign key keeps it from the owner's
deletion; `DoorInv` that a download about to record a free prompt has seen
every record of it or is marked `raced`; `PictureInv` that an address in two rows
was sent twice. That a refused buyer with a payment has two purchases or an
approved refund is a lemma of its own (`RefusedPaid`), which counts the entries of
the download list (`SeveralPurchases`).

**Lists.** What one has missed (`Missed`) is not a matter of the last page: it is
every row that is still due and lies before the place one has reached, and every row
that was overtaken onto a page one had turned. `ListInv` bounds its size by the
slips that the model counts, those changes of rows that the code cannot shield a
list from; a page leaves nothing between its rows and the place it moves to
(`PageOf`), and a list paged by number moves by one at most for each row that leaves
it (`CountOneMore`). Of a search that is not by recency nothing is claimed: it is
`cut` from its start. At the end everything due was shown or missed, so
`ListsMissNothing`.

**Desk.** `DeskInv`: every reply's letter was sent to who asked, or is in the hands
of the handler that made it, or failed and is known to have failed.

**Statistics.** `SnapInv` says that a run is for the day it was due and is about to
insert what the counters were on it (`RunInv`), that a begun day has been covered,
or a run for it was spoilt or is still to insert (`BegunInv`), and that a covered
day within the retention, which is longer than the period of the popular prompts,
has a snapshot of every prompt that is older (`CoverInv`). `ClockInv`: the key that
mutes the updates of `last_active_at` outlives an update that was due by the
throttle at most.

**Data.** The library's induction theorems cannot be used, since they take an
operator. `DataTheorems` gets by with the least element of a nonempty set of
naturals and the set of the numbers for which something has been shown: the least
one missing would have a predecessor that is not (`NumberInduction`,
`SubsetInduction`). So a sum over a finite set is a number and splits along a
partition, a finite set of numbers has a least and a greatest element, and the first
`n` rows of a list precede the others and are all of it when there are no more. What
a RECURSIVE operator computes remains out of reach; the models have none.

**Composition.** The invariants of the parts do not mention each other, so
`MarketInv` and `SettlementInv` are conjunctions, and `PartsRunBeside` makes every
theorem of a part one about the whole, whichever part moves.

Only model-checked: `ChargeIsBookedOrDuplicate`, which promises that something happens; the prover has no reasoning about fairness, ENABLED and
leads-to to rest them on. The properties of the runs that expect a violation are, of
course, no theorems.

## 5. What is abstracted and what is left out

Abstracted:

- Contents, wording, formats, logging. A request is valid or not; prompts have a
  price and `is_free`, messages an identity.
- `createPurchaseRequest` makes its two reads in one step: it writes nothing,
  and later steps check again.
- A `Purchase` row of `Catalogue` is a summary of what `Purchase` and `Refund` do in
  detail; no run composes the three.
- The sync's effect on one settlement in `Purchase`, `Refund` and `PayoutCycle` is
  the one update `SettlePending` of `SettlementSync`.
- Times to live count in ticks; that a token's mark outlives it is part of the
  model, the numbers are not.

Left out:

- Purchase queries and the redirect page: read-only, or an answer to a browser.
- The fee as a function of the price (`purchases/utils/fee.ts`): one rounding; the
  models take any fee up to the price.
- The deletion of a prompt by an admin while a refund or a payout of it is under
  way: `Purchase` and `Catalogue` have the deletion, `Refund` and `PayoutCycle` not.
- The payout webhook's check of its origin: stateless.
- The check of a prompt's categories and models, whose failure rolls the
  transaction back; related authors of a search; averages of ratings; top sales and
  members by provider: one query each, with nothing to interleave.
- The upload of a business licence and of chat attachments (objects that nothing
  refers to yet), mail, masking, Swagger, error formatting, configuration.

Met on the way and excused by name above, rather than reported as findings, since no
document says otherwise: the password that was registered with capitals, the
withdrawal of refunded earnings, the second withdrawal that overlaps, the images of a prompt whose deletion is refused.

## 6. Plan

Done: the purchase and refund flows, the payout cycle, the sync, the
seller's account, deadlines, reports and withdrawals, accounts, profiles, chat,
notifications, catalogue, lists, desk and statistics. Open, in this order:

1. A composition of `Purchase`, `Refund` and `PayoutCycle` over the shared rows:
   a seller is not paid for a sale that was returned before the cycle, with its
   invariant proved.
2. The fee as a function of its own, with lemmas for every price.
3. Two instances in `Statistics` under TLC, once their state space is reduced; the
   theorem has any number of them already.
