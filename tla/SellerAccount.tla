---------------------------- MODULE SellerAccount ----------------------------
(***************************************************************************)
(* The SettlementAccount row of a seller (src/settlements).  A register    *)
(* token from SellerVerification makes an individual an approved seller at *)
(* once, while a business is put up for an admin's approval; either may be *)
(* replaced by the other, which deletes the row and makes a new one.       *)
(* Admins approve, reject and cancel.  Handlers are split at their awaits, *)
(* and may fail or die at any of them.                                     *)
(***************************************************************************)
CONSTANTS
  Users, Numbers,  \* business registration numbers
  Payloads,        \* register tokens, each good for one registration
  OwnerOf,         \* RegisterTokenPayload.userId
  KindOf,          \* RegisterTokenPayload.sellerType
  NumberOf,        \* RegisterTokenPayload.businessNumber, if he gave one
  Calls,           \* slots for running handlers
  Nobody, NoNumber, NoToken, NoAccount

ASSUME SellerAssumption ==
  /\ OwnerOf \in [Payloads -> Users]
  /\ KindOf \in [Payloads -> {"INDIVIDUAL", "BUSINESS"}]
  /\ NumberOf \in [Payloads -> Numbers \cup {NoNumber}]
  /\ Nobody \notin Users /\ NoNumber \notin Numbers /\ NoToken \notin Payloads

\* "from" is the payload whose bank details the row has.
Accounts == [seller : {"INDIVIDUAL", "BUSINESS"}, status : {"APPROVED", "PENDING", "REJECTED"},
             active : BOOLEAN, number : Numbers \cup {NoNumber},
             license : Users \cup {Nobody}, from : Payloads]

ASSUME NoAccountAssumption == NoAccount \notin Accounts

VARIABLES
  account,    \* SettlementAccount of a user
  selling,    \* users with prompts on sale
  unspent,    \* tokens not yet redeemed
  at,         \* the await before which a handler stands
  user, token, licence,  \* its locals; a licence key is its owner's prefix
  overtaken   \* for the properties: users whose registration was replaced
              \* while a decision on it or an update of it was under way

callVars   == <<at, user, token, licence>>
sellerVars == <<account, selling, unspent, callVars, overtaken>>

Awaits == {"idle", "individual", "dropBusiness", "upsert", "business", "dropIndividual",
           "create", "update", "approve", "reject", "cancel"}

SellerTypeOK ==
  /\ account \in [Users -> Accounts \cup {NoAccount}]
  /\ selling \in SUBSET Users
  /\ unspent \in SUBSET Payloads
  /\ at \in [Calls -> Awaits]
  /\ user \in [Calls -> Users \cup {Nobody}]
  /\ token \in [Calls -> Payloads \cup {NoToken}]
  /\ licence \in [Calls -> Users \cup {Nobody}]
  /\ overtaken \in SUBSET Users

SellerInit ==
  /\ account = [u \in Users |-> NoAccount]
  /\ selling = Users
  /\ unspent = Payloads
  /\ at = [c \in Calls |-> "idle"]
  /\ user = [c \in Calls |-> Nobody]
  /\ token = [c \in Calls |-> NoToken]
  /\ licence = [c \in Calls |-> Nobody]
  /\ overtaken = {}

Has(u)  == account[u] # NoAccount
Row(c)  == account[user[c]]
Await(c, s) == at' = [at EXCEPT ![c] = s] /\ UNCHANGED <<user, token, licence>>

Enter(c, s, u, t, owner) ==
  /\ at[c] = "idle"
  /\ at' = [at EXCEPT ![c] = s]
  /\ user' = [user EXCEPT ![c] = u]
  /\ token' = [token EXCEPT ![c] = t]
  /\ licence' = [licence EXCEPT ![c] = owner]

\* The locals of a handler that is over are forgotten.
Leave(c) ==
  /\ at' = [at EXCEPT ![c] = "idle"]
  /\ user' = [user EXCEPT ![c] = Nobody]
  /\ token' = [token EXCEPT ![c] = NoToken]
  /\ licence' = [licence EXCEPT ![c] = Nobody]

\* A statement fails, or the process dies.
Break(c) == at[c] # "idle" /\ Leave(c) /\ UNCHANGED <<account, selling, unspent, overtaken>>

\* Call c writes a row while another's decision on it, or update of it, is
\* between its read and its write.
NoteOvertaken(c) ==
  overtaken' = IF \E d \in Calls \ {c} : /\ at[d] \in {"approve", "reject", "update"}
                                         /\ user[d] = user[c]
                 THEN overtaken \cup {user[c]} ELSE overtaken
-----------------------------------------------------------------------------
(* register/individual                                                      *)

\* The payload has to be the caller's and of the right kind.
FitsIndividual(u, t) == OwnerOf[t] = u /\ KindOf[t] = "INDIVIDUAL"

\* The token is spent first, also when it then turns out not to fit.
RegisterIndividual(c, u, t) ==
  /\ at[c] = "idle"
  /\ t \in unspent
  /\ unspent' = unspent \ {t}
  /\ IF FitsIndividual(u, t) THEN Enter(c, "individual", u, t, Nobody) ELSE UNCHANGED callVars
  /\ UNCHANGED <<account, selling, overtaken>>

\* findAccountByUserId: a business registration has to go first.
FindIndividual(c) ==
  /\ at[c] = "individual"
  /\ Await(c, IF Has(user[c]) /\ Row(c).seller = "BUSINESS" THEN "dropBusiness" ELSE "upsert")
  /\ UNCHANGED <<account, selling, unspent, overtaken>>

\* deleteAccountByUserId, which throws when there is no row.
DropAccount(c, next) ==
  /\ IF Has(user[c]) THEN Await(c, next) ELSE Leave(c)
  /\ account' = [account EXCEPT ![user[c]] = NoAccount]
  /\ NoteOvertaken(c)
  /\ UNCHANGED <<selling, unspent>>

DropBusiness(c) == at[c] = "dropBusiness" /\ DropAccount(c, "upsert")

\* upsertIndividualAccount: approved and active at once.
UpsertIndividual(c) ==
  /\ at[c] = "upsert"
  /\ account' = [account EXCEPT ![user[c]] =
       [seller |-> "INDIVIDUAL", status |-> "APPROVED", active |-> TRUE,
        number |-> NoNumber, license |-> Nobody, from |-> token[c]]]
  /\ NoteOvertaken(c)
  /\ Leave(c)
  /\ UNCHANGED <<selling, unspent>>
-----------------------------------------------------------------------------
(* register/business                                                        *)

FitsBusiness(u, t) ==
  OwnerOf[t] = u /\ KindOf[t] = "BUSINESS" /\ NumberOf[t] # NoNumber

\* Mutant: the key of anybody's licence will do.
AnyLicense(owner, u) == TRUE

\* normalizeBusinessLicenseObjectKey: a key under the caller's own prefix.
OwnLicense(owner, u) == owner = u

\* A licence key may be left out; it is looked at before the token is spent.
RegisterBusiness(c, u, t, owner) ==
  /\ at[c] = "idle"
  /\ owner # Nobody => OwnLicense(owner, u)
  /\ t \in unspent
  /\ unspent' = unspent \ {t}
  /\ IF FitsBusiness(u, t) THEN Enter(c, "business", u, t, owner) ELSE UNCHANGED callVars
  /\ UNCHANGED <<account, selling, overtaken>>

\* findAccountByBusinessNumber: somebody else has the number.
NumberTaken(n, u) == \E v \in Users \ {u} : Has(v) /\ account[v].number = n

\* The reads that choose between a new row, a replaced one and an update.
FindBusiness(c) ==
  /\ at[c] = "business"
  /\ LET update == Has(user[c]) /\ Row(c).seller = "BUSINESS" IN
       IF NumberTaken(NumberOf[token[c]], user[c]) \/ (~ update /\ licence[c] = Nobody)
         THEN Leave(c)
         ELSE Await(c, IF update THEN "update"
                       ELSE IF Has(user[c]) THEN "dropIndividual" ELSE "create")
  /\ UNCHANGED <<account, selling, unspent, overtaken>>

DropIndividual(c) == at[c] = "dropIndividual" /\ DropAccount(c, "create")

Submission(c, owner) ==
  [seller |-> "BUSINESS", status |-> "PENDING", active |-> FALSE,
   number |-> NumberOf[token[c]], license |-> owner, from |-> token[c]]

\* business_number is unique; the write throws.
NumberFree(c) == ~ NumberTaken(NumberOf[token[c]], user[c])

\* createBusinessAccount; user_id is unique too.
CreateBusiness(c) ==
  /\ at[c] = "create"
  /\ account' = IF ~ Has(user[c]) /\ NumberFree(c)
                  THEN [account EXCEPT ![user[c]] = Submission(c, licence[c])] ELSE account
  /\ NoteOvertaken(c)
  /\ Leave(c)
  /\ UNCHANGED <<selling, unspent>>

\* A new licence, or the one the row has.
LicenseToKeep(c) == IF licence[c] = Nobody THEN Row(c).license ELSE licence[c]

\* updateBusinessAccountForApproval: the row as it is now, to be approved anew.
UpdateBusiness(c) ==
  /\ at[c] = "update"
  /\ account' = IF Has(user[c]) /\ NumberFree(c)
                  THEN [account EXCEPT ![user[c]] = Submission(c, LicenseToKeep(c))] ELSE account
  /\ NoteOvertaken(c)
  /\ Leave(c)
  /\ UNCHANGED <<selling, unspent>>
-----------------------------------------------------------------------------
(* Admins (admin-seller.service.ts).                                        *)

\* Mutant: a decision is taken on any registration.
PendingAnything(u) == Has(u)

\* findPendingBusinessSellerByUserId
PendingBusiness(u) == Has(u) /\ account[u].seller = "BUSINESS" /\ account[u].status = "PENDING"

\* findPendingBusinessSellers and findApprovedSellers: the lists of the admins.
PendingSellers        == {u \in Users : PendingBusiness(u)}
ApprovedSellers(kind) == {u \in Users : Has(u) /\ account[u].seller = kind
                                              /\ account[u].status = "APPROVED"}

\* approvePendingBusinessSeller, for one of the list, still pending when read ...
DecideApproval(c, u) ==
  /\ u \in PendingSellers
  /\ Enter(c, "approve", u, NoToken, Nobody)
  /\ UNCHANGED <<account, selling, unspent, overtaken>>

\* ... and rejectPendingBusinessSeller.
DecideRejection(c, u) ==
  /\ u \in PendingSellers
  /\ Enter(c, "reject", u, NoToken, Nobody)
  /\ UNCHANGED <<account, selling, unspent, overtaken>>

\* updateBusinessSellerStatus: by user, whatever the row is by now.
SetStatus(c, status) ==
  /\ account' = IF ~ Has(user[c]) THEN account
                ELSE [account EXCEPT ![user[c]].status = status,
                                     ![user[c]].active = (status = "APPROVED")]
  /\ Leave(c)
  /\ UNCHANGED <<selling, unspent, overtaken>>

Approve(c) == at[c] = "approve" /\ SetStatus(c, "APPROVED")
Reject(c)  == at[c] = "reject"  /\ SetStatus(c, "REJECTED")

\* findApprovedSellerAnyType
Approved(u) == Has(u) /\ account[u].status = "APPROVED"

\* cancelSeller: an approved seller of either type ...
Cancel(c, u) ==
  /\ Approved(u)
  /\ Enter(c, "cancel", u, NoToken, Nobody)
  /\ UNCHANGED <<account, selling, unspent, overtaken>>

\* ... whose prompts go off sale and whose row goes, in one transaction.
CancelSeller(c) ==
  /\ at[c] = "cancel"
  /\ account' = [account EXCEPT ![user[c]] = NoAccount]
  /\ selling' = IF Has(user[c]) THEN selling \ {user[c]} ELSE selling
  /\ NoteOvertaken(c)
  /\ Leave(c)
  /\ UNCHANGED unspent
-----------------------------------------------------------------------------
CallStep(c) ==
  \/ Break(c)
  \/ FindIndividual(c) \/ DropBusiness(c) \/ UpsertIndividual(c)
  \/ FindBusiness(c) \/ DropIndividual(c) \/ CreateBusiness(c) \/ UpdateBusiness(c)
  \/ Approve(c) \/ Reject(c) \/ CancelSeller(c)

CallStart(c, u) ==
  \/ \E t \in Payloads : RegisterIndividual(c, u, t)
  \/ \E t \in Payloads, o \in Users \cup {Nobody} : RegisterBusiness(c, u, t, o)
  \/ DecideApproval(c, u) \/ DecideRejection(c, u) \/ Cancel(c, u)

SellerNext == \E c \in Calls : CallStep(c) \/ \E u \in Users : CallStart(c, u)

SellerSpec == SellerInit /\ [][SellerNext]_sellerVars
-----------------------------------------------------------------------------
(* Properties.                                                              *)

\* What the shop pays to was verified for its owner as what he registered; the
\* licence an admin looks at is his own, and there is one unless the row was
\* replaced under an update that meant to keep it; only an approved account is
\* active.  Rows are replaced, updated and decided on by overlapping calls.
AccountIsOwners ==
  \A u \in Users : Has(u) =>
    LET a == account[u] IN
      /\ OwnerOf[a.from] = u
      /\ KindOf[a.from] = a.seller
      /\ a.license # u => a.license = Nobody /\ (a.seller = "BUSINESS" => u \in overtaken)
      /\ a.seller = "BUSINESS" <=> a.number # NoNumber
      /\ a.active <=> u \in ApprovedSellers("INDIVIDUAL") \cup ApprovedSellers("BUSINESS")

\* An individual is never rejected or left pending, unless an admin decided on
\* the business registration that he was replacing at that moment.
IndividualIsApproved ==
  \A u \in Users : Has(u) /\ account[u].seller = "INDIVIDUAL" =>
    account[u].status = "APPROVED" \/ u \in overtaken
=============================================================================
