--------------------------- MODULE SettlementProofs ---------------------------
(***************************************************************************)
(* Proofs about the smaller parts of src/settlements: SellerAccount and    *)
(* SellerVerification for any number of users, registrations and           *)
(* overlapping handlers, Earnings for any sales, RefundCalendar for every  *)
(* calendar like ours, and their composition.  SyncProofs has the sync.    *)
(***************************************************************************)
EXTENDS SettlementServices, SyncProofs, DataTheorems, TLAPS

(* Seller accounts and their verification.                                  *)

Registering(c) == at[c] \in {"individual", "dropBusiness", "upsert"}
Submitting(c)  == at[c] \in {"business", "dropIndividual", "create", "update"}

\* Whom a handler works for and with what.
LocalsInv ==
  \A c \in Calls : at[c] # "idle" =>
    /\ user[c] \in Users
    /\ Registering(c) => token[c] \in Payloads /\ FitsIndividual(user[c], token[c])
    /\ Submitting(c) => /\ token[c] \in Payloads /\ FitsBusiness(user[c], token[c])
                        /\ licence[c] \in {user[c], Nobody}
    /\ at[c] \in {"dropIndividual", "create"} => licence[c] = user[c]

\* The business row read for an update or a decision is still there, or the
\* user counts as overtaken.
ReadsInv ==
  \A c \in Calls : at[c] \in {"update", "approve", "reject"} =>
    user[c] \in overtaken \/ (Has(user[c]) /\ Row(c).seller = "BUSINESS")

\* One row, with its owner.
RowOK(u) ==
  Has(u) =>
    /\ OwnerOf[account[u].from] = u
    /\ KindOf[account[u].from] = account[u].seller
    /\ account[u].license # u =>
         /\ account[u].license = Nobody
         /\ account[u].seller = "BUSINESS" => u \in overtaken
    /\ account[u].seller = "BUSINESS" <=> account[u].number # NoNumber
    /\ account[u].active <=> account[u].status = "APPROVED"
    /\ account[u].seller = "INDIVIDUAL" => account[u].status = "APPROVED" \/ u \in overtaken

RowsInv == \A u \in Users : RowOK(u)

SellerInv == SellerTypeOK /\ LocalsInv /\ ReadsInv /\ RowsInv
-----------------------------------------------------------------------------
LEMMA SellerInitInv == SellerInit => SellerInv
PROOF
  BY DEF SellerInit, SellerInv, SellerTypeOK, Awaits, LocalsInv, ReadsInv, RowsInv, RowOK, Has,
         Registering, Submitting

\* The locals of the handlers, when one of them goes on, ends or begins.
LEMMA AwaitLocals ==
  ASSUME SellerInv, NEW c \in Calls, NEW s \in Awaits, at[c] # "idle", Await(c, s),
         s \in {"dropBusiness", "upsert"} => Registering(c),
         s = "update" => Submitting(c),
         s \in {"dropIndividual", "create"} => Submitting(c) /\ licence[c] = user[c],
         s \notin {"individual", "business"}
  PROVE  LocalsInv' /\ at' \in [Calls -> Awaits]
PROOF
  BY DEF Await, SellerInv, SellerTypeOK, Awaits, LocalsInv, Registering, Submitting

LEMMA LeaveLocals ==
  ASSUME SellerInv, NEW c \in Calls, Leave(c)
  PROVE  /\ LocalsInv' /\ at' = [at EXCEPT ![c] = "idle"]
         /\ at' \in [Calls -> Awaits] /\ user' \in [Calls -> Users \cup {Nobody}]
         /\ token' \in [Calls -> Payloads \cup {NoToken}]
         /\ licence' \in [Calls -> Users \cup {Nobody}]
         /\ \A d \in Calls : at'[d] # "idle" => at'[d] = at[d] /\ user'[d] = user[d]
PROOF
  BY DEF Leave, SellerInv, SellerTypeOK, Awaits, LocalsInv, Registering, Submitting

LEMMA EnterLocals ==
  ASSUME SellerInv, NEW c \in Calls, NEW s \in Awaits, NEW u \in Users,
         NEW t \in Payloads \cup {NoToken}, NEW o \in Users \cup {Nobody}, Enter(c, s, u, t, o),
         s \in {"individual", "business", "approve", "reject", "cancel"},
         s = "individual" => t \in Payloads /\ FitsIndividual(u, t),
         s = "business" => t \in Payloads /\ FitsBusiness(u, t) /\ o \in {u, Nobody}
  PROVE  /\ LocalsInv' 
         /\ at' \in [Calls -> Awaits] /\ user' \in [Calls -> Users \cup {Nobody}]
         /\ token' \in [Calls -> Payloads \cup {NoToken}]
         /\ licence' \in [Calls -> Users \cup {Nobody}]
PROOF
  BY DEF Enter, SellerInv, SellerTypeOK, Awaits, LocalsInv, Registering, Submitting
-----------------------------------------------------------------------------
(* The rows.                                                                *)

\* A step that writes no row.
LEMMA RowsStay ==
  ASSUME SellerInv, UNCHANGED <<account, overtaken>>
  PROVE  RowsInv'
PROOF
  BY DEF SellerInv, RowsInv, RowOK, Has

\* A step that writes the row of u.
LEMMA RowWritten ==
  ASSUME SellerInv, NEW u \in Users, NEW a \in Accounts \cup {NoAccount},
         account' = [account EXCEPT ![u] = a], overtaken \subseteq overtaken', RowOK(u)'
  PROVE  RowsInv' /\ account' \in [Users -> Accounts \cup {NoAccount}]
PROOF
  BY DEF SellerInv, SellerTypeOK, RowsInv, RowOK, Has

\* The other handlers' reads of a row that call c removes or writes.
LEMMA ReadsNoted ==
  ASSUME SellerInv, NEW c \in Calls, user[c] \in Users, NoteOvertaken(c),
         \A v \in Users \ {user[c]} : account'[v] = account[v],
         \A d \in Calls \ {c} : at'[d] = at[d] /\ user'[d] = user[d],
         at'[c] \notin {"update", "approve", "reject"}
  PROVE  /\ ReadsInv' /\ overtaken \subseteq overtaken'
         /\ overtaken' \in SUBSET Users
PROOF
  BY DEF SellerInv, SellerTypeOK, ReadsInv, NoteOvertaken, Has, Row, LocalsInv

\* The row a submission makes.
LEMMA SubmissionRow ==
  ASSUME SellerInv, NEW c \in Calls, at[c] \in {"create", "update"}, NEW o \in Users \cup {Nobody}
  PROVE  /\ Submission(c, o) \in Accounts
         /\ user[c] \in Users /\ licence[c] \in {user[c], Nobody}
         /\ Submission(c, o).seller = "BUSINESS" /\ Submission(c, o).status = "PENDING"
         /\ ~ Submission(c, o).active /\ Submission(c, o).number # NoNumber
         /\ Submission(c, o).license = o
         /\ OwnerOf[Submission(c, o).from] = user[c]
         /\ KindOf[Submission(c, o).from] = "BUSINESS"
PROOF
  <1>1. /\ user[c] \in Users /\ licence[c] \in {user[c], Nobody}
        /\ token[c] \in Payloads /\ FitsBusiness(user[c], token[c])
    BY DEF SellerInv, LocalsInv, Submitting
  <1>2. NumberOf[token[c]] \in Numbers
    BY <1>1, SellerAssumption DEF SellerAssumption, FitsBusiness
  <1> QED BY <1>1, <1>2 DEF Submission, Accounts, FitsBusiness

\* A statement fails or a handler only reads.
LEMMA ReadStep ==
  ASSUME SellerInv, NEW c \in Calls, Break(c) \/ FindIndividual(c) \/ FindBusiness(c)
  PROVE  SellerInv'
PROOF
  <1>0. RowsInv'
    BY RowsStay DEF Break, FindIndividual, FindBusiness
  <1>1. CASE Leave(c) /\ UNCHANGED <<account, selling, unspent, overtaken>>
    BY <1>0, <1>1, LeaveLocals DEF SellerInv, SellerTypeOK, ReadsInv, Has, Row
  <1>2. CASE FindIndividual(c)
    <2>1. PICK s \in {"dropBusiness", "upsert"} : Await(c, s)
      BY <1>2 DEF FindIndividual
    <2>2. LocalsInv' /\ at' \in [Calls -> Awaits]
      BY <1>2, <2>1, AwaitLocals DEF FindIndividual, Registering, Awaits
    <2>3. ReadsInv'
      BY <1>2, <2>1 DEF FindIndividual, Await, SellerInv, ReadsInv, Has, Row, SellerTypeOK
    <2> QED BY <1>0, <1>2, <2>1, <2>2, <2>3 DEF FindIndividual, Await, SellerInv, SellerTypeOK
  <1>3. CASE FindBusiness(c) /\ ~ Leave(c)
    <2>1. PICK s \in {"update", "dropIndividual", "create"} :
            /\ Await(c, s)
            /\ s = "update" => Has(user[c]) /\ Row(c).seller = "BUSINESS"
            /\ s # "update" => licence[c] # Nobody
      BY <1>3 DEF FindBusiness
    <2>2. /\ at[c] = "business" /\ Submitting(c)
          /\ UNCHANGED <<account, selling, unspent, overtaken>>
      BY <1>3 DEF FindBusiness, Submitting
    <2>3. s # "update" => licence[c] = user[c]
      BY <2>1, <2>2 DEF SellerInv, LocalsInv
    <2>4. LocalsInv' /\ at' \in [Calls -> Awaits]
      BY <2>1, <2>2, <2>3, AwaitLocals DEF Awaits
    <2>5. ReadsInv'
      BY <2>1, <2>2 DEF Await, SellerInv, ReadsInv, Has, Row, SellerTypeOK
    <2> QED BY <1>0, <2>1, <2>2, <2>4, <2>5 DEF Await, SellerInv, SellerTypeOK
  <1> QED BY <1>1, <1>2, <1>3 DEF Break, FindBusiness

\* A row goes before another comes.
LEMMA DropStep ==
  ASSUME SellerInv, NEW c \in Calls, DropBusiness(c) \/ DropIndividual(c)
  PROVE  SellerInv'
PROOF
  <1>1. PICK s \in {"upsert", "create"} : DropAccount(c, s) /\ (s = "upsert" <=> DropBusiness(c))
    BY DEF DropBusiness, DropIndividual
  <1>2. /\ at[c] # "idle" /\ user[c] \in Users
        /\ s = "upsert" => Registering(c)
        /\ s = "create" => Submitting(c) /\ licence[c] = user[c]
    BY <1>1 DEF DropBusiness, DropIndividual, SellerInv, LocalsInv, Registering, Submitting
  <1>3. account' = [account EXCEPT ![user[c]] = NoAccount] /\ NoteOvertaken(c)
        /\ UNCHANGED <<selling, unspent>>
    BY <1>1 DEF DropAccount
  <1>4. /\ LocalsInv'
        /\ at' \in [Calls -> Awaits] /\ user' \in [Calls -> Users \cup {Nobody}]
        /\ token' \in [Calls -> Payloads \cup {NoToken}]
        /\ licence' \in [Calls -> Users \cup {Nobody}]
        /\ at'[c] \in {"upsert", "create", "idle"}
        /\ \A d \in Calls \ {c} : at'[d] = at[d] /\ user'[d] = user[d]
    <2>1. CASE Await(c, s)
      BY <1>2, <2>1, AwaitLocals DEF Await, Awaits, SellerInv, SellerTypeOK
    <2>2. CASE Leave(c)
      BY <2>2, LeaveLocals DEF Leave, SellerInv, SellerTypeOK
    <2> QED BY <1>1, <2>1, <2>2 DEF DropAccount
  <1>5. \A v \in Users \ {user[c]} : account'[v] = account[v]
    BY <1>2, <1>3 DEF SellerInv, SellerTypeOK
  <1>6. ReadsInv' /\ overtaken \subseteq overtaken' /\ overtaken' \in SUBSET Users
    BY <1>2, <1>3, <1>4, <1>5, ReadsNoted
  <1>8. PICK u \in Users : u = user[c]
    BY <1>2
  <1>9. RowOK(u)'
    BY <1>3, <1>8 DEF RowOK, Has, SellerInv, SellerTypeOK
  <1>10. RowsInv' /\ account' \in [Users -> Accounts \cup {NoAccount}]
    BY <1>3, <1>6, <1>8, <1>9, RowWritten
  <1> QED BY <1>3, <1>4, <1>6, <1>10 DEF SellerInv, SellerTypeOK

\* A handler's last write leaves a row that is its owner's.
LEMMA WriteStep ==
  ASSUME SellerInv, NEW c \in Calls, NEW u \in Users, u = user[c],
         NEW a \in Accounts \cup {NoAccount},
         account' = [account EXCEPT ![u] = a],
         NoteOvertaken(c), Leave(c), selling' \in SUBSET Users, UNCHANGED unspent,
         overtaken \subseteq overtaken' => RowOK(u)'
  PROVE  SellerInv'
PROOF
  <1>1. /\ LocalsInv' /\ at'[c] = "idle"
        /\ at' \in [Calls -> Awaits] /\ user' \in [Calls -> Users \cup {Nobody}]
        /\ token' \in [Calls -> Payloads \cup {NoToken}]
        /\ licence' \in [Calls -> Users \cup {Nobody}]
        /\ \A d \in Calls \ {c} : at'[d] = at[d] /\ user'[d] = user[d]
    BY LeaveLocals DEF Leave, SellerInv, SellerTypeOK
  <1>2. ReadsInv' /\ overtaken \subseteq overtaken' /\ overtaken' \in SUBSET Users
    BY <1>1, ReadsNoted DEF SellerInv, SellerTypeOK
  <1>3. RowsInv' /\ account' \in [Users -> Accounts \cup {NoAccount}]
    BY <1>2, RowWritten
  <1> QED BY <1>1, <1>2, <1>3 DEF SellerInv, SellerTypeOK

LEMMA UpsertStep == ASSUME SellerInv, NEW c \in Calls, UpsertIndividual(c) PROVE SellerInv'
PROOF
  <1>1. PICK u \in Users, t \in Payloads :
          u = user[c] /\ t = token[c] /\ FitsIndividual(u, t)
    BY DEF UpsertIndividual, SellerInv, LocalsInv, Registering
  <1>2. PICK a \in Accounts :
          a = [seller |-> "INDIVIDUAL", status |-> "APPROVED", active |-> TRUE,
               number |-> NoNumber, license |-> Nobody, from |-> t]
    BY DEF Accounts
  <1>3. account' = [account EXCEPT ![u] = a]
    BY <1>1, <1>2 DEF UpsertIndividual
  <1>4. RowOK(u)'
    BY <1>1, <1>2, <1>3 DEF RowOK, FitsIndividual, SellerInv, SellerTypeOK
  <1> QED BY <1>1, <1>3, <1>4, WriteStep DEF UpsertIndividual, SellerInv, SellerTypeOK

\* A new business row has its owner's licence.
LEMMA CreateStep == ASSUME SellerInv, NEW c \in Calls, CreateBusiness(c) PROVE SellerInv'
PROOF
  <1>1. at[c] = "create" /\ licence[c] = user[c] /\ user[c] \in Users
    BY DEF CreateBusiness, SellerInv, LocalsInv, Submitting
  <1>2. PICK u \in Users, s \in Accounts : u = user[c] /\ s = Submission(c, u)
    BY <1>1, SubmissionRow
  <1>3. /\ s.seller = "BUSINESS" /\ s.status = "PENDING" /\ ~ s.active /\ s.number # NoNumber
        /\ s.license = u /\ OwnerOf[s.from] = u /\ KindOf[s.from] = "BUSINESS"
    BY <1>1, <1>2, SubmissionRow
  <1>4. CASE ~ Has(u) /\ NumberFree(c)
    <2>1. account' = [account EXCEPT ![u] = s]
      BY <1>1, <1>2, <1>4 DEF CreateBusiness
    <2>2. RowOK(u)'
      BY <1>3, <2>1 DEF RowOK, SellerInv, SellerTypeOK
    <2> QED BY <1>2, <2>1, <2>2, WriteStep DEF CreateBusiness, SellerInv, SellerTypeOK
  <1>5. CASE ~ (~ Has(u) /\ NumberFree(c))
    <2>1. account' = [account EXCEPT ![u] = account[u]] /\ account[u] \in Accounts \cup {NoAccount}
      BY <1>2, <1>5 DEF CreateBusiness, SellerInv, SellerTypeOK
    <2>2. overtaken \subseteq overtaken' => RowOK(u)'
      BY <2>1 DEF RowOK, SellerInv, SellerTypeOK, RowsInv, Has
    <2> QED BY <1>2, <2>1, <2>2, WriteStep DEF CreateBusiness, SellerInv, SellerTypeOK
  <1> QED BY <1>4, <1>5

\* An updated one too, unless it is another row by now.
LEMMA UpdateStep == ASSUME SellerInv, NEW c \in Calls, UpdateBusiness(c) PROVE SellerInv'
PROOF
  <1>1. at[c] = "update" /\ user[c] \in Users /\ licence[c] \in {user[c], Nobody}
    BY DEF UpdateBusiness, SellerInv, LocalsInv, Submitting
  <1>2. PICK u \in Users : u = user[c]
    BY <1>1
  <1>3. CASE Has(u) /\ NumberFree(c)
    <2>1. account[u] \in Accounts
      BY <1>3 DEF Has, SellerInv, SellerTypeOK
    <2>2. PICK o \in Users \cup {Nobody} :
            /\ o = LicenseToKeep(c)
            /\ o # u => o = Nobody /\ u \in overtaken
      <3>1. /\ account[u].license \in Users \cup {Nobody}
            /\ account[u].seller \in {"INDIVIDUAL", "BUSINESS"}
        BY <2>1 DEF Accounts
      <3>2. u \in overtaken \/ account[u].seller = "BUSINESS"
        BY <1>1, <1>2 DEF SellerInv, ReadsInv, Row
      <3>3. RowOK(u)
        BY DEF SellerInv, RowsInv
      <3> QED BY <1>1, <1>2, <1>3, <3>1, <3>2, <3>3 DEF LicenseToKeep, Row, RowOK
    <2>3. PICK s \in Accounts :
            /\ s = Submission(c, o)
            /\ s.seller = "BUSINESS" /\ s.status = "PENDING" /\ ~ s.active
            /\ s.number # NoNumber /\ s.license = o
            /\ OwnerOf[s.from] = u /\ KindOf[s.from] = "BUSINESS"
      BY <1>1, <1>2, SubmissionRow
    <2>4. account' = [account EXCEPT ![u] = s]
      BY <1>2, <1>3, <2>2, <2>3 DEF UpdateBusiness
    <2>5. overtaken \subseteq overtaken' => RowOK(u)'
      BY <2>2, <2>3, <2>4 DEF RowOK, SellerInv, SellerTypeOK
    <2> QED BY <1>2, <2>4, <2>5, WriteStep DEF UpdateBusiness, SellerInv, SellerTypeOK
  <1>4. CASE ~ (Has(u) /\ NumberFree(c))
    <2>1. account' = [account EXCEPT ![u] = account[u]] /\ account[u] \in Accounts \cup {NoAccount}
      BY <1>2, <1>4 DEF UpdateBusiness, SellerInv, SellerTypeOK
    <2>2. overtaken \subseteq overtaken' => RowOK(u)'
      BY <2>1 DEF RowOK, SellerInv, SellerTypeOK, RowsInv, Has
    <2> QED BY <1>2, <2>1, <2>2, WriteStep DEF UpdateBusiness, SellerInv, SellerTypeOK
  <1> QED BY <1>3, <1>4

\* A cancelled seller's row goes with his prompts.
LEMMA CancelSellerStep == ASSUME SellerInv, NEW c \in Calls, CancelSeller(c) PROVE SellerInv'
PROOF
  <1>1. PICK u \in Users : u = user[c]
    BY DEF CancelSeller, SellerInv, LocalsInv
  <1>2. account' = [account EXCEPT ![u] = NoAccount] /\ selling' \in SUBSET Users
    BY <1>1 DEF CancelSeller, SellerInv, SellerTypeOK
  <1>3. RowOK(u)'
    BY <1>2 DEF RowOK, Has, SellerInv, SellerTypeOK
  <1> QED BY <1>1, <1>2, <1>3, WriteStep DEF CancelSeller

\* A decision falls on whatever row is there by now.
LEMMA DecisionStep == ASSUME SellerInv, NEW c \in Calls, Approve(c) \/ Reject(c) PROVE SellerInv'
PROOF
  <1>1. PICK s \in {"APPROVED", "REJECTED"} :
          /\ SetStatus(c, s) /\ at[c] \in {"approve", "reject"}
          /\ s = "APPROVED" <=> at[c] = "approve"
    BY DEF Approve, Reject
  <1>2. PICK u \in Users : u = user[c]
    BY <1>1 DEF SellerInv, LocalsInv
  <1>3. /\ LocalsInv' /\ at' \in [Calls -> Awaits] /\ user' \in [Calls -> Users \cup {Nobody}]
        /\ token' \in [Calls -> Payloads \cup {NoToken}]
        /\ licence' \in [Calls -> Users \cup {Nobody}]
        /\ \A d \in Calls : at'[d] # "idle" => at'[d] = at[d] /\ user'[d] = user[d]
    BY <1>1, LeaveLocals DEF SetStatus
  <1>4. UNCHANGED <<selling, unspent, overtaken>>
    BY <1>1 DEF SetStatus
  <1>5. CASE ~ Has(u)
    <2>1. UNCHANGED account
      BY <1>1, <1>2, <1>5 DEF SetStatus
    <2>2. ReadsInv'
      BY <1>3, <1>4, <2>1 DEF SellerInv, ReadsInv, Has, Row, SellerTypeOK
    <2> QED BY <1>3, <1>4, <2>1, <2>2, RowsStay DEF SellerInv, SellerTypeOK
  <1>6. CASE Has(u)
    <2>1. account[u] \in Accounts
      BY <1>6 DEF Has, SellerInv, SellerTypeOK
    <2>2. PICK a \in Accounts :
            /\ account' = [account EXCEPT ![u] = a]
            /\ a.seller = account[u].seller /\ a.number = account[u].number
            /\ a.license = account[u].license /\ a.from = account[u].from
            /\ a.status = s /\ (a.active <=> s = "APPROVED")
      <3>1. [account[u] EXCEPT !.status = s, !.active = (s = "APPROVED")] \in Accounts
        BY <2>1 DEF Accounts
      <3>2. account' = [account EXCEPT
              ![u] = [account[u] EXCEPT !.status = s, !.active = (s = "APPROVED")]]
        BY <1>1, <1>2, <1>6 DEF SetStatus, SellerInv, SellerTypeOK
      <3> QED BY <2>1, <3>1, <3>2 DEF Accounts
    <2>3. account' \in [Users -> Accounts \cup {NoAccount}] /\ account'[u] = a
          /\ \A v \in Users \ {u} : account'[v] = account[v]
      BY <2>2 DEF SellerInv, SellerTypeOK
    <2>4. u \in overtaken \/ account[u].seller = "BUSINESS"
      BY <1>1, <1>2 DEF SellerInv, ReadsInv, Row
    <2>5. RowOK(u)
      BY DEF SellerInv, RowsInv
    <2>6. RowOK(u)'
      BY <1>4, <1>6, <2>2, <2>3, <2>4, <2>5 DEF RowOK
    <2>7. RowsInv'
      BY <1>4, <2>2, <2>6, RowWritten
    <2>8. ReadsInv'
      <3> SUFFICES ASSUME NEW d \in Calls, at'[d] \in {"update", "approve", "reject"}
                   PROVE  user'[d] \in overtaken'
                            \/ (user'[d] \in Users /\ account'[user'[d]] # NoAccount
                                  /\ account'[user'[d]].seller = "BUSINESS")
        BY DEF ReadsInv, Has, Row
      <3>1. PICK v \in Users : /\ v = user[d] /\ v = user'[d]
                               /\ v \in overtaken \/ (Has(v) /\ account[v].seller = "BUSINESS")
        BY <1>3 DEF SellerInv, LocalsInv, ReadsInv, Row
      <3>2. CASE v = u
        BY <1>4, <2>2, <2>3, <3>1, <3>2, NoAccountAssumption DEF NoAccountAssumption
      <3>3. CASE v # u
        BY <1>4, <2>3, <3>1, <3>3 DEF Has
      <3> QED BY <3>2, <3>3
    <2> QED BY <1>3, <1>4, <2>3, <2>7, <2>8 DEF SellerInv, SellerTypeOK
  <1> QED BY <1>5, <1>6

\* A handler begins.
LEMMA StartStep == ASSUME SellerInv, NEW c \in Calls, NEW u \in Users, CallStart(c, u) PROVE SellerInv'
PROOF
  <1>1. RowsInv' /\ UNCHANGED <<account, selling, overtaken>> /\ at[c] = "idle"
    BY RowsStay DEF CallStart, RegisterIndividual, RegisterBusiness, DecideApproval,
         DecideRejection, Cancel, Enter
  <1>2. unspent' \in SUBSET Payloads
    BY DEF SellerInv, SellerTypeOK, CallStart, RegisterIndividual, RegisterBusiness, DecideApproval,
           DecideRejection, Cancel
  <1>3. CASE UNCHANGED callVars
    BY <1>1, <1>2, <1>3 DEF callVars, SellerInv, SellerTypeOK, LocalsInv, ReadsInv, Registering,
         Submitting, Has, Row
  <1>4. ASSUME NEW s \in {"individual", "business", "approve", "reject", "cancel"},
               NEW t \in Payloads \cup {NoToken}, NEW o \in Users \cup {Nobody},
               Enter(c, s, u, t, o),
               s = "individual" => t \in Payloads /\ FitsIndividual(u, t),
               s = "business" => t \in Payloads /\ FitsBusiness(u, t) /\ o \in {u, Nobody},
               s \in {"approve", "reject"} => Has(u) /\ account[u].seller = "BUSINESS"
        PROVE  SellerInv'
    <2>1. /\ LocalsInv'
          /\ at' \in [Calls -> Awaits] /\ user' \in [Calls -> Users \cup {Nobody}]
          /\ token' \in [Calls -> Payloads \cup {NoToken}]
          /\ licence' \in [Calls -> Users \cup {Nobody}]
      BY <1>4, EnterLocals DEF Awaits
    <2>2. ReadsInv'
      BY <1>1, <1>4 DEF Enter, SellerInv, SellerTypeOK, ReadsInv, Has, Row
    <2> QED BY <1>1, <1>2, <2>1, <2>2 DEF SellerInv, SellerTypeOK
  <1>5. ASSUME NEW t \in Payloads, RegisterIndividual(c, u, t) PROVE SellerInv'
    BY <1>3, <1>4, <1>5 DEF RegisterIndividual
  <1>6. ASSUME NEW t \in Payloads, NEW o \in Users \cup {Nobody}, RegisterBusiness(c, u, t, o)
        PROVE  SellerInv'
    BY <1>3, <1>4, <1>6 DEF RegisterBusiness, OwnLicense
  <1>7. CASE DecideApproval(c, u)
    BY <1>4, <1>7 DEF DecideApproval, PendingSellers, PendingBusiness
  <1>8. CASE DecideRejection(c, u)
    BY <1>4, <1>8 DEF DecideRejection, PendingSellers, PendingBusiness
  <1>9. CASE Cancel(c, u)
    BY <1>4, <1>9 DEF Cancel
  <1> QED BY <1>5, <1>6, <1>7, <1>8, <1>9 DEF CallStart
-----------------------------------------------------------------------------
LEMMA SellerNextInv == SellerInv /\ [SellerNext]_sellerVars => SellerInv'
PROOF
  <1> SUFFICES ASSUME SellerInv, [SellerNext]_sellerVars PROVE SellerInv'
    OBVIOUS
  <1>1. CASE UNCHANGED sellerVars
    BY <1>1 DEF sellerVars, callVars, SellerInv, SellerTypeOK, LocalsInv, ReadsInv, RowsInv, RowOK,
                Registering, Submitting, Has, Row
  <1>2. ASSUME NEW c \in Calls, CallStep(c) PROVE SellerInv'
    BY <1>2, ReadStep, DropStep, UpsertStep, CreateStep, UpdateStep, DecisionStep,
       CancelSellerStep
    DEF CallStep
  <1>3. ASSUME NEW c \in Calls, NEW u \in Users, CallStart(c, u) PROVE SellerInv'
    BY <1>3, StartStep
  <1> QED BY <1>1, <1>2, <1>3 DEF SellerNext

LEMMA SellerAlways == SellerSpec => []SellerInv
PROOF
  BY SellerInitInv, SellerNextInv, PTL DEF SellerSpec

\* Types, for any number of users and handlers.
THEOREM SellerTypes == SellerSpec => []SellerTypeOK
PROOF
  <1>1. SellerInv => SellerTypeOK
    BY DEF SellerInv
  <1> QED BY <1>1, SellerAlways, PTL

\* What is paid to is what its owner verified, with his own licence, and is
\* active only when approved, whatever registrations and decisions overlap.
THEOREM AccountsAreOwners == SellerSpec => []AccountIsOwners
PROOF
  <1>1. ASSUME SellerInv, NEW u \in Users, Has(u)
        PROVE  /\ OwnerOf[account[u].from] = u /\ KindOf[account[u].from] = account[u].seller
               /\ account[u].license # u =>
                    account[u].license = Nobody
                      /\ (account[u].seller = "BUSINESS" => u \in overtaken)
               /\ account[u].seller = "BUSINESS" <=> account[u].number # NoNumber
               /\ account[u].active <=>
                    u \in ApprovedSellers("INDIVIDUAL") \cup ApprovedSellers("BUSINESS")
    <2>1. account[u].seller \in {"INDIVIDUAL", "BUSINESS"}
      BY <1>1 DEF SellerInv, SellerTypeOK, Has, Accounts
    <2> QED BY <1>1, <2>1 DEF SellerInv, RowsInv, RowOK, ApprovedSellers
  <1>2. SellerInv => AccountIsOwners
    BY <1>1 DEF AccountIsOwners
  <1> QED BY <1>2, SellerAlways, PTL

\* No decision on a business falls on an individual, but on one who took the
\* business' place while it was being taken.
THEOREM IndividualsAreApproved == SellerSpec => []IndividualIsApproved
PROOF
  <1>1. SellerInv => IndividualIsApproved
    BY DEF SellerInv, RowsInv, RowOK, IndividualIsApproved
  <1> QED BY <1>1, SellerAlways, PTL
-----------------------------------------------------------------------------
(* The register tokens.                                                     *)

\* A token that is redeemed is either no longer valid or on the blacklist for
\* longer than it will be; one that was issued has its holder's consent.
TokenInv ==
  \A t \in Jtis :
    /\ redeemed[t] <= 1
    /\ redeemed[t] = 1 => life[t] = 0 \/ black[t] > life[t]
    /\ holder[t] = NoApplicant => life[t] = 0 /\ redeemed[t] = 0
    /\ holder[t] # NoApplicant => holder[t] \in consented

CheckInv == \A c \in Checks : step[c] = "issue" => who[c] \in consented

\* What the counter of the day has let through, be it asked or waiting to ask,
\* and what midnight overtook, is all that can be asked in the day; a counter
\* without a time to live was made by an increment that came after it expired.
LetThrough(u) == IF limitKey[u].value > DailyLimit THEN DailyLimit ELSE limitKey[u].value

CounterInv ==
  \A u \in Applicants :
    /\ inquired[u] + Cardinality(Waiting(u)) <= LetThrough(u) + overdue[u]
    /\ limitKey[u].value > 0 => limitKey[u].ttl \/ u \in stranded

VerifyInv == VerifyTypeOK /\ TokenInv /\ CheckInv /\ CounterInv

LEMMA WaitingType == \A u \in Applicants : IsFiniteSet(Waiting(u)) /\ Cardinality(Waiting(u)) \in Nat
PROOF
  <1> SUFFICES ASSUME NEW u \in Applicants
               PROVE  IsFiniteSet(Waiting(u)) /\ Cardinality(Waiting(u)) \in Nat
    OBVIOUS
  <1>1. Waiting(u) \subseteq Checks
    BY DEF Waiting
  <1> QED BY <1>1, VerificationAssumption, FS_Subset, FS_CardinalityType DEF VerificationAssumption

\* A step of one handler takes it out of the waiting ones, or in, or neither.
LEMMA WaitingCount ==
  ASSUME NEW c \in Checks, NEW u \in Applicants,
         \A d \in Checks \ {c} : step'[d] = step[d] /\ who'[d] = who[d]
  PROVE  Cardinality(Waiting(u))' =
           Cardinality(Waiting(u)) - (IF c \in Waiting(u) THEN 1 ELSE 0)
                                   + (IF c \in Waiting(u)' THEN 1 ELSE 0)
PROOF
  <1> DEFINE W == Waiting(u)
             V == Waiting(u)'
  <1>1. V \ {c} = W \ {c}
    BY DEF Waiting
  <1>2. IsFiniteSet(W) /\ Cardinality(W) \in Nat
    BY WaitingType
  <1>a. Cardinality(Waiting(u))' = Cardinality(V)
    OBVIOUS
  <1> HIDE DEF W, V
  <1>b. IsFiniteSet(W \ {c})
    BY <1>2, FS_RemoveElement
  <1>c. Cardinality(W \ {c}) = IF c \in W THEN Cardinality(W) - 1 ELSE Cardinality(W)
    BY <1>2, FS_RemoveElement
  <1>3. IsFiniteSet(W \ {c}) /\ Cardinality(W \ {c}) = Cardinality(W) - (IF c \in W THEN 1 ELSE 0)
    BY <1>2, <1>b, <1>c
  <1>4. V = IF c \in V THEN (W \ {c}) \cup {c} ELSE W \ {c}
    BY <1>1
  <1>5. CASE c \in V
    <2>1. Cardinality((W \ {c}) \cup {c}) = Cardinality(W \ {c}) + 1
      BY <1>3, FS_AddElement
    <2>2. Cardinality(V) = Cardinality(W) - (IF c \in W THEN 1 ELSE 0) + 1
      BY <1>2, <1>3, <1>4, <1>5, <2>1
    <2> QED BY <1>5, <1>a, <2>2 DEF W, V
  <1>6. CASE c \notin V
    <2>1. Cardinality(V) = Cardinality(W) - (IF c \in W THEN 1 ELSE 0) + 0
      BY <1>2, <1>3, <1>4, <1>6
    <2> QED BY <1>6, <1>a, <2>1 DEF W, V
  <1> QED BY <1>5, <1>6

\* Steps that move no handler let none through either.
LEMMA NobodyMoves ==
  ASSUME UNCHANGED <<step, who>>, NEW u \in Applicants
  PROVE  Cardinality(Waiting(u))' = Cardinality(Waiting(u))
PROOF
  <1>1. Waiting(u)' = Waiting(u)
    BY DEF Waiting
  <1> QED BY <1>1

LEMMA VerifyInitInv == VerifyInit => VerifyInv
PROOF
  <1> SUFFICES ASSUME VerifyInit PROVE VerifyInv
    OBVIOUS
  <1>1. VerifyTypeOK /\ TokenInv /\ CheckInv
    BY VerificationAssumption DEF VerificationAssumption, VerifyInit, VerifyTypeOK,
       TokenInv, CheckInv, NoCounter, UsedTTL
  <1>2. \A u \in Applicants : Cardinality(Waiting(u)) = 0
    <2>1. \A u \in Applicants : Waiting(u) = {}
      BY DEF VerifyInit, Waiting
    <2> QED BY <2>1, FS_EmptySet
  <1> QED BY <1>1, <1>2, VerificationAssumption
          DEF VerificationAssumption, VerifyInit, VerifyInv, CounterInv, LetThrough, NoCounter

\* The time that passes takes as much from the token as from its mark.
LEMMA MinuteStep == ASSUME VerifyInv, Minute PROVE VerifyInv'
PROOF
  <1> USE VerificationAssumption DEF VerificationAssumption, VerifyInv
  <1>1. \A t \in Jtis : /\ life[t] \in 0..TokenTTL /\ black[t] \in 0..UsedTTL
                        /\ life'[t] = Less(life[t]) /\ black'[t] = Less(black[t])
    BY DEF VerifyTypeOK, Minute
  <1>2. /\ life' \in [Jtis -> 0..TokenTTL] /\ black' \in [Jtis -> 0..UsedTTL]
    BY <1>1 DEF Minute, Less, UsedTTL
  <1>3. VerifyTypeOK'
    BY <1>2 DEF VerifyTypeOK, Minute
  <1>4. TokenInv'
    BY <1>1 DEF TokenInv, Minute, Less, UsedTTL
  <1> QED BY <1>3, <1>4, NobodyMoves DEF CheckInv, CounterInv, LetThrough, Minute

LEMMA MidnightStep == ASSUME VerifyInv, Midnight PROVE VerifyInv'
PROOF
  <1> USE VerificationAssumption DEF VerificationAssumption, VerifyInv, NoCounter
  <1>1. VerifyTypeOK'
    BY WaitingType DEF VerifyTypeOK, Midnight, tokenVars
  <1>2. CounterInv'
    <2> SUFFICES ASSUME NEW u \in Applicants
                 PROVE  /\ inquired'[u] + Cardinality(Waiting(u))' <= LetThrough(u)' + overdue'[u]
                        /\ limitKey'[u].value > 0 => limitKey'[u].ttl \/ u \in stranded'
      BY DEF CounterInv
    <2>1. Cardinality(Waiting(u))' = Cardinality(Waiting(u)) /\ Cardinality(Waiting(u)) \in Nat
      BY NobodyMoves, WaitingType DEF Midnight
    <2>2. inquired'[u] = 0 /\ overdue'[u] = Cardinality(Waiting(u))
      BY DEF Midnight
    <2>3. limitKey'[u] = IF limitKey[u].ttl THEN NoCounter ELSE limitKey[u]
      BY DEF Midnight
    <2>4. limitKey[u].value \in 0..(DailyLimit + 1)
      BY DEF VerifyTypeOK
    <2>5. LetThrough(u)' \in Nat
      BY <2>3, <2>4 DEF LetThrough
    <2>6. limitKey'[u].value > 0 => limitKey'[u].ttl \/ u \in stranded'
      BY <2>3 DEF CounterInv, Midnight
    <2> QED BY <2>1, <2>2, <2>5, <2>6
  <1> QED BY <1>1, <1>2 DEF TokenInv, CheckInv, Midnight, tokenVars

\* The counter is put up and counted on.
LEMMA CounterStep ==
  ASSUME VerifyInv, NEW c \in Checks, StartCounter(c) \/ CountInquiry(c)
  PROVE  VerifyInv'
PROOF
  <1> USE VerificationAssumption DEF VerificationAssumption, VerifyInv, NoCounter
  <1>1. PICK u \in Applicants : u = who[c]
    BY DEF StartCounter, CountInquiry, VerifyTypeOK
  <1>2. /\ limitKey[u] \in [value : 0..(DailyLimit + 1), ttl : BOOLEAN]
        /\ inquired[u] \in Nat /\ DailyLimit \in Nat
    BY DEF VerifyTypeOK
  <1>3. PICK k \in [value : 0..(DailyLimit + 1), ttl : BOOLEAN],
             q \in {"idle", "count", "inquire"} :
          /\ limitKey' = [limitKey EXCEPT ![u] = k] /\ step' = [step EXCEPT ![c] = q]
          /\ k.value >= limitKey[u].value
          /\ q = "inquire" => k.value = limitKey[u].value + 1 /\ k.value <= DailyLimit
          /\ k.value > 0 => k.ttl \/ u \in stranded'
          /\ stranded \subseteq stranded' /\ stranded' \in SUBSET Applicants
          /\ step[c] # "inquire"
    <2>1. CASE StartCounter(c)
      <3> DEFINE k == IF limitKey[u] = NoCounter THEN [value |-> 0, ttl |-> TRUE] ELSE limitKey[u]
      <3>1. k \in [value : 0..(DailyLimit + 1), ttl : BOOLEAN] /\ k.value = limitKey[u].value
            /\ (limitKey[u].ttl => k.ttl)
        BY <1>2
      <3>2. limitKey' = [limitKey EXCEPT ![u] = k] /\ stranded' = stranded
            /\ step' = [step EXCEPT ![c] = "count"] /\ step[c] = "limit"
        BY <1>1, <2>1 DEF StartCounter, AwaitCheck, VerifyTypeOK
      <3>3. k.value > 0 => k.ttl \/ u \in stranded'
        BY <3>1, <3>2 DEF CounterInv
      <3>4. k.value >= limitKey[u].value
        BY <1>2, <3>1
      <3> HIDE DEF k
      <3> USE <3>1
      <3> WITNESS k \in [value : 0..(DailyLimit + 1), ttl : BOOLEAN],
                  "count" \in {"idle", "count", "inquire"}
      <3> QED BY <3>1, <3>2, <3>3, <3>4 DEF VerifyTypeOK
    <2>2. CASE CountInquiry(c)
      <3> DEFINE k == [limitKey[u] EXCEPT !.value = OneMore(@)]
                 q == IF OverLimit(limitKey[u].value) THEN "idle" ELSE "inquire"
      <3>1. /\ k \in [value : 0..(DailyLimit + 1), ttl : BOOLEAN]
            /\ k.value = OneMore(limitKey[u].value) /\ k.ttl = limitKey[u].ttl
        BY <1>2 DEF OneMore
      <3>2. limitKey' = [limitKey EXCEPT ![u] = k] /\ step[c] = "count"
            /\ step' = [step EXCEPT ![c] = q] /\ q \in {"idle", "count", "inquire"}
        BY <1>1, <2>2 DEF CountInquiry, AwaitCheck, EndCheck, VerifyTypeOK
      <3>3. stranded' = IF limitKey[u] = NoCounter THEN stranded \cup {u} ELSE stranded
        BY <1>1, <2>2 DEF CountInquiry
      <3>4. limitKey[u].ttl \/ u \in stranded'
        <4>1. CASE limitKey[u].value > 0
          BY <3>3, <4>1 DEF CounterInv
        <4>2. CASE ~ (limitKey[u].value > 0) /\ ~ limitKey[u].ttl
          <5>1. limitKey[u].value = 0 /\ limitKey[u].ttl = FALSE
            BY <1>2, <4>2
          <5>2. limitKey[u] = [value |-> 0, ttl |-> FALSE]
            BY <1>2, <5>1
          <5> QED BY <3>3, <5>2
        <4> QED BY <4>1, <4>2
      <3>5. /\ k.value >= limitKey[u].value
            /\ q = "inquire" => k.value = limitKey[u].value + 1 /\ k.value <= DailyLimit
        BY <1>2, <3>1 DEF OneMore, OverLimit
      <3> HIDE DEF k, q
      <3> QED BY <3>1, <3>2, <3>3, <3>4, <3>5 DEF VerifyTypeOK
    <2> QED BY <2>1, <2>2
  <1>5. /\ who' \in [Checks -> Applicants \cup {NoApplicant}]
        /\ \A d \in Checks : step'[d] # "idle" => who'[d] = who[d]
        /\ \A d \in Checks \ {c} : who'[d] = who[d] /\ step'[d] = step[d]
    BY <1>3 DEF StartCounter, CountInquiry, AwaitCheck, EndCheck, VerifyTypeOK
  <1>6. UNCHANGED <<consented, tokenVars, nights, inquired, overdue>>
    BY DEF StartCounter, CountInquiry
  <1>7. limitKey' \in [Applicants -> [value : 0..(DailyLimit + 1), ttl : BOOLEAN]]
    BY <1>3 DEF VerifyTypeOK
  <1>8. step' \in [Checks -> {"idle", "limit", "count", "inquire", "consent", "issue"}]
        /\ \A d \in Checks : step'[d] # "idle" => who'[d] \in Applicants
    BY <1>1, <1>3, <1>5 DEF VerifyTypeOK
  <1>9. VerifyTypeOK'
    BY <1>3, <1>5, <1>6, <1>7, <1>8 DEF VerifyTypeOK, tokenVars
  <1>10. CounterInv'
    <2> SUFFICES ASSUME NEW x \in Applicants
                 PROVE  /\ inquired'[x] + Cardinality(Waiting(x))' <= LetThrough(x)' + overdue'[x]
                        /\ limitKey'[x].value > 0 => limitKey'[x].ttl \/ x \in stranded'
      BY DEF CounterInv
    <2> DEFINE n == Cardinality(Waiting(x))
               m == Cardinality(Waiting(x))'
    <2>1. n \in Nat /\ m = n - (IF c \in Waiting(x) THEN 1 ELSE 0) + (IF c \in Waiting(x)' THEN 1 ELSE 0)
      BY <1>5, WaitingCount, WaitingType
    <2>2. c \notin Waiting(x)
      BY <1>3 DEF Waiting
    <2>3. c \in Waiting(x)' => x = u /\ q = "inquire"
      BY <1>1, <1>3, <1>5 DEF Waiting, VerifyTypeOK
    <2>4. /\ inquired[x] + n <= LetThrough(x) + overdue[x]
          /\ inquired[x] \in Nat /\ overdue[x] \in Nat /\ limitKey[x].value \in 0..(DailyLimit + 1)
      BY DEF CounterInv, VerifyTypeOK
    <2>5. limitKey'[x] = IF x = u THEN k ELSE limitKey[x]
      BY <1>3 DEF VerifyTypeOK
    <2>6. UNCHANGED <<inquired, overdue>>
      BY <1>6
    <2> HIDE DEF n, m
    <2>7. CASE x = u
      <3>1. LetThrough(x)' >= LetThrough(x) /\ LetThrough(x)' \in Nat /\ LetThrough(x) \in Nat
            /\ (q = "inquire" => LetThrough(x)' = LetThrough(x) + 1)
        BY <1>3, <2>4, <2>5, <2>7 DEF LetThrough
      <3>2. m = n \/ (m = n + 1 /\ q = "inquire")
        BY <2>1, <2>2, <2>3
      <3>3. inquired'[x] + m <= LetThrough(x)' + overdue'[x]
        BY <2>1, <2>4, <2>6, <3>1, <3>2
      <3> QED BY <1>3, <2>5, <2>7, <3>3 DEF m
    <2>8. CASE x # u
      <3>1. m = n
        BY <2>1, <2>2, <2>3, <2>8
      <3>2. LetThrough(x)' = LetThrough(x)
        BY <2>5, <2>8 DEF LetThrough
      <3>3. limitKey'[x].value > 0 => limitKey'[x].ttl \/ x \in stranded'
        BY <1>3, <2>5, <2>8 DEF CounterInv
      <3> QED BY <2>4, <2>6, <3>1, <3>2, <3>3 DEF m
    <2> QED BY <2>7, <2>8
  <1> QED BY <1>3, <1>5, <1>6, <1>9, <1>10 DEF CheckInv, TokenInv, tokenVars, VerifyTypeOK

\* A handler that leaves the counter alone takes nothing off what was asked; if
\* it asks, it was waiting to.
LEMMA AskedStep ==
  ASSUME VerifyInv, NEW c \in Checks, UNCHANGED <<limitKey, overdue, stranded>>,
         \A d \in Checks \ {c} : step'[d] = step[d] /\ who'[d] = who[d],
         step'[c] # "inquire",
         \/ UNCHANGED inquired
         \/ step[c] = "inquire" /\ inquired' = [inquired EXCEPT ![who[c]] = @ + 1]
  PROVE  CounterInv'
PROOF
  <1> SUFFICES ASSUME NEW x \in Applicants
               PROVE  /\ inquired'[x] + Cardinality(Waiting(x))' <= LetThrough(x)' + overdue'[x]
                      /\ limitKey'[x].value > 0 => limitKey'[x].ttl \/ x \in stranded'
    BY DEF CounterInv
  <1> DEFINE n == Cardinality(Waiting(x))
             m == Cardinality(Waiting(x))'
  <1>1. n \in Nat /\ m = n - (IF c \in Waiting(x) THEN 1 ELSE 0) + (IF c \in Waiting(x)' THEN 1 ELSE 0)
    BY WaitingCount, WaitingType
  <1>2. c \notin Waiting(x)'
    BY DEF Waiting
  <1>3. /\ inquired[x] + n <= LetThrough(x) + overdue[x] /\ LetThrough(x)' = LetThrough(x)
        /\ limitKey[x].value > 0 => limitKey[x].ttl \/ x \in stranded
        /\ inquired[x] \in Nat /\ overdue[x] \in Nat /\ LetThrough(x) \in Nat
    BY VerificationAssumption DEF VerificationAssumption, VerifyInv, CounterInv, VerifyTypeOK, LetThrough
  <1>4. \/ inquired'[x] = inquired[x]
        \/ inquired'[x] = inquired[x] + 1 /\ c \in Waiting(x)
    BY DEF Waiting, VerifyInv, VerifyTypeOK
  <1> HIDE DEF n, m
  <1>5. inquired'[x] + m <= LetThrough(x)' + overdue'[x]
    BY <1>1, <1>2, <1>3, <1>4
  <1> QED BY <1>3, <1>5 DEF m

\* The handler otherwise.
LEMMA CheckStepInv ==
  ASSUME VerifyInv, NEW c \in Checks,
         \/ CheckBreaks(c) \/ Inquire(c) \/ RecordConsent(c)
         \/ \E t \in Jtis : IssueToken(c, t)
         \/ \E u \in Applicants : VerifyAccount(c, u)
  PROVE  VerifyInv'
PROOF
  <1> USE VerificationAssumption DEF VerificationAssumption
  <1>1. CASE CheckBreaks(c)
    <2>1. VerifyTypeOK' /\ TokenInv' /\ CheckInv'
      BY <1>1 DEF CheckBreaks, EndCheck, VerifyInv, VerifyTypeOK, TokenInv, CheckInv, tokenVars
    <2>2. CounterInv'
      BY <1>1, AskedStep DEF CheckBreaks, EndCheck, VerifyInv, VerifyTypeOK
    <2> QED BY <2>1, <2>2 DEF VerifyInv
  <1>2. CASE Inquire(c)
    <2> USE DEF Inquire, VerifyInv
    <2>a. who[c] \in Applicants /\ inquired' \in [Applicants -> Nat]
      BY <1>2 DEF VerifyTypeOK
    <2>b. ASSUME AwaitCheck(c, "consent") PROVE VerifyTypeOK' /\ TokenInv' /\ CheckInv'
      BY <1>2, <2>a, <2>b DEF AwaitCheck, VerifyTypeOK, TokenInv, CheckInv, tokenVars
    <2>c. ASSUME EndCheck(c) PROVE VerifyTypeOK' /\ TokenInv' /\ CheckInv'
      BY <1>2, <2>a, <2>c DEF EndCheck, VerifyTypeOK, TokenInv, CheckInv, tokenVars
    <2>1. VerifyTypeOK' /\ TokenInv' /\ CheckInv'
      BY <1>2, <2>b, <2>c
    <2>2. CounterInv'
      BY <1>2, AskedStep DEF Inquire, AwaitCheck, EndCheck, VerifyInv, VerifyTypeOK
    <2> QED BY <2>1, <2>2 DEF VerifyInv
  <1>3. CASE RecordConsent(c)
    <2>1. VerifyTypeOK' /\ TokenInv' /\ CheckInv'
      BY <1>3 DEF RecordConsent, AwaitCheck, VerifyInv, VerifyTypeOK, TokenInv, CheckInv, tokenVars
    <2>2. CounterInv'
      BY <1>3, AskedStep DEF RecordConsent, AwaitCheck, VerifyInv, VerifyTypeOK
    <2> QED BY <2>1, <2>2 DEF VerifyInv
  <1>4. ASSUME NEW t \in Jtis, IssueToken(c, t) PROVE VerifyInv'
    <2>1. VerifyTypeOK' /\ CheckInv'
      BY <1>4 DEF IssueToken, EndCheck, VerifyInv, VerifyTypeOK, CheckInv
    <2>2. TokenInv'
      BY <1>4 DEF IssueToken, TokenInv, CheckInv, VerifyInv, VerifyTypeOK
    <2>3. CounterInv'
      BY <1>4, AskedStep DEF IssueToken, EndCheck, VerifyInv, VerifyTypeOK
    <2> QED BY <2>1, <2>2, <2>3 DEF VerifyInv
  <1>5. ASSUME NEW u \in Applicants, VerifyAccount(c, u) PROVE VerifyInv'
    <2>1. VerifyTypeOK' /\ TokenInv' /\ CheckInv'
      BY <1>5 DEF VerifyAccount, VerifyInv, VerifyTypeOK, TokenInv, CheckInv, tokenVars
    <2>2. CounterInv'
      BY <1>5, AskedStep DEF VerifyAccount, VerifyInv, VerifyTypeOK
    <2> QED BY <2>1, <2>2 DEF VerifyInv
  <1> QED BY <1>1, <1>2, <1>3, <1>4, <1>5

LEMMA ConsumeStep == ASSUME VerifyInv, NEW t \in Jtis, ConsumeToken(t) PROVE VerifyInv'
PROOF
  <1> USE VerificationAssumption DEF VerificationAssumption, VerifyInv
  <1>1. VerifyTypeOK'
    BY DEF ConsumeToken, VerifyTypeOK, UsedTTL
  <1>2. /\ life[t] \in 0..TokenTTL /\ black[t] \in 0..UsedTTL /\ redeemed[t] \in Nat
        /\ black'[t] = UsedTTL /\ redeemed'[t] = redeemed[t] + 1 /\ UNCHANGED <<life, holder, consented>>
        /\ life[t] > 0 /\ black[t] = 0
    BY DEF ConsumeToken, VerifyTypeOK
  <1>3. redeemed[t] = 0 /\ holder[t] # NoApplicant /\ black'[t] > life[t] 
    BY <1>2 DEF TokenInv, UsedTTL
  <1>4. \A x \in Jtis \ {t} : black'[x] = black[x] /\ redeemed'[x] = redeemed[x]
    BY DEF ConsumeToken, VerifyTypeOK
  <1>5. TokenInv'
    BY <1>2, <1>3, <1>4 DEF TokenInv
  <1> QED BY <1>1, <1>5, NobodyMoves DEF ConsumeToken, CheckInv, CounterInv, LetThrough

LEMMA VerifyNextInv == VerifyInv /\ [VerifyNext]_verifyVars => VerifyInv'
PROOF
  <1> SUFFICES ASSUME VerifyInv, [VerifyNext]_verifyVars PROVE VerifyInv'
    OBVIOUS
  <1>1. CASE UNCHANGED verifyVars
    BY <1>1, NobodyMoves DEF verifyVars, VerifyInv, VerifyTypeOK, TokenInv, CheckInv, CounterInv,
                             LetThrough
  <1>2. CASE VerifyNext
    BY <1>2, MinuteStep, MidnightStep, CounterStep, CheckStepInv, ConsumeStep
    DEF VerifyNext, CheckStep
  <1> QED BY <1>1, <1>2

LEMMA VerifyAlways == VerifySpec => []VerifyInv
PROOF
  BY VerifyInitInv, VerifyNextInv, PTL DEF VerifySpec

\* A register token is worth one registration, however long it and its mark on
\* the blacklist live.
THEOREM TokensRedeemedOnce == VerifySpec => []TokenRedeemedOnce
PROOF
  <1>1. VerifyInv => TokenRedeemedOnce
    BY DEF VerifyInv, TokenInv, TokenRedeemedOnce
  <1> QED BY <1>1, VerifyAlways, PTL

\* The limit of inquiries holds for every day and every number of overlapping
\* checks, counted when Payple is asked.
THEOREM InquiriesAreLimited == VerifySpec => []LimitIsDaily
PROOF
  <1>1. ASSUME VerifyInv, NEW u \in Applicants
        PROVE  inquired[u] <= DailyLimit + overdue[u]
    <2>1. inquired[u] + Cardinality(Waiting(u)) <= LetThrough(u) + overdue[u]
          /\ Cardinality(Waiting(u)) \in Nat
      BY <1>1, WaitingType DEF VerifyInv, CounterInv
    <2>2. /\ LetThrough(u) \in Nat /\ LetThrough(u) <= DailyLimit /\ DailyLimit \in Nat
          /\ inquired[u] \in Nat /\ overdue[u] \in Nat
      BY <1>1, VerificationAssumption DEF VerificationAssumption, VerifyInv, VerifyTypeOK, LetThrough
    <2> QED BY <2>1, <2>2
  <1>2. VerifyInv => LimitIsDaily
    BY <1>1 DEF VerifyInv, CounterInv, LimitIsDaily
  <1> QED BY <1>2, VerifyAlways, PTL
-----------------------------------------------------------------------------
(* Earnings.                                                                *)

\* The locals of a running withdrawal, and what holds while none overlaps.
AskingInv ==
  \A q \in Withdrawals : asking[q] = "create" => before[q] <= earned[q]

AloneInv ==
  overlapped \/
    /\ \A p, q \in Withdrawals : asking[p] # "idle" /\ asking[q] # "idle" => p = q
    /\ drawn <= TotalEarnings
    /\ \A q \in Withdrawals : asking[q] # "idle" => earned[q] <= TotalEarnings
    /\ \A q \in Withdrawals : asking[q] = "create" => before[q] = drawn

EarningsInv == EarningsTypeOK /\ AskingInv /\ AloneInv
-----------------------------------------------------------------------------
LEMMA SoldFinite == IsFiniteSet(SoldRows) /\ SoldRows \in SUBSET Rows
PROOF
  BY EarningsAssumption, FS_Subset DEF EarningsAssumption, SoldRows

LEMMA NetType ==
  /\ \A r \in Rows : NetAmount[r] \in Nat /\ NetAmount[r] = Price[r] - Fee[r]
  /\ \A r \in Rows : Price[r] \in Nat /\ Fee[r] \in Nat
PROOF
  <1> SUFFICES ASSUME NEW r \in Rows
               PROVE  /\ NetAmount[r] \in Nat /\ NetAmount[r] = Price[r] - Fee[r]
                      /\ Price[r] \in Nat /\ Fee[r] \in Nat
    OBVIOUS
  <1>1. PICK a, b \in Nat : a = Price[r] /\ b = Fee[r] /\ b <= a
    BY EarningsAssumption DEF EarningsAssumption
  <1>2. a - b \in Nat
    BY <1>1
  <1> QED BY <1>1, <1>2 DEF NetAmount

\* Rows are only added: what was earned stays.
LEMMA EarningsGrow ==
  ASSUME SoldRows \subseteq SoldRows'
  PROVE  TotalEarnings \in Nat /\ TotalEarnings' \in Nat /\ TotalEarnings <= TotalEarnings'
PROOF
  <1>1. PICK S, T : S = SoldRows /\ T = SoldRows'
    OBVIOUS
  <1>2. T \in SUBSET Rows /\ S \in SUBSET T
    BY <1>1 DEF SoldRows
  <1>3. IsFiniteSet(Rows)
    BY EarningsAssumption DEF EarningsAssumption
  <1>4. IsFiniteSet(S) /\ IsFiniteSet(T) /\ (\A r \in T : NetAmount[r] \in Nat) /\ (\A r \in S : NetAmount[r] \in Nat)
    BY <1>2, <1>3, NetType, FS_Subset
  <1>5. SumFunctionOnSet(NetAmount, S) \in Nat /\ SumFunctionOnSet(NetAmount, T) \in Nat
    BY <1>4, SumNat
  <1>6. SumFunctionOnSet(NetAmount, S) <= SumFunctionOnSet(NetAmount, T)
    BY <1>2, <1>4, SumMonotone
  <1>7. TotalEarnings = SumFunctionOnSet(NetAmount, S)
    BY <1>1 DEF TotalEarnings
  <1>8. TotalEarnings' = SumFunctionOnSet(NetAmount, T)
    BY <1>1 DEF TotalEarnings
  <1> QED BY <1>5, <1>6, <1>7, <1>8

LEMMA EarningsAreNat == TotalEarnings \in Nat
PROOF
  <1>1. \A r \in SoldRows : NetAmount[r] \in Nat
    BY NetType, SoldFinite
  <1>2. SumFunctionOnSet(NetAmount, SoldRows) \in Nat
    BY <1>1, SoldFinite, SumNat
  <1> QED BY <1>2 DEF TotalEarnings

LEMMA EarningsInitInv == EarningsInit => EarningsInv
PROOF
  <1> SUFFICES ASSUME EarningsInit PROVE EarningsInv
    OBVIOUS
  <1>1. EarningsTypeOK /\ AskingInv
    BY DEF EarningsInit, EarningsTypeOK, AskingInv
  <1>2. AloneInv
    BY EarningsAreNat DEF EarningsInit, AloneInv
  <1> QED BY <1>1, <1>2 DEF EarningsInv

LEMMA RowStepInv ==
  ASSUME EarningsInv, NEW r \in Rows, SellRow(r) \/ SettleRow(r) \/ RefundRow(r)
  PROVE  EarningsInv'
PROOF
  <1>1. /\ UNCHANGED <<drawn, asking, earned, before, overlapped>>
        /\ rowStatus' \in [Rows -> {"none", "Pending", "Succeed", "Refunded"}]
        /\ \A x \in Rows : rowStatus[x] # "none" => rowStatus'[x] # "none"
    BY DEF EarningsInv, EarningsTypeOK, SellRow, SettleRow, RefundRow
  <1>2. SoldRows \subseteq SoldRows'
    BY <1>1 DEF SoldRows
  <1>3. PICK e, f \in Nat : e = TotalEarnings /\ f = TotalEarnings' /\ e <= f
    BY <1>2, EarningsGrow
  <1>4. EarningsTypeOK' /\ AskingInv'
    BY <1>1 DEF EarningsInv, EarningsTypeOK, AskingInv
  <1>5. AloneInv'
    <2>1. CASE overlapped
      BY <1>1, <2>1 DEF AloneInv
    <2>2. CASE ~ overlapped
      <3>1. /\ \A p, q \in Withdrawals : asking[p] # "idle" /\ asking[q] # "idle" => p = q
            /\ drawn <= e
            /\ \A q \in Withdrawals : asking[q] # "idle" => earned[q] <= e
            /\ \A q \in Withdrawals : asking[q] = "create" => before[q] = drawn
        BY <1>3, <2>2 DEF EarningsInv, AloneInv
      <3>2. drawn \in Nat /\ \A q \in Withdrawals : earned[q] \in Nat
        BY DEF EarningsInv, EarningsTypeOK
      <3>3. drawn <= f /\ \A q \in Withdrawals : asking[q] # "idle" => earned[q] <= f
        BY <1>3, <3>1, <3>2
      <3>4. drawn <= TotalEarnings' /\ \A q \in Withdrawals : asking[q] # "idle" => earned[q] <= TotalEarnings'
        BY <1>3, <3>3
      <3> QED BY <1>1, <3>1, <3>4 DEF AloneInv
    <2> QED BY <2>1, <2>2
  <1> QED BY <1>4, <1>5 DEF EarningsInv

LEMMA RequestStepInv ==
  ASSUME EarningsInv, NEW q \in Withdrawals, RequestWithdrawal(q) PROVE EarningsInv'
PROOF
  <1>1. /\ asking[q] = "idle" /\ asking' = [asking EXCEPT ![q] = "drawn"]
        /\ earned' = [earned EXCEPT ![q] = TotalEarnings]
        /\ overlapped' = (overlapped \/ \E p \in Withdrawals : asking[p] # "idle")
        /\ UNCHANGED <<rowStatus, drawn, before>>
    BY DEF RequestWithdrawal
  <1>2. TotalEarnings' = TotalEarnings
    BY <1>1 DEF TotalEarnings, SoldRows
  <1>3. EarningsTypeOK'
    BY <1>1, EarningsAreNat DEF EarningsInv, EarningsTypeOK
  <1>4. AskingInv'
    BY <1>1 DEF EarningsInv, EarningsTypeOK, AskingInv
  <1>5. AloneInv'
    <2>1. SUFFICES ASSUME ~ overlapped' PROVE AloneInv'
      BY DEF AloneInv
    <2>2. ~ overlapped /\ \A p \in Withdrawals : asking[p] = "idle"
      BY <1>1, <2>1
    <2>3. \A p \in Withdrawals : asking'[p] # "idle" => p = q /\ earned'[p] = TotalEarnings /\ asking'[p] = "drawn"
      BY <1>1, <2>2 DEF EarningsInv, EarningsTypeOK
    <2>4. drawn' <= TotalEarnings'
      BY <1>1, <1>2, <2>2 DEF EarningsInv, AloneInv
    <2>5. \A p \in Withdrawals : asking'[p] # "idle" => earned'[p] <= TotalEarnings'
      BY <1>2, <2>3, EarningsAreNat
    <2> QED BY <2>3, <2>4, <2>5 DEF AloneInv
  <1> QED BY <1>3, <1>4, <1>5 DEF EarningsInv

LEMMA SumStepInv ==
  ASSUME EarningsInv, NEW q \in Withdrawals, SumWithdrawn(q) PROVE EarningsInv'
PROOF
  <1>1. /\ asking[q] = "drawn" /\ UNCHANGED <<rowStatus, drawn, overlapped>>
        /\ earned[q] \in Nat /\ drawn \in Nat /\ MinWithdrawal \in Nat
    BY EarningsAssumption DEF EarningsAssumption, SumWithdrawn, EarningsInv, EarningsTypeOK
  <1>2. TotalEarnings' = TotalEarnings
    BY <1>1 DEF TotalEarnings, SoldRows
  <1>3. \/ /\ asking' = [asking EXCEPT ![q] = "idle"]
           /\ earned' = [earned EXCEPT ![q] = 0]
           /\ before' = before
        \/ /\ asking' = [asking EXCEPT ![q] = "create"]
           /\ before' = [before EXCEPT ![q] = drawn]
           /\ earned' = earned
           /\ drawn <= earned[q]
    <2>1. ~ (earned[q] - drawn < MinWithdrawal) => drawn <= earned[q]
      BY <1>1
    <2> QED BY <2>1 DEF SumWithdrawn, TotalWithdrawn
  <1>4. EarningsTypeOK'
    BY <1>1, <1>3 DEF EarningsInv, EarningsTypeOK
  <1>5. AskingInv'
    BY <1>1, <1>3 DEF EarningsInv, EarningsTypeOK, AskingInv
  <1>6. AloneInv'
    BY <1>1, <1>2, <1>3 DEF EarningsInv, EarningsTypeOK, AloneInv
  <1> QED BY <1>4, <1>5, <1>6 DEF EarningsInv

LEMMA CreateStepInv ==
  ASSUME EarningsInv, NEW q \in Withdrawals, NEW fails \in BOOLEAN, CreateWithdrawal(q, fails)
  PROVE  EarningsInv'
PROOF
  <1>1. /\ asking[q] = "create" /\ UNCHANGED <<rowStatus, overlapped>>
        /\ asking' = [asking EXCEPT ![q] = "idle"]
        /\ earned' = [earned EXCEPT ![q] = 0]
        /\ before' = [before EXCEPT ![q] = 0]
    BY DEF CreateWithdrawal
  <1>2. TotalEarnings' = TotalEarnings
    BY <1>1 DEF TotalEarnings, SoldRows
  <1>3. PICK d, e, b \in Nat : d = drawn /\ e = earned[q] /\ b = before[q] /\ b <= e
    BY <1>1 DEF EarningsInv, EarningsTypeOK, AskingInv
  <1>4. drawn' \in Nat /\ drawn' \in {d, d + e - b}
    <2>1. d + e - b \in Nat
      BY <1>3
    <2> QED BY <1>3, <2>1 DEF CreateWithdrawal
  <1>5. EarningsTypeOK'
    BY <1>1, <1>4 DEF EarningsInv, EarningsTypeOK
  <1>6. AskingInv'
    BY <1>1 DEF EarningsInv, EarningsTypeOK, AskingInv
  <1>7. AloneInv'
    <2>1. SUFFICES ASSUME ~ overlapped PROVE AloneInv'
      BY <1>1 DEF AloneInv
    <2>2. /\ \A p \in Withdrawals : asking[p] # "idle" => p = q
          /\ d <= TotalEarnings /\ e <= TotalEarnings /\ b = d
      BY <1>1, <1>3, <2>1 DEF EarningsInv, AloneInv
    <2>3. drawn' <= TotalEarnings'
      BY <1>2, <1>3, <1>4, <2>2, EarningsAreNat
    <2>4. \A p \in Withdrawals : asking'[p] = "idle"
      BY <1>1, <2>2 DEF EarningsInv, EarningsTypeOK
    <2> QED BY <2>3, <2>4 DEF AloneInv
  <1> QED BY <1>5, <1>6, <1>7 DEF EarningsInv

LEMMA EarningsNextInv == EarningsInv /\ [EarningsNext]_earningsVars => EarningsInv'
PROOF
  <1> SUFFICES ASSUME EarningsInv, [EarningsNext]_earningsVars PROVE EarningsInv'
    OBVIOUS
  <1>1. CASE UNCHANGED earningsVars
    BY <1>1 DEF earningsVars, EarningsInv, EarningsTypeOK, AskingInv, AloneInv, TotalEarnings, SoldRows
  <1>2. CASE EarningsNext
    BY <1>2, RowStepInv, RequestStepInv, SumStepInv, CreateStepInv DEF EarningsNext
  <1> QED BY <1>1, <1>2

\* Nobody draws more than he earned while his withdrawals do not overlap: the
\* three statements of createWithdrawal are enough for one at a time.
THEOREM NeverOverdrawn == EarningsSpec => []NotOverdrawn
PROOF
  <1>1. EarningsInv => NotOverdrawn
    <2> SUFFICES ASSUME EarningsInv, ~ overlapped PROVE drawn + AvailableAmount <= TotalEarnings
      BY DEF NotOverdrawn
    <2>1. PICK d, e \in Nat : d = drawn /\ e = TotalEarnings /\ d <= e
      BY EarningsAreNat DEF EarningsInv, EarningsTypeOK, AloneInv
    <2>2. AvailableAmount = IF e > d THEN e - d ELSE 0
      BY <2>1 DEF AvailableAmount, TotalWithdrawn
    <2>3. d + (IF e > d THEN e - d ELSE 0) <= e
      BY <2>1
    <2> QED BY <2>1, <2>2, <2>3
  <1> QED BY <1>1, EarningsInitInv, EarningsNextInv, PTL DEF EarningsSpec
-----------------------------------------------------------------------------
\* The months of the year share out its days.
LEMMA MonthsShape ==
  /\ Len(MonthEnd) \in Nat /\ Months = 1..Len(MonthEnd) /\ Len(MonthEnd) \in Months
  /\ \A m \in Months : MonthEnd[m] \in Nat
PROOF
  BY YearAssumption DEF YearAssumption, Months

LEMMA SomeMonth ==
  ASSUME NEW r \in Rows
  PROVE  \E m \in Months : InMonth(r, m)
PROOF
  <1>1. PICK n \in Nat : n = Len(MonthEnd) /\ Months = 1..n /\ n \in Months
    BY MonthsShape
  <1>2. PICK d \in Nat : d = SoldOn[r] /\ d <= MonthEnd[n]
    BY <1>1, MonthsShape, YearAssumption DEF YearAssumption
  <1> DEFINE Ends == {m \in 1..n : d <= MonthEnd[m]}
  <1>3. Ends \in SUBSET Nat /\ Ends # {}
    BY <1>1, <1>2
  <1>4. PICK m \in Ends : \A k \in Ends : m <= k
    BY <1>3, SmallestOf
  <1>5. m \in Months /\ m \in Nat /\ MonthEnd[m] \in Nat /\ d <= MonthEnd[m]
    BY <1>1, <1>4, MonthsShape
  <1>6. d >= FirstOf(m)
    <2>1. CASE m = 1
      BY <1>2, <2>1 DEF FirstOf
    <2>2. CASE m # 1
      <3>1. m - 1 \in 1..n /\ ~ (m <= m - 1)
        BY <1>1, <1>5, <2>2
      <3>2. m - 1 \notin Ends
        <4> HIDE DEF Ends
        <4> QED BY <1>4, <3>1
      <3>3. MonthEnd[m - 1] \in Nat /\ ~ (d <= MonthEnd[m - 1])
        BY <1>1, <3>1, <3>2, MonthsShape
      <3> QED BY <1>2, <2>2, <3>3 DEF FirstOf
    <2> QED BY <2>1, <2>2
  <1> QED BY <1>2, <1>5, <1>6 DEF InMonth

LEMMA OneMonth ==
  ASSUME NEW r \in Rows, NEW m \in Months, NEW k \in Months, InMonth(r, m), InMonth(r, k)
  PROVE  m = k
PROOF
  <1>1. SUFFICES ASSUME NEW a \in Months, NEW b \in Months, InMonth(r, a), InMonth(r, b), a < b PROVE FALSE
    BY MonthsShape
  <1>2. b - 1 \in Months /\ b # 1 /\ (a = b - 1 \/ a < b - 1)
    BY <1>1, MonthsShape
  <1>3. SoldOn[r] \in Nat /\ MonthEnd[a] \in Nat /\ MonthEnd[b - 1] \in Nat
    <2>1. SoldOn[r] \in 0..MonthEnd[Len(MonthEnd)] /\ MonthEnd[Len(MonthEnd)] \in Nat
      BY MonthsShape, YearAssumption DEF YearAssumption
    <2> QED BY <1>1, <1>2, <2>1, MonthsShape
  <1>4. MonthEnd[a] <= MonthEnd[b - 1]
    BY <1>2, <1>3, YearAssumption DEF YearAssumption
  <1>5. SoldOn[r] < MonthEnd[a] + 1 /\ SoldOn[r] >= MonthEnd[b - 1] + 1
    BY <1>1, <1>2 DEF InMonth, FirstOf
  <1> QED BY <1>3, <1>4, <1>5

\* So whatever is summed month by month comes to the year's sum.
LEMMA MonthsAddUp ==
  ASSUME NEW S \in SUBSET SoldRows, NEW fun, \A r \in Rows : fun[r] \in Int,
         NEW sums, DOMAIN sums = Months,
         \A m \in Months : sums[m] = SumFunctionOnSet(fun, SalesOf(m) \cap S)
  PROVE  SumFunction(sums) = SumFunctionOnSet(fun, S)
PROOF
  <1> DEFINE portion == [m \in Months |-> SalesOf(m) \cap S]
  <1>1. IsFiniteSet(Months) /\ IsFiniteSet(S) /\ \A y \in S : fun[y] \in Int
    <2>1. IsFiniteSet(Months)
      BY MonthsShape, FS_Interval
    <2> QED BY <2>1, SoldFinite, FS_Subset
  <1>2. \A m \in Months : portion[m] \in SUBSET S /\ sums[m] = SumFunctionOnSet(fun, portion[m])
    OBVIOUS
  <1>3. \A m, k \in Months : m # k => portion[m] \cap portion[k] = {}
    BY SoldFinite, OneMonth DEF SalesOf
  <1>4. UNION {portion[m] : m \in Months} = S
    <2>1. \A r \in S : \E m \in Months : r \in portion[m]
      BY SoldFinite, SomeMonth DEF SalesOf
    <2> QED BY <1>2, <2>1
  <1> HIDE DEF portion
  <1>5. SumFunctionOnSet(sums, Months) = SumFunctionOnSet(fun, UNION {portion[m] : m \in Months})
    BY <1>1, <1>2, <1>3, SumParts
  <1> QED BY <1>4, <1>5 DEF SumFunction

LEMMA ReportsTell ==
  ASSUME EarningsTypeOK PROVE ReportsAgree
PROOF
  <1> DEFINE S  == SoldRows
             Ok == WithStatus(S, "Succeed")
             Pe == WithStatus(S, "Pending")
             Re == WithStatus(S, "Refunded")
  <1>1. /\ S = (Ok \cup Pe) \cup Re /\ Ok \cap Pe = {} /\ (Ok \cup Pe) \cap Re = {}
        /\ S \ Re = Ok \cup Pe
    BY DEF EarningsTypeOK, SoldRows, WithStatus
  <1>2. IsFiniteSet(Ok) /\ IsFiniteSet(Pe) /\ IsFiniteSet(Re) /\ IsFiniteSet(S) /\ IsFiniteSet(Ok \cup Pe)
    BY <1>1, SoldFinite, FS_Subset
  <1>3. /\ \A r \in Rows : Price[r] \in Int /\ Fee[r] \in Int /\ NetAmount[r] \in Int
        /\ \A r \in Rows : Price[r] = Fee[r] + NetAmount[r]
    BY NetType
  <1>4. \A r \in S : r \in Rows
    BY SoldFinite
  <1>5. UNION {MonthlySales(m).items : m \in Months} = S
    <2>1. \A m \in Months : MonthlySales(m).items = SalesOf(m) /\ SalesOf(m) \in SUBSET S
      BY DEF MonthlySales, SalesOf
    <2>2. \A r \in S : \E m \in Months : r \in SalesOf(m)
      BY <1>4, SomeMonth DEF SalesOf
    <2> QED BY <2>1, <2>2
  <1>6. SumFunction([m \in Months |-> MonthlySales(m).count]) = Cardinality(S)
    <2> DEFINE sums == [m \in Months |-> MonthlySales(m).count]
               ones == [r \in Rows |-> 1]
    <2>1. \A m \in Months : sums[m] = SumFunctionOnSet(ones, SalesOf(m) \cap S)
      <3> SUFFICES ASSUME NEW m \in Months PROVE sums[m] = SumFunctionOnSet(ones, SalesOf(m) \cap S)
        OBVIOUS
      <3>1. PICK T : T = SalesOf(m)
        OBVIOUS
      <3>2. IsFiniteSet(T) /\ T \cap S = T /\ \A r \in T : ones[r] = 1
        BY <1>2, <1>4, <3>1, FS_Subset DEF SalesOf
      <3>3. SumFunctionOnSet(ones, T) = Cardinality(T)
        BY <3>2, SumOnes
      <3>4. sums[m] = Cardinality(T)
        BY <3>1 DEF MonthlySales
      <3> QED BY <3>1, <3>2, <3>3, <3>4
    <2>2. \A r \in Rows : ones[r] = 1 /\ ones[r] \in Int
      OBVIOUS
    <2>3. DOMAIN sums = Months
      OBVIOUS
    <2> HIDE DEF ones, sums
    <2>4. SumFunction(sums) = SumFunctionOnSet(ones, S)
      BY <2>1, <2>2, <2>3, MonthsAddUp
    <2>5. SumFunctionOnSet(ones, S) = Cardinality(S)
      BY <1>2, <1>4, <2>2, SumOnes
    <2> QED BY <2>4, <2>5 DEF sums
  <1>7. SumFunction([m \in Months |-> MonthlyTotals(m).sales]) = SumFunctionOnSet(Price, S)
    <2> DEFINE sums == [m \in Months |-> MonthlyTotals(m).sales]
    <2>1. \A m \in Months : SalesOf(m) \cap S = SalesOf(m)
      BY DEF SalesOf
    <2>2. \A m \in Months : sums[m] = SumFunctionOnSet(Price, SalesOf(m) \cap S)
      BY <2>1 DEF MonthlyTotals
    <2>3. DOMAIN sums = Months
      OBVIOUS
    <2> HIDE DEF sums
    <2>4. SumFunction(sums) = SumFunctionOnSet(Price, S)
      BY <1>3, <2>2, <2>3, MonthsAddUp
    <2> QED BY <2>4 DEF sums
  <1>8. SumFunction([m \in Months |-> MonthlyTotals(m).settled]) = SumFunctionOnSet(NetAmount, Ok \cup Pe)
    <2> DEFINE sums == [m \in Months |-> MonthlyTotals(m).settled]
    <2>1. \A m \in Months : SalesOf(m) \cap (Ok \cup Pe) = SalesOf(m) \ WithStatus(SalesOf(m), "Refunded")
      BY <1>1 DEF SalesOf, WithStatus
    <2>2. \A m \in Months : sums[m] = SumFunctionOnSet(NetAmount, SalesOf(m) \cap (Ok \cup Pe))
      BY <2>1 DEF MonthlyTotals
    <2>3. DOMAIN sums = Months /\ Ok \cup Pe \in SUBSET SoldRows
      BY <1>1
    <2> HIDE DEF sums, Ok, Pe
    <2>4. SumFunction(sums) = SumFunctionOnSet(NetAmount, Ok \cup Pe)
      BY <1>3, <2>2, <2>3, MonthsAddUp
    <2> QED BY <2>4 DEF sums
  <1> HIDE DEF Ok, Pe, Re, S
  <1>9. SumFunctionOnSet(NetAmount, Ok \cup Pe) = SumFunctionOnSet(NetAmount, Ok) + SumFunctionOnSet(NetAmount, Pe)
    <2>1. \A r \in Ok \cup Pe : NetAmount[r] \in Int
      BY <1>1, <1>3, <1>4
    <2> QED BY <1>1, <1>2, <2>1, SumDisjoint
  <1>10. SumFunctionOnSet(NetAmount, S) = SumFunctionOnSet(NetAmount, Ok \cup Pe) + SumFunctionOnSet(NetAmount, Re)
    <2>1. PICK T : T = Ok \cup Pe
      OBVIOUS
    <2>2. /\ S = T \cup Re /\ T \cap Re = {} /\ IsFiniteSet(T)
          /\ \A r \in T \cup Re : NetAmount[r] \in Int
      BY <1>1, <1>2, <1>3, <1>4, <2>1
    <2>3. SumFunctionOnSet(NetAmount, T \cup Re) = SumFunctionOnSet(NetAmount, T) + SumFunctionOnSet(NetAmount, Re)
      BY <1>2, <2>2, SumDisjoint
    <2> QED BY <2>1, <2>2, <2>3
  <1>11. SumFunctionOnSet(Price, S) = SumFunctionOnSet(Fee, S) + SumFunctionOnSet(NetAmount, S)
    <2>1. \A r \in S : Fee[r] \in Int /\ NetAmount[r] \in Int /\ Price[r] = Fee[r] + NetAmount[r]
      BY <1>3, <1>4
    <2> QED BY <1>2, <2>1, SumPlus
  <1>12. PICK f, o, p, x \in Int :
           /\ f = SumFunctionOnSet(Fee, S) /\ o = SumFunctionOnSet(NetAmount, Ok)
           /\ p = SumFunctionOnSet(NetAmount, Pe) /\ x = SumFunctionOnSet(NetAmount, Re)
    <2>1. /\ \A r \in S : Fee[r] \in Int
          /\ \A r \in Ok : NetAmount[r] \in Int
          /\ \A r \in Pe : NetAmount[r] \in Int
          /\ \A r \in Re : NetAmount[r] \in Int
      BY <1>1, <1>3, <1>4
    <2>2. SumFunctionOnSet(Fee, S) \in Int /\ SumFunctionOnSet(NetAmount, Ok) \in Int
      BY <1>2, <2>1, SumInt
    <2>3. SumFunctionOnSet(NetAmount, Pe) \in Int /\ SumFunctionOnSet(NetAmount, Re) \in Int
      BY <1>2, <2>1, SumInt
    <2> QED BY <2>2, <2>3
  <1>13. SumFunctionOnSet(Price, S) - f = o + p + x
    <2>1. SumFunctionOnSet(Price, S) = f + ((o + p) + x)
      BY <1>9, <1>10, <1>11, <1>12
    <2> QED BY <2>1
  <1>14. /\ YearlyTotals.count = Cardinality(S) /\ YearlyTotals.sales = SumFunctionOnSet(Price, S)
         /\ YearlyTotals.fee = f /\ YearlyTotals.settled = o
         /\ YearlyTotals.pending = p /\ YearlyTotals.refunded = x /\ PendingAmount = p
    BY <1>12 DEF YearlyTotals, PendingAmount, S, Ok, Pe, Re
  <1>15. UNION {MonthlySales(m).items : m \in Months} = SoldRows
    BY <1>5 DEF S
  <1> QED BY <1>6, <1>7, <1>8, <1>9, <1>12, <1>13, <1>14, <1>15 DEF ReportsAgree

\* The monthly, the yearly and the pending report tell one story, for any sales
\* of any year.
THEOREM ReportsAlwaysAgree == EarningsSpec => []ReportsAgree
PROOF
  <1>1. EarningsInv => ReportsAgree
    BY ReportsTell DEF EarningsInv
  <1> QED BY <1>1, EarningsInitInv, EarningsNextInv, PTL DEF EarningsSpec
-----------------------------------------------------------------------------
(* Refund deadlines.                                                        *)

Calendar == 1..(LastMonth + ManualRefundMonths)

\* f counts the first days of the months of M.
FirstDays(M, f) == f = [n \in M |-> IF n = 1 THEN 0 ELSE f[n - 1] + MonthLength[n - 1]]

\* The calendar's days of purchase, and the day after one.
LastDayOfAll == FirstDay[LastMonth] + MonthLength[LastMonth]

CalendarInv == boughtAt \in Nat /\ KstDayIndex(boughtAt + 1) < LastDayOfAll
-----------------------------------------------------------------------------
LEMMA CalendarShape ==
  /\ DayLength \in Nat \ {0} /\ KstOffset \in Nat /\ KstOffset < DayLength
  /\ LastMonth \in Nat \ {0} /\ ManualRefundMonths = 3 /\ AutoRefundDays = 7
  /\ \A n \in Calendar : MonthLength[n] \in Nat /\ MonthLength[n] >= 28 /\ MonthLength[n] <= 31
  /\ Calendar = 1..(LastMonth + 3)
PROOF
  BY CalendarAssumption DEF CalendarAssumption, Calendar, ManualRefundMonths, AutoRefundDays

\* The first days of all months can be counted one after the other.
LEMMA FirstDaysExist == \E f : FirstDays(Calendar, f)
PROOF
  <1> DEFINE P == {k \in Nat : \E f : FirstDays(1..k, f)}
  <1>1. 0 \in P
    <2> DEFINE f == [n \in 1..0 |-> 0]
    <2>1. f = [n \in 1..0 |-> IF n = 1 THEN 0 ELSE f[n - 1] + MonthLength[n - 1]]
      OBVIOUS
    <2> HIDE DEF f
    <2>2. FirstDays(1..0, f)
      BY <2>1 DEF FirstDays
    <2> QED BY <2>2
  <1>2. ASSUME NEW k \in Nat, k \in P PROVE k + 1 \in P
    <2>1. PICK f : FirstDays(1..k, f)
      BY <1>2
    <2>2. f = [n \in 1..k |-> IF n = 1 THEN 0 ELSE f[n - 1] + MonthLength[n - 1]]
      BY <2>1 DEF FirstDays
    <2> DEFINE g == [n \in 1..(k + 1) |-> IF n = 1 THEN 0 ELSE f[n - 1] + MonthLength[n - 1]]
    <2>3. \A n \in 1..k : g[n] = f[n]
      BY <2>2
    <2>4. \A n \in 1..(k + 1) : n # 1 => n - 1 \in 1..k
      OBVIOUS
    <2>5. \A n \in 1..(k + 1) : g[n] = IF n = 1 THEN 0 ELSE g[n - 1] + MonthLength[n - 1]
      BY <2>3, <2>4
    <2>6. g = [n \in 1..(k + 1) |-> IF n = 1 THEN 0 ELSE g[n - 1] + MonthLength[n - 1]]
      BY <2>5
    <2> HIDE DEF g
    <2>7. FirstDays(1..(k + 1), g)
      BY <2>6 DEF FirstDays
    <2> QED BY <2>7
  <1>3. Nat \subseteq P
    <2> HIDE DEF P
    <2> QED BY <1>1, <1>2, NumberInduction
  <1>4. LastMonth + 3 \in P
    <2> HIDE DEF P
    <2> QED BY <1>3, CalendarShape
  <1> QED BY <1>4, CalendarShape

LEMMA FirstDayIs ==
  \A n \in Calendar : FirstDay[n] = IF n = 1 THEN 0 ELSE FirstDay[n - 1] + MonthLength[n - 1]
PROOF
  <1>1. FirstDay = CHOOSE f : FirstDays(Calendar, f)
    BY DEF FirstDay, FirstDays, Calendar
  <1>2. FirstDays(Calendar, FirstDay)
    BY <1>1, FirstDaysExist
  <1>3. FirstDay = [n \in Calendar |-> IF n = 1 THEN 0 ELSE FirstDay[n - 1] + MonthLength[n - 1]]
    BY <1>2 DEF FirstDays
  <1> HIDE DEF Calendar
  <1> QED BY <1>3

LEMMA FirstDayNat == \A n \in Calendar : FirstDay[n] \in Nat
PROOF
  <1> DEFINE P == {k \in Nat : k + 1 \in Calendar => FirstDay[k + 1] \in Nat}
  <1>1. 0 \in P
    BY FirstDayIs
  <1>2. ASSUME NEW k \in Nat, k \in P PROVE k + 1 \in P
    <2> SUFFICES ASSUME k + 2 \in Calendar PROVE FirstDay[k + 2] \in Nat
      OBVIOUS
    <2>1. k + 1 \in Calendar /\ k + 2 # 1 /\ (k + 2) - 1 = k + 1
      BY CalendarShape
    <2>2. FirstDay[k + 2] = FirstDay[k + 1] + MonthLength[k + 1]
      BY <2>1, FirstDayIs
    <2>3. FirstDay[k + 1] \in Nat /\ MonthLength[k + 1] \in Nat
      BY <1>2, <2>1, CalendarShape
    <2> QED BY <2>2, <2>3
  <1>3. Nat \subseteq P
    <2> HIDE DEF P
    <2> QED BY <1>1, <1>2, NumberInduction
  <1>4. ASSUME NEW n \in Calendar PROVE FirstDay[n] \in Nat
    <2>1. n - 1 \in Nat /\ (n - 1) + 1 = n
      BY CalendarShape
    <2>2. n - 1 \in P
      <3> HIDE DEF P
      <3> QED BY <1>3, <2>1
    <2> QED BY <2>1, <2>2
  <1> QED BY <1>4

LEMMA NextFirstDay ==
  \A n \in Calendar : n + 1 \in Calendar => FirstDay[n + 1] = FirstDay[n] + MonthLength[n]
PROOF
  <1> SUFFICES ASSUME NEW n \in Calendar, n + 1 \in Calendar PROVE FirstDay[n + 1] = FirstDay[n] + MonthLength[n]
    OBVIOUS
  <1>1. n + 1 # 1 /\ (n + 1) - 1 = n
    BY CalendarShape
  <1> QED BY <1>1, FirstDayIs

\* Months follow each other.
LEMMA FirstDaysGrow == \A m, n \in Calendar : m <= n => FirstDay[m] <= FirstDay[n]
PROOF
  <1> DEFINE P == {k \in Nat : \A m \in Calendar : m + k \in Calendar => FirstDay[m] <= FirstDay[m + k]}
  <1>1. 0 \in P
    BY FirstDayNat, CalendarShape
  <1>2. ASSUME NEW k \in Nat, k \in P PROVE k + 1 \in P
    <2> SUFFICES ASSUME NEW m \in Calendar, m + (k + 1) \in Calendar PROVE FirstDay[m] <= FirstDay[m + (k + 1)]
      OBVIOUS
    <2>1. m + k \in Calendar /\ m + (k + 1) = (m + k) + 1
      BY CalendarShape
    <2>2. FirstDay[m] <= FirstDay[m + k]
      BY <1>2, <2>1
    <2>3. FirstDay[(m + k) + 1] = FirstDay[m + k] + MonthLength[m + k]
      BY <2>1, NextFirstDay
    <2>4. FirstDay[m] \in Nat /\ FirstDay[m + k] \in Nat /\ MonthLength[m + k] \in Nat
      BY <2>1, FirstDayNat, CalendarShape
    <2>5. FirstDay[m] <= FirstDay[(m + k) + 1]
      BY <2>2, <2>3, <2>4
    <2> QED BY <2>1, <2>5
  <1>3. Nat \subseteq P
    <2> HIDE DEF P
    <2> QED BY <1>1, <1>2, NumberInduction
  <1>4. ASSUME NEW m \in Calendar, NEW n \in Calendar, m <= n PROVE FirstDay[m] <= FirstDay[n]
    <2>1. n - m \in Nat /\ m + (n - m) = n
      BY <1>4, CalendarShape
    <2>2. n - m \in P
      <3> HIDE DEF P
      <3> QED BY <1>3, <2>1
    <2>3. m + (n - m) \in Calendar
      BY <2>1
    <2>4. FirstDay[m] <= FirstDay[m + (n - m)]
      BY <2>2, <2>3
    <2> QED BY <2>1, <2>4
  <1> QED BY <1>4

\* Every day of the calendar has its month.
LEMMA MonthIs ==
  ASSUME NEW d \in Nat, d < LastDayOfAll
  PROVE  /\ MonthOf(d) \in 1..LastMonth
         /\ FirstDay[MonthOf(d)] <= d /\ d < FirstDay[MonthOf(d)] + MonthLength[MonthOf(d)]
PROOF
  <1> DEFINE Ends == {n \in 1..LastMonth : d < FirstDay[n] + MonthLength[n]}
  <1>1. \A n \in 1..LastMonth : n \in Calendar /\ n \in Nat
    BY CalendarShape
  <1>2. LastMonth \in Ends
    BY CalendarShape DEF LastDayOfAll
  <1>3. PICK m \in Ends : \A n \in Ends : m <= n
    <2>1. Ends \in SUBSET Nat /\ Ends # {}
      BY <1>1, <1>2
    <2> HIDE DEF Ends
    <2> QED BY <2>1, SmallestOf
  <1>4. FirstDay[m] <= d
    <2>1. CASE m = 1
      BY <1>1, <2>1, FirstDayIs
    <2>2. CASE m # 1
      <3>1. m - 1 \in 1..LastMonth /\ ~ (m <= m - 1) /\ (m - 1) + 1 = m
        BY <2>2, CalendarShape
      <3>2. m - 1 \notin Ends
        <4> HIDE DEF Ends
        <4> QED BY <1>3, <3>1
      <3>3. FirstDay[m] = FirstDay[m - 1] + MonthLength[m - 1]
        BY <1>1, <3>1, NextFirstDay
      <3>4. FirstDay[m - 1] \in Nat /\ MonthLength[m - 1] \in Nat
        BY <1>1, <3>1, FirstDayNat, CalendarShape
      <3>5. ~ (d < FirstDay[m - 1] + MonthLength[m - 1])
        BY <3>1, <3>2
      <3> QED BY <3>3, <3>4, <3>5
    <2> QED BY <2>1, <2>2
  <1>5. \E n \in 1..LastMonth : FirstDay[n] <= d /\ d < FirstDay[n] + MonthLength[n]
    BY <1>3, <1>4
  <1> QED BY <1>5 DEF MonthOf

\* The date three months on: three months later, or on that month's last day.
LEMMA ClampedSpan ==
  ASSUME NEW d \in Nat, d < LastDayOfAll
  PROVE  LET c == ClampedDate(d, MonthOf(d) + ManualRefundMonths)
         IN c \in Int /\ c - d >= 89 /\ c - d <= 92
PROOF
  <1>1. PICK m \in 1..LastMonth : m = MonthOf(d) /\ FirstDay[m] <= d /\ d < FirstDay[m] + MonthLength[m]
    BY MonthIs
  <1>2. /\ m \in Calendar /\ m + 1 \in Calendar /\ m + 2 \in Calendar /\ m + 3 \in Calendar
        /\ (m + 1) + 1 = m + 2 /\ (m + 1) + 2 = m + 3 /\ (m + 2) + 1 = m + 3
        /\ m \in 1..(LastMonth + 1) /\ m + 1 \in 1..(LastMonth + 1)
    BY CalendarShape
  <1>3. PICK f, l0, l1, l2, l3 \in Nat :
          /\ f = FirstDay[m] /\ l0 = MonthLength[m] /\ l1 = MonthLength[m + 1]
          /\ l2 = MonthLength[m + 2] /\ l3 = MonthLength[m + 3]
    BY <1>2, FirstDayNat, CalendarShape
  <1>4. l0 + l1 + l2 \in 89..92 /\ l1 + l2 + l3 \in 89..92
    <2>1. /\ MonthLength[m] + MonthLength[m + 1] + MonthLength[m + 2] \in 89..92
          /\ MonthLength[m + 1] + MonthLength[(m + 1) + 1] + MonthLength[(m + 1) + 2] \in 89..92
      BY <1>2, CalendarAssumption DEF CalendarAssumption
    <2> QED BY <1>2, <1>3, <2>1
  <1>5. FirstDay[m + 3] = f + l0 + l1 + l2
    <2>1. FirstDay[m + 1] = f + l0
      BY <1>2, <1>3, NextFirstDay
    <2>2. FirstDay[m + 2] = (f + l0) + l1
      BY <1>2, <1>3, <2>1, NextFirstDay
    <2>3. FirstDay[m + 3] = ((f + l0) + l1) + l2
      BY <1>2, <1>3, <2>2, NextFirstDay
    <2> QED BY <2>3
  <1>6. ClampedDate(d, m + 3) = (f + l0 + l1 + l2) + Smaller(d - f + 1, l3) - 1
    BY <1>1, <1>3, <1>5 DEF ClampedDate, DateOf
  <1>7. f <= d /\ d < f + l0
    BY <1>1, <1>3
  <1>8. PICK c : c = ClampedDate(d, m + 3)
    OBVIOUS
  <1>9. c \in Int /\ c - d >= 89 /\ c - d <= 92
    BY <1>4, <1>6, <1>7, <1>8 DEF Smaller
  <1> QED BY <1>1, <1>8, <1>9, CalendarShape

\* No later day has an earlier one.
LEMMA ClampedGrows ==
  ASSUME NEW d \in Nat, d + 1 < LastDayOfAll
  PROVE  ClampedDate(d, MonthOf(d) + ManualRefundMonths)
           <= ClampedDate(d + 1, MonthOf(d + 1) + ManualRefundMonths)
PROOF
  <1>1. LastDayOfAll \in Nat
    <2>1. LastMonth \in Calendar
      BY CalendarShape
    <2> QED BY <2>1, FirstDayNat, CalendarShape DEF LastDayOfAll
  <1>2. d < LastDayOfAll /\ d + 1 \in Nat
    BY <1>1
  <1>3. PICK m \in 1..LastMonth : m = MonthOf(d) /\ FirstDay[m] <= d /\ d < FirstDay[m] + MonthLength[m]
    BY <1>2, MonthIs
  <1>4. PICK n \in 1..LastMonth :
          n = MonthOf(d + 1) /\ FirstDay[n] <= d + 1 /\ d + 1 < FirstDay[n] + MonthLength[n]
    BY <1>2, MonthIs
  <1>5. m \in Calendar /\ m + 1 \in Calendar /\ m + 3 \in Calendar /\ n \in Calendar /\ n + 1 \in Calendar /\ n + 3 \in Calendar
    BY CalendarShape
  <1>6. /\ FirstDay[m] \in Nat /\ FirstDay[m + 1] \in Nat /\ FirstDay[n] \in Nat /\ FirstDay[n + 1] \in Nat
        /\ MonthLength[m] \in Nat /\ MonthLength[n] \in Nat /\ MonthLength[n + 3] \in Nat
        /\ FirstDay[m + 3] \in Nat /\ FirstDay[n + 3] \in Nat
        /\ MonthLength[m + 3] \in Nat /\ MonthLength[m + 3] >= 28 /\ MonthLength[n + 3] >= 28
    BY <1>5, FirstDayNat, CalendarShape
  <1>7. /\ FirstDay[m + 1] = FirstDay[m] + MonthLength[m]
        /\ FirstDay[n + 1] = FirstDay[n] + MonthLength[n]
    BY <1>5, NextFirstDay
  <1>8. ~ (n < m)
    <2>1. SUFFICES ASSUME n < m PROVE FALSE
      OBVIOUS
    <2>2. n + 1 <= m
      BY <2>1
    <2>3. FirstDay[n + 1] <= FirstDay[m]
      BY <1>5, <2>2, FirstDaysGrow
    <2> QED BY <1>3, <1>4, <1>6, <1>7, <2>3
  <1>9. n \in {m, m + 1}
    <2>1. SUFFICES ASSUME m + 2 <= n PROVE FALSE
      BY <1>8
    <2>2. m + 2 \in Calendar /\ (m + 1) + 1 = m + 2
      BY <2>1, CalendarShape
    <2>3. FirstDay[m + 2] <= FirstDay[n] /\ FirstDay[m + 2] \in Nat
      BY <1>5, <2>1, <2>2, FirstDaysGrow, FirstDayNat
    <2>4. FirstDay[m + 2] = FirstDay[m + 1] + MonthLength[m + 1]
      BY <1>5, <2>2, NextFirstDay
    <2>5. MonthLength[m + 1] \in Nat /\ MonthLength[m + 1] >= 28
      BY <1>5, CalendarShape
    <2> QED BY <1>3, <1>4, <1>6, <1>7, <2>3, <2>4, <2>5
  <1>10. /\ ClampedDate(d, m + 3) = FirstDay[m + 3] + Smaller(d - FirstDay[m] + 1, MonthLength[m + 3]) - 1
         /\ ClampedDate(d + 1, n + 3) = FirstDay[n + 3] + Smaller((d + 1) - FirstDay[n] + 1, MonthLength[n + 3]) - 1
    BY <1>3, <1>4 DEF ClampedDate, DateOf
  <1>11. CASE n = m
    <2>1. Smaller(d - FirstDay[m] + 1, MonthLength[m + 3]) <= Smaller((d + 1) - FirstDay[m] + 1, MonthLength[m + 3])
      BY <1>6 DEF Smaller
    <2>2. /\ Smaller(d - FirstDay[m] + 1, MonthLength[m + 3]) \in Int
          /\ Smaller((d + 1) - FirstDay[m] + 1, MonthLength[m + 3]) \in Int
      BY <1>6 DEF Smaller
    <2>3. ClampedDate(d, m + 3) <= ClampedDate(d + 1, n + 3)
      BY <1>6, <1>10, <1>11, <2>1, <2>2
    <2> QED BY <1>3, <1>4, <2>3, CalendarShape
  <1>12. CASE n = m + 1
    <2>1. FirstDay[n + 3] = FirstDay[m + 3] + MonthLength[m + 3]
      <3>1. (m + 3) + 1 = n + 3
        BY <1>12
      <3> QED BY <1>5, <3>1, NextFirstDay
    <2>2. /\ Smaller(d - FirstDay[m] + 1, MonthLength[m + 3]) \in Int
          /\ Smaller(d - FirstDay[m] + 1, MonthLength[m + 3]) <= MonthLength[m + 3]
      BY <1>6 DEF Smaller
    <2>3. /\ Smaller((d + 1) - FirstDay[n] + 1, MonthLength[n + 3]) \in Int
          /\ Smaller((d + 1) - FirstDay[n] + 1, MonthLength[n + 3]) >= 1
      BY <1>4, <1>6 DEF Smaller
    <2>4. ClampedDate(d, m + 3) <= ClampedDate(d + 1, n + 3)
      BY <1>6, <1>10, <2>1, <2>2, <2>3
    <2> QED BY <1>3, <1>4, <2>4, CalendarShape
  <1> QED BY <1>9, <1>11, <1>12

\* The day of a moment in Korea, and of the next one.
LEMMA KstDay ==
  ASSUME NEW t \in Nat
  PROVE  /\ KstDayIndex(t) \in Nat
         /\ KstDayIndex(t) * DayLength <= t + KstOffset
         /\ t + KstOffset < (KstDayIndex(t) + 1) * DayLength
PROOF
  <1>1. PICK n \in Nat \ {0} : n = DayLength
    BY CalendarShape
  <1>2. PICK s \in Nat : s = t + KstOffset
    BY CalendarShape
  <1>3. PICK k \in Int : k = s \div n
    OBVIOUS
  <1>4. n * k <= s /\ s < n * k + n
    BY <1>3
  <1>5. k \in Nat
    <2>1. SUFFICES ASSUME k <= -1 PROVE FALSE
      OBVIOUS
    <2>2. n * k <= n * (-1)
      BY <2>1
    <2> QED BY <1>4, <2>2
  <1>6. n * k = k * n /\ (k + 1) * n = n * k + n
    OBVIOUS
  <1> QED BY <1>1, <1>2, <1>3, <1>4, <1>5, <1>6 DEF KstDayIndex

LEMMA Multiples ==
  ASSUME NEW n \in Nat \ {0}, NEW a \in Nat, NEW b \in Nat, a * n < b * n
  PROVE  a < b
PROOF
  <1>1. SUFFICES ASSUME b <= a PROVE FALSE
    OBVIOUS
  <1>2. PICK c \in Nat : a = b + c
    <2>1. a - b \in Nat /\ a = b + (a - b)
      BY <1>1
    <2> QED BY <2>1
  <1>3. a * n = b * n + c * n /\ c * n \in Nat /\ b * n \in Nat
    BY <1>2
  <1> QED BY <1>3

LEMMA NextKstDay ==
  ASSUME NEW t \in Nat
  PROVE  KstDayIndex(t + 1) \in {KstDayIndex(t), KstDayIndex(t) + 1}
PROOF
  <1>1. PICK n \in Nat \ {0} : n = DayLength
    BY CalendarShape
  <1>2. PICK s \in Nat : s = t + KstOffset
    BY CalendarShape
  <1>3. PICK k \in Nat : k = KstDayIndex(t) /\ k * n <= s /\ s < (k + 1) * n
    BY <1>1, <1>2, KstDay
  <1>4. PICK j \in Nat : j = KstDayIndex(t + 1) /\ j * n <= s + 1 /\ s + 1 < (j + 1) * n
    <2>1. (t + 1) + KstOffset = s + 1
      BY <1>2, CalendarShape
    <2>2. t + 1 \in Nat
      OBVIOUS
    <2> QED BY <1>1, <2>1, <2>2, KstDay
  <1>5. k * n \in Nat /\ (k + 1) * n \in Nat /\ j * n \in Nat /\ (j + 1) * n \in Nat /\ (k + 2) * n = (k + 1) * n + n
    OBVIOUS
  <1>6. k * n < (j + 1) * n /\ j * n < (k + 2) * n
    BY <1>3, <1>4, <1>5
  <1>7. k < j + 1
    BY <1>6, Multiples
  <1>8. j < k + 2
    BY <1>6, Multiples
  <1> QED BY <1>3, <1>4, <1>7, <1>8
-----------------------------------------------------------------------------
LEMMA DaysOfAll == LastDayOfAll \in Nat /\ LastDayOfAll >= 28
PROOF
  <1>1. LastMonth \in Calendar
    BY CalendarShape
  <1>2. FirstDay[LastMonth] \in Nat /\ MonthLength[LastMonth] \in Nat /\ MonthLength[LastMonth] >= 28
    BY <1>1, FirstDayNat, CalendarShape
  <1> QED BY <1>2 DEF LastDayOfAll

LEMMA CalendarInitInv == CalendarInit => CalendarInv
PROOF
  <1> SUFFICES ASSUME CalendarInit PROVE CalendarInv
    OBVIOUS
  <1>1. PICK n \in Nat \ {0} : n = DayLength
    BY CalendarShape
  <1>2. boughtAt \in Nat /\ boughtAt <= n - 1
    BY <1>1 DEF CalendarInit
  <1>3. PICK k \in Nat : k = KstDayIndex(boughtAt + 1) /\ k * n <= (boughtAt + 1) + KstOffset
    <2>1. boughtAt + 1 \in Nat
      BY <1>2
    <2> QED BY <1>1, <2>1, KstDay
  <1>4. k * n < 2 * n
    <2>1. k * n \in Nat
      OBVIOUS
    <2> QED BY <1>1, <1>2, <1>3, <2>1, CalendarShape
  <1>5. k < 2
    BY <1>4, Multiples
  <1> QED BY <1>2, <1>3, <1>5, DaysOfAll DEF CalendarInv

LEMMA CalendarNextInv == CalendarInv /\ [CalendarNext]_boughtAt => CalendarInv'
PROOF
  <1> SUFFICES ASSUME CalendarInv, [CalendarNext]_boughtAt PROVE CalendarInv'
    OBVIOUS
  <1>1. CASE CalendarNext
    <2>1. boughtAt' = boughtAt + DayLength /\ boughtAt' \in Nat /\ boughtAt' + 1 = boughtAt + DayLength + 1
      BY <1>1, CalendarShape DEF CalendarInv, CalendarNext
    <2>2. KstDayIndex(boughtAt + DayLength + 1) < LastDayOfAll
      BY <1>1 DEF CalendarNext, LastDayOfAll
    <2>3. KstDayIndex(boughtAt' + 1) < LastDayOfAll
      BY <2>1, <2>2
    <2> QED BY <2>1, <2>3 DEF CalendarInv
  <1>2. CASE UNCHANGED boughtAt
    BY <1>2 DEF CalendarInv
  <1> QED BY <1>1, <1>2

\* From the end of one Korean day to that of a later one.
LEMMA EndOfDay ==
  ASSUME NEW t \in Nat, NEW k \in Nat, k * DayLength <= t + KstOffset, t + KstOffset < (k + 1) * DayLength,
         NEW c \in Int, NEW a \in Nat, c - k >= a
  PROVE  /\ EndOfKstDay(c) \in Int /\ EndOfKstDay(c) - t > a * DayLength
         /\ \A b \in Nat : c - k <= b => EndOfKstDay(c) - t <= (b + 1) * DayLength
         /\ (EndOfKstDay(c) + KstOffset) % DayLength = 0
PROOF
  <1>1. PICK n \in Nat \ {0} : n = DayLength
    BY CalendarShape
  <1>2. PICK s \in Nat : s = t + KstOffset
    BY CalendarShape
  <1>3. PICK e \in Nat : c = k + a + e
    <2>1. (c - k) - a \in Nat /\ c = k + a + ((c - k) - a)
      OBVIOUS
    <2> QED BY <2>1
  <1>4. PICK kn, an, en \in Nat : kn = k * n /\ an = a * n /\ en = e * n
    <2>1. k * n \in Nat /\ a * n \in Nat /\ e * n \in Nat
      OBVIOUS
    <2> QED BY <2>1
  <1>5. (c + 1) * n = kn + an + en + n /\ (k + 1) * n = kn + n
    BY <1>3, <1>4
  <1>6. kn <= s /\ s < kn + n
    BY <1>1, <1>2, <1>4, <1>5
  <1>7. EndOfKstDay(c) = kn + an + en + n - KstOffset /\ KstOffset \in Nat /\ t = s - KstOffset
    BY <1>1, <1>2, <1>5, CalendarShape DEF EndOfKstDay
  <1>8. EndOfKstDay(c) \in Int /\ EndOfKstDay(c) - t > a * DayLength
    BY <1>1, <1>4, <1>6, <1>7
  <1>9. ASSUME NEW b \in Nat, c - k <= b PROVE EndOfKstDay(c) - t <= (b + 1) * DayLength
    <2>1. PICK g \in Nat : b = a + e + g
      <3>1. b - (a + e) \in Nat /\ b = a + e + (b - (a + e))
        BY <1>3, <1>9
      <3> QED BY <3>1
    <2>2. (b + 1) * n = an + en + g * n + n /\ g * n \in Nat
      BY <1>4, <2>1
    <2> QED BY <1>1, <1>6, <1>7, <2>2
  <1>10. (EndOfKstDay(c) + KstOffset) % DayLength = 0
    <2>1. EndOfKstDay(c) + KstOffset = (c + 1) * n
      BY <1>1, CalendarShape DEF EndOfKstDay
    <2>2. c + 1 \in Nat
      BY <1>3
    <2>3. ((c + 1) * n) % n = 0
      BY <2>2
    <2> QED BY <1>1, <2>1, <2>3
  <1> QED BY <1>8, <1>9, <1>10

LEMMA EndsGrow ==
  ASSUME NEW c \in Int, NEW e \in Int, c <= e
  PROVE  EndOfKstDay(e) >= EndOfKstDay(c)
PROOF
  <1>1. PICK n \in Nat \ {0} : n = DayLength
    BY CalendarShape
  <1>2. PICK g \in Nat : e = c + g
    <2>1. e - c \in Nat /\ e = c + (e - c)
      OBVIOUS
    <2> QED BY <2>1
  <1>3. (e + 1) * n = (c + 1) * n + g * n /\ g * n \in Nat /\ (c + 1) * n \in Int
    BY <1>2
  <1> QED BY <1>1, <1>3, CalendarShape DEF EndOfKstDay

\* Both deadlines are the end of a Korean day, neither too early nor too late, and
\* no later purchase has an earlier one, for every length of the day, every
\* offset and every calendar whose months are as long as ours.
THEOREM DeadlinesAlwaysAsPromised == CalendarSpec => []DeadlinesAsPromised
PROOF
  <1>1. ASSUME CalendarInv PROVE DeadlinesAsPromised
    <2>1. PICK t \in Nat : t = boughtAt /\ KstDayIndex(t + 1) < LastDayOfAll
      BY <1>1 DEF CalendarInv
    <2>2. PICK n \in Nat \ {0} : n = DayLength
      BY CalendarShape
    <2>3. PICK k \in Nat : k = KstDayIndex(t) /\ k * DayLength <= t + KstOffset /\ t + KstOffset < (k + 1) * DayLength
      BY KstDay
    <2>4. PICK j \in Nat : j = KstDayIndex(t + 1) /\ j \in {k, k + 1}
      BY <2>3, NextKstDay, KstDay
    <2>5. k < LastDayOfAll /\ (j = k + 1 => k + 1 < LastDayOfAll)
      BY <2>1, <2>4, DaysOfAll
    <2>6. PICK c \in Int : c = ClampedDate(k, MonthOf(k) + ManualRefundMonths) /\ c - k >= 89 /\ c - k <= 92
      BY <2>5, ClampedSpan
    <2>7. PICK e \in Int : e = ClampedDate(j, MonthOf(j) + ManualRefundMonths) /\ c <= e
      <3>1. CASE j = k
        BY <2>6, <3>1
      <3>2. CASE j = k + 1
        <4>1. c <= ClampedDate(k + 1, MonthOf(k + 1) + ManualRefundMonths)
          BY <2>5, <2>6, <3>2, ClampedGrows
        <4>2. ClampedDate(k + 1, MonthOf(k + 1) + ManualRefundMonths) \in Int
          <5>1. k + 1 \in Nat /\ k + 1 < LastDayOfAll
            BY <2>5, <3>2
          <5> QED BY <5>1, ClampedSpan
        <4> QED BY <3>2, <4>1, <4>2
      <3> QED BY <2>4, <3>1, <3>2
    <2>8. PICK auto, manual \in Int : auto = EndOfKstDay(k + 7) /\ manual = EndOfKstDay(c)
      <3>1. EndOfKstDay(k + 7) \in Int /\ EndOfKstDay(c) \in Int
        BY CalendarShape DEF EndOfKstDay
      <3> QED BY <3>1
    <2>9. auto = AutoRefundDeadline(t) /\ manual = ManualRefundDeadline(t)
      BY <2>3, <2>6, <2>8, CalendarShape DEF AutoRefundDeadline, ManualRefundDeadline
    <2>10. /\ auto - t > 7 * DayLength /\ auto - t <= (7 + 1) * DayLength
           /\ (auto + KstOffset) % DayLength = 0
      <3>1. k + 7 \in Int /\ (k + 7) - k >= 7 /\ (k + 7) - k <= 7
        OBVIOUS
      <3> QED BY <2>3, <2>8, <3>1, EndOfDay
    <2>11. /\ manual - t > 89 * DayLength /\ manual - t <= (92 + 1) * DayLength
           /\ (manual + KstOffset) % DayLength = 0
      BY <2>3, <2>6, <2>8, EndOfDay
    <2>12. t < auto /\ t < manual /\ auto - 1 < manual
      BY <2>2, <2>10, <2>11
    <2>13. AutoRefundDeadline(t + 1) >= auto
      <3>1. k + 7 \in Int /\ j + 7 \in Int /\ k + 7 <= j + 7
        BY <2>4
      <3>2. EndOfKstDay(j + 7) >= EndOfKstDay(k + 7)
        BY <3>1, EndsGrow
      <3> QED BY <2>4, <2>8, <3>2, CalendarShape DEF AutoRefundDeadline
    <2>14. ManualRefundDeadline(t + 1) >= manual
      <3>1. EndOfKstDay(e) >= EndOfKstDay(c)
        BY <2>7, EndsGrow
      <3> QED BY <2>4, <2>7, <2>8, <3>1 DEF ManualRefundDeadline
    <2>15. \A opened \in BOOLEAN, now \in {t, auto - 1} : CheckAuto(t, opened, now) # CheckManual(t, opened, now)
      <3>1. \A now \in {t, auto - 1} : now < auto /\ now < manual
        BY <2>12
      <3> QED BY <2>9, <3>1 DEF CheckAuto, CheckManual
    <2>16. /\ auto - t <= 8 * DayLength /\ manual - t <= 93 * DayLength
      BY <2>10, <2>11
    <2> QED BY <2>1, <2>9, <2>10, <2>11, <2>13, <2>14, <2>15, <2>16 DEF DeadlinesAsPromised
  <1>2. CalendarInv => DeadlinesAsPromised
    BY <1>1
  <1> QED BY <1>2, CalendarInitInv, CalendarNextInv, PTL DEF CalendarSpec
-----------------------------------------------------------------------------
(* All of them beside each other.                                           *)

SettlementInv == part \in Parts /\ SyncInv /\ VerifyInv /\ SellerInv /\ CalendarInv /\ EarningsInv

\* The five parts beside each other keep their types, whichever of them moves.
THEOREM SettlementTypes == Spec => []TypeOK
PROOF
  <1>1. Init => SettlementInv
    BY SyncInitInv, VerifyInitInv, SellerInitInv, CalendarInitInv, EarningsInitInv DEF Init, SettlementInv
  <1>2. ASSUME SettlementInv, [Next]_vars PROVE SettlementInv'
    <2>1. /\ part' = part /\ [SyncNext]_syncVars /\ [VerifyNext]_verifyVars /\ [SellerNext]_sellerVars
          /\ [CalendarNext]_boughtAt /\ [EarningsNext]_earningsVars
      BY <1>2 DEF Next, vars
    <2> QED
      BY <1>2, <2>1, SyncNextInv, VerifyNextInv, SellerNextInv, CalendarNextInv, EarningsNextInv
      DEF SettlementInv
  <1>3. SettlementInv => TypeOK
    BY DEF SettlementInv, TypeOK, SyncInv, VerifyInv, SellerInv, CalendarInv, CalendarTypeOK, EarningsInv
  <1> QED BY <1>1, <1>2, <1>3, PTL DEF Spec

===============================================================================
