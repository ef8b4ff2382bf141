------------------------------- MODULE Profile -------------------------------
(***************************************************************************)
(* What members keep about themselves and each other (src/members): whom   *)
(* they follow, their nickname, their introduction, image, careers and SNS *)
(* links, and the list of all members.  A handler first looks for what     *)
(* forbids its statement and then executes it; neither followings nor      *)
(* nicknames have a unique index.                                          *)
(***************************************************************************)
EXTENDS Naturals, FiniteSets, Sequences, SequencesExt, Requests

CONSTANTS
  People,          \* users
  Names, NoName,   \* nicknames
  Slots,           \* slots for running handlers
  MaxFollows,      \* bound on Following rows made
  MaxEntries,      \* bound on UserHistory and UserSNS rows made, of each
  RosterLimit      \* page size of the list of members

ASSUME ProfileAssumption ==
  /\ NoName \notin Names
  /\ MaxFollows \in Nat /\ MaxEntries \in Nat /\ RosterLimit \in 1..100

Kinds == {"history", "sns"}

VARIABLES
  follows,    \* Following rows
  followed,   \* rows made so far
  nick,       \* User.nickname; NoName while there is no such user
  told,       \* UserIntro, UserImage: who has one
  entries,    \* UserHistory and UserSNS rows
  entered,    \* rows made so far
  roster,     \* users by created_at
  reader,     \* somebody who reads the list of members page after page
  slot,       \* a running handler: what it will write, and whether it was overtaken
  \* for the properties only
  overlapped, \* pairs and nicknames that two overlapping handlers wrote
  unchecked   \* nicknames that were taken when they were given where nobody looks

profileVars == <<follows, followed, nick, told, entries, entered, roster, reader, slot,
                 overlapped, unchecked>>
followVars  == <<follows, followed>>
nameVars    == <<nick, unchecked>>
entryVars   == <<entries, entered, told>>
rosterVars  == <<roster, reader>>

NoReader  == [page |-> 0, seen |-> {}, due |-> {}]
Free      == [act |-> "none"]
Writes    == [act : {"follow"}, by : People, of : People, raced : BOOLEAN]
             \cup [act : {"unfollow"}, by : People, id : 1..MaxFollows]
             \cup [act : {"nick"}, by : People, name : Names, raced : BOOLEAN]
             \cup [act : {"edit", "drop"}, by : People, kind : Kinds, id : 1..MaxEntries]
             \cup [act : {"revise"}, by : People]

ProfileTypeOK ==
  /\ follows \in SUBSET [id : 1..MaxFollows, by : People, of : People]
  /\ followed \in 0..MaxFollows
  /\ nick \in [People -> Names \cup {NoName}]
  /\ told \in [{"intro", "image"} -> SUBSET People]
  /\ entries \in [Kinds -> SUBSET [id : 1..MaxEntries, owner : People]]
  /\ entered \in [Kinds -> 0..MaxEntries]
  /\ roster \in Seq(People) /\ IsInjective(roster)
  /\ reader.page \in Nat /\ reader.seen \cup reader.due \subseteq People
  /\ slot \in [Slots -> {Free} \cup Writes]
  /\ overlapped \in SUBSET ((People \X People) \cup Names)
  /\ unchecked \in SUBSET Names

ProfileInit ==
  /\ follows = {} /\ followed = 0
  /\ nick = [u \in People |-> NoName]
  /\ told = [t \in {"intro", "image"} |-> {}]
  /\ entries = [k \in Kinds |-> {}]
  /\ entered = [k \in Kinds |-> 0]
  /\ roster = <<>> /\ reader = NoReader
  /\ slot = [c \in Slots |-> Free]
  /\ overlapped = {} /\ unchecked = {}

Take(c, w) == slot[c] = Free /\ slot' = [slot EXCEPT ![c] = w]
Drop(c)    == slot' = [slot EXCEPT ![c] = Free]

\* The statement of c is done; the handlers in S were overtaken by it.
DoneBefore(c, S) ==
  slot' = [d \in Slots |-> IF d = c THEN Free
                           ELSE IF d \in S THEN [slot[d] EXCEPT !.raced = TRUE] ELSE slot[d]]
-----------------------------------------------------------------------------
(* Following.                                                               *)

FollowersOf(u)  == {f \in follows : f.of = u}
FollowingsOf(u) == {f \in follows : f.by = u}
FindFollow(u, w) == FollowingsOf(u) \cap FollowersOf(w)

\* The lists give every person the count of rows that name him.
GetFollowers(u)  == {[follower_id |-> f.by, follower_cnt |-> Cardinality(FollowersOf(f.by))] : f \in FollowersOf(u)}
GetFollowings(u) == {[following_id |-> f.of, following_cnt |-> Cardinality(FollowersOf(f.of))] : f \in FollowingsOf(u)}

\* Mutant: nobody looks whether he follows already.
FollowTwice(c, u, w) ==
  /\ u # w /\ followed < MaxFollows
  /\ Take(c, [act |-> "follow", by |-> u, of |-> w, raced |-> FALSE])
  /\ UNCHANGED <<followVars, nameVars, entryVars, rosterVars, overlapped>>

\* followMember up to its insert.
FollowMember(c, u, w) ==
  /\ u # w
  /\ FindFollow(u, w) = {}
  /\ Take(c, [act |-> "follow", by |-> u, of |-> w, raced |-> FALSE])
  /\ UNCHANGED <<followVars, nameVars, entryVars, rosterVars, overlapped>>

CreateFollow(c) ==
  /\ slot[c].act = "follow"
  /\ followed < MaxFollows
  /\ followed' = followed + 1
  /\ LET w == slot[c] IN
       /\ follows' = follows \cup {[id |-> followed + 1, by |-> w.by, of |-> w.of]}
       /\ overlapped' = IF w.raced THEN overlapped \cup {<<w.by, w.of>>} ELSE overlapped
       /\ DoneBefore(c, {d \in Slots : slot[d].act = "follow" /\ slot[d].by = w.by /\ slot[d].of = w.of})
  /\ UNCHANGED <<nameVars, entryVars, rosterVars>>

\* unfollowMember removes the one row it found, if it is still there.
UnfollowMember(c, u, w) ==
  /\ \E f \in FindFollow(u, w) : Take(c, [act |-> "unfollow", by |-> u, id |-> f.id])
  /\ UNCHANGED <<followVars, nameVars, entryVars, rosterVars, overlapped>>

DeleteFollow(c) ==
  /\ slot[c].act = "unfollow"
  /\ follows' = {f \in follows : f.id # slot[c].id}
  /\ Drop(c)
  /\ UNCHANGED <<followed, nameVars, entryVars, rosterVars, overlapped>>

FollowRoute(q, c, w)   == SignedIn(q) /\ FollowMember(c, q.user, w)
UnfollowRoute(q, c, w) == SignedIn(q) /\ UnfollowMember(c, q.user, w)
-----------------------------------------------------------------------------
(* Nicknames.                                                               *)

FindUserByNickname(n) == {u \in People : nick[u] = n}

\* updateMember up to its update.  Of several users with the nickname findFirst
\* finds any.  (An e-mail address is protected by its index.)
UpdateMember(c, u, n) ==
  /\ nick[u] # NoName
  /\ FindUserByNickname(n) = {} \/ u \in FindUserByNickname(n)
  /\ Take(c, [act |-> "nick", by |-> u, name |-> n, raced |-> FALSE])
  /\ UNCHANGED <<followVars, nameVars, entryVars, rosterVars, overlapped>>

UpdateUser(c) ==
  /\ slot[c].act = "nick"
  /\ LET w == slot[c] IN
       /\ nick' = [nick EXCEPT ![w.by] = w.name]
       /\ overlapped' = IF w.raced THEN overlapped \cup {w.name} ELSE overlapped
       /\ DoneBefore(c, {d \in Slots : slot[d].act = "nick" /\ slot[d].name = w.name})
  /\ UNCHANGED <<followVars, unchecked, entryVars, rosterVars>>

\* Somebody else has the nickname or is about to.
Taken(u, n) ==
  \/ \E w \in People \ {u} : nick[w] = n
  \/ \E c \in Slots : slot[c].act = "nick" /\ slot[c].by # u /\ slot[c].name = n

\* A nickname that is written without a look at others'.
GiveNickname(u, n) ==
  /\ nick' = [nick EXCEPT ![u] = n]
  /\ unchecked' = IF Taken(u, n) THEN unchecked \cup {n} ELSE unchecked

\* completeInitialSetup sets nickname and introduction.
CompleteInitialSetup(u, n) ==
  /\ nick[u] # NoName
  /\ GiveNickname(u, n)
  /\ told' = [told EXCEPT !["intro"] = @ \cup {u}]
  /\ UNCHANGED <<followVars, entries, entered, rosterVars, slot, overlapped>>

\* completeSignup, for whoever has the address; its tokens are Membership's.
NameAtSignup(u, n) ==
  /\ nick[u] # NoName
  /\ GiveNickname(u, n)
  /\ UNCHANGED <<followVars, entryVars, rosterVars, slot, overlapped>>

UpdateMemberRoute(q, c, n) == WellFormed(q) /\ UpdateMember(c, q.user, n)
InitialSetupRoute(q, n)    == WellFormed(q) /\ CompleteInitialSetup(q.user, n)
SignupNameRoute(q, u, n)   == q.valid /\ NameAtSignup(u, n)
-----------------------------------------------------------------------------
(* Introduction, image, careers and SNS links.                              *)

Upsert(t, u) ==
  /\ told' = [told EXCEPT ![t] = @ \cup {u}]
  /\ UNCHANGED <<followVars, nameVars, entries, entered, rosterVars, slot, overlapped>>

UpsertIntro(u)        == Upsert("intro", u)
UpsertProfileImage(u) == Upsert("image", u)

\* updateIntro looks for the row it is going to change.
FindIntro(c, u) ==
  /\ u \in told["intro"]
  /\ Take(c, [act |-> "revise", by |-> u])
  /\ UNCHANGED <<followVars, nameVars, entryVars, rosterVars, overlapped>>

UpdateIntro(c) ==
  /\ slot[c].act = "revise" /\ Drop(c)
  /\ UNCHANGED <<followVars, nameVars, entryVars, rosterVars, overlapped>>

CreateIntroRoute(q)    == WellFormed(q) /\ UpsertIntro(q.user)
UpdateIntroRoute(q, c) == WellFormed(q) /\ FindIntro(c, q.user)
UploadImageRoute(q)    == WellFormed(q) /\ UpsertProfileImage(q.user)

CreateEntry(k, u) ==
  /\ entered[k] < MaxEntries
  /\ entered' = [entered EXCEPT ![k] = @ + 1]
  /\ entries' = [entries EXCEPT ![k] = @ \cup {[id |-> entered[k] + 1, owner |-> u]}]
  /\ UNCHANGED <<followVars, nameVars, told, rosterVars, slot, overlapped>>

\* Mutant: any row that exists may be changed.
AnyEntry(k, u, id) == {e \in entries[k] : e.id = id}

\* The row with this id, if it belongs to the user.
OwnEntry(k, u, id) == {e \in entries[k] : e.id = id /\ e.owner = u}

\* Looks the row up and goes on to change or delete it by its id.
Check(c, act, k, u, id) ==
  /\ OwnEntry(k, u, id) # {}
  /\ Take(c, [act |-> act, by |-> u, kind |-> k, id |-> id])
  /\ UNCHANGED <<followVars, nameVars, entryVars, rosterVars, overlapped>>

\* The update of a row that is gone fails and changes nothing.
EditEntry(c) ==
  /\ slot[c].act = "edit" /\ Drop(c)
  /\ UNCHANGED <<followVars, nameVars, entryVars, rosterVars, overlapped>>

DeleteEntry(c) ==
  /\ slot[c].act = "drop"
  /\ entries' = [entries EXCEPT ![slot[c].kind] = {e \in @ : e.id # slot[c].id}]
  /\ Drop(c)
  /\ UNCHANGED <<followVars, nameVars, entered, told, rosterVars, overlapped>>

\* adminDeleteHistory
AdminDeleteHistory(id) ==
  /\ \E e \in entries["history"] : e.id = id
  /\ entries' = [entries EXCEPT !["history"] = {e \in @ : e.id # id}]
  /\ UNCHANGED <<followVars, nameVars, entered, told, rosterVars, slot, overlapped>>

CreateHistoryRoute(q)        == WellFormed(q) /\ CreateEntry("history", q.user)
UpdateHistoryRoute(q, c, id) == WellFormed(q) /\ Check(c, "edit", "history", q.user, id)
DeleteHistoryRoute(q, c, id) == SignedIn(q) /\ Check(c, "drop", "history", q.user, id)
AdminDeleteRoute(q, id)      == ByAdmin(q) /\ AdminDeleteHistory(id)
CreateSnsRoute(q)            == WellFormed(q) /\ CreateEntry("sns", q.user)
UpdateSnsRoute(q, c, id)     == WellFormed(q) /\ Check(c, "edit", "sns", q.user, id)
DeleteSnsRoute(q, c, id)     == SignedIn(q) /\ Check(c, "drop", "sns", q.user, id)
-----------------------------------------------------------------------------
(* The list of all members, latest first, by page number.                   *)

\* Mutant: the address of a user is not unique.
JoinTwice(u, n) ==
  /\ roster' = Append(roster, u)
  /\ GiveNickname(u, n)
  /\ UNCHANGED <<followVars, entryVars, reader, slot, overlapped>>

\* A new user, by registration or a first social login, with the nickname that
\* the clock or the provider's profile gives; no row of User is ever deleted.
JoinRoster(u, n) ==
  /\ u \notin ToSet(roster)
  /\ roster' = Append(roster, u)
  /\ GiveNickname(u, n)
  /\ UNCHANGED <<followVars, entryVars, reader, slot, overlapped>>

\* Mutant: pages are counted from 0.
PagesFromZero(page, limit) ==
  SubSeq(Reverse(roster), page * limit + 1,
         IF (page + 1) * limit < Len(roster) THEN (page + 1) * limit ELSE Len(roster))

\* skip and take
FindAllMembers(page, limit) ==
  SubSeq(Reverse(roster), (page - 1) * limit + 1,
         IF page * limit < Len(roster) THEN page * limit ELSE Len(roster))

TotalPages(limit) == (Len(roster) + limit - 1) \div limit

\* getAllMembers, by somebody who goes on until the last page there is.
GetAllMembers ==
  /\ reader.page <= TotalPages(RosterLimit)
  /\ reader' = [page |-> reader.page + 1,
                seen |-> reader.seen \cup (IF reader.page = 0 THEN {}
                           ELSE ToSet(FindAllMembers(reader.page, RosterLimit))),
                due  |-> IF reader.page = 0 THEN ToSet(roster) ELSE reader.due]
  /\ UNCHANGED <<followVars, nameVars, entryVars, roster, slot, overlapped>>
-----------------------------------------------------------------------------
\* A statement fails, or the handler's process ends.
SlotFails(c) ==
  /\ slot[c] # Free /\ Drop(c)
  /\ UNCHANGED <<followVars, nameVars, entryVars, rosterVars, overlapped>>

FollowNext ==
  \/ \E q \in Requests(People), c \in Slots, w \in People : FollowRoute(q, c, w) \/ UnfollowRoute(q, c, w)
  \/ \E c \in Slots : CreateFollow(c) \/ DeleteFollow(c) \/ SlotFails(c)

NameNext ==
  \/ \E q \in Requests(People), c \in Slots, n \in Names : UpdateMemberRoute(q, c, n) \/ InitialSetupRoute(q, n)
  \/ \E u \in People, n \in Names :
       JoinRoster(u, n) \/ \E q \in Requests(People) : SignupNameRoute(q, u, n)
  \/ \E c \in Slots : UpdateUser(c) \/ SlotFails(c)

EntryNext ==
  \/ \E q \in Requests(People), c \in Slots, id \in 1..MaxEntries :
       \/ UpdateHistoryRoute(q, c, id) \/ DeleteHistoryRoute(q, c, id) \/ AdminDeleteRoute(q, id)
       \/ UpdateSnsRoute(q, c, id) \/ DeleteSnsRoute(q, c, id)
  \/ \E q \in Requests(People) : \/ CreateHistoryRoute(q) \/ CreateSnsRoute(q)
                         \/ CreateIntroRoute(q) \/ UploadImageRoute(q)
                         \/ \E c \in Slots : UpdateIntroRoute(q, c)
  \/ \E c \in Slots : EditEntry(c) \/ DeleteEntry(c) \/ UpdateIntro(c) \/ SlotFails(c)

RosterNext == (\E u \in People, n \in Names : JoinRoster(u, n)) \/ GetAllMembers

ProfileNext == FollowNext \/ NameNext \/ EntryNext \/ RosterNext
ProfileSpec == ProfileInit /\ [][ProfileNext]_profileVars
-----------------------------------------------------------------------------
(* Properties.                                                              *)

\* Nobody follows anybody twice, and each count of followers is one of people,
\* but for a pair that two overlapping requests wrote.
FollowedOnce ==
  /\ \A f, g \in follows : f # g /\ f.by = g.by /\ f.of = g.of => <<f.by, f.of>> \in overlapped
  /\ \A u \in People : \A l \in GetFollowings(u) :
       (\A w \in People : <<w, l.following_id>> \notin overlapped)
         => l.following_cnt = Cardinality({r.follower_id : r \in GetFollowers(l.following_id)})

\* No two users share a nickname, unless two overlapping requests set it or it
\* was given where nobody looks (registration, social login, completeSignup,
\* initial setup) although it was taken.
NicknamesDistinct ==
  \A u, w \in People : u # w /\ nick[u] = nick[w] /\ nick[u] # NoName
                         => nick[u] \in overlapped \cup unchecked

\* What a handler found out about a row still holds when it writes to it: the
\* row is gone, or its own.
EntriesAreOwners ==
  \A c \in Slots : slot[c].act \in {"edit", "drop"} =>
    \A e \in entries[slot[c].kind] : e.id = slot[c].id => e.owner = slot[c].by

\* What the handlers look up before they write holds for what they have written.
ChecksHold == FollowedOnce /\ NicknamesDistinct /\ EntriesAreOwners

\* Whoever reads the list to its last page has seen everyone there was when he
\* began: new members push others to later pages, never to earlier ones.
RosterMissesNobody == reader.page > TotalPages(RosterLimit) => reader.due \subseteq reader.seen
=============================================================================
