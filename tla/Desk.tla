--------------------------------- MODULE Desk ----------------------------------
(***************************************************************************)
(* Inquiries and their replies (src/inquiries), and what is done to        *)
(* reviews (src/reviews).  A reply is inserted, and then a message with    *)
(* the same text is sent to whoever asked; no foreign key ties a reply to  *)
(* its inquiry.  An author may change his review for thirty days.          *)
(***************************************************************************)
EXTENDS Naturals, FiniteSets, Requests

CONSTANTS
  Folk,                     \* users
  Hands,                    \* slots for running handlers
  ReviewDays,               \* thirty
  LastDay,                  \* bound on the days that pass
  MaxInquiries, MaxReplies, \* bounds on the rows made
  MaxReviews

ASSUME DeskAssumption ==
  /\ Guest \notin Folk
  /\ {ReviewDays, LastDay, MaxInquiries, MaxReplies, MaxReviews} \subseteq Nat

VARIABLES
  inquiries,  \* Inquiry rows
  asked,      \* rows made so far
  replies,    \* InquiryReply rows, in the order of their ids
  letters,    \* Message rows made for replies: to whom, with which reply's text
  unsent,     \* replies whose message failed
  reviews,    \* Review rows
  reviewed,   \* rows made so far
  today,
  hand        \* a running handler: what it will write

deskVars    == <<inquiries, asked, replies, letters, unsent, reviews, reviewed, today, hand>>
inquiryVars == <<inquiries, asked, replies, letters, unsent>>
reviewVars  == <<reviews, reviewed, today>>

Empty   == [act |-> "none"]
Ratings == {"high", "low"}
Reply   == [of : 1..MaxInquiries, by : Folk, asker : Folk]

DeskTypeOK ==
  /\ inquiries \subseteq [id : 1..MaxInquiries, by : Folk, to : Folk, status : {"waiting", "read"}]
  /\ asked \in 0..MaxInquiries
  /\ DOMAIN replies = 1..Cardinality(DOMAIN replies) /\ \A n \in DOMAIN replies : replies[n] \in Reply
  /\ letters \subseteq [to : Folk, text : DOMAIN replies]
  /\ unsent \subseteq DOMAIN replies
  /\ reviews \subseteq [id : 1..MaxReviews, by : Folk, made : 0..LastDay, rating : Ratings]
  /\ reviewed \in 0..MaxReviews /\ today \in 0..LastDay
  /\ \A h \in Hands : hand[h] \in {Empty}
       \cup [act : {"reply"}, reply : Reply] \cup [act : {"letter"}, text : DOMAIN replies]
       \cup [act : {"edit"}, review : 1..MaxReviews, rating : Ratings]
       \cup [act : {"delete"}, review : 1..MaxReviews]

DeskInit ==
  /\ inquiries = {} /\ asked = 0 /\ replies = << >> /\ letters = {} /\ unsent = {}
  /\ reviews = {} /\ reviewed = 0 /\ today = 0
  /\ hand = [h \in Hands |-> Empty]

TakeUp(h, w)  == hand[h] = Empty /\ hand' = [hand EXCEPT ![h] = w]
PutDown(h)    == hand' = [hand EXCEPT ![h] = Empty]
Replace(S, old, new) == (S \ {old}) \cup {new}
-----------------------------------------------------------------------------
(* Inquiries.                                                               *)

CreateInquiry(u, to) ==
  /\ asked < MaxInquiries
  /\ asked' = asked + 1
  /\ inquiries' = inquiries \cup {[id |-> asked + 1, by |-> u, to |-> to, status |-> "waiting"]}
  /\ UNCHANGED <<replies, letters, unsent, reviewVars, hand>>

\* Who may answer an inquiry, mark and delete it.
MayAnswer(u, i) == i.to = u

MarkInquiryAsRead(u, i) ==
  /\ MayAnswer(u, i)
  /\ inquiries' = Replace(inquiries, i, [i EXCEPT !.status = "read"])
  /\ UNCHANGED <<asked, replies, letters, unsent, reviewVars, hand>>

DeleteInquiry(u, i) ==
  /\ MayAnswer(u, i)
  /\ inquiries' = inquiries \ {i}
  /\ UNCHANGED <<asked, replies, letters, unsent, reviewVars, hand>>

\* createInquiryReply up to its insert, which the deletion of the inquiry does not hinder.
CreateInquiryReply(u, h, i) ==
  /\ MayAnswer(u, i)
  /\ TakeUp(h, [act |-> "reply", reply |-> [of |-> i.id, by |-> u, asker |-> i.by]])
  /\ UNCHANGED <<inquiryVars, reviewVars>>

NextReply == Cardinality(DOMAIN replies) + 1

InsertReply(h) ==
  /\ hand[h].act = "reply" /\ NextReply <= MaxReplies
  /\ replies' = [n \in 1..NextReply |-> IF n = NextReply THEN hand[h].reply ELSE replies[n]]
  /\ hand' = [hand EXCEPT ![h] = [act |-> "letter", text |-> NextReply]]
  /\ UNCHANGED <<inquiries, asked, letters, unsent, reviewVars>>

\* To whom the message goes.
Addressee(r) == r.asker

InsertLetter(h) ==
  /\ hand[h].act = "letter"
  /\ letters' = letters \cup {[to |-> Addressee(replies[hand[h].text]), text |-> hand[h].text]}
  /\ PutDown(h)
  /\ UNCHANGED <<inquiries, asked, replies, unsent, reviewVars>>

\* The message fails, which is swallowed, or its process ends before.
LetterFails(h) ==
  /\ hand[h].act = "letter"
  /\ unsent' = unsent \cup {hand[h].text}
  /\ PutDown(h)
  /\ UNCHANGED <<inquiries, asked, replies, letters, reviewVars>>

InquiryRoute(q, to)       == WellFormed(q) /\ CreateInquiry(q.user, to)
MarkInquiryRoute(q, i)    == WellFormed(q) /\ MarkInquiryAsRead(q.user, i)
DeleteInquiryRoute(q, i)  == WellFormed(q) /\ DeleteInquiry(q.user, i)
AnswerRoute(q, h, i)      == WellFormed(q) /\ CreateInquiryReply(q.user, h, i)
-----------------------------------------------------------------------------
(* Reviews: looked up first, then written by their id.                      *)

\* Nobody asks whether the author has bought the prompt, or reviewed it before.
CreateReview(u, rating) ==
  /\ reviewed < MaxReviews
  /\ reviewed' = reviewed + 1
  /\ reviews' = reviews \cup {[id |-> reviewed + 1, by |-> u, made |-> today, rating |-> rating]}
  /\ UNCHANGED <<inquiryVars, today, hand>>

\* Also what getReviewEditData demands.
IsAuthor(u, r) == r.by = u
StillOpen(r)   == today - r.made <= ReviewDays

EditReview(u, h, r, rating) ==
  /\ IsAuthor(u, r) /\ StillOpen(r)
  /\ TakeUp(h, [act |-> "edit", review |-> r.id, rating |-> rating])
  /\ UNCHANGED <<inquiryVars, reviewVars>>

DeleteReview(u, admin, h, r) ==
  /\ admin \/ (IsAuthor(u, r) /\ StillOpen(r))
  /\ TakeUp(h, [act |-> "delete", review |-> r.id])
  /\ UNCHANGED <<inquiryVars, reviewVars>>

UpdateReviewById(h) ==
  /\ hand[h].act = "edit"
  /\ \E r \in reviews : r.id = hand[h].review /\ reviews' = Replace(reviews, r, [r EXCEPT !.rating = hand[h].rating])
  /\ PutDown(h)
  /\ UNCHANGED <<inquiryVars, reviewed, today>>

DeleteReviewById(h) ==
  /\ hand[h].act = "delete"
  /\ \E r \in reviews : r.id = hand[h].review /\ reviews' = reviews \ {r}
  /\ PutDown(h)
  /\ UNCHANGED <<inquiryVars, reviewed, today>>

ReviewRoute(q, rating)           == WellFormed(q) /\ CreateReview(q.user, rating)
EditReviewRoute(q, h, r, rating) == WellFormed(q) /\ EditReview(q.user, h, r, rating)
DeleteReviewRoute(q, h, r)       == WellFormed(q) /\ DeleteReview(q.user, q.admin, h, r)

DayPasses ==
  /\ today < LastDay /\ today' = today + 1
  /\ UNCHANGED <<inquiryVars, reviews, reviewed, hand>>

\* A statement before the reply's insert, or one on a review, fails.
HandFails(h) ==
  /\ hand[h].act \in {"reply", "edit", "delete"} /\ PutDown(h)
  /\ UNCHANGED <<inquiryVars, reviewVars>>

InquiryNext ==
  \/ \E q \in Requests(Folk), to \in Folk : InquiryRoute(q, to)
  \/ \E q \in Requests(Folk), i \in inquiries :
       \/ MarkInquiryRoute(q, i) \/ DeleteInquiryRoute(q, i)
       \/ \E h \in Hands : AnswerRoute(q, h, i)
  \/ \E h \in Hands : InsertReply(h) \/ InsertLetter(h) \/ LetterFails(h) \/ HandFails(h)

ReviewNext ==
  \/ \E q \in Requests(Folk), rating \in Ratings :
       \/ ReviewRoute(q, rating)
       \/ \E h \in Hands, r \in reviews : EditReviewRoute(q, h, r, rating) \/ DeleteReviewRoute(q, h, r)
  \/ \E h \in Hands : UpdateReviewById(h) \/ DeleteReviewById(h) \/ HandFails(h)
  \/ DayPasses

DeskNext == InquiryNext \/ ReviewNext
DeskSpec == DeskInit /\ [][DeskNext]_deskVars
-----------------------------------------------------------------------------
(* Properties.                                                              *)

\* Every reply has sent its text to whoever asked, and to nobody else, unless the
\* handler is about to, or the message failed; nothing is sent for no reply.
AnswersReachAskers ==
  /\ \A n \in DOMAIN replies :
       \/ [to |-> replies[n].asker, text |-> n] \in letters
       \/ n \in unsent
       \/ \E h \in Hands : hand[h].act = "letter" /\ hand[h].text = n
  /\ \A l \in letters : l.to = replies[l.text].asker
=============================================================================
