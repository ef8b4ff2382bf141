--------------------------------- MODULE Lists ---------------------------------
(***************************************************************************)
(* The lists of messages, reports, announcements, tips, reviews and        *)
(* prompts, and what is done to their rows while somebody reads one page   *)
(* after page.  The lists share nothing, so "list" says which one moves.   *)
(* Prisma's cursor is external: the page starts at the row with that id,   *)
(* which skip: 1 then leaves out, whether it still fits the filter or not; *)
(* it is empty when there is no such row any more.  The search for prompts *)
(* is two lists: "search" is sorted by recency, "sorted" by likes, views,  *)
(* downloads or, in effect, by nothing, or has a filter that edits change. *)
(***************************************************************************)
EXTENDS Naturals, FiniteSets, Pages, Requests

CONSTANTS
  Keeper,     \* whose messages, reviews and prompts they are
  PageSize,   \* limit, size
  MaxPosts    \* bound on the rows made

ASSUME ListsAssumption == Guest # Keeper /\ PageSize \in Nat \ {0} /\ MaxPosts \in Nat

ByCursor == {"messages", "reports"}
ByPage   == {"announcements", "tips", "search"}
ById     == {"reviews", "mine"}
Sorted   == {"sorted"}

VARIABLES
  list,    \* which list it is
  rows,    \* its rows; a row is shown until it is hidden (is_deleted, is_visible)
  posted,  \* rows made so far
  pages    \* somebody's way through it; slips and cut are for the property only

listVars == <<list, rows, posted, pages>>

Closed == [open |-> FALSE]

ListTypeOK ==
  /\ list \in ByCursor \cup ByPage \cup ById \cup Sorted
  /\ rows \subseteq [id : 1..MaxPosts, shown : BOOLEAN, read : BOOLEAN]
  /\ posted \in 0..MaxPosts
  /\ pages \in {Closed} \cup
       [open : {TRUE}, unread : BOOLEAN, next : 0..MaxPosts + 2, seen : SUBSET (1..MaxPosts),
        due : SUBSET (1..MaxPosts), slips : Nat, cut : BOOLEAN, done : BOOLEAN]

ListInit ==
  /\ list \in ByCursor \cup ByPage \cup ById \cup Sorted
  /\ rows = {} /\ posted = 0 /\ pages = Closed

Row(id) == CHOOSE r \in rows : r.id = id
Ids     == {r.id : r \in rows}

\* The filter of the list: hidden rows are left out, and read messages on demand.
Matching(unread) == {r.id : r \in {s \in rows : s.shown /\ (unread => ~ s.read)}}
-----------------------------------------------------------------------------
(* Rows come and go.                                                        *)

Post ==
  /\ posted < MaxPosts
  /\ posted' = posted + 1
  /\ rows' = rows \cup {[id |-> posted + 1, shown |-> TRUE, read |-> FALSE]}
  /\ UNCHANGED <<list, pages>>

Change(id, r) ==
  /\ id \in Ids
  /\ rows' = (rows \ {Row(id)}) \cup {r}
  /\ UNCHANGED <<list, posted>>

\* A row leaves the list, or the table; the pages after it move up by one.
Behind(id) == pages.open /\ ~ pages.done /\ list \in ByPage /\ \E n \in pages.seen : n <= id
Slip(id)   == pages' = IF Behind(id) THEN [pages EXCEPT !.slips = @ + 1] ELSE pages
Hide(id)   == Change(id, [Row(id) EXCEPT !.shown = FALSE]) /\ Slip(id)
MarkRead(id) == Change(id, [Row(id) EXCEPT !.read = TRUE]) /\ UNCHANGED pages
DeleteRow(id) ==
  /\ id \in Ids
  /\ rows' = rows \ {Row(id)}
  /\ Slip(id) /\ UNCHANGED <<list, posted>>

\* Messages are an admin's; the receiver opens, marks and hides them.
SendMessage           == list = "messages" /\ Post
GetMessageById(u, id) == list = "messages" /\ u = Keeper /\ id \in Ids /\ ~ Row(id).read /\ MarkRead(id)
MarkMessageAsRead(u, id) == GetMessageById(u, id)
DeleteMessage(u, id)  == list = "messages" /\ u = Keeper /\ Hide(id)

\* Reports are anybody's, which admins read; they go with their prompt.
CreateReport              == list = "reports" /\ Post
GetReportedPromptById(id) == list = "reports" /\ MarkRead(id)
DeleteReports(id)         == list = "reports" /\ DeleteRow(id)

\* Announcements and tips: what is deleted cannot be deleted again.
CreateAnnouncement     == list = "announcements" /\ Post
PatchAnnouncement(id)  == list = "announcements" /\ Change(id, Row(id)) /\ UNCHANGED pages
DeleteAnnouncement(id) == list = "announcements" /\ id \in Ids /\ Row(id).shown /\ Hide(id)
CreateTip              == list = "tips" /\ Post
PatchTip(id)           == list = "tips" /\ Change(id, Row(id)) /\ UNCHANGED pages
DeleteTip(id)          == list = "tips" /\ id \in Ids /\ Row(id).shown /\ Hide(id)

\* Who may send which request; an admin sends messages in his own name.
SendMessageRoute(q)           == ByAdmin(q) /\ SendMessage
OpenMessageRoute(q, id)       == WellFormed(q) /\ GetMessageById(q.user, id)
MarkMessageRoute(q, id)       == WellFormed(q) /\ MarkMessageAsRead(q.user, id)
DeleteMessageRoute(q, id)     == WellFormed(q) /\ DeleteMessage(q.user, id)
PostReportRoute(q)            == WellFormed(q) /\ CreateReport
OpenReportRoute(q, id)        == ByAdmin(q) /\ GetReportedPromptById(id)
CreateAnnouncementRoute(q)    == ByAdmin(q) /\ CreateAnnouncement
PatchAnnouncementRoute(q, id) == ByAdmin(q) /\ PatchAnnouncement(id)
DeleteAnnouncementRoute(q, id) == ByAdmin(q) /\ DeleteAnnouncement(id)
CreateTipRoute(q)             == ByAdmin(q) /\ CreateTip
PatchTipRoute(q, id)          == ByAdmin(q) /\ PatchTip(id)
DeleteTipRoute(q, id)         == ByAdmin(q) /\ DeleteTip(id)

\* Reviews and prompts, of which Desk and Catalogue have the rest.
UploadRow       == list \in {"reviews", "mine", "search", "sorted"} /\ Post
WithdrawRow(id) == list \in {"reviews", "mine", "search", "sorted"} /\ DeleteRow(id)
-----------------------------------------------------------------------------
(* Pages, latest first.                                                     *)

\* Mutant: the row beyond the page is not asked for.
TakeLimit == PageSize

\* take: limit + 1, to see whether there are more.
Take == PageSize + 1

\* All up to the cursor, without the latest of them.
FromCursor(S, cursor) ==
  IF cursor = 0 THEN S
  ELSE IF cursor \notin Ids THEN {}
  ELSE {n \in S : \E m \in S : n < m /\ m <= cursor}

FindReceivedMessages(unread, cursor) == LatestOf(FromCursor(Matching(unread), cursor), Take)
FindAllReports(cursor)               == LatestOf(FromCursor(Ids, cursor), Take)

BelowCursor(S, cursor) == LatestOf(Older(S, cursor), Take)

FindAllReviewsByPromptId(cursor) == BelowCursor(Ids, cursor)
FindAllReviewsByUserId(cursor)   == BelowCursor(Ids, cursor)
FindAllMyReviews(cursor)         == BelowCursor(Ids, cursor)
GetMyPrompts(cursor)             == BelowCursor(Ids, cursor)
GetMemberPrompts(cursor)         == BelowCursor(Ids, cursor)

PageOf(S, page) == LatestOf(S, page * PageSize) \ LatestOf(S, (page - 1) * PageSize)

FindAnnouncements(page) == PageOf(Matching(FALSE), page)
FindTips(page)          == PageOf(Matching(FALSE), page)
SearchPrompts(page)     == PageOf(Ids, page)

\* By likes, views and downloads, which change meanwhile and tie, by rating_avg,
\* which sorts the page only after skip and take, or among those that fit: any of
\* the prompts, as many as are left after skip or fewer.
SearchSortedPrompts(page) ==
  {S \in SUBSET Ids : /\ Cardinality(S) <= PageSize
                      /\ S # {} => (page - 1) * PageSize + Cardinality(S) <= Cardinality(Ids)}

OpenList(unread) ==
  /\ pages = Closed /\ (unread => list = "messages")
  /\ pages' = [open |-> TRUE, unread |-> unread, next |-> IF list \in ByPage \cup Sorted THEN 1 ELSE 0,
               seen |-> {}, due |-> Matching(unread), slips |-> 0, cut |-> list \in Sorted,
               done |-> FALSE]
  /\ UNCHANGED <<list, rows, posted>>

\* The rows on the screen, and a cursor to go on with, if there are more.
Show(found) ==
  LET more  == Cardinality(found) > PageSize
      shown == LatestOf(found, PageSize) IN
    pages' = [pages EXCEPT
      !.seen  = @ \cup shown,
      !.next  = IF more THEN CHOOSE n \in shown : \A m \in shown : n <= m ELSE @,
      !.done  = ~ more,
      \* a cursor row that fits no more is not among those skip: 1 leaves out one of
      !.slips = IF list \in ByCursor /\ pages.next \in Ids \ Matching(pages.unread) THEN @ + 1 ELSE @,
      !.cut   = @ \/ (list \in ByCursor /\ pages.next \notin Ids \cup {0})]

Reading == pages.open /\ ~ pages.done /\ UNCHANGED <<list, rows, posted>>

GetReceivedMessages == list = "messages" /\ Reading /\ Show(FindReceivedMessages(pages.unread, pages.next))
GetReportedPrompts  == list = "reports" /\ Reading /\ Show(FindAllReports(pages.next))
GetReviews ==
  /\ list = "reviews" /\ Reading
  /\ \/ Show(FindAllReviewsByPromptId(pages.next)) \/ Show(FindAllReviewsByUserId(pages.next))
     \/ Show(FindAllMyReviews(pages.next))
GetPrompts ==
  /\ list = "mine" /\ Reading
  /\ Show(GetMyPrompts(pages.next)) \/ Show(GetMemberPrompts(pages.next))

\* Page after page until one is not full.
ShowPage(found) ==
  pages' = [pages EXCEPT !.seen = @ \cup found, !.next = @ + 1, !.done = Cardinality(found) < PageSize]

FindAnnouncementList == list = "announcements" /\ Reading /\ ShowPage(FindAnnouncements(pages.next))
FindTipList          == list = "tips" /\ Reading /\ ShowPage(FindTips(pages.next))
SearchPromptList     == list = "search" /\ Reading /\ ShowPage(SearchPrompts(pages.next))
SearchSortedList     == list = "sorted" /\ Reading /\ \E S \in SearchSortedPrompts(pages.next) : ShowPage(S)

ListNext ==
  \/ \E q \in Requests({Keeper}) :
       \/ SendMessageRoute(q) \/ PostReportRoute(q)
       \/ CreateAnnouncementRoute(q) \/ CreateTipRoute(q)
       \/ \E id \in Ids :
            \/ OpenMessageRoute(q, id) \/ MarkMessageRoute(q, id) \/ DeleteMessageRoute(q, id)
            \/ OpenReportRoute(q, id)
            \/ PatchAnnouncementRoute(q, id) \/ DeleteAnnouncementRoute(q, id)
            \/ PatchTipRoute(q, id) \/ DeleteTipRoute(q, id)
  \/ UploadRow
  \/ \E id \in Ids : DeleteReports(id) \/ WithdrawRow(id)
  \/ \E unread \in BOOLEAN : OpenList(unread)
  \/ GetReceivedMessages \/ GetReportedPrompts \/ GetReviews \/ GetPrompts
  \/ FindAnnouncementList \/ FindTipList \/ SearchPromptList \/ SearchSortedList

ListSpec == ListInit /\ [][ListNext]_listVars
-----------------------------------------------------------------------------
(* Properties.                                                              *)

\* Whoever reads to the end has seen everything that was there when he began
\* and still is, but for one row for every row before the next page that went
\* away from a list by page number, and one for every cursor that no longer fits
\* the filter of messages.  Nothing is said (cut) of what comes after a report that
\* is gone from under the cursor, nor of a search that is not by recency alone:
\* there a like, a view or an edit between two pages, and even a tie, lets a prompt
\* slip through.
ListsMissNothing ==
  pages.open /\ pages.done /\ ~ pages.cut
    => Cardinality((pages.due \cap Matching(pages.unread)) \ pages.seen) <= pages.slips
=============================================================================
