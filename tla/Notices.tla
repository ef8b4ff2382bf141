-------------------------------- MODULE Notices --------------------------------
(***************************************************************************)
(* Notifications (src/notifications).  A service that has inserted a       *)
(* follow, report, inquiry, prompt, message or announcement emits an event *)
(* inside its process; a listener then inserts the notifications, one by   *)
(* one, and swallows its errors.  A user asks whether there is anything    *)
(* new, which compares the latest of his notifications with the time he    *)
(* last read the list.  Time is counted in notifications.                  *)
(***************************************************************************)
EXTENDS Naturals, FiniteSets, Sequences, Pages, Requests

CONSTANTS
  Audience,    \* users
  Everyone,    \* the null in user_id of an announcement's notification
  Onlooker,    \* bound: the one user who reads his list
  Readers,     \* slots for running requests
  NoticeLimit, \* page size
  MaxEvents    \* bound on the events emitted

ASSUME NoticesAssumption ==
  Everyone \notin Audience /\ Onlooker \in Audience /\ NoticeLimit \in Nat \ {0} /\ MaxEvents \in Nat

VARIABLES
  following,    \* pairs: who follows whom (Profile has the rows)
  subscribed,   \* NotificationSubscription rows
  emitted,      \* events so far
  listening,    \* events whose listener is not through yet, with whom it has left to tell
  notices,      \* Notification rows in the order of their ids: to whom each is
  checkTime,    \* last_notification_check_time, of users who have a setting
  asking,       \* a running request, with what it has read
  \* for the properties only
  seen,         \* notifications that were listed to their user
  slipped,      \* notifications inserted while their user's list was under way
  buried,       \* notifications that were on another page when a page was read
  letGo         \* pairs who unfollowed, or changed while a toggle was under way

noticeVars == <<following, subscribed, emitted, listening, notices, checkTime, asking, seen,
                slipped, buried, letGo>>
tellVars   == <<emitted, listening, notices, slipped>>
askVars    == <<checkTime, seen, buried>>

Pairs      == Audience \X Audience
NotAsking  == [step |-> "none"]
Recipients == Audience \cup {Everyone}

Listings == [step : {"setting", "write"}, user : Audience, rows : SUBSET DOMAIN notices, first : BOOLEAN]
Toggles  == [step : {"subscribe", "unsubscribe"}, pair : Pairs]

NoticeTypeOK ==
  /\ following \cup subscribed \cup letGo \subseteq Pairs
  /\ emitted \in 0..MaxEvents
  /\ listening \in SUBSET [number : 1..MaxEvents, by : Recipients, to : SUBSET Recipients]
  /\ notices \in Seq(Recipients)
  /\ DOMAIN checkTime \subseteq Audience
  /\ \A u \in DOMAIN checkTime : checkTime[u] \in 0..Len(notices)
  /\ asking \in [Readers -> {NotAsking} \cup Listings \cup Toggles]
  /\ seen \cup slipped \cup buried \subseteq DOMAIN notices

NoticeInit ==
  /\ following \in {{}, {p \in Pairs : p[1] # p[2]}} /\ subscribed \in {{}, following}
  /\ emitted = 0 /\ listening = {} /\ notices = <<>>
  /\ checkTime = << >>
  /\ asking = [q \in Readers |-> NotAsking]
  /\ seen = {} /\ slipped = {} /\ buried = {} /\ letGo = {}

Ask(q, r)   == asking[q] = NotAsking /\ asking' = [asking EXCEPT ![q] = r]
Answer(q)   == asking' = [asking EXCEPT ![q] = NotAsking]
-----------------------------------------------------------------------------
(* Events and their listeners.                                              *)

\* by is the prompter of an upload, whose fans are still to be found.
Emit(by, to) ==
  /\ emitted < MaxEvents
  /\ emitted' = emitted + 1
  /\ listening' = listening \cup {[number |-> emitted + 1, by |-> by, to |-> to]}

Quiet == UNCHANGED <<subscribed, notices, asking, askVars, slipped, letGo>>

CreateReportNotification(u)       == Emit(Everyone, {u})
CreateAnnouncementNotification    == Emit(Everyone, {Everyone})
CreateFollowNotification(w)       == Emit(Everyone, {w})
CreateInquiryNotification(w)      == Emit(Everyone, {w})
CreatePromptNotification(u)       == Emit(u, {})
CreateAdminMessageNotification(w) == Emit(Everyone, {w})

Follow(u, w) ==
  /\ u # w /\ <<u, w>> \notin following
  /\ following' = following \cup {<<u, w>>}
  /\ CreateFollowNotification(w) /\ Quiet

SomethingHappens(u) ==
  /\ \/ CreateReportNotification(u) \/ CreateAnnouncementNotification
     \/ CreateInquiryNotification(u) \/ CreatePromptNotification(u)
     \/ CreateAdminMessageNotification(u)
  /\ UNCHANGED following /\ Quiet

\* findUsersSubscribedToPrompter, once the listener of an upload runs.
FindUsersSubscribed(e) ==
  LET fans == {u \in Audience : <<u, e.by>> \in subscribed} IN
    /\ e.by # Everyone
    /\ listening' = (listening \ {e}) \cup (IF fans = {} THEN {} ELSE {[e EXCEPT !.to = fans, !.by = Everyone]})
    /\ UNCHANGED <<following, subscribed, emitted, notices, asking, askVars, slipped, letGo>>

ListUnderWay(u) == \E q \in Readers : asking[q].step \in {"setting", "write"} /\ asking[q].user = u

\* createNotification, for one of those the listener has to tell.
CreateNotification(e, u) ==
  /\ u \in e.to
  /\ notices' = Append(notices, u)
  /\ slipped' = IF ListUnderWay(u) THEN slipped \cup {Len(notices) + 1} ELSE slipped
  /\ listening' = (listening \ {e}) \cup (IF e.to = {u} THEN {} ELSE {[e EXCEPT !.to = @ \ {u}]})
  /\ UNCHANGED <<following, subscribed, emitted, asking, askVars, letGo>>

\* An insert fails: the error is logged and the notification never made.
ListenerFails(e) ==
  /\ listening' = listening \ {e}
  /\ UNCHANGED <<following, subscribed, emitted, notices, asking, askVars, slipped, letGo>>

\* The process restarts: its events are gone, and its requests.
ProcessRestarts ==
  /\ listening # {} \/ \E q \in Readers : asking[q] # NotAsking
  /\ listening' = {} /\ asking' = [q \in Readers |-> NotAsking]
  /\ UNCHANGED <<following, subscribed, emitted, notices, askVars, slipped, letGo>>
-----------------------------------------------------------------------------
(* Subscriptions: for followers only, but an unfollow leaves them alone.    *)

\* Mutant: anybody may subscribe.
IsAnybody(u, w) == u = u

\* findFollowing
IsFollowing(u, w) == <<u, w>> \in following

\* createSubscriptionService: what is there is taken away, else it is made.
ToggleSubscription(q, u, w) ==
  /\ u # w
  /\ IF <<u, w>> \in subscribed
       THEN Ask(q, [step |-> "unsubscribe", pair |-> <<u, w>>])
       ELSE IsFollowing(u, w) /\ Ask(q, [step |-> "subscribe", pair |-> <<u, w>>])
  /\ UNCHANGED <<following, subscribed, tellVars, askVars, letGo>>

\* The key of the table is the pair: of two inserts or deletes the second fails.
CreateSubscription(q) ==
  /\ asking[q].step = "subscribe"
  /\ subscribed' = subscribed \cup {asking[q].pair}
  /\ Answer(q)
  /\ UNCHANGED <<following, tellVars, askVars, letGo>>

DeleteSubscription(q) ==
  /\ asking[q].step = "unsubscribe"
  /\ subscribed' = subscribed \ {asking[q].pair}
  /\ Answer(q)
  /\ UNCHANGED <<following, tellVars, askVars, letGo>>

Unfollow(u, w) ==
  /\ <<u, w>> \in following
  /\ following' = following \ {<<u, w>>}
  /\ letGo' = IF <<u, w>> \in subscribed
                 \/ \E q \in Readers : asking[q].step = "subscribe" /\ asking[q].pair = <<u, w>>
              THEN letGo \cup {<<u, w>>} ELSE letGo
  /\ UNCHANGED <<subscribed, tellVars, asking, askVars>>
-----------------------------------------------------------------------------
(* The list, and whether there is anything new.                             *)

NoticesOf(u) == {n \in DOMAIN notices : notices[n] = u}

\* findNotificationsByUserId: a page after the cursor, latest first.
FindNotificationsByUserId(u, cursor) == LatestOf(Older(NoticesOf(u), cursor), NoticeLimit)

\* findUserNotificationsService reads a page, then whether there is a setting,
\* then writes the time of the check, which later pages do as well as the first.
FindUserNotifications(q, u, cursor) ==
  /\ Ask(q, [step |-> "setting", user |-> u, rows |-> FindNotificationsByUserId(u, cursor), first |-> FALSE])
  /\ buried' = buried \cup (NoticesOf(u) \ FindNotificationsByUserId(u, cursor))
  /\ UNCHANGED <<following, subscribed, tellVars, checkTime, seen, letGo>>

GetUserNotificationSetting(q) ==
  /\ asking[q].step = "setting"
  /\ asking' = [asking EXCEPT ![q].step = "write", ![q].first = asking[q].user \notin DOMAIN checkTime]
  /\ UNCHANGED <<following, subscribed, tellVars, askVars, letGo>>

Listed(q) == seen' = seen \cup asking[q].rows

UpdateNotificationCheckTime(q) ==
  /\ asking[q].step = "write" /\ ~ asking[q].first
  /\ checkTime' = [checkTime EXCEPT ![asking[q].user] = Len(notices)]
  /\ Listed(q) /\ Answer(q)
  /\ UNCHANGED <<following, subscribed, tellVars, buried, letGo>>

\* One setting per user: of two first reads the second gets no list.
CreateNotificationCheckTime(q) ==
  /\ asking[q].step = "write" /\ asking[q].first
  /\ LET u == asking[q].user IN
       IF u \in DOMAIN checkTime THEN UNCHANGED <<checkTime, seen>>
       ELSE /\ checkTime' = [w \in DOMAIN checkTime \cup {u} |->
                               IF w = u THEN Len(notices) ELSE checkTime[w]]
            /\ Listed(q)
  /\ Answer(q)
  /\ UNCHANGED <<following, subscribed, tellVars, buried, letGo>>

\* Mutant: the order of the query is the other way round.
OldestNotificationTime(u) ==
  IF NoticesOf(u) = {} THEN 0 ELSE CHOOSE n \in NoticesOf(u) : \A k \in NoticesOf(u) : n <= k

\* 0 when he has none.
GetLatestNotificationTime(u) ==
  IF NoticesOf(u) = {} THEN 0 ELSE CHOOSE n \in NoticesOf(u) : \A k \in NoticesOf(u) : n >= k

GetLastNotificationCheckTime(u) == IF u \in DOMAIN checkTime THEN checkTime[u] ELSE 0

\* getNotificationHasNewStatusService
HasNew(u) == GetLatestNotificationTime(u) > GetLastNotificationCheckTime(u)

ToggleRoute(q, r, w)    == WellFormed(r) /\ ToggleSubscription(q, r.user, w)
ListRoute(q, r, cursor) == WellFormed(r) /\ FindUserNotifications(q, r.user, cursor)

SubscribeNext ==
  \/ \E u, w \in Audience : Follow(u, w) \/ Unfollow(u, w)
  \/ \E q \in Readers, r \in Requests(Audience), w \in Audience : ToggleRoute(q, r, w)
  \/ \E q \in Readers : CreateSubscription(q) \/ DeleteSubscription(q)

TellNext ==
  \/ \E u \in Audience : SomethingHappens(u)
  \/ \E e \in listening : \/ FindUsersSubscribed(e) \/ ListenerFails(e)
                          \/ \E u \in e.to : CreateNotification(e, u)
  \/ \E q \in Readers, r \in Requests({Onlooker}), cursor \in {0} \cup DOMAIN notices : ListRoute(q, r, cursor)
  \/ \E q \in Readers : \/ GetUserNotificationSetting(q)
                        \/ UpdateNotificationCheckTime(q) \/ CreateNotificationCheckTime(q)
  \/ ProcessRestarts

NoticeNext == SubscribeNext \/ TellNext

NoticeSpec == NoticeInit /\ [][NoticeNext]_noticeVars
-----------------------------------------------------------------------------
(* Properties.                                                              *)

\* Whatever a user was sent and has not been shown counts as new, unless it was
\* inserted while a list of his was under way, or was on another page of one.
\* (A notification to everyone has no user, and shows to nobody.)
NewIsNoticed ==
  \A u \in Audience : NoticesOf(u) \subseteq seen \cup slipped \cup buried \/ HasNew(u)

\* Only followers are subscribed, and those who unfollowed since.
SubscribersFollow == subscribed \subseteq following \cup letGo
=============================================================================
