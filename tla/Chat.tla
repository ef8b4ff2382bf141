--------------------------------- MODULE Chat ---------------------------------
(***************************************************************************)
(* Chat rooms of two users (src/chat) and the socket that carries their    *)
(* messages (src/socket).  A message is inserted and its room's            *)
(* last_message_id set in one transaction; after the commit it is sent to  *)
(* whoever has joined the room.  A reader joins, loads the latest page and *)
(* goes back page by page.  unread_count has no state here: nothing ever   *)
(* adds to it.                                                             *)
(***************************************************************************)
EXTENDS Naturals, FiniteSets, FiniteSetsExt, Pages, Requests

CONSTANTS
  Chatters,     \* users
  Rooms,        \* possible rooms: pairs of them
  Reader,       \* the user whose screen is followed,
  Watched,      \* and the room he looks at
  Senders,      \* slots for running handlers
  MessageLimit, \* page size
  MaxMessages   \* bound on message ids

ASSUME ChatAssumption ==
  /\ Rooms \subseteq SUBSET Chatters
  /\ Watched \in Rooms /\ Reader \in Watched
  /\ MessageLimit \in Nat \ {0} /\ MaxMessages \in Nat

VARIABLES
  lastMessage,  \* ChatRoom.last_message_id by room, 0 for null; a room has a key once made
  messages,     \* ChatMessage rows that are committed
  nextId,       \* the AUTO_INCREMENT of ChatMessage
  leftAt,       \* ChatParticipant.left_at as the last id at that time, 0 for null
  pinned,       \* ChatParticipant.is_pinned
  blocks,       \* UserBlock rows
  handler,      \* running handlers and their transactions
  screen,       \* the reader's screen: joined, pages loaded, messages shown
  detail,       \* his request for a page: what it has read, what it has left to do
  lastRead,     \* ChatParticipant.last_read_message_id of the reader
  \* for the properties only
  unsent        \* messages whose process died between commit and broadcast

chatVars == <<lastMessage, messages, nextId, leftAt, pinned, blocks, handler, screen, detail,
              lastRead, unsent>>
roomVars == <<lastMessage, leftAt, pinned, blocks>>
viewVars == <<screen, detail, lastRead>>

Blank    == [joined |-> FALSE, page |-> 0, more |-> TRUE, shown |-> {}]
NoDetail == [todo |-> {}, last |-> 0]
Resting  == [step |-> "rest"]
Made     == DOMAIN lastMessage
Ids      == 1..MaxMessages

Deliveries == [step : {"sent", "broadcast"}, room : Rooms, id : Ids]
Errands    == [step : {"create"}, room : Rooms]
              \cup [step : {"pin"}, room : Rooms, by : Chatters, to : BOOLEAN]
              \cup [step : {"block"}, by : Chatters, of : Chatters]

ChatTypeOK ==
  /\ Made \subseteq Rooms /\ \A r \in Made : lastMessage[r] \in 0..MaxMessages
  /\ messages \in SUBSET [id : Ids, room : Rooms]
  /\ nextId \in 1..MaxMessages + 1
  /\ leftAt \in [Rooms -> [Chatters -> 0..MaxMessages]]
  /\ pinned \in [Rooms -> SUBSET Chatters]
  /\ blocks \in SUBSET (Chatters \X Chatters)
  /\ handler \in [Senders -> {Resting} \cup Deliveries \cup Errands]
  /\ screen \in [joined : BOOLEAN, page : 0..MaxMessages, more : BOOLEAN, shown : SUBSET Ids]
  /\ detail \in [todo : SUBSET {"page", "mark"}, last : 0..MaxMessages]
  /\ lastRead \in 0..MaxMessages
  /\ unsent \subseteq Ids

ChatInit ==
  /\ lastMessage \in {<< >>, [r \in Rooms |-> 0]} /\ messages = {} /\ nextId = 1
  /\ leftAt = [r \in Rooms |-> [u \in Chatters |-> 0]]
  /\ pinned = [r \in Rooms |-> {}]
  /\ blocks = {}
  /\ handler = [h \in Senders |-> Resting]
  /\ screen = Blank /\ detail = NoDetail /\ lastRead = 0
  /\ unsent = {}

Start(h, r) == handler[h] = Resting /\ handler' = [handler EXCEPT ![h] = r]
Finish(h)   == handler' = [handler EXCEPT ![h] = Resting]
-----------------------------------------------------------------------------
(* Rooms: made, left, pinned; users: blocked.                               *)

FindChatRoomByParticipants(r) == r \in Made

\* createOrGetChatRoomService: an existing room is returned.
CreateOrGetChatRoom(h, r) ==
  /\ ~ FindChatRoomByParticipants(r)
  /\ Start(h, [step |-> "create", room |-> r])
  /\ UNCHANGED <<roomVars, messages, nextId, viewVars, unsent>>

\* A pair of users has one room: of two inserts the second fails.
CreateChatRoom(h) ==
  /\ handler[h].step = "create"
  /\ LET r == handler[h].room IN
       lastMessage' = IF r \in Made THEN lastMessage
                      ELSE [q \in Made \cup {r} |-> IF q = r THEN 0 ELSE lastMessage[q]]
  /\ Finish(h)
  /\ UNCHANGED <<leftAt, pinned, blocks, messages, nextId, viewVars, unsent>>

\* leaveChatRoom: the room is off the user's list for good; no message resets left_at.
LeaveChatRoom(r, u) ==
  /\ r \in Made /\ u \in r
  /\ leftAt' = [leftAt EXCEPT ![r][u] = nextId - 1]
  /\ UNCHANGED <<lastMessage, pinned, blocks, messages, nextId, handler, viewVars, unsent>>

\* togglePinChatRoomService reads the mark and writes the opposite.
TogglePin(h, r, u) ==
  /\ r \in Made /\ u \in r
  /\ Start(h, [step |-> "pin", room |-> r, by |-> u, to |-> u \notin pinned[r]])
  /\ UNCHANGED <<roomVars, messages, nextId, viewVars, unsent>>

TogglePinChatRoom(h) ==
  /\ handler[h].step = "pin"
  /\ LET p == handler[h] IN
       pinned' = [pinned EXCEPT ![p.room] = IF p.to THEN @ \cup {p.by} ELSE @ \ {p.by}]
  /\ Finish(h)
  /\ UNCHANGED <<lastMessage, leftAt, blocks, messages, nextId, viewVars, unsent>>

\* iBlockedPartner, partnerBlockedMe
BlockStatus(u, w) == blocks \cap {<<u, w>>, <<w, u>>}

BlockUserService(h, u, w) ==
  /\ u # w /\ <<u, w>> \notin BlockStatus(u, w)
  /\ Start(h, [step |-> "block", by |-> u, of |-> w])
  /\ UNCHANGED <<roomVars, messages, nextId, viewVars, unsent>>

BlockUser(h) ==
  /\ handler[h].step = "block"
  /\ blocks' = blocks \cup {<<handler[h].by, handler[h].of>>}
  /\ Finish(h)
  /\ UNCHANGED <<lastMessage, leftAt, pinned, messages, nextId, viewVars, unsent>>

\* The list of rooms, and which room stands above which: latest message first.
FindRoomListByUserId(u, filter) ==
  {r \in Made : u \in r /\ leftAt[r][u] = 0 /\ lastMessage[r] # 0 /\ (filter = "pinned" => u \in pinned[r])}

ListedAbove(r, q) == lastMessage[r] > lastMessage[q]
-----------------------------------------------------------------------------
(* Sending.                                                                 *)

InRoom(r)     == {m \in messages : m.room = r}
Locked(h, r)  == \E g \in Senders \ {h} : handler[g].step = "sent" /\ handler[g].room = r
Committed(h)  == messages' = messages \cup {[id |-> handler[h].id, room |-> handler[h].room]}

\* The insert of saveMessage.  Its foreign key shares a lock on the room's row.
SendMessage(h, r) ==
  /\ r \in Made /\ nextId \in Ids
  /\ Start(h, [step |-> "sent", room |-> r, id |-> nextId])
  /\ nextId' = nextId + 1
  /\ UNCHANGED <<roomVars, messages, viewVars, unsent>>

\* Mutant: insert and update are not in one transaction.
UpdateRoomUnlocked(h) ==
  /\ handler[h].step = "sent"
  /\ lastMessage' = [lastMessage EXCEPT ![handler[h].room] = handler[h].id]
  /\ Committed(h)
  /\ handler' = [handler EXCEPT ![h].step = "broadcast"]
  /\ UNCHANGED <<leftAt, pinned, blocks, nextId, viewVars, unsent>>

\* The update of the room, which has to wait for every other insert, and the commit.
UpdateRoom(h) ==
  /\ handler[h].step = "sent"
  /\ ~ Locked(h, handler[h].room)
  /\ lastMessage' = [lastMessage EXCEPT ![handler[h].room] = handler[h].id]
  /\ Committed(h)
  /\ handler' = [handler EXCEPT ![h].step = "broadcast"]
  /\ UNCHANGED <<leftAt, pinned, blocks, nextId, viewVars, unsent>>

\* Two inserts whose updates wait for each other: the database gives one up.
DeadlockVictim(h) ==
  /\ handler[h].step = "sent" /\ Locked(h, handler[h].room)
  /\ Finish(h)
  /\ UNCHANGED <<roomVars, messages, nextId, viewVars, unsent>>

\* receiveMessage, to everyone who has joined.
Broadcast(h) ==
  /\ handler[h].step = "broadcast"
  /\ screen' = IF screen.joined /\ handler[h].room = Watched
                 THEN [screen EXCEPT !.shown = @ \cup {handler[h].id}] ELSE screen
  /\ Finish(h)
  /\ UNCHANGED <<roomVars, messages, nextId, detail, lastRead, unsent>>

\* The process of a handler dies, or its connection.
HandlerDies(h) ==
  /\ handler[h] # Resting
  /\ unsent' = IF handler[h].step = "broadcast" THEN unsent \cup {handler[h].id} ELSE unsent
  /\ Finish(h)
  /\ UNCHANGED <<roomVars, messages, nextId, viewVars>>
-----------------------------------------------------------------------------
(* Reading.                                                                 *)

\* joinRoom; its resetUnreadCount leaves the read mark as it is.
JoinRoom ==
  /\ Watched \in Made /\ detail = NoDetail
  /\ screen' = [Blank EXCEPT !.joined = TRUE]
  /\ UNCHANGED <<roomVars, messages, nextId, handler, detail, lastRead, unsent>>

\* leaveRoom, or the socket closes.
LeaveRoom ==
  /\ screen.joined /\ detail = NoDetail
  /\ screen' = Blank
  /\ UNCHANGED <<roomVars, messages, nextId, handler, detail, lastRead, unsent>>

Visible == {m.id : m \in {n \in InRoom(Watched) : n.id > leftAt[Watched][Reader]}}

\* Mutant: one message too few is fetched to see whether there are more.
PageShort(cursor) ==
  LET older == Older(Visible, cursor) IN
    [rows |-> LatestOf(older, MessageLimit), more |-> Cardinality(older) > MessageLimit + 1]

\* A page of messages after left_at, before the cursor, latest first.
FindMessagesByRoomId(cursor) ==
  LET older == Older(Visible, cursor) IN
    [rows |-> LatestOf(older, MessageLimit), more |-> Cardinality(older) > MessageLimit]

\* getChatRoomDetailService: the room with its last message is read first; the
\* page and, on the first page, the read mark follow side by side.
GetChatRoomDetail ==
  /\ screen.joined /\ screen.more /\ detail = NoDetail
  /\ detail' = [todo |-> IF screen.page = 0 THEN {"page", "mark"} ELSE {"page"},
                last |-> lastMessage[Watched]]
  /\ UNCHANGED <<roomVars, messages, nextId, handler, screen, lastRead, unsent>>

DoneWith(t) == detail' = IF detail.todo = {t} THEN NoDetail ELSE [detail EXCEPT !.todo = @ \ {t}]

LoadPage ==
  /\ "page" \in detail.todo
  /\ LET p == FindMessagesByRoomId(screen.page) IN
       screen' = [screen EXCEPT !.shown = @ \cup p.rows, !.more = p.more,
                                !.page = IF p.rows = {} THEN @ ELSE Min(p.rows)]
  /\ DoneWith("page")
  /\ UNCHANGED <<roomVars, messages, nextId, handler, lastRead, unsent>>

\* Mutant: the mark is set to the last message there is by now.
MarkedNow == lastMessage[Watched]

\* What resetUnreadCount is given.
Marked == detail.last

ResetUnreadCount ==
  /\ "mark" \in detail.todo
  /\ lastRead' = Marked
  /\ DoneWith("mark")
  /\ UNCHANGED <<roomVars, messages, nextId, handler, screen, unsent>>

\* One of the queries fails and with it the request; the other may go through.
DetailFails ==
  /\ detail # NoDetail
  /\ detail' = NoDetail
  /\ lastRead' \in {lastRead} \cup (IF "mark" \in detail.todo THEN {Marked} ELSE {})
  /\ UNCHANGED <<roomVars, messages, nextId, handler, screen, unsent>>

CreateRoomRoute(q, h, r) == WellFormed(q) /\ q.user \in r /\ CreateOrGetChatRoom(h, r)
DetailRoute(q)           == WellFormed(q) /\ q.user = Reader /\ GetChatRoomDetail
BlockUserRoute(q, h, u)  == WellFormed(q) /\ BlockUserService(h, q.user, u)
LeaveRoomRoute(q, r)     == WellFormed(q) /\ LeaveChatRoom(r, q.user)
TogglePinRoute(q, h, r)  == WellFormed(q) /\ TogglePin(h, r, q.user)

\* What the reader does with his rooms; the others do alike.
RoomNext ==
  \/ \E q \in Requests({Reader}), h \in Senders :
       \/ \E r \in Rooms : CreateRoomRoute(q, h, r) \/ TogglePinRoute(q, h, r)
       \/ \E u \in Chatters : BlockUserRoute(q, h, u)
  \/ \E h \in Senders : CreateChatRoom(h) \/ TogglePinChatRoom(h) \/ BlockUser(h)

TalkNext ==
  \/ \E h \in Senders, r \in Rooms : SendMessage(h, r)
  \/ \E h \in Senders : UpdateRoom(h) \/ DeadlockVictim(h) \/ Broadcast(h)
  \/ \E q \in Requests({Reader}) : LeaveRoomRoute(q, Watched) \/ DetailRoute(q)
  \/ JoinRoom \/ LeaveRoom \/ LoadPage \/ ResetUnreadCount \/ DetailFails

ChatNext == RoomNext \/ TalkNext \/ \E h \in Senders : HandlerDies(h)

ChatSpec == ChatInit /\ [][ChatNext]_chatVars
-----------------------------------------------------------------------------
(* Properties.                                                              *)

\* A room's last_message_id names its latest message, whatever messages were
\* sent at once, so that a list of rooms has an order and the latest news first.
LastMessageIsLatest ==
  /\ \A r \in Made : lastMessage[r] = (IF InRoom(r) = {} THEN 0 ELSE Max({m.id : m \in InRoom(r)}))
  /\ \A u \in Chatters, filter \in {"all", "pinned"} :
       \A r, q \in FindRoomListByUserId(u, filter) : r # q =>
         /\ ListedAbove(r, q) \/ ListedAbove(q, r)
         /\ ListedAbove(r, q) => \A m \in InRoom(q) : \E n \in InRoom(r) : n.id > m.id

\* The read mark never passes the latest message on the reader's screen, once
\* that shows a page: no message counts as read that was not there to be read.
ReadMarkWasShown ==
  screen.page # 0 /\ detail = NoDetail =>
    lastRead <= Max(screen.shown) \/ lastRead <= leftAt[Watched][Reader]

\* Who has joined and then loaded every page has everything that was sent since
\* he left the room: on a page, by broadcast, or with its broadcast still to
\* come, unless the sender's process died before it.
NothingMissed ==
  screen.joined /\ ~ screen.more =>
    \A m \in InRoom(Watched) :
      \/ m.id \in screen.shown \cup unsent
      \/ m.id <= leftAt[Watched][Reader]
      \/ \E h \in Senders : handler[h].step = "broadcast" /\ handler[h].id = m.id
=============================================================================
