CONSTANTS
  pa = pa
  pb = pb
  u1 = u1
  u2 = u2
  u3 = u3
  Emails = {e1}
  Passwords = {pa, pb}
  Lower <- MCLower
  Acceptable = {pa, pb}
  Codes = {c1}
  Forms = {f1, f2}
  NoPassword = NoPassword
  NoCode = NoCode
  TempTTL = 1
  MaxTokens = 3
  Accounts = {a1}
  Visits = {v1, v2}
  People = {p1, p2}
  Guest = Guest
  Names = {n1, n2}
  NoName = NoName
  Slots = {s1, s2}
  MaxFollows = 3
  MaxEntries = 1
  RosterLimit = 1
  Chatters = {u1, u2, u3}
  Rooms <- MCRooms
  Watched <- MCWatched
  Reader = u1
  Senders = {h1, h2}
  MessageLimit = 1
  MaxMessages = 3
  Audience = {d1, d2}
  Everyone = Everyone
  Onlooker = d1
  Readers = {q1, q2}
  NoticeLimit = 1
  MaxEvents = 2
SPECIFICATION Spec
INVARIANT TypeOK
INVARIANT TempTokenUsedOnce
INVARIANT PasswordOpens
INVARIANT WritesHold
INVARIANT PagesMissNothing
INVARIANT LastMessageIsLatest
INVARIANT NewIsNoticed
PROPERTY StaysOut
\* ids, tokens and messages are bounded
CHECK_DEADLOCK FALSE
