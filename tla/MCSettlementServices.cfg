CONSTANTS
  s1 = s1
  s2 = s2
  u1 = u1
  u2 = u2
  t1 = t1
  t2 = t2
  t3 = t3
  t4 = t4
  n1 = n1
  r1 = r1
  r2 = r2
  r3 = r3
  Sales = {s1, s2}
  Instances = {i1, i2}
  NoInstance = NoInstance
  LastDay = 2
  Statement <- MCStatement
  PageLimit = 1
  MaxPages = 2
  MaxSlips = 2
  Applicants = {u1}
  Jtis = {j1, j2}
  Checks = {k1, k2}
  NoApplicant = NoApplicant
  DailyLimit = 2
  TokenTTL = 2
  MaxNights = 1
  Users = {u1, u2}
  Numbers = {n1}
  Payloads = {t1, t2, t3, t4}
  OwnerOf <- MCOwnerOf
  KindOf <- MCKindOf
  NumberOf <- MCNumberOf
  Calls = {c1, c2}
  Nobody = Nobody
  NoNumber = NoNumber
  NoToken = NoToken
  NoAccount = NoAccount
  DayLength = 8
  KstOffset = 3
  MonthLength <- MCMonthLength
  LastMonth = 24
  Rows = {r1, r2, r3}
  Price <- MCPrice
  Fee <- MCFee
  SoldOn <- MCSoldOn
  MonthEnd <- MCMonthEnd
  Withdrawals = {w1, w2}
  MinWithdrawal = 5
SPECIFICATION Spec
INVARIANT TypeOK
INVARIANT ResumeSkipsNothing
INVARIANT TokenRedeemedOnce
INVARIANT LimitIsDaily
INVARIANT AccountIsOwners
INVARIANT IndividualIsApproved
INVARIANT DeadlinesAsPromised
INVARIANT ReportsAgree
INVARIANT NotOverdrawn
PROPERTY BookSpec
\* the list of days, tokens and sales is finite
CHECK_DEADLOCK FALSE
