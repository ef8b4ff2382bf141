\* The first download between the check and the cancellation of a refund.
CONSTANTS
  Purchases = {p1}
  Calls = {c1, c2}
  NoPurchase = NoPurchase
  MaxFaults = 0
SPECIFICATION Spec
PROPERTY NoAutoRefundOnceOpened
\* The deadlines pass and a purchase comes to rest: no more steps is no error.
CHECK_DEADLOCK FALSE
