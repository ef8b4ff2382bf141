\* No fault at all: a buyer who opens the prompt and files a request in one
\* tab while the automatic refund started in another tab is at Payple.
CONSTANTS
  Purchases = {p1}
  Calls = {c1, c2}
  NoPurchase = NoPurchase
  MaxFaults = 0
SPECIFICATION Spec
INVARIANT FailCodeMeansNotCancelled
\* The deadlines pass and a purchase comes to rest: no more steps is no error.
CHECK_DEADLOCK FALSE
