\* One purchase, four handler runs at a time, two faults.
CONSTANTS
  Purchases = {p1}
  Calls = {c1, c2, c3, c4}
  NoPurchase = NoPurchase
  MaxFaults = 2
SPECIFICATION Spec
SYMMETRY Symmetry
INVARIANT TypeOK
INVARIANT BooksAgree
INVARIANT OneApproval
INVARIANT ApprovedIsVisible
INVARIANT PaidBackOnce
PROPERTY WorkflowSpec
\* The deadlines pass and a purchase comes to rest: no more steps is no error.
CHECK_DEADLOCK FALSE
