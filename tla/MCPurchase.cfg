\* Two orders of one buyer for one prompt, one run of each handler path.
CONSTANTS
  Buyers = {buyer}
  Prompts = {prompt}
  Orders = {o1, o2}
  Prices = {1, 2}
  CompleteCalls = {complete}
  RedirectCalls = {}
  HookCalls = {hook}
  NoOrder = NoOrder
  RepeatRefused = TRUE
  Deletions = TRUE
  MaxFaults = 1
\* The instance may stop: its only prompt can be deleted, with nothing running.
CHECK_DEADLOCK FALSE
SPECIFICATION Spec
SYMMETRY Symmetry
INVARIANT TypeOK
INVARIANT BooksAgree
INVARIANT SuccessIsRecorded
PROPERTY NoSecondSale
PROPERTY LedgerSpec
