\* Recovery by webhook redelivery: the price stands still, Payple repeats its
\* approval, and one handler run may die at any await.
CONSTANTS
  Buyers = {buyer}
  Prompts = {prompt}
  Orders = {o1, o2}
  Prices = {1}
  CompleteCalls = {complete}
  RedirectCalls = {}
  HookCalls = {hook}
  NoOrder = NoOrder
  RepeatRefused = FALSE
  Deletions = TRUE
  MaxFaults = 1
\* The instance may stop: its only prompt can be deleted, with nothing running.
CHECK_DEADLOCK FALSE
SPECIFICATION FairSpec
PROPERTY ChargeIsBookedOrDuplicate
