\* One order whose first handler run dies after the charge, and a seller who
\* edits the price before the webhook is redelivered.
CONSTANTS
  Buyers = {buyer}
  Prompts = {prompt}
  Orders = {o1}
  Prices = {1, 2}
  CompleteCalls = {}
  RedirectCalls = {}
  HookCalls = {hook}
  NoOrder = NoOrder
  RepeatRefused = FALSE
  Deletions = FALSE
  MaxFaults = 1
SPECIFICATION FairSpec
PROPERTY ChargeIsBooked
