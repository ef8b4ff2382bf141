\* Two months of one seller, two instances whose crons fire one after the
\* other or at once, webhooks delivered twice at once, one fault.
CONSTANTS
  seller = seller
  small = small
  large = large
  Sellers = {seller}
  Sales = {small, large}
  Owner <- MCOwner
  Total <- MCTotal
  Instances = {i1, i2}
  Hooks = {h1, h2}
  Groups = {g1, g2}
  None = None
  MinPayout = 2
  LastPeriod = 3
  MaxFaults = 1
SPECIFICATION Spec
SYMMETRY Symmetry
INVARIANT TypeOK
INVARIANT StatusTellsTruth
INVARIANT NoSaleTwice
INVARIANT NeverOverpaid
PROPERTY PayoutLedgerSpec
