\* One instance, no fault.
CONSTANTS
  seller = seller
  small = small
  large = large
  Sellers = {seller}
  Sales = {small, large}
  Owner <- MCOwner
  Total <- MCTotal
  Instances = {i1}
  Hooks = {h1}
  Groups = {g1, g2}
  None = None
  MinPayout = 2
  LastPeriod = 3
  MaxFaults = 0
SPECIFICATION Spec
INVARIANT SkippedIsCarriedOver
