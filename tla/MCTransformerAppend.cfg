SPECIFICATION Spec
CONSTANTS
  batch = batch  mixed = mixed  empty = empty  other = other  broken = broken
  large = large  small = small  failing = failing  tenant = tenant
  shape <- MCShape
  Options <- MCNoOptions
  NoDoc = NoDoc  NoVars = NoVars  Junk = Junk  NoState = NoState  NoBuf = NoBuf
  MaxPooled = 6
  ShrinkRatio = 2
  ShrinkAfter = 2
  MaxClock = 2
  Callers = {c1, c2}
  States = {s1, s2}
  Docs = {small, failing}
  Simple = TRUE
  Naming = "none"
  MaxDst = 1
SYMMETRY Symmetry
INVARIANTS
  ExclusiveOwnership
PROPERTIES
  ImplementsEachCalls
