SPECIFICATION FairSpec
CONSTANTS
  batch = batch  mixed = mixed  empty = empty  other = other  broken = broken
  large = large  small = small  failing = failing  tenant = tenant
  shape <- MCShape
  Options <- MCOptions
  NoDoc = NoDoc  NoVars = NoVars  Junk = Junk  NoState = NoState  NoBuf = NoBuf
  MaxPooled = 6
  ShrinkRatio = 2
  ShrinkAfter = 2
  MaxClock = 2
  Callers = {c1}
  States = {s1}
  Docs = {mixed, empty, other, broken, large, small}
  Simple = FALSE
  Naming = "literal"
  MaxDst = 0
PROPERTIES
  ImplementsEachCalls
  CallsReturn
