CONSTANTS
  Call = {c1,c2,c3}
  NoOwner = NoOwner
  Crashes = TRUE
  LongHolds = FALSE
  Misses = FALSE
SPECIFICATION Spec
INVARIANTS OneInside
CHECK_DEADLOCK FALSE
