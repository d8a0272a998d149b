CONSTANTS
  Call = {c1,c2,c3}
  NoOwner = NoOwner
  Crashes = TRUE
  LongHolds = TRUE
  Misses = TRUE
SPECIFICATION FairSpec
INVARIANTS NoneLeftBehind
PROPERTIES CallEnds
CHECK_DEADLOCK FALSE
