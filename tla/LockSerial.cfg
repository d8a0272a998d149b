CONSTANTS
  Call = {c1,c2,c3,c4}
  NoOwner = NoOwner
  Crashes = FALSE
  LongHolds = FALSE
  Misses = FALSE
SPECIFICATION Spec
PROPERTIES Serializes
CHECK_DEADLOCK FALSE
