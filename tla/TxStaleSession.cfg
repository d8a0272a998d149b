CONSTANTS
  Proc = {p1,p2}
  StaleSaves = TRUE
  NFiles = 1
  MaxEdits = 1
  Validator = {}
  Free = Free
  Dead = Dead
SPECIFICATION FairSpec
PROPERTIES RecordsStay
