CONSTANTS
  Proc = {p1,p2}
  StaleSaves = FALSE
  NFiles = 0
  MaxEdits = 0
  Validator = {v1}
  Free = Free
  Dead = Dead
SPECIFICATION FairSpec
INVARIANTS ApprovedIsCovered OutcomeIsRecorded
PROPERTIES OperationEnds RecordsStay
