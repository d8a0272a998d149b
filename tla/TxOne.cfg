CONSTANTS
  Proc = {p1}
  StaleSaves = TRUE
  NFiles = 2
  MaxEdits = 2
  Validator = {v1}
  Free = Free
  Dead = Dead
SPECIFICATION Spec
INVARIANTS TypeOK OutcomeMatchesFiles
PROPERTIES RecoverySettles
