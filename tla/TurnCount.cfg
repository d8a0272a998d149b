CONSTANTS
  MaxTurns = {1}
  MaxRounds = 1
  RepeatLimit = 2
  MaxRetries = 1
  ApplyPolicy = {"interactive"}
  Result = {r1}
  Denial = {d1}
  Faults = {FALSE}
SPECIFICATION Spec
INVARIANTS TurnsAreCounted
CHECK_DEADLOCK FALSE
