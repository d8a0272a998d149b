CONSTANTS
  MaxTurns = {1, 3}
  MaxRounds = 2
  RepeatLimit = 2
  MaxRetries = 1
  ApplyPolicy = {"interactive", "manual-only"}
  Result = {r1}
  Denial = {d1}
  Faults = {FALSE, TRUE}
SPECIFICATION FairSpec
INVARIANTS SessionIsReplayable TurnLeavesNothing
PROPERTIES NothingStartsAfterCancel TurnEnds
CHECK_DEADLOCK FALSE
