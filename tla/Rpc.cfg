CONSTANTS
  MaxRuns = 2
  MaxQueries = 1
SPECIFICATION FairSpec
INVARIANTS TypeOK StreamIsOrdered FailureIsReported ClosedRunsStop
PROPERTIES EveryRunEnds
CHECK_DEADLOCK FALSE
