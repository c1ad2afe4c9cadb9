SPECIFICATION DriftingSpec
CONSTANTS
  BodyCount = 7
  PoolThreads = 3
  MaxWorkers = 3
  MaxCalls = 2
  MaxColors = 2
  Calls <- PoolCalls
INVARIANT RestoreGivesBackFrame
CHECK_DEADLOCK FALSE
