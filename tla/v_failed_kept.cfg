CONSTANTS
  Troubles <- SomeTroubles
  MaxTroubles = 0
  MaxRuns = 1
SPECIFICATION Spec
INVARIANT FailureReported
CHECK_DEADLOCK FALSE
