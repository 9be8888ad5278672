CONSTANTS
  Troubles <- SomeTroubles
  MaxTroubles = 1
  MaxRuns = 2
SPECIFICATION FairSpec
INVARIANTS
  TypeOK
  FailureStands
PROPERTIES
  RunsEnd
  RunOnce
  PodsReaped
\* The last Run of the name may end for good.
CHECK_DEADLOCK FALSE
