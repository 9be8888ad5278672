CONSTANTS
  t1 = t1
  t2 = t2
  t3 = t3
  NoTask = NoTask
  NoRun = NoRun
  NoCycle = NoCycle
  NoPass = NoPass
  Tasks = {t1, t2}
  Predecessor <- Chained
  Ideas = {}
  Priority <- Equal
  MaxParallel = 1
  AiReviewer = FALSE
  MaxAutoReworks = 1
  AutoDone = FALSE
  MergesOnApprove = TRUE
  FeatureBranching = TRUE
  RetryEnabled = FALSE
  MaxAttempts = 3
  HumanActs <- ApprovingOrNot
  Troubles = {}
  Deletable = {}
  Overwritable = {}
  AnswersLost = FALSE
  MaxRework = 0
SPECIFICATION Spec
INVARIANTS
  StartsOnLandedWork
CHECK_DEADLOCK FALSE
