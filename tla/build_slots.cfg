CONSTANTS
  t1 = t1
  t2 = t2
  t3 = t3
  NoTask = NoTask
  NoRun = NoRun
  NoCycle = NoCycle
  NoPass = NoPass
  Tasks = {t1, t2}
  Predecessor <- Independent
  Ideas = {}
  Priority <- Ranked
  MaxParallel = 1
  AiReviewer = FALSE
  MaxAutoReworks = 1
  AutoDone = TRUE
  MergesOnApprove = TRUE
  FeatureBranching = TRUE
  RetryEnabled = TRUE
  MaxAttempts = 2
  HumanActs <- Never
  Troubles = {"stalls", "fails"}
  Deletable = {}
  Overwritable = {}
  AnswersLost = FALSE
  MaxRework = 1
SPECIFICATION FairSpec
INVARIANTS
  ActiveWithinLimit
PROPERTIES
  EveryTaskStarts
CHECK_DEADLOCK FALSE
