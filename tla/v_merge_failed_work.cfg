CONSTANTS
  t1 = t1
  t2 = t2
  t3 = t3
  NoTask = NoTask
  NoRun = NoRun
  NoCycle = NoCycle
  NoPass = NoPass
  Tasks = {t1}
  Predecessor <- Independent
  Ideas = {}
  Priority <- Equal
  MaxParallel = 1
  AiReviewer = FALSE
  MaxAutoReworks = 1
  AutoDone = FALSE
  MergesOnApprove = TRUE
  FeatureBranching = TRUE
  RetryEnabled = FALSE
  MaxAttempts = 3
  HumanActs <- Reviewing
  Troubles = {"fails"}
  Deletable = {}
  Overwritable = {}
  AnswersLost = FALSE
  MaxRework = 1
SPECIFICATION Spec
PROPERTIES
  MergesOnlyFinishedWork
CHECK_DEADLOCK FALSE
