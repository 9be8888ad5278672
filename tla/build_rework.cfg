CONSTANTS
  t1 = t1
  t2 = t2
  t3 = t3
  NoTask = NoTask
  NoRun = NoRun
  NoCycle = NoCycle
  NoPass = NoPass
  Tasks = {t1}
  Predecessor <- Independent
  Ideas = {t1}
  Priority <- Equal
  MaxParallel = 1
  AiReviewer = TRUE
  MaxAutoReworks = 1
  AutoDone = FALSE
  MergesOnApprove = FALSE
  FeatureBranching = TRUE
  RetryEnabled = TRUE
  MaxAttempts = 2
  HumanActs <- Reviewing
  Troubles = {"fails"}
  Deletable <- ReviewRuns
  Overwritable = {}
  AnswersLost = TRUE
  MaxRework = 1
SPECIFICATION Spec
INVARIANTS
  TypeOK
  ReviewIsOfCurrentWork
  ReworksWithinCeiling
  DecisionsCurrent
PROPERTIES
  FollowsLifecycle
CHECK_DEADLOCK FALSE
