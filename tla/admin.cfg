CONSTANTS
  t1 = t1
  NoTask = NoTask
  NoRun = NoRun
  NoCycle = NoCycle
  NoPass = NoPass
  Tasks = {t1}
  Predecessor <- Alone
  Ideas = {}
  Priority <- Equal
  MaxParallel = 1
  AiReviewer = TRUE
  MaxAutoReworks = 0
  AutoDone = FALSE
  MergesOnApprove = FALSE
  FeatureBranching = TRUE
  RetryEnabled = FALSE
  MaxAttempts = 3
  HumanActs <- Never
  Troubles = {"fails"}
  Deletable = {}
  Overwritable = {}
  AnswersLost = FALSE
  MaxRework = 0
  Directly <- Everything
  Repeatedly <- Restarting
  MaxCalls = 2
SPECIFICATION FairAdminSpec
INVARIANTS
  ReviewsStayCurrent
PROPERTIES
  FreshAfterRestart
  RestartedWorkSettles
CHECK_DEADLOCK FALSE
