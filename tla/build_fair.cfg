CONSTANTS
  t1 = t1
  t2 = t2
  t3 = t3
  NoTask = NoTask
  NoRun = NoRun
  NoCycle = NoCycle
  NoPass = NoPass
  Tasks = {t1}
  Predecessor <- Independent
  Ideas = {}
  Priority <- Equal
  MaxParallel = 1
  AiReviewer = TRUE
  MaxAutoReworks = 1
  AutoDone = FALSE
  MergesOnApprove = TRUE
  FeatureBranching = TRUE
  RetryEnabled = FALSE
  MaxAttempts = 3
  HumanActs <- Tending
  Troubles = {"parks", "fails"}
  Deletable <- ParkedRuns
  Overwritable = {}
  AnswersLost = FALSE
  MaxRework = 0
SPECIFICATION FairSpec
PROPERTIES
  ParkedNeverStranded
  AbandonHonoured
  ApprovalHonoured
  WorkSettles
CHECK_DEADLOCK FALSE
