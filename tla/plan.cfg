CONSTANTS
  NoRun = NoRun
  NoChild = NoChild
  NoCycle = NoCycle
  Flows = {"auto-merge", "pr", "manual", "disabled", "plan-only"}
  HumanActs <- Attending
  Troubles <- SomeTroubles
  Endings <- SomeEndings
  MaxBuilds = 1
  MaxChildren = 2
  MaxRequests = 1
  MaxFeedback = 2
  MaxPRs = 1
SPECIFICATION CommentsSpec
INVARIANTS
  TypeOK
  DoneMeansBuilt
  DoneMeansLanded
  PrShowsTheWork
  OneFollowUpPerRequest
  NoCommentSkipped
PROPERTIES
  GeneratedOnce
  PrOutcomeNoticed
  CommentsHandedOn
CHECK_DEADLOCK FALSE
