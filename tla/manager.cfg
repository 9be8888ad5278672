CONSTANTS
  Projects = {"p1", "p2"}
  Habits <- SomeHabits
  Troubles <- SomeTroubles
  MaxTroubles = 1
  MaxPauses = 1
  MaxRequests = 1
SPECIFICATION FairSpec
INVARIANTS
  NoWakeUpLost
PROPERTIES
  ChangesSeen
  PauseHolds
  ClearedWhenServed
