CONSTANTS
  NoSnippet = NoSnippet
  NoIngest = NoIngest
  NoCall = NoCall
  Over = Over
  Reports = {1, 2, 3}
  Key <- Keys
  Snippet <- Snippets
  Near <- Alike
  Serious = {1}
  Embedding = TRUE
  Calls = {1}
SPECIFICATION FairSpec
INVARIANTS
  TypeOK
  EveryReportCounted
  OneRecordPerIssue
PROPERTIES
  InboxDrains
CHECK_DEADLOCK FALSE
