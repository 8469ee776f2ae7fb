SPECIFICATION FairSpec
CONSTANTS
  p1 = p1
  p2 = p2
  x1 = x1
  Publishers <- MCOnePublisher
  Seed <- MCSeed
  Unknown <- MCUnknown
  Pushes <- MCPushes
  ForeignMail <- MCForeignMail
  Faults = {"store", "hang", "send", "lostReply", "late"}
  Followed <- MCPlanner
  MaxVersion = 1
  MaxCrashes = 1
  MaxQueue = 1
INVARIANT SettledSurvives
PROPERTIES DurableSpec PlannerCatchesUp ChangeCompletes
CHECK_DEADLOCK FALSE
