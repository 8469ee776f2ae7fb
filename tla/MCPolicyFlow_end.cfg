SPECIFICATION FairFlowSpec
CONSTANTS
  p1 = p1
  Publishers <- MCPublishers
  Sources <- MCPublishers
  Seed <- MCPublishers
  Unknown <- MCNone
  Pushes <- MCPushes
  ForeignMail <- MCNone
  Faults = {"late"}
  Followed <- MCPlannerOnly
  MaxVersion = 1
  MaxCrashes = 0
  MaxQueue = 1
  Kinds <- MCLiveOnly
  LiveTTL = 0
  OldAge = 1
  PushFailures = {"send"}
  MaxRestarts = 1
INVARIANTS
  EnforcesTheSetGiven
PROPERTIES
  PlannerEnforcesTheRules
  RevocationTakesEffect
CHECK_DEADLOCK FALSE
