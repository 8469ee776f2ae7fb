SPECIFICATION FairPlannerSpec
CONSTANTS
  s1 = s1
  Sources <- MCOneSource
  Kinds <- MCKinds
  LiveTTL = 1
  OldAge = 2
  PushFailures <- MCAllFaults
  MaxRestarts = 1
INVARIANTS
  CacheAuthorised
PROPERTIES
  PlansFromGranted
  KeptForItsTTL
  RevocationReachesViews
