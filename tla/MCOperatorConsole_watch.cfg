SPECIFICATION FairSpec
CONSTANTS
  Builders <- MCBuilders
  MayHang <- MCMayHang
  MaxFaults = 1
  MaxGenerations = 2
  Routes <- MCRoutes
  FirstBest = 1
  Signature <- MCSignature
  MaxPlans = 1
  MaxQueue = 1
INVARIANTS TimeoutRestored RetiredDeliversAtMostOnce
PROPERTIES ConsoleCatchesUp RetiredEnds BadRootDropped
