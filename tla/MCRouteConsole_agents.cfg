SPECIFICATION FairSpec
CONSTANTS
  r1 = r1
  r2 = r2
  r3 = r3
  NoRoute = NoRoute
  Agents <- MCAgents
  Routes <- MCRoutes
  Length <- MCLength
  Ignored <- MCIgnored
  Way <- MCWay
  Stack <- MCStack
  Caches <- MCCaches
  Errors = TRUE
INVARIANTS
  ListedOnce
  HighlightIsOptimal
  IgnoredOnlyAsDirect
PROPERTIES
  OptimizersRunOut
  AgentsStop
