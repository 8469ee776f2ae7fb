SPECIFICATION FairSpec
CONSTANTS
  r1 = r1
  r2 = r2
  r3 = r3
  r4 = r4
  s1 = s1
  s2 = s2
  NoRoute = NoRoute
  NoReport = NoReport
  Routes <- MCRoutes
  Length <- MCLength
  Ignorable <- MCIgnorable
  Reports <- MCReports
  Ways <- MCWays
  MaxDensity = 2
  Threshold = 0
  MaxBuffer = 2
INVARIANTS
  PicksShortestClear
  PicksLeastCongested
  MarkerIsCurrent
PROPERTIES
  SearchEnds
