SPECIFICATION FairSpec
CONSTANTS
  c1 = c1
  c2 = c2
  Callers <- MCCallers
  Deadline = 1
  MaxSends = 2
  MaxAbandoned = 2
  SendsFail = TRUE
INVARIANT
  SharedOnlyAfterAbandon
PROPERTIES
  RetryOnFreshClient
  FirstHalfReadNotInherited
  NotifyReturns
CHECK_DEADLOCK FALSE
