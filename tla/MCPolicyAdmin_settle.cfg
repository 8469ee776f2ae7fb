SPECIFICATION FairSpec
CONSTANTS
  p1 = p1
  p2 = p2
  Publishers <- MCPublishers
  RetryAfter = 0
  GiveUpAfter = 2
  MaxAttempts = 2
  MaxMoves = 2
INVARIANTS
  BuiltFromEngineSet
  NeverSilentlyReverted
PROPERTIES
  ChangeIsSettled
  PageCatchesUp
