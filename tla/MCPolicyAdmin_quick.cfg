SPECIFICATION Spec
CONSTANTS
  p1 = p1
  p2 = p2
  Publishers <- MCPublishers
  RetryAfter = 1
  GiveUpAfter = 4
  MaxAttempts = 3
  MaxMoves = 2
PROPERTY ToggleChangesOne
