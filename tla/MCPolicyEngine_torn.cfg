SPECIFICATION Spec
CONSTANTS
  p1 = p1
  p2 = p2
  x1 = x1
  Publishers <- MCPublishers
  Seed <- MCPublishers
  Unknown <- MCUnknown
  Pushes <- MCAllPushes
  ForeignMail <- MCForeignMail
  Faults = {}
  Followed <- MCBoth
  MaxVersion = 1
  MaxCrashes = 0
  MaxQueue = 1
PROPERTY PublishesTheSetInForce
