SPECIFICATION FairSpec
CONSTANTS
  MaxNotes = 2
  MaxBreaks = 1
  MaxSilence = 1
  SameMillis = FALSE
  KeysFail = TRUE
  Hangs = TRUE
  Stops = TRUE
INVARIANTS
  NothingMissed
  EndsOnTheNewest
PROPERTIES
  EventuallyDelivered
  SilenceIsNoticed
CHECK_DEADLOCK FALSE
