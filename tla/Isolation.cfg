SPECIFICATION FairIsolationSpec
CONSTANTS
  Calls = {c1, c2}
  Concurrency = 1
  Cancellations = TRUE
INVARIANTS
  NoSilentChildLeft
  BusyChildrenBounded
  AnswerIsNotLost
PROPERTIES
  CallEnds
CHECK_DEADLOCK FALSE
