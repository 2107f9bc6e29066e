SPECIFICATION FairSpec
CONSTANTS
  Runs <- MCOneRun
  MaxAttempts = 3
  LeaseTime = 2
  Stages <- MCStages
  InlineCallers = FALSE
  Slots = {"s1"}
  Procs = {"api"}
  ApiProcs = {"api"}
  ProcOf <- MCOneSlot
  MaxIterations = 2
  CrashBudget = 1
PROPERTIES
  QueuedRunEnds
  CancellationIsHonoured
