SPECIFICATION WorkersSpec
CONSTANTS
  Runs <- MCOneRun
  MaxAttempts = 2
  LeaseTime = 1
  Stages <- MCStages
  InlineCallers = FALSE
  Slots = {"s1", "s2"}
  Procs = {"api", "worker"}
  ApiProcs = {"api"}
  ProcOf <- MCTwoProcesses
  MaxIterations = 1
  CrashBudget = 1
INVARIANTS
  CompletedHasReport
PROPERTIES
  LostTaskLeavesNoTrace
  ImplementsLedger
