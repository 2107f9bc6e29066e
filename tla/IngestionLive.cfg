SPECIFICATION FairIngestionSpec
CONSTANTS
  Papers = {"arxiv", "upload"}
  Uploads = {"upload"}
  Legacy = {}
  Tasks = {"t1", "t2"}
  Procs = {"api", "worker"}
  ProcOf <- MCTwoProcesses
  ApiProcs = {"api", "worker"}
  MaxIngestions = 1
  DatabaseFails = FALSE
  CrashBudget = 1
PROPERTIES
  UnfinishedEnds
