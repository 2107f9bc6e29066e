SPECIFICATION IngestionSpec
CONSTANTS
  Papers = {"arxiv", "upload", "old"}
  Uploads = {"upload"}
  Legacy = {"old"}
  Tasks = {t1, t2}
  Procs = {"api"}
  ProcOf <- MCOneProcess
  ApiProcs = {"api"}
  MaxIngestions = 2
  DatabaseFails = TRUE
  CrashBudget = 1
SYMMETRY MCSymmetry
INVARIANTS
  CompletedHasDocument
  ReturnedHasDocument
  CompletedIsWhole
PROPERTIES
  CompletedIsKept
