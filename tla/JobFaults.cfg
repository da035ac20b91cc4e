SPECIFICATION Spec
CONSTANTS
  Papers = {p1, p2}
  NumSections = 1
  NumReferences = 1
  MaxTasks = 3
  Concurrency = 2
  ProcessMaxRetry = 1
  ReadMaxRetry = 1
  ReaderConfigured = TRUE
  Requests = {r1, r2}
  MaxRequests = 2
  Operations = {"upload", "retry", "reprocess", "reread", "delete", "cleanup"}
  MaxFaults = 2
  MaxRestarts = 0
SYMMETRY Anonymous
INVARIANTS
  FaultsAbandonOneJobEach
PROPERTIES
  ImplementsJobLife
CHECK_DEADLOCK FALSE
