SPECIFICATION Spec
CONSTANTS
  Papers = {p1}
  NumSections = 1
  NumReferences = 1
  MaxTasks = 3
  Concurrency = 2
  ProcessMaxRetry = 1
  ReadMaxRetry = 1
  ReaderConfigured = TRUE
  Requests = {r1, r2}
  MaxRequests = 3
  Operations = {"upload"}
  MaxFaults = 1
  MaxRestarts = 0
SYMMETRY Anonymous
INVARIANTS
  ReadingHasAttemptsLeft
CHECK_DEADLOCK FALSE
