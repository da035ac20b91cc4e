SPECIFICATION Spec
CONSTANTS
  Papers = {p1}
  NumSections = 2
  NumReferences = 1
  MaxTasks = 3
  Concurrency = 2
  ProcessMaxRetry = 1
  ReadMaxRetry = 1
  ReaderConfigured = TRUE
  Requests = {r1, r2}
  MaxRequests = 3
  Operations = {"upload", "retry"}
  MaxFaults = 0
  MaxRestarts = 1
SYMMETRY Anonymous
PROPERTIES
  RetryReadsParsedPaper
CHECK_DEADLOCK FALSE
