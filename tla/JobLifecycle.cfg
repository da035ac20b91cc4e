SPECIFICATION HistorySpec
CONSTANTS
  Papers = {p1}
  NumSections = 2
  NumReferences = 1
  MaxTasks = 3
  Concurrency = 2
  ProcessMaxRetry = 1
  ReadMaxRetry = 1
  ReaderConfigured = TRUE
  Requests = {r1, r2}
  MaxRequests = 3
  Operations = {"upload", "retry", "reprocess", "reread", "delete", "cleanup"}
  MaxFaults = 0
  MaxRestarts = 0
SYMMETRY Anonymous
INVARIANTS
  TypeOK
  NoAbandonedJob
  NoOrphanRows
  CompletedIsParsed
  CompletedHasCard
  OneAnswerPerFailure
PROPERTIES
  ImplementsJobLife
CHECK_DEADLOCK FALSE
