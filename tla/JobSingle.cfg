SPECIFICATION FairSpec
CONSTANTS
  Papers = {p1}
  NumSections = 2
  NumReferences = 2
  MaxTasks = 3
  Concurrency = 2
  ProcessMaxRetry = 1
  ReadMaxRetry = 2
  ReaderConfigured = TRUE
  Requests = {r1, r2}
  MaxRequests = 2
  Operations = {"upload", "delete", "cleanup"}
  MaxFaults = 0
  MaxRestarts = 1
INVARIANTS
  NoAbandonedJob
  PaperAgreesWithJob
  FailedReadIsOver
PROPERTIES
  ImplementsJobLife
  ComesToRest
CHECK_DEADLOCK FALSE
