SPECIFICATION FairSpec
CONSTANTS
  Reads = {r1, r2}
  Parses = {w1}
  FirstParse = w0
  NumSections = 1
  NumEvidence = 2
  Null = Null
  Concurrency = 2
  MaxFaults = 1
INVARIANTS
  CardsTypeOK
  EvidenceCitesWhatWasRead
  CompletedHasWholeCard
PROPERTIES
  EveryRunEnds
CHECK_DEADLOCK FALSE
