SPECIFICATION FairSpec
CONSTANTS
  Callers = {c1, c2, c3}
  Nobody = Nobody
  MaxWrites = 2
  MaxFaults = 1
INVARIANTS
  CacheTypeOK
  ServesAcknowledged
PROPERTIES
  WritesArrive
  CacheNeverGoesBack
