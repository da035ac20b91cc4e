SPECIFICATION Spec
CONSTANTS
  Papers = {p1, p2, p3}
  Keys = {k1, k2, k3}
  Harvesters = {h1, h2}
  Uploaders = {u1}
  Writers = {h1, h2, u1}
  Deleters = {d1}
  Entries = {e1, e2}
  None = None
  MaxCategories = 1
  MaxPasses = 2
  MaxFaults = 2
SYMMETRY Anonymous
INVARIANTS
  HarvestTypeOK
  OnePaperPerSource
  AssetHasObject
  FaultsStrandOnePaperEach
PROPERTY ImplementsIntake
CHECK_DEADLOCK FALSE
