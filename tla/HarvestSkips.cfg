SPECIFICATION Spec
CONSTANTS
  Papers = {p1, p2}
  Keys = {k1, k2}
  Harvesters = {h1}
  Uploaders = {}
  Writers = {h1}
  Deleters = {}
  Entries = {e1, e2}
  None = None
  MaxCategories = 1
  MaxPasses = 2
  MaxFaults = 1
SYMMETRY Anonymous
PROPERTIES
  SkippedIsIngested
CHECK_DEADLOCK FALSE
