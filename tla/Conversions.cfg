SPECIFICATION Spec
CONSTANTS
  Unset = Unset
  Nil = Nil
  Literals = {"row", "variable", "default"}
  Overrides <- MCOverrides
  Variables <- MCVariables
  Defaults <- MCDefaults
  Pages <- MCPages
  Rects <- MCRects
  MaxBoxes = 3
  ModelPages <- MCModelPages
  Lengths <- MCLengths
  PageSize = 90
  Resolutions <- MCResolutions
  Paddings <- MCPaddings
  MaxPixels = 8
INVARIANTS
  StartsAsShown
  EvidencePageInSection
  FigureBoxCoversItsPage
  CropHoldsFigure
  DownscaleFits
CHECK_DEADLOCK FALSE
