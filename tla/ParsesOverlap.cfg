SPECIFICATION Spec
CONSTANTS
  Papers = {paper}
  Paper = paper
  PDF = pdf
  TEI = tei
  Upload = upload
  Keys = {pdf, tei, 1, 2}
  Writers = {upload, w1, w2}
  Deleters = {d1}
  Results = {g1, g2}
  NoResult = none
  MaxFigures = 2
  Concurrency = 2
  MaxFaults = 1
SYMMETRY Anonymous
INVARIANTS
  ObjectsTypeOK
  FigureServesOwnImage
  PDFGoesWithPaper
CHECK_DEADLOCK FALSE
