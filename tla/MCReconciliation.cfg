SPECIFICATION ReconcileSpec
CONSTRAINT SmallRuns
SYMMETRY SameKinds
CONSTANTS
  i1 = i1
  i2 = i2
  p1 = p1
  p2 = p2
  Sets = {"s1"}
  SetItems = {i1, i2}
  SetOf <- ItemsSetOf
  Figures = {}
  FigureParts = {}
  FigureOf <- NoFigureOf
  Parts = {p1, p2}
  AllocIdents <- MCAllocIdents
  PartIdents <- MCPartIdents
  NoSet = "none"
  NoElement = ""
  PositionForms <- MCPositionForms
  PartForms <- MCPartForms
  AskedFilters = {"none"}
  MaxRequests = 1
INVARIANTS RowsStaySound AppliedRunVerifies
PROPERTIES AppliesWhatWasPrinted NewestEditStands
