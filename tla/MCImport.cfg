SPECIFICATION ImportSpec
CONSTRAINT SmallImports
SYMMETRY SameKinds
CONSTANTS
  p1 = p1
  p2 = p2
  r1 = r1
  r2 = r2
  Sets = {"s1", "s2"}
  SetItems = {"i1"}
  SetOf <- ItemsSetOf
  Figures = {"f1"}
  FigureParts = {"m1"}
  FigureOf <- FigurePartOf
  Parts = {p1, p2}
  AllocIdents <- MCAllocIdents
  PartIdents <- MCPartIdents
  NoSet = "none"
  NoElement = ""
  PositionForms <- MCPositionForms
  PartForms <- MCPartForms
  SetNumber <- MCSetNumber
  NoNumber = ""
  NullNumber = "null"
  Requests = {r1, r2}
  Files <- MCFiles
INVARIANTS BatchAppliedOnce ReimportKeepsAmounts
PROPERTIES SkipLeavesRows
