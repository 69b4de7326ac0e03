SPECIFICATION SyncSpec
CONSTRAINT FigureOrMirrors
SYMMETRY SameKinds
CONSTANTS
  i1 = i1
  i2 = i2
  m1 = m1
  m2 = m2
  Sets = {"s1"}
  SetItems = {i1, i2}
  SetOf <- ItemsSetOf
  Figures = {"f1"}
  FigureParts = {m1, m2}
  FigureOf <- FigurePartOf
  Parts = {"p1"}
  AllocIdents <- MCAllocIdents
  PartIdents <- MCPartIdents
  NoSet = "none"
  NoElement = ""
  PositionForms <- MCPositionForms
  PartForms <- MCPartForms
  NumberOf <- MCNumberOf
  InventoryReplies <- MCInventoryReplies
  FigureReplies <- MCFigureReplies
INVARIANTS OnlyRateLimitsAbort
