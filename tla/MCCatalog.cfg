SPECIFICATION Spec
CONSTRAINT ItemsOrMirrors
SYMMETRY SameKinds
CONSTANTS
  i1 = i1
  i2 = i2
  Sets = {"s1"}
  SetItems = {i1, i2}
  SetOf <- ItemsSetOf
  Figures = {"f1"}
  FigureParts = {"m1"}
  FigureOf <- FigurePartOf
  Parts = {"p1", "p2"}
  AllocIdents <- MCAllocIdents
  PartIdents <- MCPartIdents
  NoSet = "none"
  NoElement = ""
  PositionForms <- MCPositionForms
  PartForms <- MCPartForms
INVARIANTS TypeOK PresenceMarker OwnedWithinQuantity BooksAgree CountedOnce
PROPERTIES NewPossessionNeedsNoShortage TrashIsFrozen DivergenceHasACause CreateMissingCovers
