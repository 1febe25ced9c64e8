SPECIFICATION Spec
CONSTANTS
  Nil = Nil
  p1 = p1
  p2 = p2
  Products <- TwoProducts
  Requests = {r1, r2, r3}
  Operations = {"ingreso", "egreso", "void"}
  LineChoices <- SingleLine
  SaleNumbers = {}
  InitialStock <- SomeStock
  OpeningNumber <- MidYear
  SameDocument = TRUE
SYMMETRY Symmetry
INVARIANTS StockIsSumOfApproved
CHECK_DEADLOCK FALSE
