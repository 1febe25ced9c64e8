SPECIFICATION KardexSpec
CONSTANTS
  Nil = Nil
  p1 = p1
  p2 = p2
  Products <- TwoProducts
  Requests = {r1, r2, r3}
  Operations = {"ingreso", "egreso", "baja", "decrement", "approve", "cancel", "void"}
  LineChoices <- MixedLines
  SaleNumbers = {}
  InitialStock <- SomeStock
  OpeningNumber <- MidYear
  SameDocument = FALSE
SYMMETRY Symmetry
INVARIANTS MovementsAddUpToStock KardexAgreesWithStock
CHECK_DEADLOCK FALSE
