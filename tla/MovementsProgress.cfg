SPECIFICATION FairSpec
CONSTANTS
  Nil = Nil
  p1 = p1
  p2 = p2
  Products <- TwoProducts
  Requests = {r1, r2, r3}
  Operations = {"egreso", "ingreso", "void"}
  LineChoices <- CrossedLines
  SaleNumbers = {n1}
  InitialStock <- SomeStock
  OpeningNumber <- MidYear
  SameDocument = TRUE
PROPERTIES EveryRequestEnds
CHECK_DEADLOCK FALSE
