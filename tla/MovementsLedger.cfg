SPECIFICATION Spec
CONSTANTS
  Nil = Nil
  p1 = p1
  p2 = p2
  Products <- TwoProducts
  Requests = {r1, r2, r3}
  Operations = {"ingreso", "egreso", "baja", "increment", "decrement", "approve", "cancel", "void"}
  LineChoices <- OrderedLines
  SaleNumbers = {}
  InitialStock <- SomeStock
  OpeningNumber <- MidYear
  SameDocument = FALSE
SYMMETRY Symmetry
INVARIANTS TypeOK NumbersConsecutive WorkInv OnlyCreatorsDeadlock
PROPERTIES LedgerSpec
CHECK_DEADLOCK FALSE
