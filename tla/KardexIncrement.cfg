SPECIFICATION Spec
CONSTANTS
  p1 = p1
  Products <- OneProduct
  Operations = {"ingreso", "increment"}
  Grain = 3
  EntryLines <- Purchases
  ExitLines <- Sales
  Methods = {}
  OpeningMethod = "PEPS"
  MaxDocuments = 3
  MaxYears = 0
  PageSize = 2
INVARIANTS BalancesAgree
CHECK_DEADLOCK FALSE
