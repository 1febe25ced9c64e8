SPECIFICATION Spec
CONSTANTS
  p1 = p1
  Products <- OneProduct
  Operations = {"ingreso", "adjustment_positive", "egreso", "baja", "void"}
  Grain = 3
  EntryLines <- Purchases
  ExitLines <- Sales
  Methods = {"WEIGHTED_AVERAGE"}
  OpeningMethod = "PEPS"
  MaxDocuments = 4
  MaxYears = 1
  PageSize = 2
INVARIANTS TypeOK BalancesAgree LotsAgree EntriesAddUp VoidedLeavesNothing ReportsAgree
CONSTRAINTS FewerInSecondYear
PROPERTIES OldestLotFirst
CHECK_DEADLOCK FALSE
