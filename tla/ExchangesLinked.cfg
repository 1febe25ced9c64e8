SPECIFICATION FairSpec
CONSTANTS
  Nil = Nil
  p1 = p1
  p2 = p2
  r0 = r0
  r1 = r1
  r2 = r2
  r3 = r3
  Products <- TwoProducts
  Requests = {r0, r1, r2, r3}
  OpeningSale = r0
  OpeningLines <- SoldTwo
  LineChoices <- LinesOfBoth
  InitialStock <- SomeStock
  SameSale = FALSE
  Prices <- PriceList
  Days = {1, 2}
  DayOf <- TwoDays
  MonthOf <- OneMonthEach
  SellerOf <- TwoSellers
INVARIANTS TypeOK LinksAgree ReturnedWithinSold StockIsSumOfApproved ReportsAgree DrawerAgrees
PROPERTIES EveryRequestEnds
CHECK_DEADLOCK FALSE
