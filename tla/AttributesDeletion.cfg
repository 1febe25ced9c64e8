CONSTANTS
  Cats = {c1, c2}
  Attrs = {a1, a2}
  Names = {n1, n2}
  Catalogs = {k1}
  Products = {p1}
  Types = {"text", "select", "catalog"}
  Values <- SampleValues
  Strings <- Texts
  Reading <- SampleReading
  Options = {"red"}
  OptionLists <- SampleOptions
  MaxRows = 1
  MaxRequests = 4
  Nil = Nil
SPECIFICATION Spec
PROPERTY DeletionLosesNothing
CHECK_DEADLOCK FALSE
