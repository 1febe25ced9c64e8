CONSTANTS
  Cats = {c1, c2}
  Attrs = {a1, a2}
  Names = {n1, n2}
  Catalogs = {k1, k2}
  Products = {p1}
  Types = {"text", "integer", "boolean", "select", "catalog"}
  Values <- SampleValues
  Strings <- Texts
  Reading <- SampleReading
  Options = {"red", "01"}
  OptionLists <- SampleOptions
  MaxRows = 1
  MaxRequests = 4
  Nil = Nil
SPECIFICATION Spec
SYMMETRY Symmetry
INVARIANTS
  TypeOK
  NothingLost
  NamesUnique
  CatalogsInForce
CHECK_DEADLOCK FALSE
