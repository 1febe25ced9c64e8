CONSTANTS
  Cats = {c1, c2, c3}
  Products = {p1, p2}
  Requests = {r1, r2}
  SameCategory = FALSE
  Nil = Nil
SPECIFICATION Spec
SYMMETRY Symmetry
INVARIANTS
  TypeOK
  Acyclic
  NothingStranded
PROPERTIES
  ArrivalsAtLeaves
CHECK_DEADLOCK FALSE
