SPECIFICATION Spec
CONSTANTS
  Nil = Nil
  p1 = p1
  p2 = p2
  Products <- TwoProducts
  Requests = {r1, r2, r3, r4}
  Found = {1, 3}
  InitialStock <- TwoEach
  Movements <- InOrOut
  MaxMovements = 1
  SameCount = FALSE
  Faults = TRUE
SYMMETRY Symmetry
INVARIANTS TypeOK AppliedAsCounted
CHECK_DEADLOCK FALSE
