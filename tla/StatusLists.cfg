SPECIFICATION Spec
CONSTANTS
  p1 = p1
  p2 = p2
  p3 = p3
  w1 = w1
  w2 = w2
  Policies = {p1, p2, p3}
  Workers = {w1, w2}
  MaxSnapshots = 4
INVARIANTS TypeOK NoFalseRevocation
PROPERTIES ImplementsView
SYMMETRY Symmetry
CHECK_DEADLOCK FALSE
