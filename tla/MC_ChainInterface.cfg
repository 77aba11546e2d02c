CONSTANTS
  Callers = {c1, c2}
  DelegateIds = {1, 2}
  MaxId = 3
  NoCaller = NoCaller
SYMMETRY MCSymmetry
SPECIFICATION Spec
INVARIANTS TypeOK IdsContiguous
