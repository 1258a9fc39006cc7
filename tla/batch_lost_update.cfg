SPECIFICATION Spec
CONSTANTS
  Files = {f1, f2, f3}
  MaxFiles = 2
  Overlap = TRUE
SYMMETRY MCSymmetry
INVARIANTS
  BatchAgrees
CHECK_DEADLOCK FALSE
