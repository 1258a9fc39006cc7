SPECIFICATION Spec
CONSTANTS
  Files = {f1, f2, f3, f4}
  MaxFiles = 3
  Overlap = FALSE
SYMMETRY MCSymmetry
INVARIANTS
  TypeOK
  TotalIsCounted
  BatchAgrees
CHECK_DEADLOCK FALSE
