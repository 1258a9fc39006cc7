SPECIFICATION Spec
CONSTANTS
  Jobs = {j1, j2}
  Keys = {k1, k2}
  Items = {i1}
  ItemOf <- MCItemOf
  HermesKeys = {k2}
  Workers = {w1, w2}
  Serves <- MCServesAll
  MaxAttempts = 2
  LeaseLoss = TRUE
  ClaimRace = TRUE
  None = None
SYMMETRY MCSymmetry
INVARIANTS
  HolderAtWork
  OwnedIffRunning
CHECK_DEADLOCK FALSE
