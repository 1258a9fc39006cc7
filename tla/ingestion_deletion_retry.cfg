SPECIFICATION Spec
CONSTANTS
  MaxAttempts = 1
  MaxPlans = 1
  MaxDead = 0
  Overlap = FALSE
INVARIANTS
  DeletionHasJob
CHECK_DEADLOCK FALSE
