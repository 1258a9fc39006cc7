SPECIFICATION Spec
CONSTANTS
  MaxAttempts = 2
  MaxPlans = 2
  MaxDead = 0
  Overlap = FALSE
INVARIANTS
  OneLiveRecordSet
CHECK_DEADLOCK FALSE
