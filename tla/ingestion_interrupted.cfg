SPECIFICATION Spec
CONSTANTS
  MaxAttempts = 1
  MaxPlans = 1
  MaxDead = 1
  Overlap = FALSE
INVARIANTS
  DeletedIsGone
  ImportedHasData
PROPERTIES
  ExecutedOnce
CHECK_DEADLOCK FALSE
