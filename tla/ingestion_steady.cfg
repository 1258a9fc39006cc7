SPECIFICATION Spec
CONSTANTS
  MaxAttempts = 2
  MaxPlans = 2
  MaxDead = 0
  Overlap = FALSE
INVARIANTS
  TypeOK
  DeletedIsGone
  RestsWhenIdle
PROPERTIES
  CompletedIsFinal
CHECK_DEADLOCK FALSE
