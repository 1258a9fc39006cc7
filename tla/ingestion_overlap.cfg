SPECIFICATION Spec
CONSTANTS
  MaxAttempts = 1
  MaxPlans = 2
  MaxDead = 0
  Overlap = TRUE
INVARIANTS
  PlansFormAChain
CHECK_DEADLOCK FALSE
