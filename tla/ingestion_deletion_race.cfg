SPECIFICATION Spec
CONSTANTS
  MaxAttempts = 1
  MaxPlans = 1
  MaxDead = 0
  Overlap = TRUE
PROPERTIES
  DeletedStaysPut
CHECK_DEADLOCK FALSE
