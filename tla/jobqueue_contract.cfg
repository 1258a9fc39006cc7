SPECIFICATION FairSpec
CONSTANTS
  Jobs = {j1, j2}
  Keys = {k1, k2}
  Items = {i1}
  ItemOf <- MCItemOf
  HermesKeys = {k2}
  Workers = {w1, w2}
  Serves <- MCServesAll
  MaxAttempts = 2
  LeaseLoss = FALSE
  ClaimRace = FALSE
  None = None
INVARIANTS
  TypeOK
  Exclusive
  PendingIsClaimable
  ViewIsFresh
PROPERTIES
  ImplementsContract
  EveryJobSettles
CHECK_DEADLOCK FALSE
