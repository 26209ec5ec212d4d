SPECIFICATION Spec
CONSTANTS
  Clients = {c1, c2, c3}
  Unit = 4
  RequestRate = 1
  RequestBurst = 6
  TokenRate = 6
  TokenBurst = 13
  MaxClients = 2
  IdleTtl = 2
  Works = {1, 3, 5}
  MaxTime = 4
SYMMETRY MCSymmetry
INVARIANTS
  BudgetSinceInsertion
  RetryAfterExact
PROPERTIES
  EvictsLeastRecent
