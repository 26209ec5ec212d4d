SPECIFICATION Spec
CONSTANTS
  PrimaryCapacity = 1
  FallbackCapacity = 1
  MaxQueueRequests = 2
  MaxQueueTokens = 2
  DegradeNum = 1
  DegradeDen = 1
  InitialServiceTime = 1
  MinExecutionBudget = 0
  MaxUInt64 = 7
  FailureThreshold = 1
  RecoveryTimeout = 1
  PoolSize = 1
  Sessions = {s1, s2}
  Costs <- MCCosts
  Timeouts = {3}
  FallbackEnabled = FALSE
  MaxTime = 3
SYMMETRY MCSymmetry
INVARIANTS
  EveryLeaseOwned
