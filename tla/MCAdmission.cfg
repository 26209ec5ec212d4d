SPECIFICATION Spec
CONSTANTS
  PrimaryCapacity = 2
  FallbackCapacity = 3
  MaxQueueRequests = 2
  MaxQueueTokens = 4
  DegradeNum = 1
  DegradeDen = 2
  InitialServiceTime = 1
  MinExecutionBudget = 1
  MaxUInt64 = 7
  Costs <- MCCosts
  ServiceTimes <- MCServiceTimes
  MaxTime = 5
  MaxId = 4
INVARIANTS
  LeasesAccounted
  QueueAccounted
  TicketsResolvedOnce
  NoLeakedLease
  ChargedInFull
PROPERTIES
  PromotedInOrder
  PromotedInTime
  NobodyWaitsOnIdle
  ImplementsLedger
