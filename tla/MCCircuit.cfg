SPECIFICATION CircuitSpec
CONSTANTS
  FailureThreshold = 2
  RecoveryTimeout = 2
  Requests = {r1, r2, r3}
  MaxTime = 6
SYMMETRY MCSymmetry
INVARIANTS
  TripsOnStreak
  OneTrialPerOutcome
PROPERTIES
  QuietAfterFailure
