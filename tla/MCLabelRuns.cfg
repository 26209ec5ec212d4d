SPECIFICATION LSpec
CONSTANTS
  SplitOrder <- MCSplitOrder
  OutputOf <- MCOutputOf
  Snapshots <- MCSnapshots
  Absent = Absent
  MaxFaults = 1
  CalSplit = "cal"
  Ambiguous = {1, 2, 3}
  Limit = 2
  Budget = 2
  Costs <- MCCosts
INVARIANTS
  FrozenDataSound
  ReadersSound
PROPERTIES
  SealedOnce
