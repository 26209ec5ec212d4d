SPECIFICATION Spec
CONSTANTS
  Rates <- MCRates
  Archived = 1
  Endings <- MCEndings
  ConfigOf <- MCConfigOf
  ScheduleOf <- MCScheduleOf
  MaxDelta = 1
  Campaigns = {"serving", "phase5", "finite", "sustained"}
  MaxTime <- MCTime
  MaxAttempts <- MCAttempts
  MaxDiscards <- MCDiscards
INVARIANTS
  EvidenceKept
  ReceiptSound
  BooksAgree
CHECK_DEADLOCK FALSE
