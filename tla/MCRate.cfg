SPECIFICATION FairSpec
CONSTANTS
  Window = 2
  Interval = 2
  Losable = TRUE
  Broadcast = TRUE
  MaxHashes = 4
INVARIANTS TypeOK NeverOverReports
PROPERTIES TickReturns StatsSafeWhileMining
CHECK_DEADLOCK FALSE
