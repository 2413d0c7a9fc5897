SPECIFICATION FairSpec
CONSTANTS
  SymbolCount = 1
  IntervalCount = 2
  DayCount = 4
  HistoryDays = 3
  RefreshDays = 1
  StaleDays = 1
  CacheDays = 0
  MaxAttempts = 2
  MinTickers = 1
  MinuteTypes = {2}
  MaxVersion = 1
  MaxToggles = 2
  MaxFaults = 1
INVARIANTS CheckpointIsComplete OneAdjustment SkippedForCacheDays SuccessIsComplete
PROPERTIES CatchesUp
CHECK_DEADLOCK FALSE
