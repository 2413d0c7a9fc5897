SPECIFICATION Spec
CONSTANTS
  DayCount = 2
  Weeks <- TwoDays
  Months <- TwoDays
  SymbolCount = 2
  ShardOf <- TwoShards
  DerivedCount = 1
  Overlap = 2
  LegacyDays <- FirstDay
  Commands = {"incremental", "derive"}
  SessionRanges <- EachDay
  BackfillRanges <- Year
  Requests <- Everything
  Careful = FALSE
  ResumeFlags = {TRUE}
  MaxRevision = 4
  MaxVersion = 1
  MaxFailures = 1
  MaxDeaths = 1
INVARIANTS OneAdjustment DerivedIsNative
CHECK_DEADLOCK FALSE
