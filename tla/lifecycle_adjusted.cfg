SPECIFICATION Spec
CONSTANTS
  DayCount = 3
  Weeks <- ShortWeeks
  Months <- OwnMonths
  SymbolCount = 1
  ShardOf <- OneShard
  DerivedCount = 1
  Overlap = 2
  LegacyDays <- FirstDay
  Commands = {"incremental", "compact", "derive"}
  SessionRanges <- EachDay
  BackfillRanges <- Year
  Requests <- Everything
  Careful = FALSE
  ResumeFlags = {TRUE}
  MaxRevision = 5
  MaxVersion = 1
  MaxFailures = 1
  MaxDeaths = 0
INVARIANTS OneAdjustment DerivedIsNative
CHECK_DEADLOCK FALSE
