SPECIFICATION Spec
CONSTANTS
  DayCount = 3
  Weeks <- ShortWeeks
  Months <- OwnMonths
  SymbolCount = 1
  ShardOf <- OneShard
  DerivedCount = 0
  Overlap = 2
  LegacyDays <- FirstDay
  Commands = {"incremental"}
  SessionRanges <- EachDay
  BackfillRanges <- Year
  Requests <- Everything
  Careful = FALSE
  ResumeFlags = {TRUE}
  MaxRevision = 5
  MaxVersion = 1
  MaxFailures = 0
  MaxDeaths = 0
PROPERTIES RetainedYearStays
CHECK_DEADLOCK FALSE
