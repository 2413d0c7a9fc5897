SPECIFICATION Spec
CONSTANTS
  DayCount = 3
  Weeks <- ShortWeeks
  Months <- ShortMonths
  SymbolCount = 2
  ShardOf <- TwoShards
  DerivedCount = 1
  Overlap = 2
  LegacyDays <- FirstDay
  Commands = {"incremental", "backfill", "compact", "migrate"}
  SessionRanges <- EachDay
  BackfillRanges <- Year
  Requests <- Everything
  Careful = TRUE
  ResumeFlags = {TRUE}
  MaxRevision = 4
  MaxVersion = 0
  MaxFailures = 1
  MaxDeaths = 1
INVARIANTS ToldIsServed
PROPERTIES StaysServed
CHECK_DEADLOCK FALSE
