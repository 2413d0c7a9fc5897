SPECIFICATION FairSpec
CONSTANTS
  SymbolCount = 2
  YearCount = 1
  ChunkCount = 1
  CoversOf <- OneYear
  MarkedBy <- OneYear
  ShardOf <- SameShard
  DerivedCount = 1
  Bars <- AllBars
  Requests <- Everything
  ResumeFlags = {TRUE}
  MaxRevision = 4
  MaxFetchFailures = 1
  MaxCrashes = 0
PROPERTIES RetrySucceeds
