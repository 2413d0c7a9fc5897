SPECIFICATION Spec
CONSTANTS
  SymbolCount = 2
  YearCount = 2
  ChunkCount = 2
  CoversOf <- Straddling
  MarkedBy <- Straddling
  ShardOf <- SameShard
  DerivedCount = 1
  Bars <- AllBars
  Requests <- Everything
  ResumeFlags = {TRUE}
  MaxRevision = 4
  MaxFetchFailures = 0
  MaxCrashes = 1
INVARIANTS ToldIsServed
