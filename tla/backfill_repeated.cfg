SPECIFICATION FairSpec
CONSTANTS
  SymbolCount = 2
  YearCount = 2
  ChunkCount = 2
  CoversOf <- Straddling
  MarkedBy <- Straddling
  ShardOf <- TwoShards
  DerivedCount = 1
  Bars <- AllBars
  Requests <- Everything
  ResumeFlags = {TRUE, FALSE}
  MaxRevision = 4
  MaxFetchFailures = 1
  MaxCrashes = 2
INVARIANTS ToldIsServedUnlessCut NoPartialSymbol DerivedUnlessObstructed
PROPERTIES RetrySucceedsUnlessObstructed
\* A retry that can not succeed publishes until the bound on revisions.
CHECK_DEADLOCK FALSE
