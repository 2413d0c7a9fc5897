SPECIFICATION Spec
CONSTANTS
  SymbolCount = 2
  YearCount = 2
  ChunkCount = 2
  CoversOf <- Straddling
  MarkedBy <- Straddling
  ShardOf <- TwoShards
  DerivedCount = 1
  Bars <- AllBars
  Requests <- SampleThenAll
  ResumeFlags = {TRUE, FALSE}
  MaxRevision = 4
  MaxFetchFailures = 1
  MaxCrashes = 2
PROPERTIES FailsForCause
CHECK_DEADLOCK FALSE
