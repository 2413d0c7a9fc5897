SPECIFICATION FairSpec
CONSTANTS
  AAPL = AAPL
  MSFT = MSFT
  SPY = SPY
  Sources <- ThreeSources
  ShardCount = 2
  ShardOf <- TwoShards
  PartCount = 3
  FirstMapped <- OneUnmapped
  ResumeFlags = {TRUE, FALSE}
  MaxReadFailures = 2
  MaxCrashes = 2
INVARIANTS ListedIsStored OneBuildPerShard OnlyFailedAreMissing
PROPERTIES EndsAvailable
\* After an AVAILABLE manifest nothing is left to do.
CHECK_DEADLOCK FALSE
