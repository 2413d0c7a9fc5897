SPECIFICATION Spec
CONSTANTS
  AAPL = AAPL
  MSFT = MSFT
  SPY = SPY
  Sources <- ThreeSources
  ShardCount = 2
  ShardOf <- TwoShards
  PartCount = 3
  FirstMapped <- OneUnmapped
  ResumeFlags = {TRUE}
  MaxReadFailures = 0
  MaxCrashes = 0
INVARIANTS AvailableIsComplete
\* After an AVAILABLE manifest nothing is left to do.
CHECK_DEADLOCK FALSE
