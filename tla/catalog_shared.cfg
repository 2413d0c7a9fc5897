SPECIFICATION FairSpec
CONSTANTS
  Datasets = {1, 2}
  Outputs <- ThreeAndOne
  MaxRevision = 2
  MaxCalls = 2
  MaxUploads = 2
  MaxFaults = 1
INVARIANTS CatalogIsComplete ValidWhenEnded CopyIsComplete AppliedIsComplete
PROPERTIES ApplyCatchesUp
CHECK_DEADLOCK FALSE
