SPECIFICATION Spec
CONSTANTS
    Periods <- TwoDays
    Batches <- AnyBatch
    Shards = {s1, s2}
    Contents = {x}
    MaxRevision = 3
    ExplicitRevisions = {}
    MaxFailures = 0
INVARIANTS
    InventoryIsHashed
    OneGranularityPerTime
    OneAvailable
PROPERTIES
    IsSnapshotSeries
CHECK_DEADLOCK FALSE
