SPECIFICATION Spec
CONSTANTS
    Periods <- TwoDays
    Batches <- DayOrBoth
    Shards = {s1}
    Contents = {x}
    MaxRevision = 2
    ExplicitRevisions = {}
    MaxFailures = 1
INVARIANTS
    OneGranularityPerTime
CHECK_DEADLOCK FALSE
