SPECIFICATION FairSpec
CONSTANTS
    Periods <- TwoDays
    Batches <- DayOrBoth
    Shards = {s1}
    Contents = {x, y}
    MaxRevision = 2
    ExplicitRevisions = {1}
    MaxFailures = 0
PROPERTIES
    ReadableIsFrozen
CHECK_DEADLOCK FALSE
