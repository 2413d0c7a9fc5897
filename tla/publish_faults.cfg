SPECIFICATION Spec
CONSTANTS
    Periods <- TwoDays
    Batches <- DayOrBoth
    Shards = {s1}
    Contents = {x, y}
    MaxRevision = 3
    ExplicitRevisions = {}
    MaxFailures = 1
INVARIANTS
    Backed
    ChainIsReadable
PROPERTIES
    ReadableIsFrozen
    ServedNeverRegresses
    NothingElseDropped
CHECK_DEADLOCK FALSE
