SPECIFICATION Spec
CONSTANTS
    sample = sample
    old = old
    full = full
    x = x
    y = y
    Procs = {p1, p2}
    Runs = {sample, full}
    SampleRuns = {sample, full}
    ResumedRuns = {sample, full}
    ResolutionCount = 2
    ShardCount = 2
    Pieces = {x, y}
    Provides <- Steady
    Version <- OneVersion
    MaxRevision = 4
    MaxFailures = 1
INVARIANT UploadedIsFinalizable
PROPERTIES FirstIsSeries SecondIsSeries OrphanStays OrphanBlocks
CHECK_DEADLOCK FALSE
