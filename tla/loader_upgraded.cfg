SPECIFICATION Spec
CONSTANTS
    sample = sample
    old = old
    full = full
    x = x
    y = y
    Procs = {p1}
    Runs = {sample, old, full}
    SampleRuns = {sample}
    ResumedRuns = {full}
    ResolutionCount = 2
    ShardCount = 2
    Pieces = {x, y}
    Provides <- Steady
    Version <- Upgraded
    MaxRevision = 4
    MaxFailures = 1
INVARIANT UploadedIsFinalizable
CHECK_DEADLOCK FALSE
