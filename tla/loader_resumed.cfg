SPECIFICATION FairSpec
CONSTANTS
    sample = sample
    old = old
    full = full
    x = x
    y = y
    Procs = {p1}
    Runs = {sample}
    SampleRuns = {sample}
    ResumedRuns = {sample}
    ResolutionCount = 2
    ShardCount = 2
    Pieces = {x, y}
    Provides <- Steady
    Version <- OneVersion
    MaxRevision = 2
    MaxFailures = 1
PROPERTIES
    Resumable
CHECK_DEADLOCK FALSE
