SPECIFICATION Spec
CONSTANTS
    sample = sample
    old = old
    full = full
    x = x
    y = y
    Procs = {p1}
    Runs = {sample}
    SampleRuns = {sample}
    ResumedRuns = {sample}
    ResolutionCount = 2
    ShardCount = 2
    Pieces = {x, y}
    Provides <- Readjusted
    Version <- OneVersion
    MaxRevision = 2
    MaxFailures = 1
INVARIANTS
    DerivedMatchesSource
CHECK_DEADLOCK FALSE
