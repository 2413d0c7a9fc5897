SPECIFICATION FairSpec
CONSTANTS
    sample = sample
    old = old
    full = full
    x = x
    y = y
    Procs = {p1, p2}
    Runs = {sample, old, full}
    SampleRuns = {sample, old}
    ResumedRuns = {full}
    ResolutionCount = 2
    ShardCount = 2
    Pieces = {x, y}
    Provides <- Steady
    Version <- Upgraded
    MaxRevision = 4
    MaxFailures = 1
INVARIANTS PublishedIsStored PublishedIsOneLoad DerivedMatchesSource
PROPERTIES ServedNeverRegresses EndsUnlessOrphaned
CHECK_DEADLOCK FALSE
