SPECIFICATION FairSpec
CONSTANTS
    n1 = n1
    n2 = n2
    p1 = p1
    None = None
    Worker = {w1}
    Pipeline = {p1}
    WatchPipeline = None
    Queues = {"memory", "redis"}
    Job = {1, 2, 3, 4}
    Doc = {1, 2}
    Name = {n1, n2}
    Configs <- ClientConfigs
    Threshold = 80
    MayFail = TRUE
    MaxUploads = 1
    MaxFaults = 1
INVARIANTS TypeOK OneJobPerDrop AbortedIsReviewed
PROPERTIES WatcherQuiet AllMoved JobsSettle
