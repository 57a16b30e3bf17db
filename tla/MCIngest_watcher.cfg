SPECIFICATION Spec
CONSTANTS
    n1 = n1
    n2 = n2
    p1 = p1
    None = None
    Worker = {w1}
    Pipeline = {p1}
    WatchPipeline = None
    Queues = {"memory", "redis"}
    Job = {1, 2}
    Name = {n1, n2}
    Configs <- ClientConfigs
    Threshold = 95
    MayFail = FALSE
    MaxFaults = 0
    Doc = {1}
    MaxUploads = 0
INVARIANTS WatchedFileExtracted
