SPECIFICATION FairSpec
CONSTANTS
    j1 = j1
    j2 = j2
    j3 = j3
    b1 = b1
    Job = {j1, j2}
    Batch = {b1}
    NoBatch = NoBatch
    BatchOf <- OneBatch
    Inline = {j1}
    Pipelined = {j2}
    Reviewable = {}
    Worker = {w1, w2}
    NoJob = NoJob
    UseRedis = TRUE
    AcceptsZero = FALSE
    MaxTries = 2
    MaxCrashes = 2
    MaxDrops = 1
INVARIANTS OneOwner
PROPERTIES SentJobsSettle
