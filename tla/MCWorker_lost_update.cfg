SPECIFICATION Spec
CONSTANTS
    j1 = j1
    j2 = j2
    j3 = j3
    b1 = b1
    Job = {j1, j2, j3}
    Batch = {b1}
    NoBatch = NoBatch
    BatchOf <- OneBatch
    Inline = {j1, j2, j3}
    Pipelined = {}
    Reviewable = {}
    Worker = {w1, w2}
    NoJob = NoJob
    UseRedis = FALSE
    AcceptsZero = TRUE
    MaxTries = 1
    MaxCrashes = 0
    MaxDrops = 0
PROPERTIES CountIsAtomic
