SPECIFICATION Spec
CONSTANTS
    j1 = j1
    j2 = j2
    j3 = j3
    b1 = b1
    Job = {j1, j2, j3}
    Batch = {b1}
    NoBatch = NoBatch
    BatchOf <- BatchAndSingle
    Inline = {j1, j2}
    Pipelined = {j1}
    Reviewable = {j1}
    Worker = {w1, w2}
    NoJob = NoJob
    UseRedis = FALSE
    AcceptsZero = TRUE
    MaxTries = 2
    MaxCrashes = 1
    MaxDrops = 1
SYMMETRY Symmetry
INVARIANTS TypeOK CompletedIsTruthful NoOvercount
PROPERTIES CompletedStays QSpec
