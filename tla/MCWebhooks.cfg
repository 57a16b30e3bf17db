SPECIFICATION FairSpec
CHECK_DEADLOCK FALSE
CONSTANTS
    Event = {e1}
    Hook = {h1, h2}
    Worker = {w1, w2}
    Deployments <- Deployed
    Backoffs = 1
    MaxQueued = 2
    MaxFaults = 1
    None = None
INVARIANTS TypeOK OutcomeEarned NotForgotten
PROPERTIES AttemptsGrow RetriesEnd
