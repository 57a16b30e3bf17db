SPECIFICATION Spec
CHECK_DEADLOCK FALSE
SYMMETRY Symmetry
CONSTANTS
    Chain = TRUE
    Configs = {1, 2, 3}
    Serialized = TRUE
    Reviewer = {u1, u2}
    Request = {r1, r2}
    Value = {}
    MaxRounds = 3
    MaxCopies = 1
    MaxUpdates = 1
    None = None
CONSTRAINT Bounded
INVARIANTS TypeOK OneActiveRound ChainFollowsVotes ChainRunsItsLength
PROPERTIES RDSpec
