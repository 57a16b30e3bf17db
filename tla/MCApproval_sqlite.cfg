SPECIFICATION Spec
CHECK_DEADLOCK FALSE
SYMMETRY Symmetry
CONSTANTS
    Chain = FALSE
    Configs = {2}
    Serialized = TRUE
    Reviewer = {u1, u2}
    Request = {r1, r2}
    Value = {x, y}
    MaxRounds = 3
    MaxCopies = 1
    MaxUpdates = 0
    None = None
INVARIANTS LastVoteDecides
PROPERTIES QuorumMet
