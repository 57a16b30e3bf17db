SPECIFICATION Spec
CHECK_DEADLOCK FALSE
SYMMETRY Symmetry
CONSTANTS
    Chain = TRUE
    Configs = {2}
    Serialized = TRUE
    Reviewer = {u1, u2}
    Request = {r1}
    Value = {}
    MaxRounds = 3
    MaxCopies = 1
    MaxUpdates = 0
    None = None
INVARIANTS RejectionEscalates
