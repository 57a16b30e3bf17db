SPECIFICATION FairSpec
CONSTANTS
    u1 = u1
    u2 = u2
    User = {u1, u2}
    Dialects = {"sqlite", "postgres"}
    Request = {r1, r2}
    Applicant <- Registrations
    Managed = {"admin"}
    MaxTokens = 1
    MaxFaults = 1
    None = None
INVARIANTS TypeOK ServingIsCurrent FirstIsAdmin
PROPERTIES RolesSeededOnce NoLockoutAlone ComesUp
