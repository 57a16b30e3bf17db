SPECIFICATION Spec
CONSTANTS
    c1 = c1
    c2 = c2
    w1 = w1
    FieldLists <- Lists
    TemplateFields <- BaseList
    Id = {i1}
    Name = {"invoice-generic"}
    Seeded = {"invoice-generic"}
    Workspace <- Workspaces
    Client <- Clients
    Dialects = {"sqlite", "postgres"}
    MaxVersions = 2
    MaxFaults = 1
    None = None
SYMMETRY Symmetric
INVARIANTS TypeOK CurrentIsSnapshot SemverTruthful
PROPERTIES BumpsAgree
