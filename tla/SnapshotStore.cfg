SPECIFICATION Spec
CONSTANTS
    s1 = s1
    s2 = s2
    s3 = s3
    None = None
    Ids <- MCIds
    LowerBytes = 2
    UpperBytes = 1
    HostBytes = 6
    Boundaries = {"context"}
    CrashInUnlink = FALSE
SYMMETRY IdSymmetry
INVARIANTS
    RegistryConsistent RegistryMatchesWorker BudgetIsExact DirectoriesAreRecords
    DirectoryIsRestorable CallHolds
PROPERTIES
    NothingIsTakenAway
