SPECIFICATION SvcSpec
CONSTANTS
    s1 = s1
    s2 = s2
    s3 = s3
    None = None
    Ids <- MCIds
    LowerBytes = 2
    UpperBytes = 1
    HostBytes = 6
    Boundaries = {"context", "readout"}
    CrashInUnlink = FALSE
    Requests <- MCFollowups
    IndexFaults = FALSE
SYMMETRY IdSymmetry
INVARIANTS
    InferenceFindsParent FailureIsUndone
