SPECIFICATION Spec
CONSTANTS
    s1 = s1
    s2 = s2
    s3 = s3
    None = None
    Ids <- MCTwoIds
    LowerBytes = 2
    UpperBytes = 1
    HostBytes = 4
    Boundaries = {"context", "readout"}
    CrashInUnlink = TRUE
INVARIANTS
    CrashLeavesLoadableIndex
