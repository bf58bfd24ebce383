SPECIFICATION InstallSpec
CONSTANTS
    cuda = cuda
    snapshots = snapshots
    broken = broken
    Fetchers = {f1}
    Assets = {cuda, snapshots, broken}
    Kind <- MCKind
    Lacks <- MCLacks
    Attested = {cuda}
    Nothing = Nothing
INVARIANTS
    FetchIsAllOrNothing RunsWhatWasVerified
CHECK_DEADLOCK FALSE
