SPECIFICATION FairSpec
CONSTANTS
    Requests = {r1, r2}
    MaxBytes = 1
    None = None
INVARIANTS
    AnswersAreOwn FailureStopsInference
PROPERTIES
    KeepsContract NothingHangs
CHECK_DEADLOCK FALSE
