SPECIFICATION Spec
CONSTANTS
    tested = tested
    newer = newer
    Commits = {tested, newer}
    Tested = tested
    Builders = {b1, b2}
    Altered = Altered
    None = None
INVARIANTS
    BundleVouches LinkedAsShipped ProvenanceIsTrue
CHECK_DEADLOCK FALSE
