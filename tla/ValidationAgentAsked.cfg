SPECIFICATION Spec
CONSTANTS
    Count = 4
    ChunkSize = 2
    Conventions = {"as_asked"}
INVARIANTS
    VerdictReachesItsFinding
CHECK_DEADLOCK FALSE
