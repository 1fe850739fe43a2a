SPECIFICATION Spec
CONSTANTS
    Count = 4
    ChunkSize = 2
    Conventions = {"from_zero", "any"}
INVARIANTS
    RulesVerdictsStand
    VerdictFromZeroReachesItsFinding
CHECK_DEADLOCK FALSE
