SPECIFICATION Spec
CONSTANTS
    c1 = c1
    c2 = c2
    none = none
    NoClient = none
    Clients = {c1, c2}
    Risks <- RaceRisks
    Facts <- RaceFacts
    TargetTypes <- RaceTypes
    Assets <- RaceAssets
SYMMETRY Symmetric
INVARIANTS
    LockIsShort
PROPERTIES
    UndisturbedIsCoherent
