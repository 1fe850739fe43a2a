SPECIFICATION ReportsSpec
CONSTANTS
    s1 = s1
    s2 = s2
    p1 = p1
    p2 = p2
    r1 = r1
    f1 = f1
    f2 = f2
    none = none
    NoScan = none
    Scans = {s1, s2}
    Procs = {p1, p2}
    MaxDeliveries = 1
    Deaths = TRUE
    SiemEnabled = TRUE
    WorkerTasks <- ProdTasks
    Readers = {r1}
    Items = {f1, f2}
    Controls <- MCControls
INVARIANTS
    StoredMeansCompleted
    ReportsAreWhole
    CompliantIsEarned
PROPERTIES
    KeepsPromise
    AcceptedScansEnd
CHECK_DEADLOCK FALSE
