SPECIFICATION Spec
CONSTANTS
    s1 = s1
    s2 = s2
    p1 = p1
    p2 = p2
    none = none
    NoScan = none
    Scans = {s1}
    Procs = {p1, p2}
    MaxDeliveries = 3
    Deaths = TRUE
    SiemEnabled = TRUE
    WorkerTasks <- AllTasks
INVARIANTS
    UnfinishedIsWorkedOn
    AnnouncedIsStored
    ChainsHaveFindings
    ShippedIsWhole
CHECK_DEADLOCK FALSE
