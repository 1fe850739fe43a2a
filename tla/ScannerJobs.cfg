SPECIFICATION FairSpec
CONSTANTS
    j1 = j1
    p1 = p1
    p2 = p2
    p3 = p3
    u1 = u1
    u2 = u2
    none = none
    NoJob = none
    Jobs = {j1}
    Procs = {p1, p2, p3}
    ScanProcs = {p1, p2}
    Urls = {u1, u2}
    Types = {"web", "api", "ftp"}
    ExitStatuses = {0, 1}
    MaxDeliveries = 2
INVARIANTS
    UnfinishedIsExplained
    ReportedIsStored
    CompletedWasRun
    ScannedUrlWasProven
PROPERTIES
    KeepsPromise
    AcceptedJobsEnd
CHECK_DEADLOCK FALSE
