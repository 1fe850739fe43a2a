SPECIFICATION FairSpec
CONSTANTS
    a = a
    b = b
    p1 = p1
    p2 = p2
    p3 = p3
    Schedules = {a}
    Procs = {p1, p2, p3}
    Intervals = {1, 2}
    MaxTime = 2
    MaxMail = 1
    Failures = TRUE
    BeatWorkers = {p1, p2}
INVARIANTS
    TypeOK
    UnsentIsExplained
    ServedIsAdvanced
    NextRunIsNear
PROPERTIES
    DueSchedulesAreServed
CHECK_DEADLOCK FALSE
