SPECIFICATION FairSpec
CONSTANTS
    MaxScans = 1
    MaxEvents = 2
    MaxClicks = 1
    MaxLoops = 2
    Failures = TRUE
INVARIANTS
    TypeOK
    FinalStatusIsTrue
    EventLoadsAreWhole
PROPERTIES
    PollsLearnTheEnd
CHECK_DEADLOCK FALSE
