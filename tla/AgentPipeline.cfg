SPECIFICATION Spec
CONSTANTS
    s1 = s1
    s2 = s2
    r1 = r1
    r2 = r2
    Scans = {s1, s2}
    Runs = {r1, r2}
    Numbers = {1, 2, 3}
    StepNumbers = {1, 2}
    TargetTypes = {"web","api","network","container","cloud","ad","other"}
    Answers <- MCAnswers
SYMMETRY Symmetry
INVARIANTS
    ViewIsClosed
    NextStepAscends
    GraphMirrorsRun
    FindingsSurvive
    ChainsNeedFindings
CHECK_DEADLOCK FALSE
