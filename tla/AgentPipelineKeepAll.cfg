SPECIFICATION Spec
CONSTANTS
    s1 = s1
    s2 = s2
    r1 = r1
    r2 = r2
    Scans = {s1}
    Runs = {r1}
    Numbers = {1, 2, 3}
    StepNumbers = {1, 2}
    TargetTypes = {"web", "api"}
    Answers <- MCAnswers
INVARIANTS
    AllFindingsKept
CHECK_DEADLOCK FALSE
