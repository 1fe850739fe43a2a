SPECIFICATION Spec
CONSTANTS
    i1 = i1
    i2 = i2
    i3 = i3
    e1 = e1
    e2 = e2
    e3 = e3
    c1 = c1
    c2 = c2
    NoId = NoId
    Ids = {i1, i2, i3}
    Emails = {e1, e2, e3}
    Roles = {"admin", "analyst"}
    Clients = {c1, c2}
SYMMETRY Symmetry
INVARIANTS
    AccountsAreSound
PROPERTIES
    ChangesByAnotherAdmin
    LastAdminNeedsARace
    RemovedStayRemoved
CHECK_DEADLOCK FALSE
