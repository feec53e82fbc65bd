CONSTANTS
    Line = {l1}
    Member = {m1}
    Guest = {g1}
    EditBound = 0
    ToggleBound = 1
    RefreshBound = 1
SPECIFICATION Spec
PROPERTIES
    MarksAreKept
CHECK_DEADLOCK FALSE
