SPECIFICATION Spec

CONSTANTS
    Slot = {1, 2, 3}
    X = X
    Y = Y
    Schedule = {X, Y}
    FirstSchedule = X
    SlotsOf <- MCSlotsOf
    Id = {m, e1, e2}
    Main = m
    NoId = NoId
    Gone = Gone
    Op = {o1, o2}
    Changes = {"field", "time", "rule", "norepeat"}
    MaxOps = 4

SYMMETRY MCSymmetry
CHECK_DEADLOCK FALSE

INVARIANT TypeOK
INVARIANT OneRowPerOccurrence
INVARIANT ExceptionsHaveOriginals
PROPERTY ImplementsAgenda
PROPERTY SuccessIsComplete
PROPERTY OnlyItsOwnRows
