SPECIFICATION Spec

CONSTANTS
    Slot = {1, 2, 3}
    X = X
    Y = Y
    Schedule = {X, Y}
    FirstSchedule = X
    SlotsOf <- MCSlotsOf
    Id = {m, e1, e2}
    Main = m
    NoId = NoId
    Gone = Gone
    Op = {o1}
    Changes = {"field", "zone"}
    MaxOps = 2

SYMMETRY MCSymmetry
CHECK_DEADLOCK FALSE

INVARIANT ExceptionsHaveOriginals
