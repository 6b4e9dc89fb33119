SPECIFICATION MCSpec
CONSTANTS
    r1 = r1
    r2 = r2
    n1 = n1
    n2 = n2
    Gone = Gone
    NoCal = NoCal
    None = None
    All = All
    Request = {r1, r2}
    Name = {n1, n2}
    Cal <- MCCal
    Kind <- MCKind
    Menu <- MCMenu
    MaxEnv = 1
    AppName = {n2}
INVARIANTS TypeOK ResolutionIsCurrent ReplayIsElsewhere DetailIsFresh ScopeIsLeft
