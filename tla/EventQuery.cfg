SPECIFICATION Spec
CONSTANTS
    a = a
    b = b
    Id = {0, 1, 2, 3, 4}
    Uid = {a, b}
    NoTime = NoTime
    Time <- MCTime
    Calendars <- MCCalendars
    Puts <- MCPuts
    Windows <- MCWindows
    Skews <- MCSkews
    Pad = 1
    MaxWindow = 4
    PageSize = 1
    MaxConcurrentChunks = 2
    MaxOccurrencesPerMaster = 2
    MaxChanges = 1
INVARIANTS TypeOK NothingIsMissed NothingIsListedTwice OccurrencesResolve
PROPERTIES QueryEnds
