SPECIFICATION Spec
CONSTANTS
    Zone = {"UTC", "East"}
    UTC = "UTC"
    Offset <- MCOffset
    DayLength = 4
    MaxCount = 3
    MaxUntilDay = 4
    KnownKeys <- MCKnownKeys
    Token = {1, 2}
    Status = {0, 3}
    Key = {"old", "new"}
    Creates <- MCCreates
    Requests <- MCRequests
    Skips <- MCSkips
    AppRows <- MCAppRows
    HomeZone = "UTC"
    DefaultDuration = 1
    DefaultReminders <- MCDefaultReminders
    CalendarColor = "purple"
    MaxAnswers = 1
    MaxEdits = 4
PROPERTY OccurrenceKeepsTheRest
CHECK_DEADLOCK FALSE
