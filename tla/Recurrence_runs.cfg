SPECIFICATION Spec
CONSTANTS
    Rules <- MCRules
    Zones <- MCZones
    Saves = {6, 9, 15}
    DayLength = 4
    WeekLength = 3
    YearLength = 2
    Months = 18
    FirstDay <- MCFirstDay
    DayTries = 14
    MonthTries = 6
    YearTries = 5
    MinTime = 2
    MaxTime = 44
    Late = 5
CHECK_DEADLOCK FALSE
INVARIANTS
    NextIsFirst
    PreviewGoesOn
