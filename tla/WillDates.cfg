SPECIFICATION Spec
CONSTANTS
    DefaultDays <- MCDefaultDays
    Durations <- MCDurations
    PickedDays = {3, 5}
    Reminders = {3}
    EditableDates = TRUE
    MaxDay = 5
    MaxEdits = 3
CHECK_DEADLOCK FALSE
INVARIANTS WidgetsInOrder UnchangedStaysAlive GuardAgrees CalendarMatchesWill
PROPERTIES BasicKeepsDates
