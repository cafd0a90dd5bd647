SPECIFICATION UpkeepSpec
CONSTANTS
    p1 = p1
    p2 = p2
    c1 = c1
    Others = Others
    Panels = {p1, p2}
    Clis = {c1}
    MaxRelease = 2
    MaxStarts = 1
    PerFile = 2
    Keep = 2
    ClockFaults = FALSE
    MaxEvents = 8
CONSTRAINT Focus
INVARIANTS ExecutableSurvives ScriptsAreLogged
PROPERTIES NeverOlder ScheduledInstalls TrailKept
CHECK_DEADLOCK FALSE
