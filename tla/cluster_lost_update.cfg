SPECIFICATION Spec
CONSTANTS
    n1 = n1
    n2 = n2
    e1 = e1
    e2 = e2
    Nodes = {n1, n2}
    Edits = {e1, e2}
    Home <- OwnHome
    MaxTries = 1
    MaxOutages = 0
    MaxDrops = 0
    MaxCrashes = 0
    Pollers = {n1, n2}
    DiskFaults = FALSE
INVARIANT AcknowledgedSurvives
\* The changes and the faults are finitely many: the system may stop.
CHECK_DEADLOCK FALSE
