SPECIFICATION FairSpec
CONSTANTS
    n1 = n1
    n2 = n2
    e1 = e1
    e2 = e2
    Nodes = {n1, n2}
    Edits = {e1}
    Home <- OneEdit
    MaxTries = 1
    MaxOutages = 1
    MaxDrops = 1
    MaxCrashes = 0
    Pollers = {n2}
    DiskFaults = FALSE
PROPERTY LoneChangeReachesAll
\* The changes and the faults are finitely many: the system may stop.
CHECK_DEADLOCK FALSE
