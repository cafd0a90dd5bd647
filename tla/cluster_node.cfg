SPECIFICATION FairSpec
CONSTANTS
    n1 = n1
    n2 = n2
    e1 = e1
    e2 = e2
    Nodes = {n1}
    Edits = {e1, e2}
    Home <- SameHome
    MaxTries = 2
    MaxOutages = 1
    MaxDrops = 0
    MaxCrashes = 2
    Pollers = {}
    DiskFaults = FALSE
INVARIANTS FileTracksMemory DegradedStartIsolated
PROPERTIES DetachedFileKeepsChanges RequestsEnd
\* The changes and the faults are finitely many: the system may stop.
CHECK_DEADLOCK FALSE
