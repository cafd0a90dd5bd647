SPECIFICATION FairSpec
CONSTANTS
    m1 = m1
    m2 = m2
    manual = manual
    auto = auto
    c1 = c1
    c2 = c2
    NoChange = NoChange
    Members = {m1, m2}
    Home = m1
    Writers = {manual, auto}
    Changes = {c1, c2}
    Keep = 1
    MaxBackups = 2
    MaxRestores = 2
    MaxEvents = 1
CONSTRAINT Calm
INVARIANTS TypeOK NewestKept RestoredStays AuditIdsFree
PROPERTY RestoreReachesAll
\* Changes, backups and restores are finitely many: the system may stop.
CHECK_DEADLOCK FALSE
