SPECIFICATION Spec
CONSTANTS
    r1 = r1
    r2 = r2
    r3 = r3
    r4 = r4
    Requests = {r1, r2, r3, r4}
    Upgrades = {r4}
    Rules <- AllRules
    MaxBuilds = 1
    NoRule = NoRule
SYMMETRY Symmetry
INVARIANTS TypeOK ConnsCounted SharesKept
\* The requests are finitely many: the system stops when all are answered.
CHECK_DEADLOCK FALSE
