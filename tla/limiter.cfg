SPECIFICATION FairSpec
CONSTANTS
    n1 = n1
    n2 = n2
    a1 = a1
    a2 = a2
    i1 = i1
    u1 = u1
    Nodes = {n1, n2}
    Keys = {i1, u1}
    Logins = {a1, a2}
    At <- TwoNodes
    KeysOf <- OneAddress
    MaxFails = 2
    Window = 1
    Lockout = 2
    LastTry = 2
    MaxTime = 5
    MaxRestarts = 1
INVARIANTS TypeOK NoFailureCountedTwice LockBounded
PROPERTIES TableKeepsNewest EntriesForgotten
\* Logins and time are bounded: the system may stop.
CHECK_DEADLOCK FALSE
