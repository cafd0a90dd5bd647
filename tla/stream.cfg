SPECIFICATION FairSpec
CONSTANTS
    k1 = k1
    k2 = k2
    t1 = t1
    t2 = t2
    watch = watch
    poll = poll
    c1 = c1
    c2 = c2
    None = None
    Addrs = {k1, k2}
    Targets = {t1}
    Lists <- AnyList
    Appliers = {watch, poll}
    Conns = {c1, c2}
    MaxApplies = 3
INVARIANTS TypeOK RunningAsApplied StoppedIsEmpty
PROPERTY ApplyEnds
\* The calls of Apply and the connections are bounded.
CHECK_DEADLOCK FALSE
