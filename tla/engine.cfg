SPECIFICATION FairSpec
CONSTANTS
    t1 = t1
    t2 = t2
    b1 = b1
    b2 = b2
    NoTarget = NoTarget
    Targets = {t1, t2}
    Failures = 2
    Rebuilders = {b1, b2}
    Lists = {{t1}, {t1, t2}}
INVARIANTS TypeOK BreakerConsistent GaugeFollowsHealth RoutedAreWatched
PROPERTIES WatchedDownDetected ConfiguredRecovered
