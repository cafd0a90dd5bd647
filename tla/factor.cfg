SPECIFICATION FairSpec
CONSTANTS
    b1 = b1
    b2 = b2
    Browsers = {b1, b2}
    Skew = 2
    MaxSecrets = 4
    MaxResets = 1
    MaxRevokes = 1
INVARIANTS TypeOK FactorGiven RevokedStayOut EnrolmentProven
PROPERTY SignInEnds
