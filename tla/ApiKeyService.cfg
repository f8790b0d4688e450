CONSTANTS
    Key = {boot, ext}
    Bootstrap = {boot}
    Caller = {c1, c2}
    Admin = {a1}
    Ttl = 1
    MaxTime = 2
SPECIFICATION FairSpec
INVARIANTS
    RevokedKeyExpires
    OpenModeExpires
    MixedSnapshotFailsClosed
PROPERTIES
    RevokedForGood
    VerifyReturns
CHECK_DEADLOCK FALSE
