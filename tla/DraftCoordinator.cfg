CONSTANTS
    Lang = {l1, l2}
    Text = {t1}
    Blank = blank
    Foreign = {f1}
    MaxRev = 2
    Permits = 1
    CacheMax = 1
SPECIFICATION FairSpec
INVARIANTS
    TypeOK
    SingleFlight
    ResponsesIncrease
    OnlyCompleteRenderings
    CacheBounded
PROPERTIES
    AcceptedIsSettled
    StreamsDrainAfterClose
    ImplementsRevisionStream
CHECK_DEADLOCK FALSE
