CONSTANTS
    Text = {t1}
    Foreign = {f1}
    Blank = blank
    MaxInput = 3
    MaxSwitch = 1
    Lang = {l1, l2}
    Permits = 1
    CacheMax = 1
SPECIFICATION StreamSpec
INVARIANT
    InflightIsUnderWay
PROPERTIES
    DraftFollowsText
    InflightEnds
    ImplementsDraftClient
CHECK_DEADLOCK FALSE
