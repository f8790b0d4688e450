CONSTANTS
    Text = {t1}
    Blank = blank
    MaxInput = 5
    MaxSwitch = 2
SPECIFICATION Spec
INVARIANTS
    TypeOK
    SingleFlight
    PendingIsNewest
PROPERTY ImplementsDraftView
CHECK_DEADLOCK FALSE
