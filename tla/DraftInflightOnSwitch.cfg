CONSTANTS
    Text = {t1}
    Blank = blank
    MaxInput = 3
    MaxSwitch = 1
SPECIFICATION Spec
INVARIANT InflightWasSentHere
CHECK_DEADLOCK FALSE
