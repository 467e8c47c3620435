SPECIFICATION Spec
CONSTANTS
    Clients = {a, b, c}
    NumIO = 2
    MaxPort = 3
    Interval = 1
    Width = 1024
    MaxTime = 0
    Accepts = 3
    MayFail = FALSE
    MayStop = FALSE
PROPERTIES
    AllAccepted
CHECK_DEADLOCK FALSE
