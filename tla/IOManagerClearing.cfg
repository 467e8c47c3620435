SPECIFICATION Spec
CONSTANTS
    Clients = {a, b}
    NumIO = 2
    MaxPort = 1
    Interval = 1
    Width = 1024
    MaxTime = 3
    Accepts = 2
    MayFail = TRUE
    MayStop = TRUE
INVARIANTS
    TypeOK
    SetsOfOneClient
    OneOwner
    NumbersAreDistinct
SYMMETRY Symmetry
CHECK_DEADLOCK FALSE
