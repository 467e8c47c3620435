CONSTANTS
    Programs <- MCPrograms
    MayLose = TRUE
SPECIFICATION Spec
INVARIANT SleepsOnlyWithoutFrames
PROPERTIES
    Termination
    ImplementsByteChannel
CHECK_DEADLOCK FALSE
