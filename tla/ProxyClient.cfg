SPECIFICATION Spec
CONSTANTS
    Programs <- AllPrograms
    Responses <- Answers
    MaxRetry = 0
    MaxCalls = 20
    MayLose = FALSE
INVARIANTS
    TypeOK
    NoByteLost
    EndIsTheEnd
    FreedExactlyOnce
    AssertionsHold
PROPERTIES
    Termination
    CancelEndsReceive
