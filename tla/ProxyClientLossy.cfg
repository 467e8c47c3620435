SPECIFICATION Spec
CONSTANTS
    Programs <- LossyPrograms
    Responses <- Answers
    MaxRetry = 1
    MaxCalls = 7
    MayLose = TRUE
INVARIANTS
    EndIsTheEnd
    WaitIsForItsAnswer
    FreedExactlyOnce
CHECK_DEADLOCK FALSE
