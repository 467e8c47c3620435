SPECIFICATION Spec
CONSTANTS
    Count = 3
    Duration = 3
    Width = 1073741824
    MaxTime = 7
    MaxExceptions = 9
INVARIANTS
    RecordIsLatest
    AbortsOnlyOnBurst
CHECK_DEADLOCK FALSE
