SPECIFICATION Spec
CONSTANTS
    Inputs <- AllInputs
    BufferSize = 7
INVARIANTS
    TypeOK
    FramesIntact
    GivesUpOnIncomplete
PROPERTIES
    AllReceived
