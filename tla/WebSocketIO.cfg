SPECIFICATION Spec
CONSTANTS
    Server = Server
    Client = Client
    BufCap = 3
    WireCap = 2
    Programs <- AllPrograms
    MayLose = TRUE
INVARIANTS
    TypeOK
    FrameIdsContiguous
    NoByteLost
    NoStallWithData
    NothingHeldBackWhileWaiting
    OneSender
    ClosedAfterFlush
PROPERTIES
    Termination
    ImplementsByteChannel
