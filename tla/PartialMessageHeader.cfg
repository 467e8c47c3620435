SPECIFICATION PartSpec
CONSTANTS
    Lengths <- AllLengths
    Keys <- AllKeys
INVARIANT FullHeaderMeansFull
CHECK_DEADLOCK FALSE
