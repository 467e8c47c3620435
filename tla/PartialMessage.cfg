SPECIFICATION PartSpec
CONSTANTS
    Lengths <- AllLengths
    Keys <- AllKeys
INVARIANTS
    FieldsAgree
    UnmaskingAgrees
CHECK_DEADLOCK FALSE
