SPECIFICATION Spec
CONSTANTS
    Base = 128
    U32 = 256
    U64 = 65536
    N32 = 1
    N64 = 2
    Schema <- MCSchema
    Sources <- MCSources
    MaxRefusals = 0
INVARIANTS
    ASubSizeIsExact
CHECK_DEADLOCK FALSE
