SPECIFICATION Spec
CONSTANTS
    Base = 128
    U32 = 256
    U64 = 65536
    N32 = 1
    N64 = 2
    SIZE_MAX = 65535
    Schema <- MCSchema
    Root = "M"
    InBytes = {0, 1, 18, 32, 255}
    MaxBytes = 5
INVARIANTS
    AcceptedIsWellFormed
CHECK_DEADLOCK FALSE
