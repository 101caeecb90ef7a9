SPECIFICATION Spec
CONSTANTS
    Base = 128
    U32 = 256
    U64 = 65536
    N32 = 1
    N64 = 2
    SIZE_MAX = 255
    Schema <- MCSchema
    Root = "M"
    InBytes = {1, 3, 10, 255}
    MaxBytes = 5
INVARIANTS
    SpansNest
CHECK_DEADLOCK FALSE
