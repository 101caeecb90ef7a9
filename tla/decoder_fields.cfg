SPECIFICATION FairSpec
CONSTANTS
    Base = 128
    U32 = 256
    U64 = 65536
    N32 = 1
    N64 = 2
    SIZE_MAX = 65535
    Schema <- MCSchema
    Root = "M"
    InBytes = {0, 1, 2, 5, 16, 18, 26, 32, 45, 50, 56, 65, 255}
    MaxBytes = 5
INVARIANTS
    TypeOK
PROPERTIES
    Terminates
CHECK_DEADLOCK FALSE
