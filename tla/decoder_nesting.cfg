SPECIFICATION Spec
CONSTANTS
    Base = 128
    U32 = 256
    U64 = 65536
    N32 = 1
    N64 = 2
    SIZE_MAX = 65535
    Schema <- MCSchema
    Root = "M"
    InBytes = {0, 2, 3, 4, 10, 18}
    MaxBytes = 8
INVARIANTS
    SpansNest
    DepthBound
    FramePointersLive
    OwnedOnce
PROPERTIES
    NothingLost
CHECK_DEADLOCK FALSE
