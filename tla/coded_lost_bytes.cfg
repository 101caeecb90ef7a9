SPECIFICATION Spec
CONSTANTS
    Base = 8
    U32 = 16
    U64 = 256
    N32 = 1
    N64 = 2
    Modes = {"shared"}
    Scripts <- MCScripts
    Samples = {0, 7, 128, 255}
    Texts <- MCTexts
    Room = 2
INVARIANTS
    WrittenSizeIsStored
CHECK_DEADLOCK FALSE
