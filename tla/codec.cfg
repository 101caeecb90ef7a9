SPECIFICATION FairSpec
CONSTANTS
    Base = 128
    U32 = 256
    U64 = 65536
    N32 = 1
    N64 = 2
    SIZE_MAX = 65535
    WriterSchema <- MCWriterSchema
    ReaderSchema <- MCReaderSchema
    Root = "R"
    Sources <- MCSources
    MaxRefusals = 1
INVARIANTS
    RoundTrip
    DecodesAPart
    SizeIsExact
PROPERTIES
    Decoded
CHECK_DEADLOCK FALSE
