SPECIFICATION Spec
CONSTANTS
    Declared = 2
    Nums = {0, 1}
    Nested = FALSE
    MaxCalls = 4
INVARIANTS
    OwnedOnce
    NeverReadsDestroyed
PROPERTIES
    PointersSurvive
    ImplementsRecord
CHECK_DEADLOCK FALSE
