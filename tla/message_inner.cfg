SPECIFICATION Spec
CONSTANTS
    Declared = 2
    Nums = {0, 1}
    Nested = TRUE
    MaxCalls = 4
INVARIANTS
    NeverReadsDestroyed
CHECK_DEADLOCK FALSE
