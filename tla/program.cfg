SPECIFICATION Spec
CONSTANTS
    Requests <- MCRequests
    Threads = {t1, t2}
    MaxCalls = 4
    Served <- Outer
    Slots <- MCSlots
    Registrations <- MCRegistrations
INVARIANTS
    TypesResolve
    NothingDropped
    OneCompleteObject
    AccessorsFound
SYMMETRY AnyThread
CHECK_DEADLOCK FALSE
