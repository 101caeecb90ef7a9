SPECIFICATION Spec
CONSTANTS
    Requests <- MCPackaged
    Threads = {t1}
    MaxCalls = 0
    Served <- Outer
    Slots <- MCSlots
    Registrations <- MCRegistrations
INVARIANTS
    PackagesResolve
CHECK_DEADLOCK FALSE
