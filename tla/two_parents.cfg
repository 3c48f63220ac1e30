SPECIFICATION Spec
CONSTANTS
    MaxPid = 4
    Parents <- TwoParents
    Calls <- LifeCalls
    SleepMs = {}
    TickMod = 1
    KBD_BUFFER_SIZE = 1
INVARIANTS
    CleanedUpIsOffCpu
    ReapsOnlyTheDead
    IInv
PROPERTIES
    ImplementsLifecycle
CHECK_DEADLOCK FALSE
