SPECIFICATION Spec
CONSTANTS
    MaxPid = 2
    Parents <- OneParent
    Calls <- WaitCalls
    SleepMs = {}
    TickMod = 1
    KBD_BUFFER_SIZE = 1
INVARIANTS
    ReapedIsClean
