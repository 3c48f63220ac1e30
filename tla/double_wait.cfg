SPECIFICATION Spec
CONSTANTS
    MaxPid = 3
    Parents <- TwoParents
    Calls <- WaitCalls
    SleepMs = {}
    TickMod = 1
    KBD_BUFFER_SIZE = 1
INVARIANTS
    KernelNeverFaults
