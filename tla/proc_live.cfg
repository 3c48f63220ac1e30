SPECIFICATION FairSpec
CONSTANTS
    MaxPid = 3
    Parents <- OneParent
    Calls <- LiveCalls
    SleepMs = {1}
    TickMod = 2
    KBD_BUFFER_SIZE = 1
PROPERTIES
    ReadyProcessRuns
    SleepEnds
    WaitReturns
    DeadIsCleanedOrFreed
    SpawnCompletes
