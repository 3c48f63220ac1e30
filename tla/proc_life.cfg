SPECIFICATION Spec
CONSTANTS
    MaxPid = 3
    Parents <- OneParent
    Calls <- MostCalls
    SleepMs = {0, 2}
    TickMod = 3
    KBD_BUFFER_SIZE = 3
INVARIANTS
    TypeOK
    ListMatchesProcesses
    WaiterBlockedWhileTargetLives
    NoCharacterWithoutReader
PROPERTIES
    DeadStaysDead
    IdleOnlyByDefault
    SleepOnTime
