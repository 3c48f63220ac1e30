SPECIFICATION FilesSpec
CONSTANTS
    MaxCluster = 5
    EntriesPerSector = 3
    fat_count = 1
    RootEntries = 2
    DirEntries = 4
    cluster_size = 2
    Names <- MCNames
    Paths <- MCDeep
    Extents = {}
    Bytes = {0}
    Faults = {}
    MAX_PATH_DEPTH = 2
    Procs = {p1}
    MAX_OPEN_FILES = 1
    MAX_FDS_PER_PROC = 1
    MAX_DIRS_PER_PROC = 1
    Word = 16
    Lengths = {}
    MaxSize = 1
    Inputs <- MCInputs
    MaxIndex = 1
    Kept <- MCDeepKept
INVARIANTS
    PathsAgree
CONSTRAINT NoHandles
VIEW TreeState
CHECK_DEADLOCK FALSE
