SPECIFICATION FilesSpec
CONSTANTS
    MaxCluster = 3
    EntriesPerSector = 3
    fat_count = 1
    RootEntries = 2
    DirEntries = 3
    cluster_size = 4
    Names <- MCNames
    Paths <- MCPaths
    Extents = {}
    Bytes = {0}
    Faults = {}
    MAX_PATH_DEPTH = 2
    Procs = {p1, p2}
    MAX_OPEN_FILES = 2
    MAX_FDS_PER_PROC = 1
    MAX_DIRS_PER_PROC = 1
    Word = 16
    Lengths = {3, 6}
    MaxSize = 9
    Inputs = {}
    MaxIndex = 1
    Kept <- MCKept
INVARIANTS
    FilesTypeOK
    OffsetWithinSize
    SlotsOwned
    SizeIsTrue
    ReadFits
    ReaddirComplete
CONSTRAINT FewInUse
SYMMETRY Symmetry
VIEW FilesState
CHECK_DEADLOCK FALSE
