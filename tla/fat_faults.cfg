SPECIFICATION Spec
CONSTANTS
    MaxCluster = 4
    EntriesPerSector = 2
    fat_count = 2
    RootEntries = 2
    DirEntries = 2
    cluster_size = 2
    Names <- MCNames
    Paths <- MCPaths
    Extents <- MCFaultExtents
    Bytes = {0}
    Faults = {"error", "cut"}
INVARIANTS
    TypeOK
    CutIsSafe
PROPERTIES
    ErrorIsSafe
CHECK_DEADLOCK FALSE
VIEW ReadState
