SPECIFICATION TreeSpec
CONSTANTS
    MaxCluster = 4
    EntriesPerSector = 3
    fat_count = 2
    RootEntries = 2
    DirEntries = 2
    cluster_size = 2
    Names <- MCNames
    Paths <- MCPaths
    Extents <- MCExtents
    Bytes = {1}
    Faults = {}
INVARIANTS
    ChainsSound
    TableWritten
    NoLostClusters
    ChainFitsBuffer
PROPERTIES
    ImplementsTree
CHECK_DEADLOCK FALSE
VIEW LiveState
