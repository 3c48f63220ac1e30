SPECIFICATION Spec
CONSTANTS
    HeapSize = 20
    BLOCK_HEADER_SIZE = 3
    Requests <- MCRequests
INVARIANTS
    Tiled
    HeldIsUsed
    NoFreeNeighbours
PROPERTIES
    ImplementsAllocator
VIEW LiveState
