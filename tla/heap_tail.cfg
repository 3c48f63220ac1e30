SPECIFICATION Spec
CONSTANTS
    HeapSize = 11
    BLOCK_HEADER_SIZE = 3
    Requests <- TailRequests
INVARIANTS
    GivenBackIsFree
