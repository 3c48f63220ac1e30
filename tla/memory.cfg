SPECIFICATION UserSpec
CONSTANTS
    Procs = {p1, p2}
    Programs <- MCPrograms
    Deltas <- MCDeltas
    Ranges <- MCRanges
    Conventional = {1, 2, 3, 4, 5, 6}
    Image = {8}
    Bitmap = {9}
    Extended = {10, 11, 12, 13, 14, 15, 16, 17, 18, 19}
    Phantom = {20}
    BLOCK_HEADER_SIZE = 1
    MIN_GROWTH = 4
    Requests = {2, 5}
    HeapFrames = 7
    PageSize = 4
    PerTable = 4
    Word = 48
    KERNEL_VIRT_BASE = 32
    USER_STACK_TOP = 32
    USER_STACK_SIZE = 4
INVARIANTS
    FramesAccounted
    SpaceIsExact
    AccessIsAllowed
    HeldIsMapped
PROPERTY LastResort
CONSTRAINT FewLost
SYMMETRY Symmetry
CHECK_DEADLOCK FALSE
