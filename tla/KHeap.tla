------------------------------- MODULE KHeap -------------------------------
(* The kernel heap, mm/heap.c: blocks behind headers in one region, kept   *)
(* in a list in the order of their addresses.  Addresses and sizes are     *)
(* counted in words of four bytes from heap_start_virt; requests are in    *)
(* bytes.  A call runs with interrupts disabled, in one step.              *)
EXTENDS Integers, FiniteSets, Lists

CONSTANTS
    HeapSize,             \* num_frames * PAGE_SIZE
    BLOCK_HEADER_SIZE,    \* 3 in the code: size, next, free
    Requests              \* the sizes the kernel asks for

ASSUME HeaderAssumption == BLOCK_HEADER_SIZE \in Nat \ {0}
ASSUME HeapAssumption == HeapSize \in Nat /\ HeapSize >= BLOCK_HEADER_SIZE
ASSUME RequestAssumption == Requests \subseteq Nat

Addr == 0..(HeapSize - 1)
Ptr == 0..HeapSize
free_list == 0

VARIABLES
    size,    \* the headers' fields, by the address of the header
    next,
    free,
    want     \* the bytes asked for at the pointers the kernel holds, else NULL

vars == <<size, next, free, want>>

\* (bytes + 3) & ~3
Words(bytes) == (bytes + 3) \div 4

\* heap_init leaves out the header.
heap_end == HeapSize - BLOCK_HEADER_SIZE

Listed == LET w == Walk(free_list, next, HeapSize) IN {w[k] : k \in 0..HeapSize} \ {NULL}

Init ==
    /\ size = [b \in Addr |-> IF b = free_list THEN HeapSize - BLOCK_HEADER_SIZE ELSE 0]
    /\ next = [b \in Addr |-> NULL]
    /\ free = [b \in Addr |-> b = free_list]
    /\ want = [p \in Ptr |-> NULL]
---------------------------------------------------------------------------
(* kmalloc: the first free block that is large enough, split if a header   *)
(* and a word are left over.  When no block fits, it returns 0 and changes *)
(* nothing.                                                                *)

\* Variant: the header is forgotten when the sizes are compared.
Fits_NoHeader(n) == {b \in Addr : free[b] /\ size[b] + BLOCK_HEADER_SIZE >= n}

\* Variant: used blocks are taken as well.
Fits_Used(n) == {b \in Addr : size[b] >= n}

Fits(n) == {b \in Addr : free[b] /\ size[b] >= n}

FirstFit(n) == FirstOn(HeapSize, Walk(free_list, next, HeapSize), Fits(n))

Splits(b, n) == size[b] >= n + BLOCK_HEADER_SIZE + 1

\* Variant: the new header is not taken off the rest.
Rest_NoHeader(b, n) == size[b] - n

Rest(b, n) == size[b] - n - BLOCK_HEADER_SIZE

Split(b, n) ==
    LET new == b + BLOCK_HEADER_SIZE + n IN
    /\ size' = [size EXCEPT ![b] = n, ![new] = Rest(b, n)]
    /\ next' = [next EXCEPT ![b] = new, ![new] = next[b]]
    /\ free' = [free EXCEPT ![b] = FALSE, ![new] = TRUE]

kmalloc(bytes) ==
    \E b \in FirstFit(Words(bytes)) :
        /\ want' = [want EXCEPT ![b + BLOCK_HEADER_SIZE] = bytes]
        /\ IF Splits(b, Words(bytes))
           THEN Split(b, Words(bytes))
           ELSE free' = [free EXCEPT ![b] = FALSE] /\ UNCHANGED <<size, next>>
---------------------------------------------------------------------------
(* kfree: marks the block and goes once through the list, joining          *)
(* neighbours that are both free.  It warns and returns at a pointer that  *)
(* it takes to be outside the heap and at one whose block is free.         *)

\* The pass joins h.curr with its successor; fr is the field free.
Joins(h, fr) ==
    /\ fr[h.curr]
    /\ fr[h.next[h.curr]]
    /\ h.curr + BLOCK_HEADER_SIZE + h.size[h.curr] = h.next[h.curr]

\* Variant: the pass goes on after a join.
PassStep_SkipJoined(h, fr) ==
    LET n == h.next[h.curr] IN
    IF n = NULL THEN h
    ELSE IF Joins(h, fr)
    THEN [curr |-> IF h.next[n] = NULL THEN h.curr ELSE h.next[n],
          size |-> [h.size EXCEPT ![h.curr] = @ + BLOCK_HEADER_SIZE + h.size[n]],
          next |-> [h.next EXCEPT ![h.curr] = h.next[n]]]
    ELSE [h EXCEPT !.curr = n]

\* One round of the loop.
PassStep(h, fr) ==
    LET n == h.next[h.curr] IN
    IF n = NULL THEN h
    ELSE IF Joins(h, fr)
    THEN [curr |-> h.curr,
          size |-> [h.size EXCEPT ![h.curr] = @ + BLOCK_HEADER_SIZE + h.size[n]],
          next |-> [h.next EXCEPT ![h.curr] = h.next[n]]]
    ELSE [h EXCEPT !.curr = n]

\* The list after k rounds; HeapSize rounds are enough for any list.
Pass(fr) ==
    LET after[k \in 0..HeapSize] ==
            IF k = 0 THEN [curr |-> free_list, size |-> size, next |-> next]
            ELSE PassStep(after[k - 1], fr)
    IN  after

Coalesce(fr) ==
    /\ size' = Pass(fr)[HeapSize].size
    /\ next' = Pass(fr)[HeapSize].next
    /\ free' = fr

kfree(ptr) ==
    /\ want[ptr] # NULL
    /\ want' = [want EXCEPT ![ptr] = NULL]
    /\ IF ptr >= heap_end \/ free[ptr - BLOCK_HEADER_SIZE]
       THEN UNCHANGED <<size, next, free>>
       ELSE Coalesce([free EXCEPT ![ptr - BLOCK_HEADER_SIZE] = TRUE])
---------------------------------------------------------------------------
Next ==
    \/ \E bytes \in Requests : kmalloc(bytes)
    \/ \E ptr \in Ptr : kfree(ptr)

Spec == Init /\ [][Next]_vars
---------------------------------------------------------------------------
(* Properties.                                                             *)

\* A table sz of sizes and one of links, nx, cover the heap with the blocks of Q
\* without gap or overlap: each ends where the next begins, the last at the end.
Tiles(Q, sz, nx) ==
    LET End(b) == b + BLOCK_HEADER_SIZE + sz[b] IN
    /\ free_list \in Q
    /\ \A b \in Q : End(b) = IF nx[b] = NULL THEN HeapSize ELSE nx[b]
    /\ \A b \in Q : nx[b] \in Q \cup {NULL}
    /\ \A b, c \in Q : b < c => End(b) <= c

\* However often kmalloc splits and kfree joins, no byte of the heap is lost
\* from the list or listed twice.
Tiled == Listed \subseteq Addr /\ Tiles(Listed, size, next)

\* A pointer the kernel holds is the start of a listed block that is in use
\* and as large as was asked: a join never swallows memory in use.
HeldIsUsed ==
    \A p \in Ptr : want[p] # NULL =>
        /\ p - BLOCK_HEADER_SIZE \in Listed
        /\ ~free[p - BLOCK_HEADER_SIZE]
        /\ 4 * size[p - BLOCK_HEADER_SIZE] >= want[p]

\* One pass is enough: no two neighbours on the list are both free, so the
\* heap is not fragmented more than what is in use makes it.
NoFreeNeighbours ==
    \A b \in Listed : (free[b] /\ next[b] # NULL) => ~free[next[b]]

\* What the kernel gave back is free again: kfree takes no pointer into the
\* heap for one "outside heap bounds" (heap.c:58).
GivenBackIsFree ==
    \A b \in Listed : free[b] \/ want[b + BLOCK_HEADER_SIZE] # NULL

owned == [p \in Ptr |-> IF want[p] = NULL THEN NULL ELSE Words(want[p])]

Abstract == INSTANCE Allocator WITH Ptrs <- Ptr, None <- NULL,
                                    Lens <- {Words(b) : b \in Requests}

\* kmalloc and kfree implement an allocator: nothing in use is handed out.
ImplementsAllocator == Abstract!Spec
=============================================================================
