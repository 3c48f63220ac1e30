------------------------------ MODULE UserHeap ------------------------------
(* The heap of user programs, libc/malloc.c, over SYS_SBRK: the kernel     *)
(* heap's algorithm on memory that grows.  Addresses and sizes are counted *)
(* in words of four bytes, as the addresses of Memory are here.  A program *)
(* is in its library while interrupts are enabled, but no other process    *)
(* reads its memory: a call is one step.                                   *)
EXTENDS Memory, Sequences

CONSTANTS
    BLOCK_HEADER_SIZE,    \* 3 in the code: size, next, free
    MIN_GROWTH,
    Requests              \* the words that programs ask for

ASSUME UserHeapAssumption ==
    BLOCK_HEADER_SIZE \in Nat \ {0} /\ MIN_GROWTH \in Nat \ {0} /\ Requests \subseteq Nat
\* Programs ask for the size of a file or of the list of processes, never so much
\* that the sums of malloc and of SYS_SBRK do not fit into 32 bits.
ASSUME RequestAssumption ==
    \A n \in Requests \cup {MIN_GROWTH} : USER_HEAP_MAX + BLOCK_HEADER_SIZE + n < Word

VARIABLES
    blocks,    \* by process, the list from free_list on: each header and where it is
    held       \* by process, the pointers it got from malloc, with the words it asked for

userVars == <<vars, blocks, held>>

End(b) == b.at + BLOCK_HEADER_SIZE + b.size

\* The programs that allocate with malloc; the others call sbrk themselves.
Allocates(p) == proc[p] = "live" /\ heap[p].prog.malloc
---------------------------------------------------------------------------
(* malloc: the first block that is free and large enough, split if a       *)
(* header and a word are left over.                                        *)

\* Variant: a block may be as short as the request with its header.
Fitting_Short(list, n) == {k \in DOMAIN list : list[k].free /\ list[k].size + BLOCK_HEADER_SIZE >= n}

Fitting(list, n) == {k \in DOMAIN list : list[k].free /\ list[k].size >= n}

Parts(b, n) ==
    IF b.size >= n + BLOCK_HEADER_SIZE + 1
    THEN LET taken == [b EXCEPT !.size = n, !.free = FALSE]
         IN  <<taken, [at |-> End(taken), size |-> b.size - n - BLOCK_HEADER_SIZE, free |-> TRUE]>>
    ELSE <<[b EXCEPT !.free = FALSE]>>

Taken(list, n) ==
    LET k == First(Fitting(list, n))
    IN  SubSeq(list, 1, k - 1) \o Parts(list[k], n) \o SubSeq(list, k + 1, Len(list))

Growth(n) == LET need == n + BLOCK_HEADER_SIZE IN IF need > MIN_GROWTH THEN need ELSE MIN_GROWTH

\* grow_heap: the block at the old break, at the end of the list.
Grew(list, base, n) ==
    Append(list, [at |-> base, size |-> Growth(n) - BLOCK_HEADER_SIZE, free |-> TRUE])

\* The first block that fits is taken, of this process's list.
Take(p, list, n) ==
    /\ blocks' = [blocks EXCEPT ![p] = Taken(list, n)]
    /\ held' = [held EXCEPT ![p] = Put(@, list[First(Fitting(list, n))].at + BLOCK_HEADER_SIZE, n)]

\* After sbrk the search starts again; without it malloc returns NULL.
malloc(p, n) ==
    /\ ~halted /\ Allocates(p)
    /\ IF Fitting(blocks[p], n) # {} THEN Take(p, blocks[p], n) /\ UNCHANGED vars
       ELSE /\ Sbrk(p, Growth(n))
            /\ IF halted' THEN UNCHANGED <<blocks, held>>
               ELSE Take(p, Grew(blocks[p], heap[p].break, n), n)
---------------------------------------------------------------------------
(* free: the block is free, and one pass over the list joins neighbours    *)
(* that are both free and adjacent.                                        *)

\* Variant: a free block takes in its neighbour whatever that is.
Joins_Any(b, c) == b.free /\ End(b) = c.at

Joins(b, c) == b.free /\ c.free /\ End(b) = c.at

Coalesced(list) ==
    LET after[k \in 0..Len(list)] ==
            IF k = 0 THEN <<>>
            ELSE LET done == after[k - 1] IN
                 IF k > 1 /\ Joins(done[Len(done)], list[k])
                 THEN [done EXCEPT ![Len(done)].size = @ + BLOCK_HEADER_SIZE + list[k].size]
                 ELSE Append(done, list[k])
    IN  after[Len(list)]

Freed(list, ptr) ==
    [k \in DOMAIN list |->
        IF list[k].at + BLOCK_HEADER_SIZE = ptr THEN [list[k] EXCEPT !.free = TRUE] ELSE list[k]]

Free(p, ptr) ==
    /\ ~halted /\ Allocates(p)
    /\ blocks' = [blocks EXCEPT ![p] = Coalesced(Freed(@, ptr))]
    /\ held' = [held EXCEPT ![p] = [q \in DOMAIN @ \ {ptr} |-> @[q]]]
    /\ UNCHANGED vars
---------------------------------------------------------------------------
UserInit == Init /\ blocks = [p \in Procs |-> <<>>] /\ held = [p \in Procs |-> <<>>]

\* A program's memory goes with it.
Lose(p) == blocks' = [blocks EXCEPT ![p] = <<>>] /\ held' = [held EXCEPT ![p] = <<>>]

UserNext == \E p \in Procs :
    \/ \E prog \in Programs : Start(p, prog) /\ UNCHANGED <<blocks, held>>
    \/ \E delta \in Deltas : ~Allocates(p) /\ Sbrk(p, delta) /\ UNCHANGED <<blocks, held>>
    \/ \E n \in Requests : malloc(p, n)
    \/ \E ptr \in DOMAIN held[p] : Free(p, ptr)
    \/ Die(p) /\ Lose(p)
    \/ CleanUp(p) /\ UNCHANGED <<blocks, held>>
    \/ Reap(p) /\ UNCHANGED <<blocks, held>>

UserSpec == UserInit /\ [][UserNext]_userVars
---------------------------------------------------------------------------
(* Properties.                                                             *)

\* The blocks of a program follow each other without a gap from the start of
\* its heap to its break, no two neighbours both free; and what it holds is in a
\* block in use, as large as it asked, in pages that it may write.
HeldIsMapped ==
    \A p \in Procs : Allocates(p) =>
        LET list == blocks[p]
            Starts(k) == IF k = 1 THEN heap[p].start ELSE End(list[k - 1])
        IN  /\ \A k \in DOMAIN list : list[k].at = Starts(k)
            /\ Starts(Len(list) + 1) = heap[p].break
            /\ \A k \in 2..Len(list) : ~(list[k - 1].free /\ list[k].free)
            /\ \A ptr \in DOMAIN held[p] :
                  /\ \E k \in DOMAIN list :
                        /\ ~list[k].free /\ list[k].at + BLOCK_HEADER_SIZE = ptr
                        /\ list[k].size >= held[p][ptr]
                  /\ paging_validate_user_range(space[p], ptr, held[p][ptr], TRUE)
=============================================================================
