------------------------------- MODULE Memory -------------------------------
(* Physical frames and address spaces: mm/pmm.c, mm/paging.c, the loading   *)
(* of programs in userspace/exe.c and SYS_SBRK.  Frames are numbered by     *)
(* address, addresses are counted in units of which PageSize make a page.   *)
(* Calls run with interrupts disabled, in one step.                         *)
(*                                                                          *)
(* Left out: what is in the pages, the kernel's own mappings (the same in   *)
(* every directory and never changed), the TLB, and the returns of          *)
(* exec_load that follow a 0 from pmm_alloc_frame, which panics instead.    *)
EXTENDS Integers, Lists

CONSTANTS
    Procs,                \* slots for processes
    Programs,             \* headers of executables
    Deltas,               \* that programs give to sbrk
    Ranges,               \* [at, size]: buffers that programs pass to system calls
    Conventional,         \* usable frames below 640 KB
    Image,                \* of the kernel
    Bitmap,               \* of the bitmap, behind the image
    Extended,             \* usable frames behind the bitmap
    Phantom,              \* no frames, but bits in the last word of the bitmap
    HeapFrames,           \* of the kernel heap
    PageSize,
    PerTable,             \* pages that a page table maps
    Word,                 \* 2^32: addresses are unsigned
    KERNEL_VIRT_BASE,
    USER_STACK_TOP,
    USER_STACK_SIZE

USER_HEAP_MAX == USER_STACK_TOP - USER_STACK_SIZE - PageSize

\* The frames of the image are usable like the rest of the extended memory.
Usable == Conventional \cup Image \cup Extended

ASSUME PageAssumption == {PageSize, PerTable, Word, HeapFrames} \subseteq Nat \ {0}
ASSUME LayoutAssumption ==
    /\ \A a \in {USER_STACK_TOP, USER_STACK_SIZE, KERNEL_VIRT_BASE} : a \in Nat /\ a % PageSize = 0
    /\ USER_STACK_SIZE + PageSize < USER_STACK_TOP
    /\ USER_STACK_TOP <= KERNEL_VIRT_BASE /\ KERNEL_VIRT_BASE < Word /\ Word % PageSize = 0
\* The regions of pmm_init, in the order of their addresses.
ASSUME FrameAssumption ==
    /\ UNION {Conventional, Image, Bitmap, Extended, Phantom} \subseteq Nat \ {0}
    /\ \A f \in Conventional, g \in Image \cup Extended : f < g
    /\ \A f \in Usable, g \in Phantom : f < g
\* The linker puts the data and the bss behind the code, the bss last.
ASSUME ProgramAssumption ==
    \A prog \in Programs :
        /\ {prog.code.at, prog.code.size, prog.data.at, prog.data.size, prog.bss.at, prog.bss.size}
               \subseteq Nat
        /\ prog.code.at + prog.code.size <= prog.bss.at + prog.bss.size
        /\ prog.data.at + prog.data.size <= prog.bss.at + prog.bss.size
        /\ prog.bss.at + prog.bss.size <= USER_HEAP_MAX
ASSUME DeltaAssumption == Deltas \subseteq Int
\* Arguments are 32 bits wide.
ASSUME RangeAssumption == \A r \in Ranges : {r.at, r.size} \subseteq 0..(Word - 1)

VARIABLES
    free,        \* frames whose bit in phys_bitmap is clear
    space,       \* by process, its directory, page tables and pages
    heap,        \* the program, heap_start and heap_break
    proc,        \* "none", "live" or "dead" and not yet cleaned up
    halted,      \* the kernel has panicked
    pool,        \* the frames that were free after boot
    leaked       \* frames that no directory leads to any more

vars == <<free, space, heap, proc, halted, pool, leaked>>

First(S) == CHOOSE k \in S : \A j \in S : k <= j

PageOf(addr) == addr \div PageSize
\* (addr + 0xfff) & ~0xfff, as a page.
PageUp(addr) == (addr + PageSize - 1) \div PageSize

Put(f, x, y) == [z \in DOMAIN f \cup {x} |-> IF z = x THEN y ELSE f[z]]

NoHeap == [prog |-> NULL, start |-> 0, break |-> 0]
NoSpace == [pd |-> NULL, table |-> <<>>, page |-> <<>>, panic |-> FALSE]

\* All frames that a directory leads to.
Frames(s) ==
    {s.table[t] : t \in DOMAIN s.table} \cup {s.page[v].frame : v \in DOMAIN s.page}
    \cup ({s.pd} \ {NULL})
---------------------------------------------------------------------------
(* pmm_init and heap_init.                                                 *)

\* pmm_alloc_frames: the first run of n frames.
Run(S, n) == LET f == First({f \in S : f..(f + n - 1) \subseteq S}) IN f..(f + n - 1)

Boot == {(Usable \cup T) \ Run(Usable \cup T, HeapFrames) : T \in SUBSET Phantom}
---------------------------------------------------------------------------
(* Page tables.  An address space s under construction comes with the      *)
(* frames that are left, F.                                                *)

State(F, s) == [free |-> F, space |-> s]

\* Variant: the last free frame, not the first.
pmm_alloc_frame_Last(F) == CHOOSE k \in F : \A j \in F : k >= j

pmm_alloc_frame(F) == First(F)

\* A frame for page v, mapped by paging_map_page, which takes one for a table
\* where there is none.
MapNew(m, v, rw) ==
    LET f == pmm_alloc_frame(m.free)
        t == pmm_alloc_frame(m.free \ {f})
        tabled == (v \div PerTable) \in DOMAIN m.space.table
        mapped == [m.space EXCEPT !.page = Put(@, v, [frame |-> f, rw |-> rw])]
    IN  CASE m.free = {} \/ (~tabled /\ m.free = {f}) -> [m EXCEPT !.space.panic = TRUE]
          [] m.free # {} /\ tabled -> State(m.free \ {f}, mapped)
          [] OTHER -> State(m.free \ {f, t}, [mapped EXCEPT !.table = Put(@, v \div PerTable, t)])

\* Variant: a page that is mapped keeps its flags.
Upgrade_Keep(m, v, rw) == m

Upgrade(m, v, rw) == IF rw THEN [m EXCEPT !.space.page[v].rw = TRUE] ELSE m

\* A loop over n pages; with walk set, pages that are mapped are looked for.
PagesMapped(m, from, n, rw, walk) ==
    LET after[k \in 0..n] ==
            IF k = 0 THEN m
            ELSE LET last == after[k - 1]
                     v == from + k - 1
                 IN  IF walk /\ v \in DOMAIN last.space.page THEN Upgrade(last, v, rw)
                     ELSE MapNew(last, v, rw)
    IN  after[n]

map_and_copy(m, seg, rw) ==
    LET from == PageOf(seg.at) IN
    IF seg.size = 0 THEN m
    ELSE PagesMapped(m, from, PageUp(seg.at + seg.size) - from, rw, TRUE)

Stack == [at |-> USER_STACK_TOP - USER_STACK_SIZE, size |-> USER_STACK_SIZE]

exec_load(F, prog) ==
    LET pd == pmm_alloc_frame(F) IN
    IF F = {} THEN State(F, [NoSpace EXCEPT !.panic = TRUE])
    ELSE map_and_copy(
             map_and_copy(
                 map_and_copy(
                     map_and_copy(State(F \ {pd}, [NoSpace EXCEPT !.pd = pd]), prog.code, FALSE),
                     prog.data, TRUE),
                 prog.bss, TRUE),
             Stack, TRUE)

HeapStart(prog) == PageSize * PageUp(prog.bss.at + prog.bss.size)

Loaded(prog) == [prog |-> prog, start |-> HeapStart(prog), break |-> HeapStart(prog)]
---------------------------------------------------------------------------
(* What the system calls do with the pointers of programs.                 *)

\* Variant: only the first and the last page are looked at.
paging_validate_user_range_Ends(s, vaddr, size, need_write) ==
    \/ size = 0
    \/ /\ (vaddr + size) % Word >= vaddr
       /\ \A v \in {PageOf(vaddr), PageOf((vaddr + size - 1) % Word)} :
             v \in DOMAIN s.page /\ (need_write => s.page[v].rw)

\* Every page that is mapped is a user page.
paging_validate_user_range(s, vaddr, size, need_write) ==
    \/ size = 0
    \/ /\ (vaddr + size) % Word >= vaddr
       /\ \A v \in PageOf(vaddr)..PageOf((vaddr + size - 1) % Word) :
             v \in DOMAIN s.page /\ (need_write => s.page[v].rw)

\* The bytes that copy_user_str reads of a string of n bytes, its end included:
\* the first is validated, and the first of every further page.
copy_user_str(s, at, n) ==
    LET Passes(k) == (k = 0 \/ (at + k) % PageSize = 0)
                         => paging_validate_user_range(s, (at + k) % Word, 1, FALSE)
    IN  {(at + i) % Word : i \in {i \in 0..(n - 1) : \A k \in 0..i : Passes(k)}}
---------------------------------------------------------------------------
(* The life of an address space.                                           *)

\* pmm_alloc_frame finds no frame: the kernel stops for good.
Panic ==
    /\ halted' = TRUE
    /\ UNCHANGED <<free, space, heap, proc, pool, leaked>>

\* process_create; the kernel stack may be refused, and the address space is lost.
Start(p, prog) ==
    /\ ~halted /\ proc[p] = "none"
    /\ \E m \in {exec_load(free, prog)} :
        \/ m.space.panic /\ Panic
        \/ /\ ~m.space.panic
           /\ free' = m.free
           /\ \/ /\ space' = [space EXCEPT ![p] = m.space]
                 /\ heap' = [heap EXCEPT ![p] = Loaded(prog)]
                 /\ proc' = [proc EXCEPT ![p] = "live"]
                 /\ UNCHANGED leaked
              \/ leaked' = leaked \cup Frames(m.space) /\ UNCHANGED <<space, heap, proc>>
           /\ UNCHANGED <<halted, pool>>

\* The loops of SYS_SBRK.
Grown(m, old_top, new_top) == PagesMapped(m, old_top, new_top - old_top, TRUE, FALSE)

\* Variant: pages are unmapped, their frames not given back.
Shrunk_NoFree(m, new_top, old_top) ==
    State(m.free, [m.space EXCEPT !.page =
        [v \in DOMAIN m.space.page \ (new_top..(old_top - 1)) |-> m.space.page[v]]])

Shrunk(m, new_top, old_top) ==
    LET cut == DOMAIN m.space.page \cap (new_top..(old_top - 1)) IN
    State(m.free \cup {m.space.page[v].frame : v \in cut},
          [m.space EXCEPT !.page = [v \in DOMAIN m.space.page \ cut |-> m.space.page[v]]])

\* Variant: the break may go up to the stack's first page.
InHeap_NoGuard(h, brk) == brk >= h.start /\ brk <= USER_HEAP_MAX + 2 * PageSize

InHeap(h, brk) == brk >= h.start /\ brk <= USER_HEAP_MAX

Moved(p, old, new) ==
    IF PageUp(new) > PageUp(old) THEN Grown(State(free, space[p]), PageUp(old), PageUp(new))
    ELSE Shrunk(State(free, space[p]), PageUp(new), PageUp(old))

\* The break moves to new.
Rebreak(p, new) ==
    \E m \in {Moved(p, heap[p].break, new)} :
        \/ m.space.panic /\ Panic
        \/ /\ ~m.space.panic
           /\ free' = m.free
           /\ space' = [space EXCEPT ![p] = m.space]
           /\ heap' = [heap EXCEPT ![p].break = new]
           /\ UNCHANGED <<proc, halted, pool, leaked>>

NewBreak(p, delta) == (heap[p].break + delta) % Word

Sbrk(p, delta) ==
    /\ ~halted /\ proc[p] = "live"
    /\ InHeap(heap[p], NewBreak(p, delta))
    /\ Rebreak(p, NewBreak(p, delta))

Die(p) ==
    /\ ~halted /\ proc[p] = "live"
    /\ proc' = [proc EXCEPT ![p] = "dead"]
    /\ UNCHANGED <<free, space, heap, halted, pool, leaked>>

\* Variant: the page tables are forgotten.
paging_destroy_address_space_NoTables(s) ==
    {s.page[v].frame : v \in DOMAIN s.page} \cup {s.pd}

\* The frames it gives back.
paging_destroy_address_space(s) == Frames(s)

\* process_cleanup, when the scheduler's tick finds the process.
CleanUp(p) ==
    /\ ~halted /\ proc[p] = "dead"
    /\ free' = free \cup paging_destroy_address_space(space[p])
    /\ space' = [space EXCEPT ![p] = NoSpace]
    /\ heap' = [heap EXCEPT ![p] = NoHeap]
    /\ proc' = [proc EXCEPT ![p] = "none"]
    /\ UNCHANGED <<halted, pool, leaked>>

\* SYS_WAIT unlinks and frees a process that has not been cleaned up.
Reap(p) ==
    /\ ~halted /\ proc[p] = "dead"
    /\ leaked' = leaked \cup Frames(space[p])
    /\ space' = [space EXCEPT ![p] = NoSpace]
    /\ heap' = [heap EXCEPT ![p] = NoHeap]
    /\ proc' = [proc EXCEPT ![p] = "none"]
    /\ UNCHANGED <<free, halted, pool>>

Init ==
    /\ free \in Boot
    /\ pool = free
    /\ space = [p \in Procs |-> NoSpace]
    /\ heap = [p \in Procs |-> NoHeap]
    /\ proc = [p \in Procs |-> "none"]
    /\ halted = FALSE /\ leaked = {}

Next == \E p \in Procs :
    \/ \E prog \in Programs : Start(p, prog)
    \/ \E delta \in Deltas : Sbrk(p, delta)
    \/ Die(p)
    \/ CleanUp(p)
    \/ Reap(p)

Spec == Init /\ [][Next]_vars
---------------------------------------------------------------------------
(* Properties.                                                             *)

Used(p) == proc[p] # "none"

\* A directory leads to each of its frames in one way.
OneWay(s) ==
    /\ \A t, u \in DOMAIN s.table : s.table[t] = s.table[u] => t = u
    /\ \A v, w \in DOMAIN s.page : s.page[v].frame = s.page[w].frame => v = w
    /\ \A t \in DOMAIN s.table : s.table[t] # s.pd
    /\ \A v \in DOMAIN s.page :
          s.page[v].frame # s.pd /\ \A t \in DOMAIN s.table : s.page[v].frame # s.table[t]

\* Every frame that was free after boot is free, lost, or led to by one
\* directory in one way: none is given to two pages, none forgotten.
FramesAccounted ==
    /\ \A p \in Procs : Used(p) => OneWay(space[p])
    /\ \A p, q \in Procs : p # q => Frames(space[p]) \cap Frames(space[q]) = {}
    /\ LET inUse == UNION {Frames(space[p]) : p \in Procs} IN
       /\ free \cap inUse = {} /\ free \cap leaked = {} /\ leaked \cap inUse = {}
       /\ free \cup inUse \cup leaked = pool

\* The pages that a process may read, and those it may write, by its program
\* and its break.
Pages(seg) == IF seg.size = 0 THEN {} ELSE PageOf(seg.at)..(PageUp(seg.at + seg.size) - 1)
HeapPages(h) == PageOf(h.start)..(PageUp(h.break) - 1)
MayWrite(h) == Pages(h.prog.data) \cup Pages(h.prog.bss) \cup HeapPages(h) \cup Pages(Stack)
MayRead(h) == Pages(h.prog.code) \cup MayWrite(h)

\* However a process moves its break, its address space holds the pages of its
\* program, its heap and its stack and no others, code without data read-only,
\* and the page below the stack stays unmapped.
SpaceIsExact ==
    \A p \in Procs : Used(p) =>
        /\ DOMAIN space[p].page = MayRead(heap[p])
        /\ {v \in DOMAIN space[p].page : space[p].page[v].rw} = MayWrite(heap[p])
        /\ PageOf(USER_HEAP_MAX) \notin DOMAIN space[p].page

\* paging_validate_user_range lets a buffer through exactly when the process
\* may use each of its bytes, and copy_user_str reads no byte it may not.
AccessIsAllowed ==
    \A p \in Procs : Used(p) => \A r \in Ranges :
        LET bytes == {(r.at + i) % Word : i \in 0..(r.size - 1)}
            Allows(S) == \A b \in bytes : PageOf(b) \in S
        IN  /\ paging_validate_user_range(space[p], r.at, r.size, FALSE) <=> Allows(MayRead(heap[p]))
            /\ paging_validate_user_range(space[p], r.at, r.size, TRUE) <=> Allows(MayWrite(heap[p]))
            /\ \A b \in copy_user_str(space[p], r.at, r.size) : PageOf(b) \in MayRead(heap[p])

\* The frames of the kernel's image are handed out only when none below 640 KB
\* is left, and those that do not exist only when nothing else is.
LastResort ==
    [][\A f \in free \ free' :
           /\ f \in Image => free' \cap Conventional = {}
           /\ f \in Phantom => free' \cap Usable = {}]_vars
=============================================================================
