# A TLA+ development of loaf-os

loaf-os is a small single-processor i386 kernel with round-robin processes, a
FAT12 file system, a keyboard, a timer and a dozen user programs. This directory
holds TLA+ modules that model its kernel, TLC configurations that check them on
small instances and TLAPS proofs of the main safety properties for every value
of the constants. Sources are named relative to the repository's `src/`
directory.

## 1. Inventory

| component | state | operations | interacts with |
|---|---|---|---|
| process table, scheduler (`multi/process.c`, `multi/scheduler.c`) | `proc_list` and the `next` fields, `curr_proc`, `idle_proc`, `next_pid`; per process `state`, `block`, `target_pid`, `resume_tick`, `cleaned_up`, `exit_code` | `process_create`, `scheduler_add`, `pick_next`, `schedule`, `process_find`, `proc_unlink`, `process_cleanup` | called from system calls, timer and fault handlers; allocates from the kernel heap and the page allocator |
| process system calls (`userspace/syscalls.c`) | none of their own | EXIT, YIELD_HLT, SPAWN, KILL, WAIT, SLEEP, GETCHAR, GETCHAR_NB, PS, GETUPTIME, CHDIR, GETCWD | write the state of other processes: a death wakes waiters |
| interrupts (`idt/`) | the processor's IF | IRQ 0, IRQ 1, exceptions, `int 0x80` | the timer handler ends in `schedule`; a fault in user mode kills the process, one in the kernel panics |
| timer (`devices/pit.c`) | `tick_count` | `pit_handler` | wakes sleepers, cleans up the dead |
| keyboard (`devices/kbd.c`) | ring of 256 characters, two positions, shift | `kbd_handler`, `kbd_getchar` | wakes the first process blocked for input |
| kernel heap (`mm/heap.c`) | block headers in one region, address ordered list | `kmalloc` (first fit, split), `kfree` (mark, coalesce) | process records, kernel stacks, file buffers, argument blocks |
| physical memory, address spaces (`mm/pmm.c`, `mm/paging.c`, `userspace/exe.c`) | frame bitmap, page directories and tables, `heap_break` | allocate and free frames, map, unmap, create, destroy, load a program, SYS_SBRK | process creation and clean-up |
| FAT12 (`fs/fat.c`, `devices/ata.c`) | the cached FAT, one sector buffer, one cluster buffer, the disk | read, write, write_at, delete, mkdir, rmdir, stat, opendir, readdir | several disk writes per operation, each of which may fail or be the last before a power cut |
| open files (`fs/file.c`) | 128 slots with a path, an offset and a size; 16 descriptors a process | open, close, read, write | names files by path, not by entry; shared by all processes |
| clock (`devices/rtc.c`) | `boot_epoch`, `boot_ticks` | read, convert, resynchronise | reads `tick_count` |
| terminal (`vga.c`) | cells, cursor, escape automaton | put, scroll, clear | output only |
| user library (`libc/`) | `malloc`'s list, stdio buffers | wraps system calls | SYS_SBRK |
| programs (`init/`) | - | init restarts the shell, the shell spawns and waits, pkill kills, idle halts | the callers of everything above |

What is hard here:

* *Preemption inside the kernel.* Gates clear IF, so handlers are atomic, except
  that `copy_to_user` (`multi/process.c:64`) ends with `sti`: from there to its
  return SYS_SPAWN can be preempted, in the middle of `kfree` and between the two
  stores of `scheduler_add`.
* *Blocking inside a system call.* SYS_WAIT, SYS_SLEEP and SYS_GETCHAR call
  `schedule` in the middle and go on later with what they knew before.
* *Deaths by three paths* (exit, kill, fault) that wake waiters by different tests,
  and *two freers* of a dead process, the timer interrupt and SYS_WAIT.
* *Wrapping counters*: ticks, the keyboard ring.
* *Several writes per file-system operation*, and a disk that fills up.

What makes each part correct, in short: exactly one RUNNING process, the list holds
exactly what was created and not reaped, no lost wake-up, no early reap, a
sleep neither too short nor too long, no starvation (process table); blocks tile the heap, owned blocks
are disjoint, no two adjacent free blocks (heap); a frame has one owner, an address
space holds its program, heap and stack and nothing else, and the checks of user
pointers allow exactly the bytes that are the program's (memory); chains are disjoint and end, an entry's
chain covers its size, after a crash at worst clusters are lost (FAT); a slot has one
owner, what a descriptor remembers of its file is true until another call changes the
file, a directory is listed completely (files). The hazards behind these, each at its line, are listed in `PROJECT.json`.

## 2. Modules

| module | what it is |
|---|---|
| `Lists` | walks along `next` fields, first member met |
| `Process` | process table, scheduler, process system calls, timer, keyboard, faults |
| `Lifecycle` | the abstract specification of it: born, dead, collected |
| `KHeap` | the kernel heap: first fit, split, coalesce |
| `Allocator` | the abstract specification of it: what is handed out is disjoint |
| `Fat` | the FAT12 file system, write by write, with disk errors and power cuts |
| `FileTree` | the abstract specification of it: a tree of names and contents |
| `FatTree` | `Fat` with the tree its callers see, to compare with `FileTree` |
| `Paths` | the paths of user programs: `.`, `..` and the working directory |
| `Files` | open files, descriptors, directory handles and working directories over `Fat` and `Paths` |
| `Memory` | frames, address spaces, loading a program, SYS_SBRK, the checks of user pointers |
| `UserHeap` | `malloc` and `free` of user programs over `Memory`'s SYS_SBRK |
| `MCProcess`, `MCKHeap`, `MCFat`, `MCFatTree`, `MCFiles`, `MCMemory` | values of the constants for TLC, views and bounds |
| `ListLemmas` | what a loop over a range leaves, round by round; walks |
| `ProcessProofs` | the inductive invariant of `Process`, the theorems from it, `Process` implements `Lifecycle`; what rests on the process list: exact walks, wake-ups, sleeps, the keyboard ring |
| `KHeapProofs` | the inductive invariant of `KHeap`, the theorems from it, `KHeap` implements `Allocator` |
| `MemoryProofs` | the inductive invariant of `Memory` and the theorems from it, for `UserHeap` too; that of `malloc`'s list and the theorem from it |
| `FatProofs` | types, the copies of the table and what a single error or power cut does; disjoint chains and their lengths without them |
| `FatNames` | what names lead to on the disk, and what each operation of `Fat` changes of it: lemmas only |
| `FatTreeProofs` | `Fat` implements `FileTree` |
| `FilesProofs` | who owns a slot of the table of open files, where offsets end, types; that remembered sizes and listings are the disk's; that paths with `..` lead back along the directories |

`UserHeap` EXTENDS `Memory`, `Files` EXTENDS `Fat` and `Paths`: their steps are steps of
the extended module with the caller's state around them. `Process`, `Memory` and `Files`
each hold the part of `process_t` that their calls touch (the process list and
its states; address space and break; descriptors, handles and working directory), so
creation, death, clean-up and SYS_WAIT's premature reaping are actions of all three.

### Process

*State.* Processes are numbers, `process_t` fields are functions on them. `pid`
equals the record's identity, since pids are never reused below `MaxPid`, the
bound on `next_pid`. `NULL` is -1 and also stands for the code's `(uint32_t)-1`.
`freed` is the set of records given to `kfree`; the allocator may reuse such a
record at once, so the specification stops where the list still holds one
(`Intact`), and at a NULL dereference (`kfault`), where `handle_fault` panics.
`pc` says where a process continues when it is on the CPU: in its program
(`user`), halted (`hlt`), in the preemptible tail of SYS_SPAWN (`link`, `publish`)
or behind the `schedule` call of SYS_WAIT and SYS_GETCHAR (`wait`, `getchar`);
`arg` is the system call's argument.

*Actions.* One per handler, from entry to the context switch:

| action | code |
|---|---|
| `Spawn`, `SpawnLink`, `SpawnPublish` | SYS_SPAWN up to `copy_to_user`'s `sti`; `scheduler_add`'s two stores |
| `Exit`, `Fault`, `Kill(t)` | SYS_EXIT, `handle_fault` in user mode, SYS_KILL |
| `Wait(t)`, `WaitReap`, `WaitFault` | SYS_WAIT up to `schedule`; from there on; the same when `process_find` returns NULL |
| `YieldHlt`, `Sleep(ms)` | SYS_YIELD_HLT, SYS_SLEEP |
| `Getchar`, `GetcharBlock`, `GetcharReturn`, `GetcharNB` | SYS_GETCHAR with a character, without one, after the wake-up; SYS_GETCHAR_NB |
| `Key`, `Tick` | IRQ 1 and IRQ 0, wherever IF is set |

Calls that fail without changing anything (an unknown pid, an empty ring in
SYS_GETCHAR_NB, SYS_WAIT for a dead process, a failed allocation) are steps that
change nothing and are left to stuttering. `schedule` is called by the actions
exactly where the code calls it, with the table of states at that point.
`process_cleanup` is the flag `cleaned_up`; the order of `pit_handler`'s loop over
the list does not matter, as each iteration touches one process only.

*Sleeps.* SYS_SLEEP stores `tick_count + ms` and `pit_handler` compares by size, both in
32 bits, so a sleep whose sum wraps ends too soon. `SleepTicks` says for every start and
length how many ticks a sleep lasts: as many as it asks for and one for 0; one
where the sum wraps, unless it begins at the last tick; a whole round of the count for a sleep
of 0 that begins there. `SleepOnTime` holds each timer interrupt against it, so a wake-up a
tick early is caught like one that is late.

*Fairness* (`FairSpec`). `SF(Tick)`: the PIC latches IRQ 0 and delivers it, as the
request of highest priority, as soon as IF is set; the model has states with IF
clear between those with IF set, so weak fairness would be too weak.
`WF(WaitReap)`, `WF(GetcharReturn)`: the processor goes on with kernel code that
nothing can preempt. `SF` of `SpawnLink` and `SpawnPublish` for each parent: the
code in that window is finite, so a process that gets the CPU again and again
finishes it. Nothing is assumed of programs and keys.

### KHeap

*State.* The region is counted in words of four bytes from `heap_start_virt`; the
headers' three fields are functions on the address of the header, so a stale
header that a join swallowed is still there, as in memory. `free_list` is 0: the
code never changes it after `heap_init`. `want` is not in the code: it holds the
bytes the kernel asked for at the pointers it has, which is what the properties
compare the list with.

*Actions.* `kmalloc(bytes)` rounds up to words, takes the first free block that is
large enough (`FirstFit`) and splits it if a header and a word are left (`Splits`,
`Rest`); when nothing fits it returns 0 and no step is taken. `kfree(ptr)` is for
pointers that are held, has the bounds test and the double-free test with their
early returns, marks the block and makes the whole pass: `Pass` is a recursive
function of the number of rounds, `PassStep` is one round of the loop. Both run in
one step: system calls run with IF clear; the exception, `kfree` in the
preemptible tail of SYS_SPAWN, is in the plan. Sums do not wrap: a heap of 256
frames (`kernel.c:34`) and requests no larger than a file stay far below 2^32.

### Fat

*State.* `fat` is the cached table. `disk` holds the copies of the table, the
directory entries of each cluster and of the root, and the bytes of each cluster. A
write of file data leaves entries named `DATA` in the cluster, which stand for whatever
the bytes happen to be as entries; no lookup may come upon one, which `Sound` says. A slot is a
pair of a block and an index. A table entry is free, a
cluster or the end mark; the code's test for the end, `>= FAT12_EOC`, is the test
for not being a cluster.

*An operation is computed when it begins and written one step at a time.* System
calls run with IF clear, so nothing interleaves with an operation, but each of its
writes can fail or be the last. `Begin` computes from the code's path through
the function the sequence `todo` of its writes, each with the cached table at
that moment; `WriteNext` does one, `Finish` returns. `fat_flush` is one write a
sector and copy. `DiskError` stops the operation at a write and keeps the cached
table, as the code's early returns do; `PowerCut` loses the cached table, which
`fat_init` reads again from the first copy.

| action | code |
|---|---|
| `fat_write_file(p)` | with no data, the only way it is called (`fs/file.c:30`): create, or truncate |
| `fat_write_at(p, e, b)` | the walk to the first cluster, the extension of the chain, the partial clusters; `Onward` is one round of either loop, and a disk without room ends it without a flush |
| `fat_delete_file(p)`, `fat_mkdir(p)`, `fat_rmdir(p)` | the functions of these names |
| `WriteNext`, `Finish`, `DiskError`, `PowerCut` | one `write_lba`, its failure, a restart |

`dir_lookup` returns the slot of a name or the first one that can be used, and
`Grown` is its extension of a full directory, with the writes it makes itself.
An operation is a set of outcomes, each with its items and its code: one for each
path through the function, none where it fails before it has changed anything, which is
left to stuttering. `Files` takes the same outcomes in one step.
`fat_stat`, `fat_opendir` and `fat_readdir` are sets of at most one answer;
`fat_read_file` is `Node` in `FatTree`.

*Where it stops.* The outcome `Derailed` sets `wild` where what the code does next is undefined:
`fat_write_file` and `fat_write_at` do not test for `dir_lookup`'s result 3 (no room
to extend the directory) and use a slot that was never set, and `fat_write_at` does
not test the attribute and writes bytes over the entries of a directory. No
operation begins after that or on a file system that is not `Sound`, where bytes may
be read as entries. `past` and `late` are not in the code: they say what has
happened (`full`, `error`, `cut`, `dir` for a directory opened as a file) and whether an
operation ended before it had flushed the table, which the properties' premises need.

*Abstraction.* `FileTree` is a tree of names with create, write, unlink, mkdir and
rmdir as single steps, a write that finds no room being a part of it. Bytes
in a hole may be anything, as the code does not clear a new cluster. The tree is a
function of `Fat`'s state (what `Node` reads once `todo` is done), but an expensive
one, so `FatTree` keeps it in a variable.

*What the fault run says.* `CutIsSafe` names the writes between which a power cut leaves
an entry that points to a free cluster: in `fat_write_file` and `fat_rmdir` between
the table and the entry, and between two sectors of the first copy. Elsewhere only
clusters are lost. Each of the three parts of `Window` is needed. `ErrorIsSafe` says which
operations can fail without damage to the running system: writing and mkdir, but for one
write, the zeroing of the cluster that `dir_lookup` has linked to a full directory already
(`fs/fat.c:326`), whose failure leaves old data to be read as entries (`Zeroing`);
unlink, truncate and rmdir free the chain in the cached table first and leave it
so. `ChainFitsBuffer` holds until a write runs out of clusters: then the chain stays
longer than the size says (`fs/fat.c:662`) and `fat_read_file` stores more than
`file_read` has made room for. `ReadFits` in `Files` says what is left of it then.

Left out: the bytes of names (two 8.3 names are equal or not), dates, long-name
entries, sectors torn by a power cut, table entries across two sectors.

### Files and Paths

*State.* `open_files` is the table of 128, `fds` and `dirs` are the arrays of each
process, `cwd` its working directory, `proc` whether it runs, is dead or is gone.
`stale`, `listed`, `lost` and `overlong` are not in the code: the open files whose path another call
has changed (or was cut to the 63 characters that `open_file_t` keeps, `Kept`), what
a handle has shown as long as nobody changes its directory, the slots of
processes that SYS_WAIT freed before their clean-up, and the paths of files a write to which
found the disk full.

| action | code |
|---|---|
| `Open(p, path, writable)`, `Close` | SYS_OPEN with `file_open`, which empties a file opened for writing; SYS_CLOSE |
| `file_read`, `file_write` | SYS_READ and SYS_WRITE of a descriptor: the offset, and the remembered size |
| `Change(p, path)` | SYS_UNLINK, SYS_MKDIR, SYS_RMDIR |
| `OpenDir`, `ReadDir`, `CloseDir` | the calls on directory handles, by cluster and count |
| `ChDir(p, in)` | SYS_CHDIR of what `path_resolve_cwd` made of the input; its `&&` (`userspace/syscalls.c:670`) lets any path in |
| `Start`, `Die`, `CleanUp`, `Reap` | SYS_SPAWN's copy of the working directory; death; `process_cleanup`; SYS_WAIT's `kfree` of a process that was not cleaned up |

`fat_read_file` stores the whole chain of what it is given, without a test of the
attribute, and `file_read` makes room for it by the size it remembers: a directory, a file that
another descriptor has extended since, or one whose chain a full disk has left too long overruns
the buffer (`Overruns`). What the kernel heap is after that is undefined, so `file_read` sets `wild`
there and the behaviour ends.

SYS_STAT and SYS_GETCWD change nothing and are no steps. The disk has no faults here
(`fat_faults` has), so `Fat`'s own `op`, `todo`, `late` and `past` never move.

`SizeIsTrue` compares the size that `file_read` makes room for with the entry on
disk, and `ReadFits` the room with the chain: of a file whose size a descriptor knows, only
a write to that file that found the disk full can make the chain too long, whatever full disks
do to other files. `SlotsOwned` counts slots across the two freers of a process; that a
process reaped before its clean-up leaves its slots in use is `lost` there, and the subject of
`ReapedIsClean`. `ReaddirComplete` holds a listing against what a lookup finds, until the directory
changes. `PathsAgree` compares `path_resolve_cwd`, for each running process and its `cwd`, with
following the path entry by entry from there, `..` by the entry that `fat_mkdir` wrote. The kernel itself never follows `..`, and components past
`MAX_PATH_DEPTH` are dropped while a later `..` still takes one off; `PathsAgree` is
stated for paths that follow to somewhere, and where a name is dropped (`Overflows`) it excepts the one case in
which it is false: SYS_MKDIR knows no depth limit, and a directory deeper than it
(`TooDeep`) is one that the user library cannot name.

### Memory

*State.* `free` is the bitmap, as the set of free frames; `space` by process the
page directory with its tables and pages; `heap` the program, `heap_start` and
`heap_break`; `proc` as in `Files`; `halted` is a kernel panic. `pool` (what was free
after boot) and `leaked` are not in the code.

*Boot.* `pmm_init` marks the kernel's own image usable with the rest of the extended
memory and reserves only the bitmap behind it (`mm/pmm.c:69`); the bits behind the last frame that exists
are never written, so `Boot` leaves them open (`Phantom`). The 256 frames of the kernel
heap, the first run of that length, lie behind the image only because conventional
memory and the image each have fewer; and single frames are taken from the lowest, so the
image is overwritten only when conventional memory is used up. `LastResort` is what can be
said: a frame of the image is taken only then, one that does not exist only
when nothing else is left.

| action | code |
|---|---|
| `Start(p, prog)` | `process_create` with `exec_load`: directory, segments page by page (`MapNew`, `Upgrade` where two segments share one), stack; without a kernel stack the address space is lost |
| `Sbrk(p, delta)` | SYS_SBRK: 32-bit sum, the bounds, the loops that map or unmap |
| `Die`, `CleanUp`, `Reap` | death; `paging_destroy_address_space`; SYS_WAIT's `kfree`, which gives no frame back |
| `Panic` | `pmm_alloc_frame` without a frame stops the kernel, so the code behind its 0, in `exec_load` and SYS_SBRK, never runs |

The loops over pages are folds (`PagesMapped`, `Shrunk`) over the number of rounds.
`AccessIsAllowed` holds `paging_validate_user_range`, which walks page by page and sums
in 32 bits, against the program, break and stack byte by byte, and `copy_user_str`, which
checks the first byte of each page. Two things are assumptions on programs
(`ProgramAssumption`): segments lie as the linker puts them, and the bss is last; a
program with neither data nor bss has `bss_vaddr` 0 in its header, which
`tools/mkexe` writes and no shipped program that allocates has.

### UserHeap

`malloc.c` over `Sbrk`: `blocks` is the list from `free_list` on, `held` the pointers
the program has with what it asked for. `malloc` takes the first block that fits, splits
it, or grows the heap by at least `MIN_GROWTH` and takes the new block; `Free` marks and
coalesces neighbours that touch. `sys_sbrk` maps -1 to NULL (`libc/syscall.c`), so a
refused growth is a NULL from `malloc` and no step. Programs that call `sbrk` themselves
do not allocate (`malloc` in `Programs`), and requests are small enough that no sum of `malloc` wraps
(`RequestAssumption`): that no other growth comes between two of
`malloc`'s is what makes its blocks adjacent.

## 3. Runs

| run | instance | shows |
|---|---|---|
| `proc_life` | idle, init and two children; init spawns, waits and kills, all exit, fault, sleep for 0 or 2 ticks and read keys; tick counts modulo 3, a ring of 3 | types, the list is what was created and not reaped, a waiter is blocked exactly while its target lives, death is final, idle runs only by default, how long each sleep lasts, one whose sum wraps included, no character beside a sleeping reader |
| `proc_live` | idle, init, two children, `FairSpec` | five leads-to properties |
| `two_parents` | idle, init and three children, one of which may spawn and wait as well; exit, fault, kill, yield | what survives two waiters for one target and two racing `scheduler_add`s: clean-up never touches a live process, no living process reaped; the inductive invariant (of which one process RUNNING, `CurrentIsRunning`, is a part); the refinement |
| `double_wait` | as above | **violated**: the NULL dereference of the second waiter |
| `reap_leak` | one parent | **violated**: a record is freed whose resources were never released |
| `kheap` | a heap of 20 words, headers of 3, requests of 0, 1, 11 and 20 bytes | tiling, held blocks are used, no two free neighbours, the refinement to `Allocator` |
| `heap_tail` | a heap of 11 words, an argument block of 16 bytes and the buffer of an empty file | **violated**: `kfree` refuses a block at the end of the heap |
| `fat_ops` | three clusters of two bytes, a root of two entries, a directory of two entries a cluster, a table of one sector; no faults | chains sound, disjoint and no longer than the size needs, no cluster lost, both copies written, the refinement to `FileTree` |
| `files` | two processes, two open files, a descriptor and a directory handle each; `a`, `a/a` and `a/b`, so that the directory `a` grows; two clusters of four bytes, reads and writes of 3 and 6 bytes, up to 9 | types, who owns a slot, offsets, remembered sizes and the room for a read against the disk, complete listings |
| `paths` | one process; `a`, `a/a`, `a/b` and `a/a/b` with `MAX_PATH_DEPTH` 2; four clusters; six inputs of `cd` | normalised paths against the directories |
| `memory` | two processes, pages of four words, four pages a table, 17 usable frames of which the kernel heap takes 7, one that does not exist, two programs, three changes of the break, `malloc` of 2 and 5 words | every frame accounted for, address spaces exact, user pointers, what `malloc` gives is mapped and in use, which frames go last |
| `fat_faults` | the same as `fat_ops`, a table of two sectors, a disk error or a power cut before any write | types; between which writes a cut does damage; which operations can fail without any |

*Bounds.* Two children make a list with a first, a middle and a last
member, a wait and a kill across them and round robin with a process on
either side; three, in `two_parents`, allow two waiters for a third. Modulo 3 with sleeps of 0 and 2 has
each case of `SleepTicks`: sums that wrap early and at the last tick, a sleep of 0 there and
elsewhere, and one that does not wrap. A ring of 3
holds two characters, fills and overruns. Twenty words of heap hold up to six
blocks, with every kind of split (exact, a word too small, just large enough) and of
join (left, right, both sides, none); `kheap` distinguishes states by the listed
headers only (VIEW `LiveState`), since the code reads no other. A disk of three clusters fills up with one file and one
directory; `.` and `..` take both entries of a directory's first cluster, so its
first file makes it grow; writes of a cluster and a half from the start and of one byte
past a hole reach the partial first and last cluster, overwriting, extension and
skipping; `fat_faults` has the first of them only, whose two clusters are written one by one. Names may be a file at one time and a directory at another. `fat_ops` uses a
VIEW without clusters that are free and the entries of those that no directory has,
which nothing reads while the power is on (the bytes of a hole may be anything);
`fat_faults` uses one without bytes, the second copy, `past` and what is in an entry without a
name, which neither its operations read nor `CutIsSafe` and `ErrorIsSafe` mention; it keeps the
entries of free clusters, which an error can link to a directory before they are zeroed. These two runs do not check deadlock: `Fat` stops where it is
`wild` or damaged. In
`files` a directory of three entries, of which `.` and `..` take two, takes the second
cluster for its second file, and there is none for the file's first byte then: the disk is full in the middle of
growth and of a write. A file of 6 bytes fills the disk; a write that ends at 9 asks for a
third cluster, and where the file had one it has been given the second when there is no third, so its chain is left too long. The run stops at
two open files and handles at a time (`FewInUse`), which is every pair of them. In `paths` all four clusters
are in use when `a`, `a/a`, `a/b` and `a/a/b` are directories; the entry `..` is the root's in the first, that of `a` in
two and that of `a/a` in the last, which is one deeper than the library names. The
inputs go down, up past the root, and past the limit and back, from every
directory `cd` has led to, those that are gone included. Directories have four entries there and do not grow. `files` uses
a VIEW without what no later call reads (free clusters, slots and handles that nobody
who runs holds) and without the bytes of files; `paths` leaves out open files, but not which slots are free. In `memory`
the heap may take pages 3 to 5, page 6 is the guard, the stack is page 7 and the kernel begins at 8:
every change of the break that crosses a page, a table, the start, the guard and the
end of the 48-word address space occurs; frames run out, in the middle of loading, too. `FewLost`
stops at the loss of one address space. The three do not check deadlock: the kernel panics in `memory`,
is `wild` in the other two, and processes that are reaped leak slots and frames until no call is left.
`two_parents` does not check deadlock:
the specification stops at the kernel panic it contains, and the system does.

*Two parents.* With a second process that spawns and waits, both disagreements
above occur, and a `scheduler_add` preempted by an unlink can leave a freed record
on the list or lose a process. `ListMatchesProcesses`,
`WaiterBlockedWhileTargetLives` and what follows from them are therefore claims about
programs such as the shipped ones, in which one process at a time spawns: they are
proved under the hypothesis `SpawnUndisturbed` (section 4). `ReapsOnlyTheDead`,
`CurrentIsRunning`, `CleanedUpIsOffCpu` and `DeadStaysDead` are proved for all.

## 4. Proofs

All theorems hold for every `MaxPid`, every set of parents and calls, every
`TickMod` and every ring size, from the assumptions `MaxPidAssumption`,
`CallsAssumption`, `SleepAssumption` and `BufferAssumption` of `Process`.

`IInv` is the inductive invariant: the types, `CurrentIsRunning`, pids are handed
out in order (so the new process of `Spawn` is UNBORN and not RUNNING, and nothing
refers to it), the list's pointers lead to created processes (so `pick_next`
returns none that is unborn: `WalkStaysIn`, by induction on the walk), idle is
READY or RUNNING, a blocked process is inside the call its `block` and
`target_pid` name (so a death wakes the right ones, although the fault handler
does not test `block`), and the dead are what is reaped, cleaned up and freed. One
lemma per action shows that it preserves `IInv`; those that call `schedule` share
`ScheduleEffect`. The last part of the first half of `ProcessProofs` maps each action to a step of `Lifecycle` or
a stutter: `Spawn` to `Create`, deaths to `Die`, `Wait` to `BeginWait`, `WaitReap`
to `Collect`.

The second half says what the list *is*. `ListInv` adds to `IInv` that the list, from
`process_list` on, is sorted by descending pid and holds exactly the processes that were
created and not reaped (idle, the last, leads to NULL), that a process under
construction has one constructor, is the last pid given out and not yet on the list, and that
the current process is on it. The links are a function, so the lemmas about the
walk (`SortedWalk`, `SortedAdd`, `SortedRemove`, `FirstOnFinds`) are about any function
that descends. The hypothesis is `SpawnUndisturbed`: no step of another process
creates or reaps while a `Spawn` is between its `process_create` and its
`scheduler_add`, which runs with interrupts enabled (`userspace/syscalls.c`). The shipped programs satisfy it, as
init is blocked in SYS_WAIT while the shell, the only other one that spawns, runs; and
`OneParentIsUndisturbed` proves it for every system with one parent, so it is no empty
hypothesis. From `ListInv` follow
`ListMatchesProcesses` and
`WaiterBlockedWhileTargetLives` (whoever dies is found by `scheduler_wake` and so is whoever waits for
it), `IdleOnlyByDefault` (the scan of `pick_next` comes past every READY process before it
comes to idle), `SleepOnTime` (a blocked sleeper's call tells when it began, and the cases of `SleepTicks` are arithmetic
modulo `TickMod`) and `NoCharacterWithoutReader` (the interrupt that puts a character into the
ring wakes whoever sleeps on it).

`KHeapProofs` holds for every heap size, every header size of at least one word and
every set of requests. `HeapInv` says that *some* set of blocks tiles the heap, that
no block of it and its successor are both free and that what is held lies in used
blocks of it: naming the set as a witness, instead of the walk `Listed`, lets each
step construct the next one (a split adds a block, a join takes one away), and
`ListedAreTheBlocks` shows that any such set is what the walk visits. The pass of
`kfree` is an induction over its rounds: `Good` says that the blocks before `curr`
are joined already; a round keeps it (`PassStepGood`) and moves the end of `curr` on
by at least one word, so `HeapSize` rounds reach the last block (`PassEnds`). Tiling
makes the ranges of two different used blocks disjoint, which is the refinement.

`MemoryProofs` holds for every number of processes, frames and programs, every page, table and
stack size and address-space width that `LayoutAssumption` and its neighbours allow. `MemInv`
says that frames are in one place (`Apart`), none in none (`Complete`) and that each address
space holds what its program, break and stack ask for (`Exact`). Loading and growing are
loops over pages; their invariant is `Building(F0, F, D, W)`: the frames taken so far and those
left make up F, the taken ones are the lowest of F0, the pages are D and the writable ones W,
unless the kernel has panicked. `Iteration` (in `ListLemmas`) carries it through the rounds, and the layout
lemmas, arithmetic with `\div` by a page size that is any positive number, say that the heap never
meets the program below or the guard above. `Ordered`, a fact of each step, gives
`LastResort`. For `AccessIsAllowed` the pages a range touches are related to its bytes
(`PagesAreBytes`), and a byte that `copy_user_str` reads to the last one it validated
(`LastValidated`). The theorems are about `UserSpec` too, as every step of `UserHeap` that
touches frames is one of `Memory`.

The last part of `MemoryProofs` proves `HeldIsMapped`: every byte of what `malloc` gave, and of the header before
it, is mapped and lies in a used block. `UserInv` joins to `MemInv` that the blocks of each
running process tile its heap from the start to the break, that no two
neighbours are free and that each pointer held is served by a used block; a process that
is not live has neither. The lemmas `TakenKeeps`, `GrewKeeps`, `FreedKeeps` and
`CoalescedKeeps` (an induction over the rounds of the pass) say that this is kept by a block taken and
split, by a growth, by a mark and by the pass; that the memory between start and break is mapped is `Exact` of `MemInv`.
`RequestAssumption` is an assumption on programs: requests are so small that the sums of
`malloc` and the signed delta of `sbrk` do not wrap, which `malloc.c` does not test.

`FilesProofs` holds for every number of processes, open files, descriptors and paths, every
word and every bound on lengths. `SlotsInv` is `SlotsOwned` with the types and holds whatever
the file system answers. `CallsInv` joins to it that the table and the disk have their types between
calls, that no entry tells a size beyond `MaxSize` (`Small`) and that an offset is
within the remembered size; `DoneIs` says what the writes of a whole operation leave and the lemmas
named `...Small` that no operation stores a larger size. From it follow `FilesTypeOK` and
`OffsetWithinSize`. `KeptAssumption` says that a path cut short is a path: what is cut off is the end of a
name or whole names, as a name of 8.3 is shorter than the 64 bytes.

`FatProofs` holds for every size of disk, table sector, root and directory cluster, any number of
copies, every set of names, paths and writes and both kinds of faults, from the assumptions of
`Fat`: paths are not empty and made of names (`PathAssumption`), and no name is one of the
marks of an entry without one (`NamesAssumption`). Operations are computed as a whole, so
most of the work is about what a loop leaves: `ResolveIs` for the walk along a path,
`StoredInduction` for the two loops of `fat_write_at`.

* `FatTypes`: the table, the entries and every write to come keep to their types.
* `TableIsWritten`: `CopiesInv` says of each sector of each copy that it is as in the table of the
  last item already, or a write to come makes it so and none after that changes it (`Covered`).
  It holds with errors, because the next operation that succeeds flushes everything, and until
  a power cut.
* `ChainsAreSound`, `ChainsFitBuffers`: `SoundInv` names a cover, a set D of directories with
  `Good(f, es, D, fit)`: a slot in use in a block of D leads to a directory of D exactly if it
  is a directory's, chains that begin at D or at a used slot end, are allocated and are
  disjoint, and file lengths match chains. D may hold more than the directories below
  the root, as truncating a directory cuts off what is in it, and slots in use are counted
  behind a directory's end, too: both make the invariant inductive without following
  paths. While an operation runs `Good` is said of the table of its last item and the
  entries all its items lead to (`Leads`). Each operation comes to a good pair (`Comes`):
  the lemmas `Untouched`, `Cleared`, `Linked`, `Replaced`, `Added` and `GrownIsGood` are the
  changes they are made of, and `Extends` and `Reaches` carry a chain through the rounds of
  `fat_write_at`. `fit` is "exact" until a full disk stops an operation and "loose" from then on.
* `CutLeavesSound`, `ErrorLeavesSound` prove `CutIsSafe` and `ErrorIsSafe`, after any number of
  faults. `Leads` says more than where a sequence of items leads: before each of them what is
  on the disk is `Secure`, that is, the first copy and the entries are good for some cover
  unless the item is one of the window's (`CutHarms`), and the table of that moment and the
  entries are good unless the operation is one that frees a chain first (`ErrorHarms`). So the
  same lemmas, one for each operation, serve both theorems. `SecureInv` says that what is yet to do leads
  from the first copy, if the last operation had written it (`FirstWritten`), to a good pair. It
  needs no more at its start than the `Sound` that `Begin` asks for: `SoundIsGood` finds the cover,
  the directories below the root, for which `DirsAreClosed` shows that as many rounds as there are
  clusters reach all of them.

* `NoClusterIsLost` proves `NoLostClusters`. Its strengthening `Whole` says of a cover D that each
  cluster in use is in a chain that begins at D or at a used slot (`Owned`), and that all of D is
  reached from the root: any set with the root that is closed under "leads to a directory"
  (`Shut`) contains D. Stated by closed sets it needs no paths, so no induction over them; with
  `DirsAreClosed` it makes D the directories `Fat` itself computes (`WholeIsExact`). An
  operation changes one slot: what it keeps, drops and gains (`Keeps`, `Drops`, `Gains`) decides
  whether the result is whole (`WholeIsKept`, `WholeWithEntry`, `WholeWithout`), so a directory
  may go only when no used slot is left in it, and a freed chain only with its slot. `Rests` and
  `Heading`, the two forms of `SoundInv`, carry `Whole` as long as nothing has happened (`past = {}`).

`FatNames` says what names lead to, and `FilesProofs` what follows for `Files`. The row of
a directory (`Row`) is the sequence of the entries in its slots. `Neat` joins to `Good` that no row
has a name twice (`Single`) or an entry behind its end (`Ended`): with both, where `dir_lookup`
stops is what the row has of the name (`LookupFinds`), so a path leads where the walk
over rows leads (`Visits`), of which `resolve_path`, `fat_stat` and `fat_opendir` are
readings. `Edits(..., dir, name, E)` says that between two states only the row of `dir` differs, and in
nothing but name, of which it now has the entries E. `Brings` says it of a whole operation at its path, and
there is a lemma for each: `TruncateBrings`, `RemovalBrings`, `MkdirBrings`, `WriteBrings`. Two things make
them long. A lookup that extends a full directory is an edit of nothing
(`GrowthIsReady`), and that only the directories computed from the new table remain, those below a removed one
being gone, is an argument about closed sets again (`DirsWithin`, `ActsClose`). What the writes of an operation make of the entries is
`Makes`; `LeadsMakes` connects it with `Leads`, so no operation is followed a second time.

* `SizesAreTrue` and `ListingsAreComplete` prove `SizeIsTrue` and `ReaddirComplete`, for any
  number of processes and handles, paths of any length and disks of any size. `KnownInv` joins to `CallsInv` that
  until the code does something undefined (`wild`) the disk is `Neat`, each open file that is not stale
  has the size its entry tells (`Sized`), and each handle with an undisturbed listing is of
  the directory that its path still leads to and has shown as many names as its index
  (`Listing`). The last is what makes the property inductive: a listing that is not
  finished yet must count, and `ShownUpTo` ties the index, which counts entries, to the
  names in the row. An edit at another path leaves a file's entry (`StatEdited`) and a
  listing (`ListedKept`); at the same path the code of each call sets the size or the specification notes
  the change. `EditKnows` is the common part, and there is one lemma a call.

* `PathsAlwaysAgree` proves `PathsAgree`, for directories of any size and depth, inputs of any
  length and any `MAX_PATH_DEPTH`. `ClimbsInv` joins to `KnownInv` that the second entry of each
  directory leads to the directory it is named in (`Dotted`) and that directories are only where
  there are paths to them (`Confined`). Both are kept by every edit that brings no directory to a
  path but a new one that leads back and is empty (`NewBelow`, `DottedKept`, `ConfinedKept`), as SYS_MKDIR does; a
  directory's own row may be edited, but its second entry is never one of a name. A working directory is
  always a normalised path, though not always that of a directory. `FollowStep` is one component:
  `StepDown` for a name, `StepUp` for `..`. Where the stack of `path_normalize` is full and a name is dropped, either a
  directory is deeper than the limit, which is `TooDeep`, or the walk fails there (`Room`).
  `InputAssumption` says that inputs are names, `.` and `..`. The shipped programs hand to the
  kernel what `path_resolve_cwd` returned (`init/ls.c:14`, `init/cat.c:20`, `init/shell.c:64`,
  `init/shell.c:149`) or a short path of their own, so they make no directory deeper than it can name.

`FatTreeProofs` proves that `Fat` implements `FileTree`: `OperationsImplementTree` says that,
without disk errors and power cuts, every behaviour of `FatTree` is one of the tree of names and contents
(`ImplementsTree`). The tree at any moment is what can be read once the items of the
operation that runs are written, so an operation changes it when it begins and its writes are
stutters: `DoneOn` says that writing the next item leaves what all items come to.

* What is at a path follows from its entry and its chain (`NodeIs`); `Byte` is byte i of a chain, by the
  cluster it is in (`ByteIs`).
* An operation touches no cluster of any other file: `Spares` says that only clusters change
  that were free, a directory's or those of the file at its path. With `Edits`, which says it of
  names, this makes `Turns`, and `NodeKept` follows: what is at any path that does not lead
  through the operation's own stays, as `FileApart` knows the chains of two paths disjoint.
  `BelowEmpty` is about the paths that do lead through it: below a file or an empty directory is nothing.
* `TurnEmpty`, `TurnUnlink`, `TurnMkdir`, `TurnRmdir`, `TurnWrite`, `TurnPart` and `TurnStay` give for each kind of
  `Turns` the action of `FileTree`, and `TruncateTurns`, `RemovalTurns`, `MkdirTurns` and `WriteTurns`
  show that each operation of `Fat` is one of these. All but the last write no bytes (`Bytefree`).
* For `fat_write_at`, `Feeds` goes through its rounds: the k-th item stores to the k-th cluster from
  the one of the offset on what that cluster holds with the bytes of the write in it (`Fed`), and later rounds only
  make the chain longer (`Prolongs`). The clusters are different ones (`FedStrewn`), so each keeps
  what was stored in it (`StrewnDone`), and the bytes in the first k clusters are the first n of the
  write (`Held`, `HeldIs`). `FedBytes` says of each byte of the file whether it is new or as it
  was, and `Overwrites` the same for the write as a whole, with all its bytes or, on a full disk,
  the first n.

The invariant `TreeInv` says that the items left end with a return (`Pending`), that what they come to
is `Neat` until the code does something undefined, and what the tree is. `PrefixAssumption`, that the set of paths
has the paths its members lead through, is only about which paths are looked at: it lets `FileTree`
say that a parent is a directory. With errors and power cuts the statement is false and not meant: an
operation that is stopped may lose what it was about, and what is left then is the subject of
`CutIsSafe` and `ErrorIsSafe`.

Model-checked only are liveness under fairness (the properties of `proc_live`), which is out of the
prover's reach, and `ReadFits`. All other properties of the runs that are expected to pass are proved.

## 5. Plan

1. `Process` with its abstraction and proofs: done.
2. `KHeap`, its abstraction and proofs: done; left is `kfree` preempted in SYS_SPAWN
   at the grain of its stores.
3. `Fat`, its abstraction, disk errors and power cuts: done; all its properties are proved,
   the refinement of the tree included.
4. `Files` and `Paths`: done, with their proofs.
5. `Memory` and `UserHeap`: done, with their proofs.
6. The clock as operators against a reference calendar; the boot window between
   `scheduler_ready` and `process_run`.

## 6. Not modelled

* The clock (`devices/rtc.c`): date arithmetic that nothing else reads, next in the plan; its
  factor of ten (`devices/rtc.c:128`) is listed under the hazards.
* The terminal (`vga.c`): cells and an escape automaton, output only.
* `stdio.c`, `string.c`, `printf.c` and the text handling of the programs: formatting and byte
  copying, with no state that outlives a call but the buffer of a stream.
* Hardware set-up (descriptor tables, PIC, PIT, the ATA handshake, the boot loader's two
  stages): straight-line port I/O.
* Build tools: they run on the build machine. Of `tools/mkexe` only the order of the segments
  is used, as an assumption on programs.
