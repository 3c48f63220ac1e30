------------------------------- MODULE Files -------------------------------
(* Open files, fs/file.c, and the system calls on files and directories:   *)
(* the table of open files, the descriptors and directory handles of the   *)
(* processes, their working directories, and what is left of them when a   *)
(* process dies.                                                           *)
(*                                                                         *)
(* A system call runs with interrupts disabled and here on a disk without  *)
(* faults: what Fat does write by write is one step.  A call that returns  *)
(* -1 and changes nothing is no step.  Left out: the checks of the user's  *)
(* pointers, and kmalloc for file_read, which may fail and then changes    *)
(* nothing.                                                                *)
EXTENDS Fat, Paths

CONSTANTS
    Procs,                \* slots for processes
    MAX_OPEN_FILES,
    MAX_FDS_PER_PROC,
    MAX_DIRS_PER_PROC,
    Word,                 \* 2^32: sizes and offsets are unsigned
    Lengths,              \* of reads and writes
    MaxSize,              \* bound: a write ends at or before it
    Inputs,               \* what is given to the shell's cd
    MaxIndex,             \* bound: on handles of directories that are gone
    Kept                  \* of each path, what fits the 64 bytes of open_file_t

ASSUME TableAssumption ==
    {MAX_OPEN_FILES, MAX_FDS_PER_PROC, MAX_DIRS_PER_PROC, Word} \subseteq Nat \ {0}
ASSUME LengthAssumption == Lengths \subseteq Nat \ {0} /\ MaxSize \in Nat /\ MaxSize < Word
\* What is cut off is the end of a name or whole names, never all of them.
ASSUME KeptAssumption == Kept \in [Paths -> Paths]
ASSUME DepthAssumption == MAX_PATH_DEPTH \in Nat
ASSUME InputAssumption == Inputs \subseteq [absolute : BOOLEAN, names : Seq(Names \cup {".", ".."})]

VARIABLES
    open_files,
    fds,         \* by process, the index of an open file or -1
    dirs,        \* by process, the directory handles
    cwd,
    proc,        \* "none", "live" or "dead" and not yet cleaned up
    lost,        \* open files of processes that were reaped before the clean-up
    stale,       \* open files whose path another call has changed
    listed,      \* by handle, its path and what it has shown, until that changes
    overlong     \* paths of files whose chain a full disk may have left too long

fatvars == <<fat, disk, op, todo, wild, late, past>>
tables == <<open_files, fds, dirs, cwd, proc, lost, stale, listed, overlong>>

File == 0..(MAX_OPEN_FILES - 1)
Fd == 0..(MAX_FDS_PER_PROC - 1)
DirFd == 0..(MAX_DIRS_PER_PROC - 1)

NoFile == [in_use |-> FALSE, path |-> <<>>, offset |-> 0, size |-> 0, writable |-> FALSE]
NoDir == [in_use |-> FALSE, cluster |-> 0, index |-> 0]
Unlisted == [noted |-> FALSE, path |-> <<>>, names |-> <<>>]

Minus(a, b) == (a - b) % Word

\* Variant: the larger.
Least_Most(a, b) == IF a < b THEN b ELSE a

Least(a, b) == IF a < b THEN a ELSE b

Running(p) == proc[p] = "live" /\ ~wild

FreeFiles == {s \in File : ~open_files[s].in_use}
FreeFds(p) == {fd \in Fd : fds[p][fd] = -1}
FreeDirs(p) == {d \in DirFd : ~dirs[p][d].in_use}

\* A file system operation from its first write to its last.
Apply(o) ==
    /\ \E done \in {Done(fat, disk, o.items)} : fat' = done.fat /\ disk' = done.disk
    /\ wild' = (o.code = "wild")
    /\ UNCHANGED <<op, todo, late, past>>

\* The paths that lead to or through what is at path.
Through(path) == {q \in Paths : Len(q) >= Len(path) /\ SubSeq(q, 1, Len(path)) = path}

\* What the open files of S knew of the file at path may be false from now on.
Outdated(S, path) == {s \in S : open_files[s].in_use /\ open_files[s].path \in Through(path)}

\* A name comes or goes: what has been shown of its directory is no longer what
\* is there, and a directory of that name is gone or new.
Renamed(path) ==
    listed' = [p \in Procs |-> [d \in DirFd |->
                IF listed[p][d].noted /\
                   listed[p][d].path \in Through(path) \cup {SubSeq(path, 1, Len(path) - 1)}
                THEN Unlisted ELSE listed[p][d]]]

IsFile(path) == \E e \in fat_stat(path) : ~e.dir
---------------------------------------------------------------------------
(* Files.                                                                  *)

OpenFile(path, size, writable) ==
    [in_use |-> TRUE, path |-> Kept[path], offset |-> 0, size |-> size, writable |-> writable]

\* An open file that keeps another path than its own is stale from the start.
Cut(path, slot) == IF Kept[path] = path THEN stale ELSE stale \cup {slot}

\* SYS_OPEN and file_open: a file opened for writing is emptied.
Open(p, path, writable) ==
    /\ Running(p)
    /\ FreeFds(p) # {} /\ FreeFiles # {}
    /\ \E slot \in {First(FreeFiles)}, size \in IF writable THEN {0} ELSE {e.size : e \in fat_stat(path)} :
        /\ fds' = [fds EXCEPT ![p][First(FreeFds(p))] = slot]
        /\ open_files' = [open_files EXCEPT ![slot] = OpenFile(path, size, writable)]
        /\ IF writable
           THEN /\ \E o \in fat_write_file(path) : Apply(o)
                /\ stale' = Cut(path, slot) \cup Outdated(File, path)
                /\ IF IsFile(path) THEN UNCHANGED listed ELSE Renamed(path)
                /\ overlong' = overlong \ {path}
           ELSE stale' = Cut(path, slot) /\ UNCHANGED <<fatvars, listed, overlong>>
    /\ UNCHANGED <<dirs, cwd, proc, lost>>

\* Variant: the descriptor is not taken back.
Close_KeepFd(p, fd) ==
    /\ Running(p) /\ fds[p][fd] # -1
    /\ open_files' = [open_files EXCEPT ![fds[p][fd]].in_use = FALSE]
    /\ stale' = stale \ {fds[p][fd]}
    /\ UNCHANGED <<fatvars, fds, dirs, cwd, proc, lost, listed, overlong>>

Close(p, fd) ==
    /\ Running(p) /\ fds[p][fd] # -1
    /\ open_files' = [open_files EXCEPT ![fds[p][fd]].in_use = FALSE]
    /\ stale' = stale \ {fds[p][fd]}
    /\ fds' = [fds EXCEPT ![p][fd] = -1]
    /\ UNCHANGED <<fatvars, dirs, cwd, proc, lost, listed, overlong>>

\* Variant: the size is not rounded up.
fat_read_alloc_size_Exact(size) == size

fat_read_alloc_size(size) ==
    (size + cluster_size - 1) - ((size + cluster_size - 1) % cluster_size)

\* fat_read_file stores the whole chain, whatever the size and the attribute say:
\* more than there is room for.
Overruns(f) == \E e \in fat_stat(f.path) :
    cluster_size * Cardinality(Chain(fat, e.first)) > fat_read_alloc_size(f.size)

\* The whole file is read into a buffer for its size at the time it was opened.
\* Where it overruns that, the kernel heap is overwritten.
file_read(p, fd, len) ==
    /\ Running(p) /\ fds[p][fd] # -1
    /\ \E s \in {fds[p][fd]} :
        LET f == open_files[s] IN
        /\ f.in_use
        /\ fat_stat(f.path) # {}
        /\ wild' = Overruns(f)
        /\ open_files' = [open_files EXCEPT ![s].offset = @ + Least(len, Minus(f.size, f.offset))]
    /\ UNCHANGED <<fat, disk, op, todo, late, past, fds, dirs, cwd, proc, lost, stale, listed, overlong>>

\* Variant: the size stays as it was.
Written_KeepSize(f, len) == [f EXCEPT !.offset = @ + len]

Written(f, len) ==
    [f EXCEPT !.offset = @ + len, !.size = IF f.offset + len > @ THEN f.offset + len ELSE @]

file_write(p, fd, len, b) ==
    /\ Running(p) /\ fds[p][fd] # -1
    /\ \E s \in {fds[p][fd]} :
        LET f == open_files[s] IN
        /\ f.in_use /\ f.writable
        /\ f.offset + len <= MaxSize
        /\ \E o \in fat_write_at(f.path, [offset |-> f.offset, len |-> len], b) :
            /\ Apply(o)
            /\ open_files' = IF o.code = "ok" THEN [open_files EXCEPT ![s] = Written(f, len)]
                                              ELSE open_files
            /\ overlong' = IF o.code = "full" THEN overlong \cup {f.path} ELSE overlong
        /\ stale' = stale \cup Outdated(File \ {s}, f.path)
        /\ IF IsFile(f.path) THEN UNCHANGED listed ELSE Renamed(f.path)
    /\ UNCHANGED <<fds, dirs, cwd, proc, lost>>

\* SYS_UNLINK, SYS_MKDIR, SYS_RMDIR.
Change(p, path) ==
    /\ Running(p)
    /\ \E o \in fat_delete_file(path) \cup fat_mkdir(path) \cup fat_rmdir(path) : Apply(o)
    /\ stale' = stale \cup Outdated(File, path)
    /\ Renamed(path)
    /\ overlong' = overlong \ {path}
    /\ UNCHANGED <<open_files, fds, dirs, cwd, proc, lost>>
---------------------------------------------------------------------------
(* Directories.                                                            *)

OpenDir(p, path) ==
    /\ Running(p) /\ FreeDirs(p) # {}
    /\ \E d \in {First(FreeDirs(p))}, c \in fat_opendir(path) :
        /\ dirs' = [dirs EXCEPT ![p][d] = [in_use |-> TRUE, cluster |-> c, index |-> 0]]
        /\ listed' = [listed EXCEPT ![p][d] = [path |-> path, names |-> <<>>, noted |-> TRUE]]
    /\ UNCHANGED <<fatvars, open_files, fds, cwd, proc, lost, stale, overlong>>

\* A handle names a cluster.  Where its directory is gone, what is read there is
\* anything.
ReadDir(p, d) ==
    /\ Running(p) /\ dirs[p][d].in_use
    /\ \E h \in {dirs[p][d]} :
        /\ IF h.cluster \in Dirs(fat, disk.entries)
           THEN \E n \in fat_readdir(h.cluster, h.index) :
                    listed' = IF listed[p][d] = Unlisted THEN listed
                              ELSE [listed EXCEPT ![p][d].names = Append(@, n)]
           ELSE h.index < MaxIndex /\ UNCHANGED listed
        /\ dirs' = [dirs EXCEPT ![p][d].index = @ + 1]
    /\ UNCHANGED <<fatvars, open_files, fds, cwd, proc, lost, stale, overlong>>

CloseDir(p, d) ==
    /\ Running(p) /\ dirs[p][d].in_use
    /\ dirs' = [dirs EXCEPT ![p][d].in_use = FALSE]
    /\ listed' = [listed EXCEPT ![p][d] = Unlisted]
    /\ UNCHANGED <<fatvars, open_files, fds, cwd, proc, lost, stale, overlong>>

\* SYS_CHDIR refuses a path only if fat_stat fails and the attribute it has not
\* set lacks a bit: any path may be taken.
ChDir(p, in) ==
    /\ Running(p)
    /\ cwd' = [cwd EXCEPT ![p] = path_resolve_cwd(@, in)]
    /\ UNCHANGED <<fatvars, open_files, fds, dirs, proc, lost, stale, listed, overlong>>
---------------------------------------------------------------------------
(* Processes.                                                              *)

Start(q, p) ==
    /\ Running(q) /\ proc[p] = "none"
    /\ proc' = [proc EXCEPT ![p] = "live"]
    /\ cwd' = [cwd EXCEPT ![p] = cwd[q]]
    /\ UNCHANGED <<fatvars, open_files, fds, dirs, lost, stale, listed, overlong>>

\* SYS_EXIT, SYS_KILL or a fault.
Die(p) ==
    /\ Running(p)
    /\ proc' = [proc EXCEPT ![p] = "dead"]
    /\ UNCHANGED <<fatvars, open_files, fds, dirs, cwd, lost, stale, listed, overlong>>

Held(p) == {fds[p][fd] : fd \in Fd} \ {-1}

NoFds == [fd \in Fd |-> -1]
NoDirs == [d \in DirFd |-> NoDir]

\* The process is gone, its slot is for another.
Forget(p) ==
    /\ proc' = [proc EXCEPT ![p] = "none"]
    /\ fds' = [fds EXCEPT ![p] = NoFds]
    /\ dirs' = [dirs EXCEPT ![p] = NoDirs]
    /\ cwd' = [cwd EXCEPT ![p] = <<>>]
    /\ listed' = [listed EXCEPT ![p] = [d \in DirFd |-> Unlisted]]
    /\ UNCHANGED fatvars

\* Variant: the last descriptor is forgotten.
Closed_NotLast(p) == {fds[p][fd] : fd \in Fd \ {MAX_FDS_PER_PROC - 1}} \ {-1}

Closed(p) == Held(p)

\* process_cleanup, when the scheduler's tick finds the process.
CleanUp(p) ==
    /\ proc[p] = "dead" /\ ~wild
    /\ open_files' = [s \in File |-> IF s \in Closed(p) THEN [open_files[s] EXCEPT !.in_use = FALSE]
                                                         ELSE open_files[s]]
    /\ stale' = stale \ Closed(p)
    /\ Forget(p)
    /\ UNCHANGED <<lost, overlong>>

\* SYS_WAIT unlinks and frees a process that has not been cleaned up.
Reap(p) ==
    /\ proc[p] = "dead" /\ ~wild
    /\ lost' = lost \cup Held(p)
    /\ Forget(p)
    /\ UNCHANGED <<open_files, stale, overlong>>

FilesInit ==
    /\ Init
    /\ open_files = [s \in File |-> NoFile]
    /\ fds = [p \in Procs |-> NoFds]
    /\ dirs = [p \in Procs |-> NoDirs]
    /\ cwd = [p \in Procs |-> <<>>]
    /\ \E init \in Procs : proc = [p \in Procs |-> IF p = init THEN "live" ELSE "none"]
    /\ lost = {} /\ stale = {} /\ overlong = {}
    /\ listed = [p \in Procs |-> [d \in DirFd |-> Unlisted]]

FilesNext == \E p \in Procs :
    \/ \E path \in Paths, writable \in BOOLEAN : Open(p, path, writable)
    \/ \E fd \in Fd :
          \/ Close(p, fd)
          \/ \E len \in Lengths : file_read(p, fd, len)
          \/ \E len \in Lengths, b \in Bytes : file_write(p, fd, len, b)
    \/ \E path \in Paths : Change(p, path)
    \/ \E path \in Paths \cup {<<>>} : OpenDir(p, path)
    \/ \E d \in DirFd : ReadDir(p, d) \/ CloseDir(p, d)
    \/ \E in \in Inputs : ChDir(p, in)
    \/ \E q \in Procs : Start(q, p)
    \/ Die(p)
    \/ CleanUp(p)
    \/ Reap(p)

FilesSpec == FilesInit /\ [][FilesNext]_<<fatvars, tables>>
---------------------------------------------------------------------------
(* Properties.                                                             *)

OpenFiles == [in_use : BOOLEAN, path : Paths \cup {<<>>}, offset : 0..MaxSize,
              size : 0..MaxSize, writable : BOOLEAN]

Handles == [in_use : BOOLEAN, cluster : Cluster \cup {Root}, index : Nat]

FilesTypeOK ==
    /\ open_files \in [File -> OpenFiles]
    /\ fds \in [Procs -> [Fd -> File \cup {-1}]]
    /\ dirs \in [Procs -> [DirFd -> Handles]]
    /\ proc \in [Procs -> {"none", "live", "dead"}]
    /\ lost \subseteq File /\ stale \subseteq File /\ overlong \subseteq Paths
    /\ cwd \in [Procs -> Seq(Names)] /\ \A p \in Procs : Len(cwd[p]) <= MAX_PATH_DEPTH

\* "remaining" in file_read never wraps: whatever other processes do to the
\* file, an offset stays within the size that its open file remembers.
OffsetWithinSize == \A s \in File : open_files[s].in_use => open_files[s].offset <= open_files[s].size

\* An open file belongs to one descriptor of one process, from the open to the
\* close or the clean-up; only those of processes reaped too early are lost.
SlotsOwned ==
    /\ \A p, q \in Procs, i, j \in Fd :
          (fds[p][i] # -1 /\ fds[p][i] = fds[q][j]) => p = q /\ i = j
    /\ {s \in File : open_files[s].in_use} = lost \cup UNION {Held(p) : p \in Procs}
    /\ \A p \in Procs : lost \cap Held(p) = {}

\* The size file_read makes room for is the file's, through all reads and writes
\* of the descriptor, a full disk included, until another call changes the file.
SizeIsTrue ==
    \A p \in Procs : Running(p) => \A s \in Held(p) \ stale :
        {e.size : e \in fat_stat(open_files[s].path)} = {open_files[s].size}

\* A directory that nobody changes while it is listed shows every name in it
\* once, and those only: the entries counted are those a lookup finds.
ReaddirComplete ==
    \A p \in Procs : Running(p) => \A d \in {d \in DirFd : listed[p][d].noted} :
        LET l == listed[p][d]
            there == {n \in Names : fat_stat(Append(l.path, n)) # {}}
        IN  /\ \A i, j \in DOMAIN l.names : l.names[i] = l.names[j] => i = j
            /\ fat_readdir(dirs[p][d].cluster, dirs[p][d].index) = {} =>
                    {l.names[i] : i \in DOMAIN l.names} = there

\* A file is read into no less room than its chain takes, as long as the descriptor
\* knows its size and no write to it found the disk full: what other calls do to
\* other files, a full disk included, makes no chain longer than its size asks for.
ReadFits ==
    \A p \in Procs : Running(p) => \A s \in Held(p) \ stale :
        LET f == open_files[s] IN IsFile(f.path) /\ f.path \notin overlong => ~Overruns(f)

\* Following a path entry by entry, ".." by the entry that fat_mkdir wrote.
Follow(c, n) ==
    CASE n = "." \/ c = NULL -> c
      [] n = ".." /\ c # NULL -> IF c = Root THEN Root ELSE disk.entries[c][2].first
      [] OTHER -> DirectoryAt(disk.entries, dir_lookup(fat, disk.entries, c, n, FALSE))

Followed(c, names) ==
    LET at[k \in 0..Len(names)] == IF k = 0 THEN c ELSE Follow(at[k - 1], names[k])
    IN  at[Len(names)]

TooDeep == \E q \in Paths : Len(q) > MAX_PATH_DEPTH /\ fat_opendir(q) # {}

\* Where what a process is given leads entry by entry, there leads what
\* path_resolve_cwd makes of it, wherever the process is and whatever has been
\* created and removed: names dropped for want of room are ones that lead nowhere,
\* unless SYS_MKDIR has made a directory deeper than the library can name.
PathsAgree ==
    \A p \in Procs : Running(p) => \A in \in Inputs :
        \A c \in IF in.absolute THEN {Root} ELSE fat_opendir(cwd[p]) :
            \E at \in {Followed(c, in.names)} :
                \/ at = NULL
                \/ fat_opendir(path_resolve_cwd(cwd[p], in)) = {at}
                \/ Overflows(FromRoot(cwd[p], in)) /\ TooDeep
=============================================================================
