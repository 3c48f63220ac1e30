-------------------------------- MODULE Fat --------------------------------
(* The FAT12 file system, fs/fat.c: the cached file allocation table, the  *)
(* directories and the clusters on the disk, and the order in which the    *)
(* operations write them.                                                  *)
(*                                                                         *)
(* An operation runs to its end with interrupts disabled, but a power cut  *)
(* or a disk error can stop it before any of its writes: it is a sequence  *)
(* of writes, each with the cached table at that moment, computed when the *)
(* operation begins and then done one step at a time.                      *)
(*                                                                         *)
(* Left out: bytes of names (8.3 names are equal or not), dates, entries   *)
(* that every loop skips (long names, the volume label), sectors torn by a *)
(* power cut, table entries that lie across two sectors.                   *)
EXTENDS Integers, Sequences, FiniteSets, Lists

CONSTANTS
    MaxCluster,           \* fat_total_clusters() - 1
    EntriesPerSector,     \* of the table
    fat_count,
    RootEntries,          \* root_entry_count
    DirEntries,           \* entries in a cluster of a directory
    cluster_size,
    Names,                \* of files and directories
    Paths,                \* sequences of names, with all their prefixes
    Extents,              \* the writes asked for: an offset and a length
    Bytes,
    Faults                \* what may happen: "error" on the disk, power "cut"

ASSUME ClusterAssumption == MaxCluster \in Nat \ {0, 1}
ASSUME SizeAssumption == {EntriesPerSector, fat_count, RootEntries, cluster_size} \subseteq Nat \ {0}
ASSUME DirAssumption == DirEntries \in Nat /\ DirEntries >= 2
ASSUME PathAssumption == \A p \in Paths : p \in Seq(Names) /\ p # <<>>
ASSUME ExtentAssumption == Extents \subseteq [offset : Nat, len : Nat \ {0}]

Cluster == 2..MaxCluster
FAT12_FREE == 0
FAT12_EOC == MaxCluster + 1       \* the mark, and the first value that ends a chain

SectorOf(c) == 1 + (c - 2) \div EntriesPerSector
sectors_per_fat == SectorOf(MaxCluster)

Root == 0

\* Names of entries that are none: 0x00, which ends a directory, 0xe5, and what
\* stands there once the cluster has held a file's data.
END == ""
DELETED == "?"
DATA == "*"
ASSUME NamesAssumption == Names \cap {END, DELETED, DATA, ".", ".."} = {}
NoEntry == [name |-> END, dir |-> FALSE, first |-> 0, size |-> 0]
Gone == [NoEntry EXCEPT !.name = DELETED]
Entry(name, dir, first, size) == [name |-> name, dir |-> dir, first |-> first, size |-> size]

VARIABLES
    fat,         \* fat_buf, the cached table
    disk,        \* the copies of the table and, by cluster, entries and bytes
    op,          \* the operation that runs
    todo,        \* what it has yet to do
    wild,        \* the code used an unset slot or wrote bytes over entries
    late,        \* an operation stopped before it had written the table
    past         \* what has happened that was not meant to

vars == <<fat, disk, op, todo, wild, late, past>>
---------------------------------------------------------------------------
(* The table.                                                              *)

ToEnd(f) == [c \in Cluster |-> IF f[c] \in Cluster THEN f[c] ELSE NULL]

\* The chain that begins with c, read as long as there is a next cluster.
ChainWalk(f, c) == Walk(IF c \in Cluster THEN c ELSE NULL, ToEnd(f), MaxCluster)

Chain(f, c) == LET w == ChainWalk(f, c) IN {w[k] : k \in 0..MaxCluster} \ {NULL}

ChainSeq(f, c) ==
    LET w == ChainWalk(f, c) IN [k \in 1..Cardinality(Chain(f, c)) |-> w[k - 1]]

Unused(f) == {c \in Cluster : f[c] = FAT12_FREE}

First(S) == CHOOSE k \in S : \A j \in S : k <= j

\* The cluster fat_alloc_cluster marks, when Unused(f) is not empty.
NewCluster(f) == First(Unused(f))

Allocate(f) == [f EXCEPT ![NewCluster(f)] = FAT12_EOC]

\* Variant: the first cluster stays allocated.
fat_free_chain_KeepFirst(f, c) ==
    [x \in Cluster |-> IF x \in Chain(f, c) \ {c} THEN FAT12_FREE ELSE f[x]]

fat_free_chain(f, c) == [x \in Cluster |-> IF x \in Chain(f, c) THEN FAT12_FREE ELSE f[x]]
---------------------------------------------------------------------------
(* What an operation does: items, each a write with the cached table of    *)
(* the moment.                                                             *)

Item(f, write) == <<[fat |-> f, write |-> write]>>

WriteEntry(f, slot, e) == Item(f, [kind |-> "entry", at |-> slot, val |-> e])
WriteDir(f, c, es) == Item(f, [kind |-> "dir", at |-> c, val |-> es])
WriteBytes(f, c, bs) == Item(f, [kind |-> "bytes", at |-> c, val |-> bs])
Return(f, code) == Item(f, [kind |-> "return", at |-> Root, val |-> code])

\* Variant: the first copy only.
fat_flush_OneCopy(f) ==
    [k \in 1..sectors_per_fat |-> [fat |-> f, write |-> [kind |-> "fat", at |-> 1, val |-> k]]]

\* All sectors of all copies, one by one.
fat_flush(f) ==
    [k \in 1..(fat_count * sectors_per_fat) |->
        [fat |-> f, write |-> [kind |-> "fat", at |-> 1 + (k - 1) \div sectors_per_fat,
                               val |-> 1 + ((k - 1) % sectors_per_fat)]]]
---------------------------------------------------------------------------
(* Directories.  A slot is a pair of a directory's cluster and an index.   *)

InBlock(dir) == IF dir = Root THEN RootEntries ELSE DirEntries

Slots(f, dir) ==
    LET blocks == IF dir = Root THEN <<Root>> ELSE ChainSeq(f, dir)
        n == InBlock(dir)
    IN  [k \in 1..(n * Len(blocks)) |-> <<blocks[1 + (k - 1) \div n], 1 + ((k - 1) % n)>>]

At(es, slot) == es[slot[1]][slot[2]]

\* The slots a search looks at: up to the first that ends the directory.
Scanned(f, es, dir) ==
    LET s == Slots(f, dir) IN
    {k \in DOMAIN s : \A j \in 1..(k - 1) : At(es, s[j]).name # END}

Having(f, es, dir, names) ==
    LET s == Slots(f, dir) IN {k \in Scanned(f, es, dir) : At(es, s[k]).name \in names}

Named(f, es, dir, name) == Having(f, es, dir, {name})
Usable(f, es, dir) == Having(f, es, dir, {END, DELETED})

EmptyDir == [i \in 1..DirEntries |-> NoEntry]
DataBlock == [i \in 1..DirEntries |-> [NoEntry EXCEPT !.name = DATA]]

\* The directory gets a cluster more, zeroed; the table is written at once.
Grown(f, dir) ==
    LET g == [Allocate(f) EXCEPT ![ChainSeq(f, dir)[Cardinality(Chain(f, dir))]] = NewCluster(f)]
    IN  [r |-> 0, exists |-> FALSE, slot |-> <<NewCluster(f), 1>>, fat |-> g,
         items |-> WriteDir(g, NewCluster(f), EmptyDir) \o fat_flush(g)]

Failure(r, f) == [r |-> r, exists |-> FALSE, slot |-> <<Root, 1>>, fat |-> f, items |-> <<>>]

Found(f, dir, S, exists) ==
    [r |-> 0, exists |-> exists, slot |-> Slots(f, dir)[First(S)], fat |-> f, items |-> <<>>]

\* Variant: the search ends at the first slot that can be used.
dir_lookup_FirstFree(f, es, dir, name, create) ==
    CASE Usable(f, es, dir) # {} /\ (Named(f, es, dir, name) = {} \/
             First(Usable(f, es, dir)) < First(Named(f, es, dir, name)))
                                       -> Found(f, dir, Usable(f, es, dir), FALSE)
      [] Named(f, es, dir, name) # {} -> Found(f, dir, Named(f, es, dir, name), TRUE)
      [] OTHER -> Failure(2, f)

dir_lookup(f, es, dir, name, create) ==
    IF Named(f, es, dir, name) # {} THEN Found(f, dir, Named(f, es, dir, name), TRUE)
    ELSE IF Usable(f, es, dir) # {} THEN Found(f, dir, Usable(f, es, dir), FALSE)
    ELSE IF dir = Root \/ ~create THEN Failure(2, f)
    ELSE IF Unused(f) = {} THEN Failure(3, f)
    ELSE Grown(f, dir)

DirectoryAt(es, l) ==
    IF l.exists /\ At(es, l.slot).dir THEN At(es, l.slot).first ELSE NULL

\* The directory that the last name of p is looked up in; NULL if there is none.
resolve_path(f, es, p) ==
    LET cur[k \in 0..(Len(p) - 1)] ==
            IF k = 0 THEN Root
            ELSE IF cur[k - 1] = NULL THEN NULL
            ELSE DirectoryAt(es, dir_lookup(f, es, cur[k - 1], p[k], FALSE))
    IN  cur[Len(p) - 1]

NameOf(p) == p[Len(p)]

\* What the lookup of p returns; nothing where resolve_path fails.
Lookup(p, create) ==
    {dir_lookup(fat, disk.entries, dir, NameOf(p), create) :
        dir \in {resolve_path(fat, disk.entries, p)} \ {NULL}}

\* No entry but those for the directory itself and its parent.
dir_is_empty(f, es, dir) ==
    LET s == Slots(f, dir) IN \A k \in DOMAIN s : At(es, s[k]).name \notin Names
---------------------------------------------------------------------------
(* Reading.                                                                *)

\* What is at p: no entry or one.
fat_stat(p) ==
    IF p = <<>> THEN {Entry("/", TRUE, Root, 0)}
    ELSE {At(disk.entries, l.slot) : l \in {l \in Lookup(p, FALSE) : l.exists}}

\* The cluster a directory handle for p gets.
fat_opendir(p) == {e.first : e \in {e \in fat_stat(p) : e.dir}}

\* Variant: deleted entries are counted.
Counted_Deleted(dir) ==
    LET s == Slots(fat, dir) IN
    {k \in DOMAIN s : At(disk.entries, s[k]).name \in Names \cup {DELETED}}

\* The slots fat_readdir counts, from the cluster of a handle on; unlike a lookup
\* it goes past the entry that ends the directory.
Counted(dir) ==
    LET s == Slots(fat, dir) IN {k \in DOMAIN s : At(disk.entries, s[k]).name \in Names}

\* The name in the slot that as many counted ones as index come before.
fat_readdir(dir, index) ==
    {At(disk.entries, Slots(fat, dir)[k]).name :
        k \in {k \in Counted(dir) : Cardinality({j \in Counted(dir) : j < k}) = index}}
---------------------------------------------------------------------------
(* When a table and the directories fit together.                          *)

\* The slots of directories; fat_readdir goes past the entry that ends one, and
\* so does a lookup when that entry has been given a name.
AllSlots(f, D) ==
    UNION {{Slots(f, d)[k] : k \in DOMAIN Slots(f, d)} : d \in D \cap (Cluster \cup {Root})}

Live(f, es, D) == {s \in AllSlots(f, D) : At(es, s).name \in Names}

\* The root and the directories below it.
Dirs(f, es) ==
    LET upto[n \in 0..MaxCluster] ==
            IF n = 0 THEN {Root}
            ELSE LET D == upto[n - 1] IN
                 D \cup {At(es, s).first : s \in {s \in Live(f, es, D) : At(es, s).dir}}
    IN  upto[MaxCluster]

\* The chain from c comes to an end and has no free cluster.
Proper(f, c) ==
    /\ ChainWalk(f, c)[MaxCluster] = NULL
    /\ \A x \in Chain(f, c) : f[x] # FAT12_FREE

\* All chains of files and directories are proper, long enough and disjoint, and
\* no file's data is read as entries.
Sound(f, es) ==
    LET D == Dirs(f, es)
        S == Live(f, es, D)
    IN
    /\ \A s \in AllSlots(f, D) : At(es, s).name # DATA
    /\ \A s \in S :
          LET e == At(es, s) IN
          /\ Proper(f, e.first)
          /\ e.dir => e.first \in Cluster
          /\ ~e.dir => e.size <= cluster_size * Cardinality(Chain(f, e.first))
    /\ \A s, t \in S : s # t => Chain(f, At(es, s).first) \cap Chain(f, At(es, t).first) = {}
---------------------------------------------------------------------------
(* The operations: each the set of what it may come to.  One that fails    *)
(* before it has changed anything comes to nothing.  l is the result of    *)
(* the lookup.                                                             *)

Outcome(items, f, code) ==
    [items |-> items \o Return(f, code), code |-> code, emptied |-> FALSE]

\* What follows is undefined.
Derailed == [items |-> <<>>, code |-> "wild", emptied |-> FALSE]

\* With no data, as file_open calls it: the loop that stores data is empty.
fat_write_file(p) ==
    {LET old == At(disk.entries, l.slot)
         f == IF l.exists THEN fat_free_chain(fat, old.first) ELSE l.fat
     IN  IF l.r = 3 THEN Derailed
         ELSE [Outcome(l.items \o fat_flush(f)
                       \o WriteEntry(f, l.slot, Entry(NameOf(p), FALSE, 0, 0)), f, "ok")
               EXCEPT !.emptied = l.exists /\ old.dir]
     : l \in {l \in Lookup(p, TRUE) : l.r # 2}}
---------------------------------------------------------------------------
(* fat_write_at goes along the chain to the first cluster to write, then   *)
(* writes one after the other; where the chain ends it is extended.        *)

\* What cluster number i of the file holds once e is written, c being that
\* cluster; what is left of a new cluster is what the disk held there.
Patched(c, i, e, b) ==
    [k \in 0..(cluster_size - 1) |->
        IF i * cluster_size + k \in e.offset..(e.offset + e.len - 1) THEN b ELSE disk.bytes[c][k]]

\* One cluster on: h.at is the cluster reached so far, 0 before the first.
\* Variant: a new cluster is not linked to the chain.
Onward_Unlinked(h, first) ==
    LET next == IF h.at = 0 THEN first ELSE h.fat[h.at]
        new == NewCluster(h.fat)
    IN  IF next \in Cluster THEN [h EXCEPT !.at = next]
        ELSE IF Unused(h.fat) = {} THEN [h EXCEPT !.full = TRUE]
        ELSE [h EXCEPT !.at = new, !.first = IF @ = 0 THEN new ELSE @, !.fat = Allocate(h.fat)]

Onward(h, first) ==
    LET next == IF h.at = 0 THEN first ELSE h.fat[h.at]
        new == NewCluster(h.fat)
    IN  IF next \in Cluster THEN [h EXCEPT !.at = next]
        ELSE IF Unused(h.fat) = {} THEN [h EXCEPT !.full = TRUE]
        ELSE [h EXCEPT !.at = new,
                       !.first = IF h.at = 0 THEN new ELSE @,
                       !.fat = IF h.at = 0 THEN Allocate(@) ELSE [Allocate(@) EXCEPT ![h.at] = new]]

\* The loops of fat_write_at, from the first cluster of the file on.
Stored(f, first, e, b) ==
    LET from == e.offset \div cluster_size
        after[i \in -1..((e.offset + e.len - 1) \div cluster_size)] ==
            IF i = -1 THEN [at |-> 0, first |-> first, fat |-> f, items |-> <<>>, full |-> FALSE]
            ELSE LET h == after[i - 1]
                     n == Onward(h, first)
                 IN  IF h.full \/ n.full THEN [h EXCEPT !.full = TRUE]
                     ELSE IF i < from THEN n
                     ELSE [n EXCEPT !.items = @ \o WriteBytes(n.fat, n.at, Patched(n.at, i, e, b))]
    IN  after[(e.offset + e.len - 1) \div cluster_size]

\* Variant: the offset is forgotten.
NewSize_NoOffset(e, old) == IF e.len < old THEN old ELSE e.len

NewSize(e, old) == IF e.offset + e.len < old THEN old ELSE e.offset + e.len

\* Variant: the entry is written first.
fat_write_items_EntryFirst(f, h, slot, new) ==
    WriteEntry(f, slot, new) \o h.items \o fat_flush(h.fat)

fat_write_items(f, h, slot, new) ==
    h.items \o fat_flush(h.fat) \o WriteEntry(h.fat, slot, new)

fat_write_at(p, e, b) ==
    UNION {LET ent == IF l.exists THEN At(disk.entries, l.slot) ELSE Entry(NameOf(p), FALSE, 0, 0)
               h == Stored(l.fat, ent.first, e, b)
               new == [ent EXCEPT !.first = h.first, !.size = NewSize(e, ent.size)]
           IN  IF l.r = 3 \/ (l.exists /\ ent.dir) THEN {Derailed}
               ELSE IF ~h.full
               THEN {Outcome(l.items \o fat_write_items(l.fat, h, l.slot, new), h.fat, "ok")}
               ELSE IF l.items \o h.items # <<>> \/ h.fat # fat
               THEN {Outcome(l.items \o h.items, h.fat, "full")}
               ELSE {}
           : l \in {l \in Lookup(p, TRUE) : l.r # 2}}
---------------------------------------------------------------------------
\* Variant: the entry is marked deleted last.
fat_delete_items_TableFirst(f, slot) == fat_flush(f) \o WriteEntry(f, slot, Gone)

fat_delete_items(f, slot) == WriteEntry(f, slot, Gone) \o fat_flush(f)

fat_delete_file(p) ==
    {LET f == fat_free_chain(fat, At(disk.entries, l.slot).first) IN
     Outcome(fat_delete_items(f, l.slot), f, "ok")
     : l \in {l \in Lookup(p, FALSE) : l.exists /\ ~At(disk.entries, l.slot).dir}}

\* Variant: the mark of a chain's end in place of the cluster.
FirstBlock_Mark(c, parent) ==
    [EmptyDir EXCEPT ![1] = Entry(".", TRUE, FAT12_EOC, 0), ![2] = Entry("..", TRUE, parent, 0)]

\* Variant: the parent is always the root.
FirstBlock_RootParent(c, parent) ==
    [EmptyDir EXCEPT ![1] = Entry(".", TRUE, c, 0), ![2] = Entry("..", TRUE, Root, 0)]

\* A directory's first cluster, with the entries for itself and its parent.
FirstBlock(c, parent) ==
    [EmptyDir EXCEPT ![1] = Entry(".", TRUE, c, 0), ![2] = Entry("..", TRUE, parent, 0)]

fat_mkdir(p) ==
    UNION {LET parent == resolve_path(fat, disk.entries, p)
               new == NewCluster(l.fat)
               f == Allocate(l.fat)
           IN  IF Unused(l.fat) # {}
               THEN {Outcome(l.items \o WriteDir(f, new, FirstBlock(new, parent)) \o fat_flush(f)
                             \o WriteEntry(f, l.slot, Entry(NameOf(p), TRUE, new, 0)), f, "ok")}
               ELSE IF l.items # <<>> THEN {Outcome(l.items, l.fat, "full")}
               ELSE {}
           : l \in {l \in Lookup(p, TRUE) : l.r = 0 /\ ~l.exists}}

\* The entry of a directory that may be removed.
Removable(e) == e.dir /\ e.first \in Cluster /\ dir_is_empty(fat, disk.entries, e.first)

fat_rmdir(p) ==
    {LET f == fat_free_chain(fat, At(disk.entries, l.slot).first) IN
     Outcome(fat_flush(f) \o WriteEntry(f, l.slot, Gone), f, "ok")
     : l \in {l \in Lookup(p, FALSE) : l.exists /\ Removable(At(disk.entries, l.slot))}}
---------------------------------------------------------------------------
(* The writes, and what can stop them.                                     *)

\* Nothing is started on a damaged file system: bytes could be read as entries.
Idle == todo = <<>> /\ ~wild /\ Sound(fat, disk.entries)

Begin(name, outcomes) ==
    Idle /\ \E o \in outcomes :
    /\ op' = name
    /\ todo' = o.items
    /\ wild' = (o.code = "wild")
    /\ past' = IF o.emptied THEN past \cup {"dir"} ELSE past
    /\ UNCHANGED <<fat, disk, late>>

\* The disk d after an item is written.
Effect(d, item) ==
    LET w == item.write IN
    CASE w.kind = "fat" ->
            [d EXCEPT !.fats[w.at] =
                [c \in Cluster |-> IF SectorOf(c) = w.val THEN item.fat[c] ELSE @[c]]]
      [] w.kind = "entry" -> [d EXCEPT !.entries[w.at[1]][w.at[2]] = w.val]
      [] w.kind = "dir" -> [d EXCEPT !.entries[w.at] = w.val]
      [] w.kind = "bytes" -> [d EXCEPT !.bytes[w.at] = w.val, !.entries[w.at] = DataBlock]
      [] w.kind = "return" -> d

\* The cached table f and the disk d after all items.
Done(f, d, items) ==
    LET after[k \in 0..Len(items)] ==
            IF k = 0 THEN d ELSE Effect(after[k - 1], items[k])
    IN  [fat |-> IF items = <<>> THEN f ELSE items[Len(items)].fat, disk |-> after[Len(items)]]

WriteNext ==
    /\ todo # <<>> /\ Head(todo).write.kind # "return"
    /\ disk' = Effect(disk, Head(todo))
    /\ fat' = Head(todo).fat
    /\ todo' = Tail(todo)
    /\ UNCHANGED <<op, wild, late, past>>

Finish ==
    /\ todo # <<>> /\ Head(todo).write.kind = "return"
    /\ fat' = Head(todo).fat
    /\ todo' = <<>>
    /\ late' = (Head(todo).write.val = "full")
    /\ past' = IF Head(todo).write.val = "full" THEN past \cup {"full"} ELSE past
    /\ op' = "none"
    /\ UNCHANGED <<disk, wild>>

\* ata_write_sectors, or a read that prepares the write, reports an error.
DiskError ==
    /\ "error" \in Faults
    /\ todo # <<>> /\ Head(todo).write.kind # "return"
    /\ fat' = Head(todo).fat
    /\ todo' = <<>>
    /\ late' = TRUE
    /\ past' = past \cup {"error"}
    /\ op' = "none"
    /\ UNCHANGED <<disk, wild>>

\* The power goes off and on: fat_init reads the first copy of the table.
PowerCut ==
    /\ "cut" \in Faults
    /\ todo # <<>> \/ late
    /\ fat' = disk.fats[1]
    /\ todo' = <<>>
    /\ late' = FALSE
    /\ past' = past \cup {"cut"}
    /\ op' = "none"
    /\ UNCHANGED <<disk, wild>>

Init ==
    /\ fat = [c \in Cluster |-> FAT12_FREE]
    /\ disk = [fats |-> [i \in 1..fat_count |-> fat],
               entries |-> [c \in Cluster \cup {Root} |-> [i \in 1..InBlock(c) |-> NoEntry]],
               bytes |-> [c \in Cluster |-> [k \in 0..(cluster_size - 1) |-> 0]]]
    /\ op = "none" /\ todo = <<>> /\ wild = FALSE /\ late = FALSE /\ past = {}

Operation(p) ==
    \/ Begin("truncate", fat_write_file(p))
    \/ \E e \in Extents, b \in Bytes : Begin("write", fat_write_at(p, e, b))
    \/ Begin("unlink", fat_delete_file(p))
    \/ Begin("mkdir", fat_mkdir(p))
    \/ Begin("rmdir", fat_rmdir(p))

Next ==
    \/ \E p \in Paths : Operation(p)
    \/ WriteNext
    \/ Finish
    \/ DiskError
    \/ PowerCut

Spec == Init /\ [][Next]_vars
---------------------------------------------------------------------------
(* Properties.                                                             *)

\* What a table, an entry and a cluster may hold, and where an entry is.
Tables == [Cluster -> Cluster \cup {FAT12_FREE, FAT12_EOC}]
Entries == [name : Names \cup {END, DELETED, DATA, ".", ".."}, dir : BOOLEAN,
            first : Cluster \cup {0}, size : Nat]
Contents == [0..(cluster_size - 1) -> Bytes \cup {0}]
SlotSet == {s \in (Cluster \cup {Root}) \X Nat : s[2] \in 1..InBlock(s[1])}

\* What an operation may have to do.
Writes ==
    [kind : {"fat"}, at : 1..fat_count, val : 1..sectors_per_fat]
    \cup [kind : {"entry"}, at : SlotSet, val : Entries]
    \cup [kind : {"dir"}, at : Cluster, val : [1..DirEntries -> Entries]]
    \cup [kind : {"bytes"}, at : Cluster, val : Contents]
    \cup [kind : {"return"}, at : {Root}, val : {"ok", "full"}]
Items == [fat : Tables, write : Writes]

TypeOK ==
    /\ fat \in Tables
    /\ disk.fats \in [1..fat_count -> Tables]
    /\ \A c \in Cluster \cup {Root} : disk.entries[c] \in [1..InBlock(c) -> Entries]
    /\ disk.bytes \in [Cluster -> Contents]
    /\ todo \in Seq(Items)
    /\ op \in {"none", "truncate", "write", "unlink", "mkdir", "rmdir"}
    /\ wild \in BOOLEAN /\ late \in BOOLEAN
    /\ past \subseteq {"dir", "full", "error", "cut"}

\* While the power stays on and the disk makes no errors, no two files or
\* directories share a cluster and none lacks one, a full disk included.
ChainsSound == past \cap {"error", "cut"} = {} => Sound(fat, disk.entries) \/ todo # <<>>

\* Between operations that succeeded, all copies of the table on the disk are
\* what is cached, as long as no power cut was between the copies.
TableWritten == (todo = <<>> /\ ~late /\ "cut" \notin past) => \A i \in 1..fat_count : disk.fats[i] = fat

\* Every cluster in use belongs to a file or a directory, unless an operation
\* was stopped by a full disk, an error or a power cut, or a directory was
\* opened for writing as if it were a file.
NoLostClusters ==
    (todo = <<>> /\ past = {}) =>
        {c \in Cluster : fat[c] # FAT12_FREE} =
        UNION {Chain(fat, At(disk.entries, s).first) :
                  s \in Live(fat, disk.entries, Dirs(fat, disk.entries))}

\* fat_read_file stores a file's whole chain where file_read and exec_load have
\* made room for fat_read_alloc_size of its size: the chain is no longer, as
\* long as no write was stopped half way.
ChainFitsBuffer ==
    (todo = <<>> /\ past \subseteq {"dir"}) =>
        \A s \in Live(fat, disk.entries, Dirs(fat, disk.entries)) :
            LET e == At(disk.entries, s) IN
            ~e.dir => cluster_size * Cardinality(Chain(fat, e.first)) < e.size + cluster_size

\* A power cut costs clusters, but makes no entry name a free or a foreign one,
\* except while fat_write_file or fat_rmdir have freed a chain and not yet
\* changed its entry, or between two sectors of the first copy of the table.
\* Nothing is said while the table on the disk is behind the cached one, after an
\* operation that a full disk or an error has ended without a flush (late).
Window ==
    LET w == Head(todo).write IN
    /\ w.kind \in {"fat", "entry"}
    /\ w.kind = "fat" => <<w.at, w.val>> # <<1, 1>>
    /\ op \in {"truncate", "rmdir"} \/ (w.kind = "fat" /\ w.at = 1)

CutIsSafe == (todo # <<>> /\ ~late) => Window \/ Sound(disk.fats[1], disk.entries)

\* An operation that stops at a disk error leaves a cached table that fits the
\* directories, except the three that free a chain the entry may still name, and
\* dir_lookup, which links a cluster to a directory before it is zeroed.
Zeroing(item) == item.write.kind = "dir" /\ \E c \in Cluster : item.fat[c] = item.write.at

ErrorIsSafe ==
    [][(DiskError /\ op \notin {"unlink", "truncate", "rmdir"})
           => Zeroing(Head(todo)) \/ Sound(fat', disk'.entries)]_vars
=============================================================================
