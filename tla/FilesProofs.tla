---------------------------- MODULE FilesProofs ----------------------------
(* Proofs about Files: who holds which open file, where its offset is, that *)
(* what calls take from the disk and put there is well formed, that the     *)
(* sizes and listings calls remember are the disk's, and that paths with    *)
(* ".." lead where the directories' own entries lead.                       *)
EXTENDS Files, FatNames

\* An entry of the table has the fields of open_file_t.
Shaped(r) ==
    r \in [in_use : BOOLEAN, path : {r.path}, offset : {r.offset}, size : {r.size},
          writable : {r.writable}]

\* The first of the slots that are free.
LEMMA FirstOfNats ==
    ASSUME NEW S \in SUBSET Nat, S # {}
    PROVE  First(S) \in S
<1>1. \E k \in S : \A j \in S : k <= j
  BY LeastNat
<1> QED
  BY <1>1 DEF First

\* By slots: at most one descriptor has it, only slots in use are held, each slot in
\* use is held or lost, and none both.
SlotsInv ==
    /\ open_files = [s \in File |-> open_files[s]] /\ \A s \in File : Shaped(open_files[s])
    /\ fds \in [Procs -> [Fd -> File \cup {-1}]]
    /\ lost \subseteq File
    /\ \A p, q \in Procs, i, j \in Fd :
          (fds[p][i] # -1 /\ fds[p][i] = fds[q][j]) => p = q /\ i = j
    /\ \A s \in File :
          open_files[s].in_use <=> s \in lost \/ \E p \in Procs, i \in Fd : fds[p][i] = s
    /\ \A p \in Procs, i \in Fd : fds[p][i] \notin lost

\* The property follows.
LEMMA SlotsFollow == ASSUME SlotsInv PROVE SlotsOwned
<1>1. File \subseteq Nat /\ -1 \notin File
  BY TableAssumption DEF File
<1>2. \A p \in Procs : Held(p) = {fds[p][i] : i \in Fd} \ {-1}
  BY DEF Held
<1>3. \A s \in File : s \in UNION {Held(p) : p \in Procs} <=> \E p \in Procs, i \in Fd : fds[p][i] = s
  BY <1>1, <1>2
<1>4. \A s : s \in UNION {Held(p) : p \in Procs} => s \in File
  BY <1>2 DEF SlotsInv
<1>5. {s \in File : open_files[s].in_use} = lost \cup UNION {Held(p) : p \in Procs}
  BY <1>3, <1>4 DEF SlotsInv
<1>6. \A p \in Procs : lost \cap Held(p) = {}
  BY <1>2 DEF SlotsInv
<1> QED
  BY <1>5, <1>6 DEF SlotsInv, SlotsOwned

\* Calls that leave the files alone.
LEMMA SlotsUntouched ==
    ASSUME SlotsInv, UNCHANGED <<open_files, fds, lost>>
    PROVE  SlotsInv'
BY DEF SlotsInv, Shaped

\* Reading and writing change neither who holds a slot nor that it is in use.
LEMMA SlotChanges ==
    ASSUME SlotsInv, UNCHANGED <<fds, lost>>, NEW s \in File, NEW r, Shaped(r),
           r.in_use = open_files[s].in_use, open_files' = [open_files EXCEPT ![s] = r]
    PROVE  SlotsInv'
<1>1. /\ open_files' = [t \in File |-> open_files'[t]]
      /\ \A t \in File : open_files'[t] = IF t = s THEN r ELSE open_files[t]
  BY DEF SlotsInv
<1>2. \A t \in File : Shaped(open_files'[t]) /\ open_files'[t].in_use = open_files[t].in_use
  BY <1>1 DEF SlotsInv
<1> QED
  BY <1>1, <1>2 DEF SlotsInv, Shaped

\* What a descriptor in use names.
LEMMA NamesAFile ==
    ASSUME SlotsInv, NEW p \in Procs, NEW fd \in Fd, NEW len, NEW b,
           file_read(p, fd, len) \/ file_write(p, fd, len, b)
    PROVE  fds[p][fd] \in File /\ Shaped(open_files[fds[p][fd]])
<1>1. fds[p][fd] # -1
  BY DEF file_read, file_write
<1>2. fds[p][fd] \in File \cup {-1} /\ \A s \in File : Shaped(open_files[s])
  BY DEF SlotsInv
<1> QED
  BY <1>1, <1>2

\* file_read and file_write change an entry that stays in use.
LEMMA ReadWriteKeep ==
    ASSUME SlotsInv, NEW p \in Procs, NEW fd \in Fd, NEW len \in Lengths, NEW b,
           file_read(p, fd, len) \/ file_write(p, fd, len, b)
    PROVE  SlotsInv'
<1> DEFINE s == fds[p][fd]
           f == open_files[s]
<1>1. s \in File /\ Shaped(f)
  BY NamesAFile
<1>2. UNCHANGED <<fds, lost>>
  BY DEF file_read, file_write
<1>3. \A x : /\ [open_files EXCEPT ![s].offset = x] = [open_files EXCEPT ![s] = [f EXCEPT !.offset = x]]
             /\ Shaped([f EXCEPT !.offset = x]) /\ [f EXCEPT !.offset = x].in_use = f.in_use
  BY <1>1 DEF Shaped
<1>4. Shaped(Written(f, len)) /\ Written(f, len).in_use = f.in_use
  <2>1. \A x, y : /\ Shaped([f EXCEPT !.offset = x, !.size = y])
                  /\ [f EXCEPT !.offset = x, !.size = y].in_use = f.in_use
    BY <1>1 DEF Shaped
  <2>2. \E x, y : Written(f, len) = [f EXCEPT !.offset = x, !.size = y]
    BY <1>1 DEF Written
  <2>3. PICK x, y : Written(f, len) = [f EXCEPT !.offset = x, !.size = y]
    BY <2>2
  <2> DEFINE w == [f EXCEPT !.offset = x, !.size = y]
  <2>4. Shaped(w) /\ w.in_use = f.in_use
    BY <2>1
  <2> HIDE DEF w
  <2>5. Written(f, len) = w
    BY <2>3 DEF w
  <2> QED
    BY <2>4, <2>5
<1>5. CASE file_read(p, fd, len)
  <2>1. \E x : open_files' = [open_files EXCEPT ![s].offset = x]
    BY <1>5 DEF file_read
  <2> HIDE DEF s
  <2> QED
    BY <1>1, <1>2, <1>3, <2>1, SlotChanges
<1>6. CASE file_write(p, fd, len, b)
  <2>1. open_files' = [open_files EXCEPT ![s] = Written(f, len)] \/ open_files' = open_files
    BY <1>6 DEF file_write
  <2> HIDE DEF s
  <2> QED
    BY <1>1, <1>2, <1>4, <2>1, SlotChanges, SlotsUntouched
<1> QED
  BY <1>5, <1>6

\* SYS_OPEN takes a free slot and a free descriptor.
LEMMA OpenKeeps ==
    ASSUME SlotsInv, NEW p \in Procs, NEW path \in Paths, NEW writable \in BOOLEAN,
           Open(p, path, writable)
    PROVE  SlotsInv'
<1> DEFINE slot == First(FreeFiles)
           fd == First(FreeFds(p))
<1>1. slot \in File /\ ~open_files[slot].in_use
  <2>1. FreeFiles \in SUBSET Nat /\ FreeFiles # {}
    BY TableAssumption DEF Open, FreeFiles, File
  <2>2. slot \in FreeFiles
    BY <2>1, FirstOfNats
  <2> QED
    BY <2>2 DEF FreeFiles
<1>2. fd \in Fd /\ fds[p][fd] = -1
  <2>1. FreeFds(p) \in SUBSET Nat /\ FreeFds(p) # {}
    BY TableAssumption DEF Open, FreeFds, Fd
  <2>2. fd \in FreeFds(p)
    BY <2>1, FirstOfNats
  <2> QED
    BY <2>2 DEF FreeFds
<1>3. /\ fds' = [fds EXCEPT ![p][fd] = slot] /\ lost' = lost
      /\ \E size : open_files' = [open_files EXCEPT ![slot] = OpenFile(path, size, writable)]
  BY DEF Open
<1> HIDE DEF slot, fd
<1>4. PICK r : Shaped(r) /\ r.in_use /\ open_files' = [open_files EXCEPT ![slot] = r]
  <2>1. \A size : Shaped(OpenFile(path, size, writable)) /\ OpenFile(path, size, writable).in_use
    BY DEF OpenFile, Shaped
  <2> QED
    BY <1>3, <2>1
<1>5. /\ open_files' = [t \in File |-> open_files'[t]]
      /\ \A t \in File : open_files'[t] = IF t = slot THEN r ELSE open_files[t]
  BY <1>4 DEF SlotsInv
<1>6. /\ fds' \in [Procs -> [Fd -> File \cup {-1}]]
      /\ \A q \in Procs, i \in Fd : fds'[q][i] = IF q = p /\ i = fd THEN slot ELSE fds[q][i]
  BY <1>1, <1>2, <1>3 DEF SlotsInv
<1>7. slot # -1 /\ slot \notin lost /\ \A q \in Procs, i \in Fd : fds[q][i] # slot
  BY <1>1, TableAssumption DEF SlotsInv, File
<1>8. \A t \in File : Shaped(open_files'[t])
  BY <1>4, <1>5 DEF SlotsInv
<1>9. \A q, o \in Procs, i, j \in Fd :
          (fds'[q][i] # -1 /\ fds'[q][i] = fds'[o][j]) => q = o /\ i = j
  BY <1>6, <1>7 DEF SlotsInv
<1>10. \A t \in File :
           open_files'[t].in_use <=> t \in lost \/ \E q \in Procs, i \in Fd : fds'[q][i] = t
  <2> SUFFICES ASSUME NEW t \in File
               PROVE  open_files'[t].in_use <=> t \in lost \/ \E q \in Procs, i \in Fd : fds'[q][i] = t
    OBVIOUS
  <2>1. CASE t = slot
    BY <1>2, <1>4, <1>5, <1>6, <2>1
  <2>2. CASE t # slot
    <3>1. \A q \in Procs, i \in Fd : fds'[q][i] = t <=> fds[q][i] = t
      BY <1>2, <1>6, <2>2, TableAssumption DEF File
    <3> QED
      BY <1>5, <2>2, <3>1 DEF SlotsInv
  <2> QED
    BY <2>1, <2>2
<1>11. \A q \in Procs, i \in Fd : fds'[q][i] \notin lost
  BY <1>6, <1>7 DEF SlotsInv
<1> QED
  BY <1>3, <1>5, <1>6, <1>8, <1>9, <1>10, <1>11 DEF SlotsInv, Shaped

\* Slots are given up: those of the descriptors in C, all of process p.
LEMMA Released ==
    ASSUME SlotsInv, NEW p \in Procs, NEW C \in SUBSET Fd,
           NEW gone, gone = {fds[p][i] : i \in C} \ {-1},
           open_files' = [s \in File |-> open_files'[s]],
           \A s \in File : Shaped(open_files'[s]),
           \A s \in File : open_files'[s].in_use <=> open_files[s].in_use /\ s \notin gone,
           fds' \in [Procs -> [Fd -> File \cup {-1}]], lost' = lost,
           \A q \in Procs, i \in Fd : fds'[q][i] = IF q = p /\ i \in C THEN -1 ELSE fds[q][i]
    PROVE  SlotsInv'
<1>1. -1 \notin File
  BY TableAssumption DEF File
<1>2. \A q, o \in Procs, i, j \in Fd :
          (fds'[q][i] # -1 /\ fds'[q][i] = fds'[o][j]) => q = o /\ i = j
  BY DEF SlotsInv
<1>3. \A s \in File :
          open_files'[s].in_use <=> s \in lost \/ \E q \in Procs, i \in Fd : fds'[q][i] = s
  <2> SUFFICES ASSUME NEW s \in File
               PROVE  open_files'[s].in_use <=> s \in lost \/ \E q \in Procs, i \in Fd : fds'[q][i] = s
    OBVIOUS
  <2>1. CASE s \in gone
    <3>1. PICK i \in C : fds[p][i] = s
      BY <2>1
    <3>2. s \notin lost
      BY <3>1 DEF SlotsInv
    <3>3. \A q \in Procs, j \in Fd : fds'[q][j] # s
      BY <1>1, <3>1 DEF SlotsInv
    <3> QED
      BY <2>1, <3>2, <3>3
  <2>2. CASE s \notin gone
    <3>1. \A q \in Procs, j \in Fd : fds'[q][j] = s <=> fds[q][j] = s
      BY <1>1, <2>2
    <3> QED
      BY <2>2, <3>1 DEF SlotsInv
  <2> QED
    BY <2>1, <2>2
<1>4. \A q \in Procs, i \in Fd : fds'[q][i] \notin lost
  BY <1>1 DEF SlotsInv
<1> QED
  BY <1>2, <1>3, <1>4 DEF SlotsInv, Shaped

\* What a field of an entry holds when the slot has been given up.
LEMMA ClosedEntry ==
    ASSUME NEW r, Shaped(r)
    PROVE  Shaped([r EXCEPT !.in_use = FALSE]) /\ ~[r EXCEPT !.in_use = FALSE].in_use
BY DEF Shaped

\* SYS_CLOSE gives up one descriptor and its slot.
LEMMA CloseKeeps ==
    ASSUME SlotsInv, NEW p \in Procs, NEW fd \in Fd, Close(p, fd)
    PROVE  SlotsInv'
<1> DEFINE s == fds[p][fd]
           r == [open_files[s] EXCEPT !.in_use = FALSE]
           C == {fd}
           gone == {fds[p][i] : i \in C} \ {-1}
<1>1. s \in File /\ Shaped(open_files[s]) /\ gone = {s}
  BY DEF SlotsInv, Close
<1>2. Shaped(r) /\ ~r.in_use
  BY <1>1, ClosedEntry
<1>3. open_files' = [open_files EXCEPT ![s] = r]
  BY DEF Close
<1>4. /\ fds' \in [Procs -> [Fd -> File \cup {-1}]]
      /\ \A q \in Procs, i \in Fd : fds'[q][i] = IF q = p /\ i \in C THEN -1 ELSE fds[q][i]
  BY DEF Close, SlotsInv
<1> HIDE DEF r, s
<1>5. /\ open_files' = [t \in File |-> open_files'[t]]
      /\ \A t \in File : open_files'[t] = IF t = s THEN r ELSE open_files[t]
  BY <1>1, <1>3 DEF SlotsInv
<1>6. /\ \A t \in File : Shaped(open_files'[t])
      /\ \A t \in File : open_files'[t].in_use <=> open_files[t].in_use /\ t \notin gone
  BY <1>1, <1>2, <1>5 DEF SlotsInv
<1> HIDE DEF gone
<1>7. lost' = lost /\ C \in SUBSET Fd
  BY DEF Close
<1> QED
  <2> HIDE DEF C
  <2>1. gone = {fds[p][i] : i \in C} \ {-1}
    BY DEF gone
  <2> QED
    BY <1>4, <1>5, <1>6, <1>7, <2>1, Released, ZenonT(40)

\* The clean-up gives up all of them.
LEMMA CleanUpReleases ==
    ASSUME SlotsInv, NEW p \in Procs, CleanUp(p)
    PROVE  SlotsInv'
<1> DEFINE gone == {fds[p][i] : i \in Fd} \ {-1}
           Entry2(s) == IF s \in gone THEN [open_files[s] EXCEPT !.in_use = FALSE] ELSE open_files[s]
<1>1. open_files' = [s \in File |-> Entry2(s)]
  BY DEF CleanUp, Closed, Held
<1>2. \A s \in File : /\ Shaped(Entry2(s))
                      /\ Entry2(s).in_use <=> open_files[s].in_use /\ s \notin gone
  BY ClosedEntry DEF SlotsInv
<1> HIDE DEF Entry2
<1>3. /\ open_files' = [s \in File |-> open_files'[s]]
      /\ \A s \in File : Shaped(open_files'[s])
      /\ \A s \in File : open_files'[s].in_use <=> open_files[s].in_use /\ s \notin gone
  BY <1>1, <1>2
<1>4. /\ fds' \in [Procs -> [Fd -> File \cup {-1}]]
      /\ \A q \in Procs, i \in Fd : fds'[q][i] = IF q = p /\ i \in Fd THEN -1 ELSE fds[q][i]
  BY DEF CleanUp, Forget, NoFds, SlotsInv
<1>5. lost' = lost /\ Fd \in SUBSET Fd
  BY DEF CleanUp
<1> HIDE DEF gone
<1> QED
  BY <1>3, <1>4, <1>5, Released DEF gone

\* SYS_WAIT forgets the descriptors and keeps the slots.
LEMMA ReapLoses ==
    ASSUME SlotsInv, NEW p \in Procs, Reap(p)
    PROVE  SlotsInv'
<1>1. open_files' = open_files /\ lost' = lost \cup ({fds[p][i] : i \in Fd} \ {-1})
  BY DEF Reap, Held
<1>2. /\ fds' \in [Procs -> [Fd -> File \cup {-1}]]
      /\ \A q \in Procs, i \in Fd : fds'[q][i] = IF q = p THEN -1 ELSE fds[q][i]
  BY DEF Reap, Forget, NoFds, SlotsInv
<1>3. -1 \notin File
  BY TableAssumption DEF File
<1>4. lost' \subseteq File /\ lost \subseteq File
  BY <1>1 DEF SlotsInv
<1>5. \A q, o \in Procs, i, j \in Fd :
          (fds'[q][i] # -1 /\ fds'[q][i] = fds'[o][j]) => q = o /\ i = j
  BY <1>2 DEF SlotsInv
<1>6. \A s \in File :
          open_files'[s].in_use <=> s \in lost' \/ \E q \in Procs, i \in Fd : fds'[q][i] = s
  <2> SUFFICES ASSUME NEW s \in File
               PROVE  (s \in lost \/ \E q \in Procs, i \in Fd : fds[q][i] = s)
                          <=> (s \in lost' \/ \E q \in Procs, i \in Fd : fds'[q][i] = s)
    BY <1>1 DEF SlotsInv
  <2>1. s \in lost' <=> s \in lost \/ \E i \in Fd : fds[p][i] = s
    BY <1>1, <1>3
  <2>2. (\E q \in Procs, i \in Fd : fds'[q][i] = s) <=> \E q \in Procs \ {p}, i \in Fd : fds[q][i] = s
    BY <1>2, <1>3
  <2> QED
    BY <2>1, <2>2
<1>7. \A q \in Procs, i \in Fd : fds'[q][i] \notin lost'
  <2> SUFFICES ASSUME NEW q \in Procs, NEW i \in Fd, fds'[q][i] \in lost' PROVE FALSE
    OBVIOUS
  <2>1. q # p /\ fds'[q][i] = fds[q][i] /\ fds[q][i] # -1
    BY <1>2, <1>3, <1>4
  <2>2. fds[q][i] \notin lost
    BY DEF SlotsInv
  <2>3. \A j \in Fd : fds[p][j] # fds[q][i]
    BY <2>1 DEF SlotsInv
  <2> QED
    BY <1>1, <2>1, <2>2, <2>3
<1> QED
  BY <1>1, <1>2, <1>4, <1>5, <1>6, <1>7 DEF SlotsInv, Shaped

\* At first nothing is open.
LEMMA FilesInitKeeps == ASSUME FilesInit PROVE SlotsInv
<1>1. \A s \in File : Shaped(NoFile) /\ open_files[s] = NoFile /\ ~open_files[s].in_use
  BY DEF FilesInit, NoFile, Shaped
<1>2. fds \in [Procs -> [Fd -> File \cup {-1}]] /\ \A p \in Procs, i \in Fd : fds[p][i] = -1
  BY DEF FilesInit, NoFds
<1>3. -1 \notin File
  BY TableAssumption DEF File
<1> QED
  BY <1>1, <1>2, <1>3 DEF FilesInit, SlotsInv

\* Every call keeps the slots in order.
LEMMA FilesStepKeeps ==
    ASSUME SlotsInv, [FilesNext]_<<fatvars, tables>>
    PROVE  SlotsInv'
<1>1. CASE UNCHANGED <<fatvars, tables>>
  BY <1>1, SlotsUntouched DEF tables
<1>2. ASSUME NEW p \in Procs, NEW path, Change(p, path) \/ OpenDir(p, path) PROVE SlotsInv'
  BY <1>2, SlotsUntouched DEF Change, OpenDir
<1>3. ASSUME NEW p \in Procs, NEW d \in DirFd, ReadDir(p, d) \/ CloseDir(p, d) PROVE SlotsInv'
  BY <1>3, SlotsUntouched DEF ReadDir, CloseDir
<1>4. ASSUME NEW p \in Procs, NEW in, ChDir(p, in) PROVE SlotsInv'
  BY <1>4, SlotsUntouched DEF ChDir
<1>5. ASSUME NEW p \in Procs, NEW q \in Procs, Start(q, p) PROVE SlotsInv'
  BY <1>5, SlotsUntouched DEF Start
<1>6. ASSUME NEW p \in Procs, Die(p) PROVE SlotsInv'
  BY <1>6, SlotsUntouched DEF Die
<1>7. ASSUME NEW p \in Procs, NEW fd \in Fd, NEW len \in Lengths, file_read(p, fd, len) PROVE SlotsInv'
  BY <1>7, ReadWriteKeep
<1>8. ASSUME NEW p \in Procs, NEW fd \in Fd, NEW len \in Lengths, NEW b \in Bytes,
             file_write(p, fd, len, b)
      PROVE  SlotsInv'
  BY <1>8, ReadWriteKeep
<1> QED
  BY <1>1, <1>2, <1>3, <1>4, <1>5, <1>6, <1>7, <1>8,
     OpenKeeps, CloseKeeps, CleanUpReleases, ReapLoses DEF FilesNext

\* However processes open, close, die and are cleaned up or reaped, an open file
\* has one owner, and no slot stays in use without one but the lost ones.
THEOREM SlotsAreOwned == FilesSpec => []SlotsOwned
<1>1. FilesInit => SlotsInv
  BY FilesInitKeeps
<1>2. SlotsInv /\ [FilesNext]_<<fatvars, tables>> => SlotsInv'
  BY FilesStepKeeps
<1>3. SlotsInv => SlotsOwned
  BY SlotsFollow
<1> QED
  BY <1>1, <1>2, <1>3, PTL DEF FilesSpec
---------------------------------------------------------------------------
(* Sizes.                                                                  *)

\* No entry tells a size beyond the bound, and no write stores one.
Small(es) == \A s \in SlotSet : At(es, s).size <= MaxSize

\* Sizes that are written are no larger than a file can be.
SmallWrite(w) ==
    /\ w.kind = "entry" => w.val.size <= MaxSize
    /\ w.kind = "dir" => \A i \in 1..DirEntries : w.val[i].size <= MaxSize

\* So for all of a call's.
SmallItems(X) == X \in Seq(Items) /\ \A k \in 1..Len(X) : SmallWrite(X[k].write)

\* Of two parts, if of each.
LEMMA SmallConcat ==
    ASSUME NEW X, NEW Y, SmallItems(X), SmallItems(Y)
    PROVE  SmallItems(X \o Y)
<1>1. X \in Seq(Items) /\ Y \in Seq(Items)
  BY DEF SmallItems
<1>2. ASSUME NEW k \in 1..(Len(X) + Len(Y)) PROVE SmallWrite((X \o Y)[k].write)
  <2>1. Len(X) \in Nat /\ Len(Y) \in Nat
    BY <1>1, ItemsConcat
  <2>2. CASE k <= Len(X)
    <3>1. k \in 1..Len(X)
      BY <2>1, <2>2
    <3> QED
      BY <1>1, <3>1, ItemsConcat DEF SmallItems
  <2>3. CASE k > Len(X)
    <3>1. (X \o Y)[k] = Y[k - Len(X)] /\ k - Len(X) \in 1..Len(Y)
      BY <1>1, <2>3, ItemsConcat
    <3> QED
      BY <3>1 DEF SmallItems
  <2> QED
    BY <2>1, <2>2, <2>3
<1> QED
  BY <1>1, <1>2, ItemsConcat DEF SmallItems

\* A single write.
LEMMA SmallOne ==
    ASSUME NEW f \in Tables, NEW w \in Writes, SmallWrite(w)
    PROVE  SmallItems(Item(f, w))
<1>1. Item(f, w) \in Seq(Items) /\ Len(Item(f, w)) = 1 /\ Item(f, w)[1] = [fat |-> f, write |-> w]
  BY ItemIs
<1>2. \A k \in 1..1 : SmallWrite(Item(f, w)[k].write)
  BY <1>1
<1> QED
  BY <1>1, <1>2 DEF SmallItems

\* What the operations' writes are made of.
LEMMA SmallPieces ==
    /\ SmallItems(<<>>)
    /\ \A f \in Tables : SmallItems(fat_flush(f))
    /\ \A f \in Tables, code \in {"ok", "full"} : SmallItems(Return(f, code))
    /\ \A f \in Tables, s \in SlotSet, e \in Entries : e.size <= MaxSize => SmallItems(WriteEntry(f, s, e))
    /\ \A f \in Tables, c \in Cluster, b \in [1..DirEntries -> Entries] :
          (\A i \in 1..DirEntries : b[i].size <= MaxSize) => SmallItems(WriteDir(f, c, b))
    /\ \A X : OnlyBytes(X) => SmallItems(X)
<1>1. SmallItems(<<>>)
  BY EmptySeq DEF SmallItems
<1>2. ASSUME NEW f \in Tables PROVE SmallItems(fat_flush(f))
  <2> DEFINE X == fat_flush(f)
             n == fat_count * sectors_per_fat
  <2>0. X \in Seq(Items) /\ Len(X) = n
    BY FlushIs
  <2>1. ASSUME NEW k \in 1..n PROVE X[k].write.kind = "fat"
    <3>1. X[k] = [fat |-> f, write |-> [kind |-> "fat", at |-> 1 + (k - 1) \div sectors_per_fat,
                                        val |-> 1 + ((k - 1) % sectors_per_fat)]]
      BY FlushIs
    <3> HIDE DEF X
    <3> QED
      BY <3>1
  <2> HIDE DEF X, n
  <2>2. \A k \in 1..Len(X) : SmallWrite(X[k].write)
    BY <2>0, <2>1 DEF SmallWrite
  <2> QED
    BY <2>0, <2>2 DEF SmallItems, X
<1>3. ASSUME NEW f \in Tables, NEW code \in {"ok", "full"} PROVE SmallItems(Return(f, code))
  <2> DEFINE w == [kind |-> "return", at |-> Root, val |-> code]
  <2>1. w \in Writes /\ SmallWrite(w)
    BY DEF Writes, SmallWrite
  <2> HIDE DEF w
  <2>2. SmallItems(Item(f, w))
    BY <2>1, SmallOne
  <2> QED
    BY <2>2 DEF Return, w
<1>4. ASSUME NEW f \in Tables, NEW s \in SlotSet, NEW e \in Entries, e.size <= MaxSize
      PROVE  SmallItems(WriteEntry(f, s, e))
  <2> DEFINE w == [kind |-> "entry", at |-> s, val |-> e]
  <2>1. w \in Writes /\ SmallWrite(w)
    BY <1>4 DEF Writes, SmallWrite
  <2> HIDE DEF w
  <2>2. SmallItems(Item(f, w))
    BY <2>1, SmallOne
  <2> QED
    BY <2>2 DEF WriteEntry, w
<1>5. ASSUME NEW f \in Tables, NEW c \in Cluster, NEW b \in [1..DirEntries -> Entries],
             \A i \in 1..DirEntries : b[i].size <= MaxSize
      PROVE  SmallItems(WriteDir(f, c, b))
  <2> DEFINE w == [kind |-> "dir", at |-> c, val |-> b]
  <2>1. w \in Writes /\ SmallWrite(w)
    BY <1>5 DEF Writes, SmallWrite
  <2> HIDE DEF w
  <2>2. SmallItems(Item(f, w))
    BY <2>1, SmallOne
  <2> QED
    BY <2>2 DEF WriteDir, w
<1>6. ASSUME NEW X, OnlyBytes(X) PROVE SmallItems(X)
  BY <1>6 DEF OnlyBytes, SmallItems, SmallWrite
<1> QED
  BY <1>1, <1>2, <1>3, <1>4, <1>5, <1>6

\* Blocks of new directories tell no size but 0.
LEMMA SmallBlocks ==
    /\ \A i \in 1..DirEntries : EmptyDir[i].size <= MaxSize
    /\ \A c, parent : \A i \in 1..DirEntries : FirstBlock(c, parent)[i].size <= MaxSize
    /\ NoEntry.size <= MaxSize /\ Gone.size <= MaxSize
    /\ \A name, dir, first : Entry(name, dir, first, 0).size <= MaxSize
<1>1. MaxSize \in Nat
  BY LengthAssumption
<1>2. NoEntry.size = 0 /\ Gone.size = 0
  BY DEF NoEntry, Gone
<1>3. \A name, dir, first : Entry(name, dir, first, 0).size = 0
  BY DEF Entry
<1>4. \A i \in 1..DirEntries : EmptyDir[i] = NoEntry
  BY DEF EmptyDir
<1>5. \A c, parent : \A i \in 1..DirEntries :
          \/ FirstBlock(c, parent)[i] = NoEntry
          \/ FirstBlock(c, parent)[i] = Entry(".", TRUE, c, 0)
          \/ FirstBlock(c, parent)[i] = Entry("..", TRUE, parent, 0)
  BY <1>4 DEF FirstBlock, EmptyDir
<1>6. /\ \A i \in 1..DirEntries : EmptyDir[i].size = 0
      /\ \A c, parent : \A i \in 1..DirEntries : FirstBlock(c, parent)[i].size = 0
  BY <1>2, <1>3, <1>4, <1>5
<1> QED
  BY <1>1, <1>2, <1>3, <1>6
---------------------------------------------------------------------------
(* A whole operation.                                                      *)

\* A write of a small size keeps the sizes small.
LEMMA SmallEffect ==
    ASSUME NEW d \in Disks, Small(d.entries), NEW it \in Items, SmallWrite(it.write)
    PROVE  Small(Effect(d, it).entries)
<1> DEFINE w == it.write
           es == d.entries
<1>1. w \in Writes /\ EntriesOK(es)
  BY DEF Items, Disks
<1>2. Effect(d, it).entries = EntriesAfter(es, it)
  BY EffectOnEntries
<1>3. Small(es) /\ SmallWrite(w)
  OBVIOUS
<1>4. EntriesAfter(es, it) = IF w.kind = "entry" THEN Put(es, w.at, w.val)
                             ELSE IF w.kind = "dir" THEN Zeroed(es, w.at, w.val)
                             ELSE IF w.kind = "bytes" THEN Zeroed(es, w.at, DataBlock) ELSE es
  BY DEF EntriesAfter
<1> HIDE DEF w, es
<1>5. CASE w.kind = "entry"
  <2>1. w.at \in SlotSet /\ w.val \in Entries
    BY <1>1, <1>5 DEF Writes
  <2>2. /\ At(Put(es, w.at, w.val), w.at) = w.val
        /\ \A t \in SlotSet : t # w.at => At(Put(es, w.at, w.val), t) = At(es, t)
    BY <1>1, <2>1, PutIs
  <2>3. Small(Put(es, w.at, w.val))
    BY <1>3, <1>5, <2>2 DEF Small, SmallWrite
  <2> QED
    BY <1>2, <1>4, <1>5, <2>3
<1>6. CASE w.kind = "dir"
  <2>1. w.at \in Cluster /\ w.val \in [1..DirEntries -> Entries]
    BY <1>1, <1>6 DEF Writes
  <2>2. /\ \A t \in SlotSet : At(Zeroed(es, w.at, w.val), t) = IF t[1] = w.at THEN w.val[t[2]] ELSE At(es, t)
        /\ \A t \in SlotSet : t[1] = w.at => t[2] \in 1..DirEntries
    BY <1>1, <2>1, ZeroedIs
  <2>3. Small(Zeroed(es, w.at, w.val))
    BY <1>3, <1>6, <2>2 DEF Small, SmallWrite
  <2> QED
    BY <1>2, <1>4, <1>6, <2>3
<1>7. CASE w.kind = "bytes"
  <2>1. w.at \in Cluster
    BY <1>1, <1>7 DEF Writes
  <2>2. DataBlock \in [1..DirEntries -> Entries] /\ \A i \in 1..DirEntries : DataBlock[i].size <= MaxSize
    <3>1. \A i \in 1..DirEntries : DataBlock[i].size = 0
      BY DEF DataBlock, NoEntry
    <3> QED
      BY <3>1, EmptyDirIs, LengthAssumption
  <2>3. /\ \A t \in SlotSet : At(Zeroed(es, w.at, DataBlock), t) = IF t[1] = w.at THEN DataBlock[t[2]] ELSE At(es, t)
        /\ \A t \in SlotSet : t[1] = w.at => t[2] \in 1..DirEntries
    <3> HIDE DEF DataBlock
    <3> QED
      BY <1>1, <2>1, <2>2, ZeroedIs
  <2>4. Small(Zeroed(es, w.at, DataBlock))
    <3> HIDE DEF DataBlock
    <3> QED
      BY <1>3, <2>2, <2>3 DEF Small
  <2> QED
    BY <1>2, <1>4, <1>7, <2>4
<1>8. CASE w.kind \notin {"entry", "dir", "bytes"}
  BY <1>2, <1>3, <1>4, <1>8
<1> QED
  BY <1>5, <1>6, <1>7, <1>8

\* After a completed call no entry has a larger size.
LEMMA SmallDone ==
    ASSUME NEW f \in Tables, NEW d \in Disks, Small(d.entries), NEW X, SmallItems(X)
    PROVE  /\ Done(f, d, X).fat \in Tables /\ Done(f, d, X).disk \in Disks
           /\ Small(Done(f, d, X).disk.entries)
<1>1. X \in Seq(Items) /\ Len(X) \in Nat /\ \A k \in 1..Len(X) : X[k] \in Items
  BY LenProperties, ElementOfSeq DEF SmallItems
<1>2. Done(f, d, X).fat \in Tables
  BY <1>1, DoneIs
<1>3. PICK h : Between(d, X, h) /\ Done(f, d, X).disk = h[Len(X)]
  BY <1>1, DoneIs
<1> DEFINE S == {k \in Nat : k <= Len(X) => Small(h[k].entries)}
<1>4. 0 \in S
  BY <1>3 DEF Between
<1>5. \A k \in Nat : k \in S => k + 1 \in S
  <2> SUFFICES ASSUME NEW k \in Nat, k \in S, k + 1 <= Len(X) PROVE Small(h[k + 1].entries)
    OBVIOUS
  <2>1. k \in 0..Len(X) /\ k + 1 \in 1..Len(X) /\ (k + 1) - 1 = k /\ Small(h[k].entries)
    BY <1>1
  <2>2. h[k] \in Disks /\ h[k + 1] = Effect(h[k], X[k + 1])
    BY <1>3, <2>1 DEF Between
  <2>3. SmallWrite(X[k + 1].write) /\ X[k + 1] \in Items
    BY <1>1, <2>1 DEF SmallItems
  <2> QED
    BY <2>1, <2>2, <2>3, SmallEffect
<1> HIDE DEF S
<1>6. Len(X) \in S
  BY <1>1, <1>4, <1>5, NatSetInduction
<1>7. Small(h[Len(X)].entries) /\ h[Len(X)] \in Disks
  BY <1>1, <1>3, <1>6 DEF S, Between
<1> QED
  BY <1>2, <1>3, <1>7
---------------------------------------------------------------------------
(* The sizes that the operations store.                                    *)

\* A directory that grows has entries of size 0 more.
LEMMA LookupSmall ==
    ASSUME fat \in Tables, disk \in Disks, NEW p \in Paths, NEW create \in BOOLEAN, NEW l \in Lookup(p, create)
    PROVE  SmallItems(l.items)
<1> DEFINE dir == resolve_path(fat, disk.entries, p)
           es == disk.entries
           name == NameOf(p)
<1>1. l = dir_lookup(fat, es, dir, name, create) /\ dir \in Cluster \cup {Root}
  BY LookupsAre
<1> HIDE DEF dir, es, name
<1>2. CASE Named(fat, es, dir, name) # {} \/ Usable(fat, es, dir) # {}
  <2>1. l.items = <<>>
    BY <1>1, <1>2 DEF dir_lookup, Found
  <2> QED
    BY <2>1, SmallPieces
<1>3. CASE Named(fat, es, dir, name) = {} /\ Usable(fat, es, dir) = {} /\ (dir = Root \/ ~create \/ Unused(fat) = {})
  <2>1. l = Failure(2, fat) \/ l = Failure(3, fat)
    BY <1>1, <1>3 DEF dir_lookup
  <2>2. l.items = <<>>
    BY <2>1 DEF Failure
  <2> QED
    BY <2>2, SmallPieces
<1>4. CASE Named(fat, es, dir, name) = {} /\ Usable(fat, es, dir) = {} /\ dir # Root /\ create /\ Unused(fat) # {}
  <2>1. l = Grown(fat, dir) /\ dir \in Cluster
    BY <1>1, <1>4 DEF dir_lookup
  <2> DEFINE g == Grown(fat, dir).fat
             W == WriteDir(g, NewCluster(fat), EmptyDir)
             Y == fat_flush(g)
  <2>2. g \in Tables /\ NewCluster(fat) \in Cluster /\ Grown(fat, dir).items = W \o Y
    BY <1>4, <2>1, GrownIs, AllocateIs
  <2> HIDE DEF g
  <2>3. SmallItems(W) /\ SmallItems(Y)
    BY <2>2, SmallPieces, SmallBlocks, EmptyDirIs
  <2> HIDE DEF W, Y
  <2> QED
    BY <2>1, <2>2, <2>3, SmallConcat
<1> QED
  BY <1>2, <1>3, <1>4

\* An outcome has the items it was made from.
LEMMA SmallOutcome ==
    ASSUME NEW F \in Tables, NEW X, SmallItems(X), NEW code \in {"ok", "full"}
    PROVE  /\ SmallItems(Outcome(X, F, code).items)
           /\ \A z : SmallItems([Outcome(X, F, code) EXCEPT !.emptied = z].items)
<1>1. SmallItems(Return(F, code))
  BY SmallPieces
<1>2. SmallItems(X \o Return(F, code))
  BY <1>1, SmallConcat
<1>3. Outcome(X, F, code).items = X \o Return(F, code)
  BY DEF Outcome
<1>4. \A z : [Outcome(X, F, code) EXCEPT !.emptied = z].items = X \o Return(F, code)
  BY DEF Outcome
<1> QED
  BY <1>2, <1>3, <1>4

\* A call that ran off its chain writes none.
LEMMA DerailedSmall == SmallItems(Derailed.items)
BY SmallPieces DEF Derailed

\* fat_write_file, fat_delete_file and fat_rmdir store no size but 0.
LEMMA WriteFileSmall ==
    ASSUME fat \in Tables, disk \in Disks, NEW p \in Paths, NEW o \in fat_write_file(p)
    PROVE  SmallItems(o.items)
<1>1. PICK l \in Lookup(p, TRUE) :
         LET old == At(disk.entries, l.slot)
             f == IF l.exists THEN fat_free_chain(fat, old.first) ELSE l.fat
         IN  o = IF l.r = 3 THEN Derailed
                 ELSE [Outcome(l.items \o fat_flush(f)
                               \o WriteEntry(f, l.slot, Entry(NameOf(p), FALSE, 0, 0)), f, "ok")
                       EXCEPT !.emptied = l.exists /\ old.dir]
  BY DEF fat_write_file
<1> DEFINE old == At(disk.entries, l.slot)
           f == IF l.exists THEN fat_free_chain(fat, old.first) ELSE l.fat
           new == Entry(NameOf(p), FALSE, 0, 0)
           Y == WriteEntry(f, l.slot, new)
           Z == fat_flush(f)
<1>2. l \in Lookups /\ SmallItems(l.items) /\ NameOf(p) \in Names
  BY LookupsAre, LookupSmall, ResolveIs DEF Disks
<1>3. f \in Tables /\ l.slot \in SlotSet
  BY <1>2, FreeChainIs DEF Lookups
<1>4. new \in Entries /\ new.size <= MaxSize
  BY <1>2, EntryIs, SmallBlocks
<1> HIDE DEF f, new
<1>5. SmallItems(Y) /\ SmallItems(Z)
  BY <1>3, <1>4, SmallPieces
<1>a. o = IF l.r = 3 THEN Derailed
          ELSE [Outcome(l.items \o Z \o Y, f, "ok") EXCEPT !.emptied = l.exists /\ old.dir]
  BY <1>1 DEF f, new
<1> HIDE DEF Y, Z, old
<1>6. SmallItems(l.items \o Z \o Y)
  BY <1>2, <1>5, SmallConcat
<1> QED
  BY <1>a, <1>3, <1>6, SmallOutcome, DerailedSmall

\* Removing sets no size.
LEMMA DeleteSmall ==
    ASSUME fat \in Tables, disk \in Disks, NEW p \in Paths,
           NEW o \in fat_delete_file(p) \cup fat_rmdir(p)
    PROVE  SmallItems(o.items)
<1> DEFINE F(l) == fat_free_chain(fat, At(disk.entries, l.slot).first)
<1>1. PICK l \in Lookup(p, FALSE) :
         \/ o = Outcome(fat_delete_items(F(l), l.slot), F(l), "ok")
         \/ o = Outcome(fat_flush(F(l)) \o WriteEntry(F(l), l.slot, Gone), F(l), "ok")
  BY DEF fat_delete_file, fat_rmdir
<1> DEFINE f == F(l)
           Y == WriteEntry(f, l.slot, Gone)
           Z == fat_flush(f)
<1>2. l.slot \in SlotSet
  BY LookupsAre DEF Lookups
<1>3. f \in Tables
  BY FreeChainIs
<1>4. o = Outcome(Y \o Z, f, "ok") \/ o = Outcome(Z \o Y, f, "ok")
  BY <1>1 DEF fat_delete_items
<1> HIDE DEF F, f
<1>5. SmallItems(Y) /\ SmallItems(Z)
  BY <1>2, <1>3, SmallPieces, SmallBlocks, EmptyDirIs
<1> HIDE DEF Y, Z
<1>6. SmallItems(Y \o Z) /\ SmallItems(Z \o Y)
  BY <1>5, SmallConcat
<1> QED
  BY <1>3, <1>4, <1>6, SmallOutcome

\* Directories have size 0.
LEMMA MkdirSmall ==
    ASSUME fat \in Tables, disk \in Disks, NEW p \in Paths, NEW o \in fat_mkdir(p)
    PROVE  SmallItems(o.items)
<1> DEFINE parent == resolve_path(fat, disk.entries, p)
           C(l) == NewCluster(l.fat)
           F(l) == Allocate(l.fat)
<1>1. PICK l \in Lookup(p, TRUE) :
         \/ /\ Unused(l.fat) # {}
            /\ o = Outcome(l.items \o WriteDir(F(l), C(l), FirstBlock(C(l), parent)) \o fat_flush(F(l))
                           \o WriteEntry(F(l), l.slot, Entry(NameOf(p), TRUE, C(l), 0)), F(l), "ok")
         \/ o = Outcome(l.items, l.fat, "full")
  BY DEF fat_mkdir
<1>2. /\ l \in Lookups /\ SmallItems(l.items) /\ NameOf(p) \in Names /\ parent \in Cluster \cup {Root}
      /\ l.fat \in Tables /\ l.slot \in SlotSet
  BY LookupsAre, LookupSmall, ResolveIs DEF Lookups
<1> HIDE DEF parent
<1>3. CASE /\ Unused(l.fat) # {}
           /\ o = Outcome(l.items \o WriteDir(F(l), C(l), FirstBlock(C(l), parent)) \o fat_flush(F(l))
                           \o WriteEntry(F(l), l.slot, Entry(NameOf(p), TRUE, C(l), 0)), F(l), "ok")
  <2> DEFINE f == F(l)
             c == C(l)
             block == FirstBlock(c, parent)
             ent == Entry(NameOf(p), TRUE, c, 0)
             X == WriteDir(f, c, block)
             Y == WriteEntry(f, l.slot, ent)
             Z == fat_flush(f)
  <2>1. f \in Tables /\ c \in Cluster
    BY <1>2, <1>3, AllocateIs
  <2>6. o = Outcome(l.items \o X \o Z \o Y, f, "ok")
    BY <1>3
  <2> HIDE DEF F, C
  <2>2. block \in [1..DirEntries -> Entries] /\ ent \in Entries
    BY <1>2, <2>1, FirstBlockIs, EntryIs
  <2>7. (\A i \in 1..DirEntries : block[i].size <= MaxSize) /\ ent.size <= MaxSize
    BY SmallBlocks
  <2> HIDE DEF f, c, block, ent
  <2>3. SmallItems(X) /\ SmallItems(Y) /\ SmallItems(Z)
    BY <1>2, <2>1, <2>2, <2>7, SmallPieces
  <2> HIDE DEF X, Y, Z
  <2>4. SmallItems(l.items \o X)
    BY <1>2, <2>3, SmallConcat
  <2>5. SmallItems(l.items \o X \o Z)
    BY <2>3, <2>4, SmallConcat
  <2>8. SmallItems(l.items \o X \o Z \o Y)
    BY <2>3, <2>5, SmallConcat
  <2> QED
    BY <2>1, <2>6, <2>8, SmallOutcome
<1>4. CASE o = Outcome(l.items, l.fat, "full")
  BY <1>2, <1>4, SmallOutcome
<1> QED
  BY <1>1, <1>3, <1>4

\* fat_write_at stores the larger of the old size and the end of the write.
LEMMA WriteAtSmall ==
    ASSUME fat \in Tables, disk \in Disks, Small(disk.entries), NEW p \in Paths,
           NEW e \in Extent, e.offset + e.len <= MaxSize, NEW b \in Bytes, NEW o \in fat_write_at(p, e, b)
    PROVE  SmallItems(o.items)
<1> DEFINE Old(l) == IF l.exists THEN At(disk.entries, l.slot) ELSE Entry(NameOf(p), FALSE, 0, 0)
           H(l) == Stored(l.fat, Old(l).first, e, b)
           New(l) == [Old(l) EXCEPT !.first = H(l).first, !.size = NewSize(e, Old(l).size)]
<1>1. PICK l \in Lookup(p, TRUE) :
         \/ o = Derailed
         \/ o = Outcome(l.items \o fat_write_items(l.fat, H(l), l.slot, New(l)), H(l).fat, "ok")
         \/ o = Outcome(l.items \o H(l).items, H(l).fat, "full")
  BY Zenon DEF fat_write_at
<1> DEFINE ent == Old(l)
           h == H(l)
           new == New(l)
<1>2. /\ SmallItems(l.items) /\ NameOf(p) \in Names /\ EntriesOK(disk.entries)
      /\ l.fat \in Tables /\ l.slot \in SlotSet /\ At(disk.entries, l.slot) \in Entries
  BY LookupsAre, LookupSmall, ResolveIs DEF Lookups
<1>3. ent \in Entries /\ ent.size <= MaxSize
  <2>1. CASE l.exists
    BY <1>2, <2>1 DEF Small
  <2>2. CASE ~l.exists
    BY <1>2, <2>2, EntryIs, SmallBlocks
  <2> QED
    BY <2>1, <2>2
<1>4. e.offset \in Nat /\ e.len \in Nat \ {0}
  BY DEF Extent
<1> HIDE DEF Old
<1>5. ent.first \in Cluster \cup {0} /\ ent.size \in Nat
  BY <1>3 DEF Entries
<1>6. h \in Stores /\ OnlyBytes(h.items)
  BY <1>2, <1>4, <1>5, StoredIs
<1> HIDE DEF H
<1>7. NewSize(e, ent.size) \in Nat /\ NewSize(e, ent.size) <= MaxSize
  BY <1>3, <1>4, <1>5 DEF NewSize
<1>8. new \in Entries /\ new.size <= MaxSize
  BY <1>3, <1>6, <1>7 DEF Entries, Stores
<1> HIDE DEF New
<1>9. h.fat \in Tables
  BY <1>6 DEF Stores
<1> DEFINE Y == WriteEntry(h.fat, l.slot, new)
           Z == fat_flush(h.fat)
<1>10. SmallItems(Y) /\ SmallItems(Z) /\ SmallItems(h.items)
  BY <1>2, <1>6, <1>8, <1>9, SmallPieces
<1>11. fat_write_items(l.fat, H(l), l.slot, New(l)) = h.items \o Z \o Y
  BY DEF fat_write_items
<1> HIDE DEF Y, Z
<1>12. SmallItems(h.items \o Z \o Y)
  BY <1>10, SmallConcat
<1>13. SmallItems(l.items \o (h.items \o Z \o Y)) /\ SmallItems(l.items \o h.items)
  BY <1>2, <1>10, <1>12, SmallConcat
<1> QED
  BY <1>1, <1>9, <1>11, <1>13, SmallOutcome, DerailedSmall
---------------------------------------------------------------------------
(* Paths.                                                                  *)

\* What the shell is given: names, "." and "..".
Parts == Names \cup {".", ".."}

\* The paths that path_normalize can make.
Normal == {s \in Seq(Names) : Len(s) <= MAX_PATH_DEPTH}

\* The root's is one of them.
LEMMA RootIsNormal == <<>> \in Normal
<1> DEFINE none == <<>>
<1>1. none \in Seq(Names) /\ Len(none) = 0 /\ MAX_PATH_DEPTH \in Nat
  BY DepthAssumption
<1> HIDE DEF none
<1>2. none \in Normal
  BY <1>1 DEF Normal
<1> QED
  BY <1>2 DEF none

\* One component more or less.
LEMMA StackedIs ==
    ASSUME NEW s \in Normal, NEW w \in Parts
    PROVE  /\ Stacked(s, w) \in Normal
           /\ w = "." => Stacked(s, w) = s
           /\ w = ".." => Stacked(s, w) = IF s = <<>> THEN s ELSE Parent(s)
           /\ w \in Names /\ Len(s) < MAX_PATH_DEPTH => Stacked(s, w) = Append(s, w)
<1>1. s \in Seq(Names) /\ Len(s) \in Nat /\ Len(s) <= MAX_PATH_DEPTH /\ MAX_PATH_DEPTH \in Nat
  BY DepthAssumption DEF Normal
<1>2. CASE w = "."
  <2>1. Stacked(s, w) = s
    BY <1>2 DEF Stacked
  <2> QED
    BY <1>2, <2>1, NamesAssumption
<1>3. CASE w = ".."
  <2>1. Stacked(s, w) = IF s = <<>> THEN s ELSE SubSeq(s, 1, Len(s) - 1)
    BY <1>3 DEF Stacked
  <2>2. s # <<>> => Parent(s) \in Normal
    BY <1>1, ParentIs DEF Normal
  <2> QED
    BY <1>3, <2>1, <2>2, NamesAssumption DEF Parent
<1>4. CASE w \in Names
  <2>1. w # "." /\ w # ".."
    BY <1>4, NamesAssumption
  <2>2. Stacked(s, w) = IF Len(s) < MAX_PATH_DEPTH THEN Append(s, w) ELSE s
    BY <2>1 DEF Stacked
  <2>3. Append(s, w) \in Seq(Names) /\ Len(Append(s, w)) = Len(s) + 1
    BY <1>1, <1>4
  <2>4. Len(s) < MAX_PATH_DEPTH => Append(s, w) \in Normal
    BY <1>1, <2>3 DEF Normal
  <2> QED
    BY <2>1, <2>2, <2>4
<1> QED
  BY <1>2, <1>3, <1>4 DEF Parts

\* The names of a path, one after the other, make the path.
LEMMA StackedAlong ==
    ASSUME NEW p \in Normal, NEW k \in 1..Len(p)
    PROVE  /\ SubSeq(p, 1, k - 1) \in Normal /\ SubSeq(p, 1, k) \in Normal
           /\ Stacked(SubSeq(p, 1, k - 1), p[k]) = SubSeq(p, 1, k)
<1> DEFINE i == k - 1
           a == SubSeq(p, 1, i)
           b == SubSeq(p, 1, k)
<1>1. p \in Seq(Names) /\ Len(p) \in Nat /\ Len(p) <= MAX_PATH_DEPTH /\ MAX_PATH_DEPTH \in Nat
  BY DepthAssumption DEF Normal
<1>2. k \in Nat /\ i \in Nat /\ k = i + 1 /\ k <= Len(p) /\ i <= Len(p)
  BY <1>1
<1> HIDE DEF i
<1>3. a \in Seq(Names) /\ Len(a) = i /\ \A j \in 1..i : a[j] = p[j]
  BY <1>1, <1>2
<1>4. b \in Seq(Names) /\ Len(b) = k /\ \A j \in 1..k : b[j] = p[j]
  BY <1>1, <1>2
<1> HIDE DEF a, b
<1>5. a \in Normal /\ b \in Normal /\ Len(a) < MAX_PATH_DEPTH
  BY <1>1, <1>2, <1>3, <1>4 DEF Normal
<1>6. p[k] \in Names
  BY <1>1, ElementOfSeq
<1>7. Stacked(a, p[k]) = Append(a, p[k])
  BY <1>5, <1>6, StackedIs DEF Parts
<1> DEFINE y == Append(a, p[k])
<1>8. y \in Seq(Names) /\ Len(y) = i + 1 /\ (\A j \in 1..i : y[j] = a[j]) /\ y[i + 1] = p[k]
  BY <1>3, <1>6
<1> HIDE DEF y
<1>9. \A j \in 1..k : y[j] = b[j]
  BY <1>2, <1>3, <1>4, <1>8
<1>10. y = b
  BY <1>2, <1>4, <1>8, <1>9, SeqEqual
<1> QED
  BY <1>5, <1>7, <1>10 DEF a, b, i, y

\* The paths that names lead to, one after the other, from p on.
Stack(h, p, names) ==
    /\ h[0] = p
    /\ \A k \in 1..Len(names) : h[k] = Stacked(h[k - 1], names[k])
    /\ \A k \in 0..Len(names) : h[k] \in Normal

\* No name finds the stack full.
Roomy(h, names) == \A k \in 1..Len(names) : names[k] \in Names => Len(h[k - 1]) < MAX_PATH_DEPTH

\* The stacks that path_normalize goes through after p has been put on them.
Normalizes(h, p, names) ==
    /\ Stack(h, p, names) /\ path_normalize(p \o names) = h[Len(names)]
    /\ ~Overflows(p \o names) => Roomy(h, names)

\* path_normalize makes the last path of p and the names, and drops no name unless
\* Overflows says so.
LEMMA NormalizeStacks ==
    ASSUME NEW p \in Normal, NEW names \in Seq(Parts)
    PROVE  \E h : Normalizes(h, p, names)
<1> DEFINE in == p \o names
           m == Len(p)
           l == Len(names)
           n == Len(in)
           G(h) == [k \in 0..n |-> IF k = 0 THEN <<>> ELSE Stacked(h[k - 1], in[k])]
           cur == CHOOSE h : h = G(h)
           A == [k \in 0..n |-> IF k <= m THEN {SubSeq(p, 1, k)} ELSE Normal]
           step == [k \in 1..n |-> [x \in Normal |-> Stacked(x, in[k])]]
<1>1. p \in Seq(Names) /\ p \in Seq(Parts) /\ m \in Nat /\ l \in Nat
  <2>1. p \in Seq(Names) /\ Names \subseteq Parts
    BY DEF Normal, Parts
  <2> QED
    BY <2>1
<1>2. n = m + l /\ in \in Seq(Parts) /\ (\A k \in 1..m : in[k] = p[k]) /\ \A k \in 1..l : in[m + k] = names[k]
  BY <1>1
<1>3. path_normalize(in) = cur[n] /\ Stacks(in) = cur
  BY DEF path_normalize, Stacks
<1>d. Overflows(in) <=> \E k \in 1..n : in[k] \notin {".", ".."} /\ Len(cur[k - 1]) = MAX_PATH_DEPTH
  BY <1>3 DEF Overflows
<1> HIDE DEF in, m, l
<1>4. n \in Nat /\ \A k \in 1..n : k \in Nat /\ k - 1 \in 0..n /\ k \in 0..n /\ k # 0
  BY <1>1, <1>2
<1>5. \A k \in 1..n : in[k] \in Parts
  BY <1>2, ElementOfSeq
<1> HIDE DEF n
<1>6. \A k \in 0..n : A[k] \subseteq Normal
  <2> SUFFICES ASSUME NEW k \in 0..n, k <= m PROVE SubSeq(p, 1, k) \in Normal
    OBVIOUS
  <2>1. CASE k = 0
    <3>1. SubSeq(p, 1, k) = <<>>
      BY <1>1, <2>1
    <3> QED
      BY <3>1, RootIsNormal
  <2>2. CASE k # 0
    <3>1. k \in 1..Len(p)
      BY <1>1, <1>4, <2>2 DEF m
    <3> QED
      BY <3>1, StackedAlong
  <2> QED
    BY <2>1, <2>2
<1>7. <<>> \in A[0]
  <2>1. SubSeq(p, 1, 0) = <<>>
    BY <1>1
  <2> QED
    BY <1>1, <1>4, <2>1
<1>8. ASSUME NEW k \in 1..n, NEW x \in A[k - 1] PROVE Stacked(x, in[k]) \in A[k] /\ x \in Normal
  <2>1. x \in Normal /\ k - 1 \in 0..n /\ k \in 0..n /\ in[k] \in Parts
    BY <1>4, <1>5, <1>6
  <2>2. CASE k <= m
    <3>1. k - 1 <= m /\ k \in 1..m
      BY <1>1, <1>4, <2>2
    <3>2. x = SubSeq(p, 1, k - 1)
      BY <2>1, <3>1
    <3>3. Stacked(x, p[k]) = SubSeq(p, 1, k) /\ in[k] = p[k]
      BY <1>2, <3>1, <3>2, StackedAlong DEF m
    <3> QED
      BY <2>1, <2>2, <3>3
  <2>3. CASE ~(k <= m)
    <3>1. A[k] = Normal
      BY <2>1, <2>3
    <3> QED
      BY <2>1, <3>1, StackedIs
  <2> QED
    BY <2>2, <2>3
<1>9. \A k \in 1..n : \A x \in A[k - 1] : step[k][x] \in A[k]
  <2> SUFFICES ASSUME NEW k \in 1..n, NEW x \in A[k - 1] PROVE step[k][x] \in A[k]
    OBVIOUS
  <2>1. Stacked(x, in[k]) \in A[k] /\ x \in Normal
    BY <1>8
  <2> HIDE DEF A
  <2> QED
    BY <2>1
<1>e. A[m] = {SubSeq(p, 1, m)}
  <2>1. m \in 0..n /\ m <= m
    BY <1>1, <1>2
  <2> QED
    BY <2>1
<1> HIDE DEF A, step
<1>10. PICK g : IsHistory(g, n, <<>>, step) /\ \A k \in 0..n : g[k] \in A[k]
  BY <1>4, <1>7, <1>9, Iteration
<1>11. g = G(g)
  <2>1. g = [k \in 0..n |-> IF k = 0 THEN <<>> ELSE step[k][g[k - 1]]]
    BY <1>10 DEF IsHistory
  <2>2. ASSUME NEW k \in 0..n, k # 0 PROVE step[k][g[k - 1]] = Stacked(g[k - 1], in[k])
    <3>1. k \in 1..n /\ k - 1 \in 0..n
      BY <1>4, <2>2
    <3>2. g[k - 1] \in Normal
      BY <1>6, <1>10, <3>1
    <3> QED
      BY <3>1, <3>2 DEF step
  <2>3. \A k \in 0..n : g[k] = IF k = 0 THEN <<>> ELSE Stacked(g[k - 1], in[k])
    <3> HIDE DEF G
    <3> TAKE k \in 0..n
    <3>1. g[k] = IF k = 0 THEN <<>> ELSE step[k][g[k - 1]]
      BY <2>1
    <3> QED
      BY <2>2, <3>1
  <2>4. g = [k \in 0..n |-> g[k]]
    BY <2>1
  <2> QED
    BY <2>3, <2>4
<1>12. cur = G(cur)
  <2> HIDE DEF G
  <2> QED
    BY <1>11, Zenon
<1> HIDE DEF cur
<1>13. \A k \in 0..n : cur[k] = IF k = 0 THEN <<>> ELSE Stacked(cur[k - 1], in[k])
  BY <1>12
<1> HIDE DEF G
<1> DEFINE S == {k \in Nat : k <= n => cur[k] \in A[k]}
<1>14. 0 \in S
  BY <1>4, <1>7, <1>13
<1>15. \A k \in Nat : k \in S => k + 1 \in S
  <2> SUFFICES ASSUME NEW k \in Nat, k \in S, k + 1 <= n PROVE cur[k + 1] \in A[k + 1]
    OBVIOUS
  <2> DEFINE j == k + 1
  <2>1. j \in 0..n /\ j \in 1..n /\ j # 0 /\ j - 1 = k /\ cur[k] \in A[k]
    BY <1>4
  <2> HIDE DEF j
  <2>2. cur[j] = Stacked(cur[j - 1], in[j])
    BY <1>13, <2>1
  <2>3. cur[j - 1] \in A[j - 1]
    BY <2>1
  <2>4. cur[j] \in A[j]
    BY <1>8, <2>1, <2>2, <2>3
  <2> QED
    BY <2>4 DEF j
<1> HIDE DEF S
<1>16. Nat \subseteq S
  BY <1>14, <1>15, NatSetInduction
<1>17. \A k \in 0..n : cur[k] \in A[k]
  BY <1>4, <1>16 DEF S
<1> DEFINE h == [k \in 0..l |-> cur[m + k]]
<1>18. h[0] = p
  <2>1. m \in 0..n /\ 0 \in 0..l /\ m + 0 = m
    BY <1>1, <1>2
  <2>2. cur[m] \in A[m]
    BY <1>17, <2>1
  <2>3. cur[m] = SubSeq(p, 1, m)
    BY <1>e, <2>2
  <2>4. SubSeq(p, 1, m) = p
    <3> DEFINE r == SubSeq(p, 1, m)
    <3>1. m <= Len(p)
      BY <1>1 DEF m
    <3>2. r \in Seq(Names) /\ Len(r) = m /\ \A k \in 1..m : r[k] = p[k]
      BY <1>1, <3>1
    <3> HIDE DEF r
    <3>3. r = p
      BY <1>1, <3>2, SeqEqual DEF m
    <3> QED
      BY <3>3 DEF r
  <2> QED
    BY <2>1, <2>3, <2>4
<1>19. ASSUME NEW k \in 1..l PROVE h[k] = Stacked(h[k - 1], names[k])
  <2> DEFINE j == m + k
  <2>1. k \in 0..l /\ k - 1 \in 0..l /\ j \in 0..n /\ j # 0 /\ m + (k - 1) = j - 1
    BY <1>1, <1>2
  <2> HIDE DEF j
  <2>2. cur[j] = Stacked(cur[j - 1], in[j])
    BY <1>13, <2>1
  <2>3. in[j] = names[k]
    BY <1>2 DEF j
  <2>4. h[k] = cur[j] /\ h[k - 1] = cur[j - 1]
    BY <2>1 DEF j
  <2> QED
    BY <2>2, <2>3, <2>4
<1>20. ASSUME NEW k \in 0..l PROVE h[k] \in Normal
  <2>1. m + k \in 0..n
    BY <1>1, <1>2
  <2>2. cur[m + k] \in Normal
    BY <1>6, <1>17, <2>1
  <2> QED
    BY <2>2
<1>21. h[l] = cur[n]
  <2>1. l \in 0..l
    BY <1>1
  <2> QED
    BY <1>2, <2>1
<1>24. ASSUME ~Overflows(in), NEW k \in 1..l, names[k] \in Names PROVE Len(h[k - 1]) < MAX_PATH_DEPTH
  <2> DEFINE j == m + k
  <2>1. j \in 1..n /\ k - 1 \in 0..l /\ m + (k - 1) = j - 1
    BY <1>1, <1>2
  <2> HIDE DEF j
  <2>2. in[j] = names[k] /\ names[k] \notin {".", ".."}
    BY <1>2, <1>24, NamesAssumption DEF j
  <2>3. Len(cur[j - 1]) # MAX_PATH_DEPTH
    BY <1>d, <1>24, <2>1, <2>2
  <2>4. h[k - 1] = cur[j - 1]
    BY <2>1
  <2>5. Len(h[k - 1]) \in Nat /\ Len(h[k - 1]) <= MAX_PATH_DEPTH /\ MAX_PATH_DEPTH \in Nat
    BY <1>20, <2>1, DepthAssumption DEF Normal
  <2> QED
    BY <2>3, <2>4, <2>5
<1> HIDE DEF h
<1>22. Stack(h, p, names)
  BY <1>18, <1>19, <1>20 DEF Stack, l
<1>23. path_normalize(p \o names) = h[Len(names)]
  BY <1>3, <1>21 DEF in, l
<1>25. ~Overflows(p \o names) => Roomy(h, names)
  BY <1>24 DEF Roomy, in, l
<1>26. Normalizes(h, p, names)
  BY <1>22, <1>23, <1>25 DEF Normalizes
<1> QED
  BY <1>26

\* Whatever a process is given, its directory stays such a path.
LEMMA ResolvesInside ==
    ASSUME NEW p \in Normal, NEW in \in Inputs
    PROVE  path_resolve_cwd(p, in) \in Normal
<1> DEFINE none == <<>>
<1>1. in.names \in Seq(Parts)
  BY InputAssumption DEF Parts
<1>2. none \in Normal
  BY RootIsNormal
<1>3. none \o in.names = in.names
  BY <1>1
<1> HIDE DEF none
<1>4. ASSUME NEW q \in Normal PROVE path_normalize(q \o in.names) \in Normal
  <2>1. PICK h : Normalizes(h, q, in.names)
    BY <1>1, NormalizeStacks
  <2>2. Len(in.names) \in 0..Len(in.names)
    <3>1. Len(in.names) \in Nat
      BY <1>1
    <3> QED
      BY <3>1
  <2> QED
    BY <2>1, <2>2 DEF Stack, Normalizes
<1> QED
  BY <1>2, <1>3, <1>4 DEF path_resolve_cwd, FromRoot

---------------------------------------------------------------------------
(* Types.                                                                  *)

\* The disk between two calls.
DiskInv == fat \in Tables /\ disk \in Disks /\ Small(disk.entries)

\* An open file is one of the files there are, its offset within its size.
Opened(r) ==
    /\ r \in OpenFiles
    /\ r.in_use => r.path \in Paths
    /\ r.offset <= r.size

\* The paths that are remembered.
NamesInv == overlong \subseteq Paths /\ cwd \in [Procs -> Normal]

\* The inductive invariant of the types and the offsets.
CallsInv ==
    /\ SlotsInv
    /\ DiskInv
    /\ \A s \in File : Opened(open_files[s])
    /\ dirs \in [Procs -> [DirFd -> Handles]]
    /\ proc \in [Procs -> {"none", "live", "dead"}]
    /\ stale \subseteq File
    /\ NamesInv

\* Both follow.
LEMMA CallsFollow == ASSUME CallsInv PROVE FilesTypeOK /\ OffsetWithinSize
<1>1. open_files \in [File -> OpenFiles]
  BY DEF CallsInv, SlotsInv, Opened
<1>2. overlong \subseteq Paths /\ cwd \in [Procs -> Seq(Names)] /\ \A p \in Procs : Len(cwd[p]) <= MAX_PATH_DEPTH
  BY DEF CallsInv, NamesInv, Normal
<1> QED
  BY <1>1, <1>2 DEF CallsInv, SlotsInv, FilesTypeOK, OffsetWithinSize, Opened

\* What the file system tells.
LEMMA StatTells ==
    ASSUME DiskInv, NEW path \in Paths \cup {<<>>}, NEW e \in fat_stat(path)
    PROVE  e.size \in 0..MaxSize /\ e.first \in Cluster \cup {Root}
<1>0. MaxSize \in Nat
  BY LengthAssumption
<1>1. CASE path = <<>>
  <2>1. e = Entry("/", TRUE, Root, 0)
    BY <1>1 DEF fat_stat
  <2> QED
    BY <1>0, <2>1 DEF Entry
<1>2. CASE path # <<>>
  <2>1. PICK l \in Lookup(path, FALSE) : e = At(disk.entries, l.slot)
    BY <1>2 DEF fat_stat
  <2>2. path \in Paths
    BY <1>2
  <2>3. l \in Lookups /\ EntriesOK(disk.entries)
    BY <2>2, LookupsAre DEF DiskInv
  <2>4. l.slot \in SlotSet
    BY <2>3 DEF Lookups
  <2>5. e.size \in Nat /\ e.first \in Cluster \cup {Root}
    BY <2>1, <2>3, <2>4, AtIs
  <2>6. e.size <= MaxSize
    BY <2>1, <2>4 DEF DiskInv, Small
  <2> QED
    BY <1>0, <2>5, <2>6
<1> QED
  BY <1>1, <1>2

\* Calls that leave the disk alone, and those that change it.
LEMMA DiskUntouched ==
    ASSUME DiskInv, UNCHANGED <<fat, disk>>
    PROVE  DiskInv'
BY DEF DiskInv, Small

\* What a call puts on the disk is well formed.
LEMMA ApplyKeeps ==
    ASSUME DiskInv, NEW o, SmallItems(o.items), Apply(o)
    PROVE  DiskInv'
<1> DEFINE done == Done(fat, disk, o.items)
<1>1. fat' = done.fat /\ disk' = done.disk
  BY DEF Apply
<1>2. done.fat \in Tables /\ done.disk \in Disks /\ Small(done.disk.entries)
  BY SmallDone DEF DiskInv
<1> HIDE DEF done
<1>3. \A x : Small(x) <=> \A s \in SlotSet : At(x, s).size <= MaxSize
  BY DEF Small
<1> QED
  BY <1>1, <1>2, <1>3 DEF DiskInv, Small

\* A call changes one open file.
LEMMA FilePut ==
    ASSUME CallsInv, NEW s \in File, NEW r, Opened(r), open_files' = [open_files EXCEPT ![s] = r]
    PROVE  \A t \in File : Opened(open_files'[t])
BY DEF CallsInv, SlotsInv

\* A closed one still is.
LEMMA OpenedClosed ==
    ASSUME NEW r, Opened(r)
    PROVE  Opened([r EXCEPT !.in_use = FALSE])
BY DEF Opened, OpenFiles
\* SYS_OPEN takes the size from the directory, or empties the file.
LEMMA OpenTypes ==
    ASSUME CallsInv, NEW p \in Procs, NEW path \in Paths, NEW writable \in BOOLEAN,
           Open(p, path, writable)
    PROVE  DiskInv' /\ \A s \in File : Opened(open_files'[s])
<1> DEFINE slot == First(FreeFiles)
           Z == IF writable THEN {0} ELSE {e.size : e \in fat_stat(path)}
<1>0. MaxSize \in Nat /\ DiskInv
  BY LengthAssumption DEF CallsInv
<1>1. slot \in File
  <2>1. FreeFiles \in SUBSET Nat /\ FreeFiles # {}
    BY TableAssumption DEF Open, FreeFiles, File
  <2>2. slot \in FreeFiles
    BY <2>1, FirstOfNats
  <2> QED
    BY <2>2 DEF FreeFiles
<1>2. \E z \in Z : open_files' = [open_files EXCEPT ![slot] = OpenFile(path, z, writable)]
  BY Zenon DEF Open
<1>3. \A z \in Z : z \in 0..MaxSize
  <2>1. \A e \in fat_stat(path) : e.size \in 0..MaxSize
    BY <1>0, StatTells
  <2> QED
    BY <1>0, <2>1
<1> HIDE DEF slot, Z
<1>4. PICK z \in Z : open_files' = [open_files EXCEPT ![slot] = OpenFile(path, z, writable)]
  BY <1>2, Zenon
<1>5. Opened(OpenFile(path, z, writable))
  <2>1. z \in 0..MaxSize /\ Kept[path] \in Paths
    BY <1>3, KeptAssumption
  <2> QED
    BY <1>0, <2>1 DEF OpenFile, Opened, OpenFiles
<1>6. \A s \in File : Opened(open_files'[s])
  BY <1>1, <1>4, <1>5, FilePut
<1>7. DiskInv'
  <2>1. CASE writable
    <3>1. PICK o \in fat_write_file(path) : Apply(o)
      BY <2>1 DEF Open
    <3>2. SmallItems(o.items)
      BY <1>0, WriteFileSmall DEF DiskInv
    <3> QED
      BY <1>0, <3>1, <3>2, ApplyKeeps
  <2>2. CASE ~writable
    BY <1>0, <2>2, DiskUntouched DEF Open, fatvars
  <2> QED
    BY <2>1, <2>2
<1> QED
  BY <1>6, <1>7

\* file_read stays before the size.
LEMMA ReadTypes ==
    ASSUME CallsInv, NEW p \in Procs, NEW fd \in Fd, NEW len \in Lengths, file_read(p, fd, len)
    PROVE  \A s \in File : Opened(open_files'[s])
<1> DEFINE s == fds[p][fd]
           f == open_files[s]
           x == f.offset + Least(len, Minus(f.size, f.offset))
           r == [f EXCEPT !.offset = x]
<1>1. s \in File /\ Opened(f) /\ len \in Nat /\ Word \in Nat \ {0} /\ MaxSize \in Nat
  BY NamesAFile, LengthAssumption, TableAssumption DEF CallsInv
<1>2. open_files' = [open_files EXCEPT ![s] = r]
  BY DEF file_read
<1>3. f.offset \in 0..MaxSize /\ f.size \in 0..MaxSize /\ f.offset <= f.size
  BY <1>1 DEF Opened, OpenFiles
<1>4. x \in Nat /\ x <= f.size
  <2>1. /\ f.size - f.offset \in Nat
        /\ Minus(f.size, f.offset) \in Nat /\ Minus(f.size, f.offset) <= f.size - f.offset
    BY <1>1, <1>3 DEF Minus
  <2> QED
    BY <1>1, <1>3, <2>1 DEF Least
<1>5. x \in 0..MaxSize
  BY <1>1, <1>3, <1>4
<1> HIDE DEF x
<1>6. Opened(r)
  BY <1>1, <1>4, <1>5 DEF Opened, OpenFiles
<1> HIDE DEF r, s
<1> QED
  BY <1>1, <1>2, <1>6, FilePut

\* file_write takes the size along, as far as the bound.
LEMMA WriteTypes ==
    ASSUME CallsInv, NEW p \in Procs, NEW fd \in Fd, NEW len \in Lengths, NEW b \in Bytes,
           file_write(p, fd, len, b)
    PROVE  DiskInv' /\ \A s \in File : Opened(open_files'[s])
<1> DEFINE s == fds[p][fd]
           f == open_files[s]
           e == [offset |-> f.offset, len |-> len]
<1>1. s \in File /\ Opened(f) /\ len \in Nat \ {0} /\ MaxSize \in Nat /\ DiskInv
  BY NamesAFile, LengthAssumption DEF CallsInv
<1>2. f.in_use /\ f.offset + len <= MaxSize
  BY DEF file_write
<1>3. f.offset \in 0..MaxSize /\ f.size \in 0..MaxSize /\ f.offset <= f.size /\ f.path \in Paths
  BY <1>1, <1>2 DEF Opened, OpenFiles
<1>4. /\ \E o \in fat_write_at(f.path, e, b) : Apply(o)
      /\ open_files' = [open_files EXCEPT ![s] = Written(f, len)] \/ open_files' = open_files
  BY DEF file_write
<1>5. Opened(Written(f, len))
  <2> DEFINE x == f.offset + len
             y == IF f.offset + len > f.size THEN f.offset + len ELSE f.size
             w == [f EXCEPT !.offset = x, !.size = y]
  <2>1. Written(f, len) = w
    BY <1>1 DEF Written, Opened, OpenFiles
  <2>2. x \in 0..MaxSize /\ y \in 0..MaxSize /\ x <= y
    BY <1>1, <1>2, <1>3
  <2> HIDE DEF x, y
  <2>3. Opened(w)
    BY <1>1, <2>2 DEF Opened, OpenFiles
  <2> HIDE DEF w
  <2> QED
    BY <2>1, <2>3
<1>6. \A t \in File : Opened(open_files'[t])
  <2> HIDE DEF s
  <2>1. CASE open_files' = [open_files EXCEPT ![s] = Written(f, len)]
    BY <1>1, <1>5, <2>1, FilePut
  <2>2. CASE open_files' = open_files
    BY <2>2 DEF CallsInv
  <2> QED
    BY <1>4, <2>1, <2>2
<1>7. DiskInv'
  <2>1. PICK o \in fat_write_at(f.path, e, b) : Apply(o)
    BY <1>4
  <2>2. e \in Extent /\ e.offset + e.len <= MaxSize
    BY <1>1, <1>2, <1>3 DEF Extent
  <2> HIDE DEF s, e
  <2>3. SmallItems(o.items)
    BY <1>1, <1>3, <2>2, WriteAtSmall DEF DiskInv
  <2> QED
    BY <1>1, <2>1, <2>3, ApplyKeeps
<1> QED
  BY <1>6, <1>7

\* SYS_UNLINK, SYS_MKDIR, SYS_RMDIR.
LEMMA ChangeTypes ==
    ASSUME CallsInv, NEW p \in Procs, NEW path \in Paths, Change(p, path)
    PROVE  DiskInv'
<1>1. PICK o \in fat_delete_file(path) \cup fat_mkdir(path) \cup fat_rmdir(path) : Apply(o)
  BY DEF Change
<1>2. DiskInv
  BY DEF CallsInv
<1>3. SmallItems(o.items)
  BY <1>2, DeleteSmall, MkdirSmall DEF DiskInv
<1> QED
  BY <1>1, <1>2, <1>3, ApplyKeeps

\* Closing.
LEMMA CloseTypes ==
    ASSUME CallsInv, NEW p \in Procs, CleanUp(p) \/ \E fd \in Fd : Close(p, fd)
    PROVE  \A s \in File : Opened(open_files'[s])
<1>1. \A s \in File : Opened(open_files[s]) /\ Opened([open_files[s] EXCEPT !.in_use = FALSE])
  BY OpenedClosed DEF CallsInv
<1>2. open_files = [s \in File |-> open_files[s]]
  BY DEF CallsInv, SlotsInv
<1>3. CASE CleanUp(p)
  <2>1. \A s \in File : open_files'[s] = open_files[s]
                        \/ open_files'[s] = [open_files[s] EXCEPT !.in_use = FALSE]
    BY <1>3 DEF CleanUp
  <2> QED
    BY <1>1, <2>1
<1>4. ASSUME NEW fd \in Fd, Close(p, fd) PROVE \A s \in File : Opened(open_files'[s])
  <2>1. open_files' = [open_files EXCEPT ![fds[p][fd]] = [open_files[fds[p][fd]] EXCEPT !.in_use = FALSE]]
    BY <1>4 DEF Close
  <2>2. \A s \in File : open_files'[s] = open_files[s]
                        \/ open_files'[s] = [open_files[s] EXCEPT !.in_use = FALSE]
    BY <1>2, <2>1
  <2> QED
    BY <1>1, <2>2
<1> QED
  BY <1>3, <1>4

\* Handles.
LEMMA HandleTypes ==
    ASSUME CallsInv, NEW p \in Procs,
           \/ \E path \in Paths \cup {<<>>} : OpenDir(p, path)
           \/ \E d \in DirFd : ReadDir(p, d) \/ CloseDir(p, d)
    PROVE  dirs' \in [Procs -> [DirFd -> Handles]]
<1>1. dirs \in [Procs -> [DirFd -> Handles]]
  BY DEF CallsInv
<1>2. ASSUME NEW path \in Paths \cup {<<>>}, OpenDir(p, path) PROVE dirs' \in [Procs -> [DirFd -> Handles]]
  <2> DEFINE d == First(FreeDirs(p))
  <2>1. d \in DirFd
    <3>1. FreeDirs(p) \in SUBSET Nat /\ FreeDirs(p) # {}
      BY <1>2, TableAssumption DEF OpenDir, FreeDirs, DirFd
    <3>2. d \in FreeDirs(p)
      BY <3>1, FirstOfNats
    <3> QED
      BY <3>2 DEF FreeDirs
  <2>2. \E c \in fat_opendir(path) : dirs' = [dirs EXCEPT ![p][d] = [in_use |-> TRUE, cluster |-> c, index |-> 0]]
    BY <1>2, Zenon DEF OpenDir
  <2>3. \A c \in fat_opendir(path) : c \in Cluster \cup {Root}
    BY StatTells DEF fat_opendir, CallsInv
  <2> HIDE DEF d
  <2>4. PICK c \in Cluster \cup {Root} :
            dirs' = [dirs EXCEPT ![p][d] = [in_use |-> TRUE, cluster |-> c, index |-> 0]]
    BY <2>2, <2>3
  <2>5. [in_use |-> TRUE, cluster |-> c, index |-> 0] \in Handles
    BY DEF Handles
  <2> QED
    BY <1>1, <2>1, <2>4, <2>5
<1>3. ASSUME NEW d \in DirFd, ReadDir(p, d) \/ CloseDir(p, d) PROVE dirs' \in [Procs -> [DirFd -> Handles]]
  <2>1. PICK r \in Handles : dirs' = [dirs EXCEPT ![p][d] = r]
    <3>1. dirs[p][d] \in Handles
      BY <1>1
    <3>2. CASE ReadDir(p, d)
      <4>1. dirs' = [dirs EXCEPT ![p][d] = [dirs[p][d] EXCEPT !.index = dirs[p][d].index + 1]]
        BY <1>1, <3>2 DEF ReadDir
      <4>2. [dirs[p][d] EXCEPT !.index = dirs[p][d].index + 1] \in Handles
        BY <3>1 DEF Handles
      <4> QED
        BY <4>1, <4>2
    <3>3. CASE CloseDir(p, d)
      <4>1. dirs' = [dirs EXCEPT ![p][d] = [dirs[p][d] EXCEPT !.in_use = FALSE]]
        BY <1>1, <3>3 DEF CloseDir
      <4>2. [dirs[p][d] EXCEPT !.in_use = FALSE] \in Handles
        BY <3>1 DEF Handles
      <4> QED
        BY <4>1, <4>2
    <3> QED
      BY <1>3, <3>2, <3>3
  <2> QED
    BY <1>1, <2>1
<1> QED
  BY <1>2, <1>3
\* At first no process has anything open and the disk is empty.
LEMMA CallsInit == ASSUME FilesInit PROVE CallsInv
<1>0. MaxSize \in Nat
  BY LengthAssumption
<1>1. SlotsInv
  BY FilesInitKeeps
<1>2. fat \in Tables /\ disk \in Disks
  BY InitTypes DEF FilesInit, TypeInv, TypeOK
<1>3. Small(disk.entries)
  <2>1. disk.entries = [c \in Cluster \cup {Root} |-> [i \in 1..InBlock(c) |-> NoEntry]]
    BY DEF FilesInit, Init
  <2>2. \A s \in SlotSet : At(disk.entries, s) = NoEntry
    BY <2>1 DEF SlotSet, At
  <2> QED
    BY <2>2, SmallBlocks DEF Small
<1>4. \A s \in File : Opened(open_files[s])
  <2>1. \A s \in File : open_files[s] = NoFile
    BY DEF FilesInit
  <2>2. Opened(NoFile)
    BY <1>0 DEF Opened, OpenFiles, NoFile
  <2> QED
    BY <2>1, <2>2
<1>5. dirs \in [Procs -> [DirFd -> Handles]]
  BY DEF FilesInit, NoDirs, NoDir, Handles, Root
<1>6. proc \in [Procs -> {"none", "live", "dead"}] /\ stale \subseteq File
  BY DEF FilesInit
<1>7. NamesInv
  BY RootIsNormal DEF FilesInit, NamesInv
<1> QED
  BY <1>1, <1>2, <1>3, <1>4, <1>5, <1>6, <1>7 DEF CallsInv, DiskInv

\* Only SYS_CHDIR, a start and an end change a working directory, and only a write
\* that finds the disk full makes a file longer than its size asks for.
LEMMA NamesStep ==
    ASSUME CallsInv, [FilesNext]_<<fatvars, tables>>
    PROVE  NamesInv'
<1>0. overlong \subseteq Paths /\ cwd \in [Procs -> Normal]
  BY DEF CallsInv, NamesInv
<1> SUFFICES overlong' \subseteq Paths /\ cwd' \in [Procs -> Normal]
  BY DEF NamesInv
<1>1. CASE UNCHANGED <<fatvars, tables>>
  BY <1>0, <1>1 DEF tables
<1>2. ASSUME NEW p \in Procs, NEW path \in Paths, Change(p, path) \/ \E writable \in BOOLEAN : Open(p, path, writable)
      PROVE  overlong' \subseteq Paths /\ cwd' \in [Procs -> Normal]
  <2>1. cwd' = cwd
    BY <1>2 DEF Change, Open
  <2>2. overlong' = overlong \/ overlong' = overlong \ {path}
    <3>1. ASSUME NEW writable \in BOOLEAN, Open(p, path, writable)
          PROVE  overlong' = overlong \/ overlong' = overlong \ {path}
      BY <3>1, Zenon DEF Open
    <3> QED
      BY <1>2, <3>1 DEF Change
  <2> QED
    BY <1>0, <2>1, <2>2
<1>3. ASSUME NEW p \in Procs, NEW fd \in Fd, NEW len \in Lengths, NEW b \in Bytes, file_write(p, fd, len, b)
      PROVE  overlong' \subseteq Paths /\ cwd' \in [Procs -> Normal]
  <2>1. cwd' = cwd
    BY <1>3 DEF file_write
  <2>2. open_files[fds[p][fd]].path \in Paths
    <3>1. fds[p][fd] \in File /\ open_files[fds[p][fd]].in_use
      BY <1>3, NamesAFile DEF CallsInv, file_write
    <3> QED
      BY <3>1 DEF CallsInv, Opened
  <2>3. overlong' \subseteq overlong \cup {open_files[fds[p][fd]].path}
    BY <1>3 DEF file_write
  <2> QED
    BY <1>0, <2>1, <2>2, <2>3
<1>4. ASSUME NEW p \in Procs,
             \/ \E fd \in Fd : Close(p, fd) \/ \E len \in Lengths : file_read(p, fd, len)
             \/ \E path \in Paths \cup {<<>>} : OpenDir(p, path)
             \/ \E d \in DirFd : ReadDir(p, d) \/ CloseDir(p, d)
             \/ Die(p)
      PROVE  overlong' \subseteq Paths /\ cwd' \in [Procs -> Normal]
  <2>1. overlong' = overlong /\ cwd' = cwd
    BY <1>4 DEF Close, file_read, OpenDir, ReadDir, CloseDir, Die
  <2> QED
    BY <1>0, <2>1
<1>5. ASSUME NEW p \in Procs, NEW in \in Inputs, ChDir(p, in)
      PROVE  overlong' \subseteq Paths /\ cwd' \in [Procs -> Normal]
  <2>1. overlong' = overlong /\ cwd' = [cwd EXCEPT ![p] = path_resolve_cwd(cwd[p], in)]
    BY <1>5 DEF ChDir
  <2>2. path_resolve_cwd(cwd[p], in) \in Normal
    BY <1>0, ResolvesInside
  <2> QED
    BY <1>0, <2>1, <2>2
<1>6. ASSUME NEW p \in Procs, CleanUp(p) \/ Reap(p) \/ \E q \in Procs : Start(q, p)
      PROVE  overlong' \subseteq Paths /\ cwd' \in [Procs -> Normal]
  <2>1. overlong' = overlong
    BY <1>6 DEF CleanUp, Reap, Start
  <2>2. \/ cwd' = [cwd EXCEPT ![p] = <<>>]
        \/ \E q \in Procs : cwd' = [cwd EXCEPT ![p] = cwd[q]]
    BY <1>6 DEF CleanUp, Reap, Start, Forget
  <2> QED
    BY <1>0, <2>1, <2>2, RootIsNormal
<1> QED
  BY <1>1, <1>2, <1>3, <1>4, <1>5, <1>6 DEF FilesNext

\* Every step keeps the invariant.
LEMMA CallsStep ==
    ASSUME CallsInv, [FilesNext]_<<fatvars, tables>>
    PROVE  CallsInv'
<1>0. SlotsInv'
  BY FilesStepKeeps DEF CallsInv
<1> DEFINE DiskKept == DiskInv'
           FilesKept == \A s \in File : Opened(open_files'[s])
           DirsKept == dirs' \in [Procs -> [DirFd -> Handles]]
           ProcKept == proc' \in [Procs -> {"none", "live", "dead"}]
           StaleKept == stale' \subseteq File
<1> SUFFICES DiskKept /\ FilesKept /\ DirsKept /\ ProcKept /\ StaleKept
  <2>1. \A s \in File : FilesKept => Opened(open_files[s])'
    BY DEF Opened
  <2>2. NamesInv'
    BY NamesStep
  <2> QED
    BY <1>0, <2>1, <2>2 DEF CallsInv
<1>a. fat' = fat /\ disk' = disk => DiskKept
  BY DiskUntouched DEF CallsInv
<1>b. open_files' = open_files => FilesKept
  BY DEF CallsInv
<1>c. dirs' = dirs => DirsKept
  BY DEF CallsInv
<1>d. proc' = proc => ProcKept
  BY DEF CallsInv
<1>e. stale' \subseteq stale \cup File => StaleKept
  BY DEF CallsInv
<1> HIDE DEF DiskKept, FilesKept, DirsKept, ProcKept, StaleKept
<1> USE DEF fatvars
<1>1. CASE UNCHANGED <<fatvars, tables>>
  BY <1>1, <1>a, <1>b, <1>c, <1>d, <1>e DEF tables
<1>2. ASSUME NEW p \in Procs, NEW path \in Paths, NEW writable \in BOOLEAN, Open(p, path, writable)
      PROVE  DiskKept /\ FilesKept /\ DirsKept /\ ProcKept /\ StaleKept
  <2>1. DiskKept /\ FilesKept
    BY <1>2, OpenTypes DEF DiskKept, FilesKept
  <2>2. dirs' = dirs /\ proc' = proc
    BY <1>2 DEF Open
  <2>3. stale' \subseteq stale \cup File
    <3>1. First(FreeFiles) \in File
      <4>1. FreeFiles \in SUBSET Nat /\ FreeFiles # {}
        BY <1>2, TableAssumption DEF Open, FreeFiles, File
      <4>2. First(FreeFiles) \in FreeFiles
        BY <4>1, FirstOfNats
      <4> QED
        BY <4>2 DEF FreeFiles
    <3>2. Cut(path, First(FreeFiles)) \subseteq stale \cup {First(FreeFiles)} /\ Outdated(File, path) \subseteq File
      BY DEF Cut, Outdated
    <3>3. stale' = Cut(path, First(FreeFiles)) \cup Outdated(File, path) \/ stale' = Cut(path, First(FreeFiles))
      <4> HIDE DEF fatvars
      <4> QED
        BY <1>2, Zenon DEF Open
    <3> QED
      BY <3>1, <3>2, <3>3
  <2> QED
    BY <2>1, <2>2, <2>3, <1>c, <1>d, <1>e
<1>3. ASSUME NEW p \in Procs, CleanUp(p) \/ \E fd \in Fd : Close(p, fd)
      PROVE  DiskKept /\ FilesKept /\ DirsKept /\ ProcKept /\ StaleKept
  <2>1. FilesKept
    BY <1>3, CloseTypes DEF FilesKept
  <2>2. DiskKept /\ StaleKept
    BY <1>3, <1>a, <1>e DEF CleanUp, Close, Forget
  <2>3. DirsKept /\ ProcKept
    <3>1. CASE CleanUp(p)
      <4>1. NoDirs \in [DirFd -> Handles]
        BY DEF NoDirs, NoDir, Handles, Root
      <4> QED
        BY <3>1, <4>1 DEF CleanUp, Forget, CallsInv, DirsKept, ProcKept
    <3>2. CASE \E fd \in Fd : Close(p, fd)
      BY <3>2, <1>c, <1>d DEF Close
    <3> QED
      BY <1>3, <3>1, <3>2
  <2> QED
    BY <2>1, <2>2, <2>3
<1>4. ASSUME NEW p \in Procs, NEW fd \in Fd, NEW len \in Lengths, file_read(p, fd, len)
      PROVE  DiskKept /\ FilesKept /\ DirsKept /\ ProcKept /\ StaleKept
  <2>1. FilesKept
    BY <1>4, ReadTypes DEF FilesKept
  <2> QED
    BY <1>4, <2>1, <1>a, <1>c, <1>d, <1>e DEF file_read
<1>5. ASSUME NEW p \in Procs, NEW fd \in Fd, NEW len \in Lengths, NEW b \in Bytes, file_write(p, fd, len, b)
      PROVE  DiskKept /\ FilesKept /\ DirsKept /\ ProcKept /\ StaleKept
  <2>1. FilesKept /\ DiskKept
    BY <1>5, WriteTypes DEF FilesKept, DiskKept
  <2>2. dirs' = dirs /\ proc' = proc /\ stale' \subseteq stale \cup File
    BY <1>5 DEF file_write, Outdated
  <2> QED
    BY <2>1, <2>2, <1>c, <1>d, <1>e
<1>6. ASSUME NEW p \in Procs, NEW path \in Paths, Change(p, path)
      PROVE  DiskKept /\ FilesKept /\ DirsKept /\ ProcKept /\ StaleKept
  <2>1. DiskKept
    BY <1>6, ChangeTypes DEF DiskKept
  <2>2. dirs' = dirs /\ proc' = proc /\ open_files' = open_files /\ stale' \subseteq stale \cup File
    BY <1>6 DEF Change, Outdated
  <2> QED
    BY <2>1, <2>2, <1>b, <1>c, <1>d, <1>e
<1>7. ASSUME NEW p \in Procs,
             \/ \E path \in Paths \cup {<<>>} : OpenDir(p, path)
             \/ \E d \in DirFd : ReadDir(p, d) \/ CloseDir(p, d)
      PROVE  DiskKept /\ FilesKept /\ DirsKept /\ ProcKept /\ StaleKept
  <2>1. DirsKept
    BY <1>7, HandleTypes DEF DirsKept
  <2>2. fat' = fat /\ disk' = disk /\ proc' = proc /\ open_files' = open_files /\ stale' = stale
    BY <1>7 DEF OpenDir, ReadDir, CloseDir
  <2> QED
    BY <2>1, <2>2, <1>a, <1>b, <1>d, <1>e
<1>8. ASSUME NEW p \in Procs, NEW in, ChDir(p, in)
      PROVE  DiskKept /\ FilesKept /\ DirsKept /\ ProcKept /\ StaleKept
  BY <1>8, <1>a, <1>b, <1>c, <1>d, <1>e DEF ChDir
<1>9. ASSUME NEW p \in Procs, NEW q \in Procs, Start(q, p) \/ Die(p)
      PROVE  DiskKept /\ FilesKept /\ DirsKept /\ ProcKept /\ StaleKept
  <2>1. ProcKept
    BY <1>9 DEF Start, Die, CallsInv, ProcKept
  <2> QED
    BY <1>9, <2>1, <1>a, <1>b, <1>c, <1>e DEF Start, Die
<1>10. ASSUME NEW p \in Procs, Reap(p)
       PROVE  DiskKept /\ FilesKept /\ DirsKept /\ ProcKept /\ StaleKept
  <2>1. NoDirs \in [DirFd -> Handles]
    BY DEF NoDirs, NoDir, Handles, Root
  <2>2. DirsKept /\ ProcKept
    BY <1>10, <2>1 DEF Reap, Forget, CallsInv, DirsKept, ProcKept
  <2> QED
    BY <1>10, <2>2, <1>a, <1>b, <1>e DEF Reap, Forget
<1> QED
  BY <1>1, <1>2, <1>3, <1>4, <1>5, <1>6, <1>7, <1>8, <1>9, <1>10 DEF FilesNext

\* The open files, the descriptors and the handles stay well formed, whatever is
\* on the disk: an open file never remembers a size that no write could have
\* reached, and no handle names a cluster that does not exist.
THEOREM FilesTypes == FilesSpec => []FilesTypeOK
<1>1. FilesInit => CallsInv
  BY CallsInit
<1>2. CallsInv /\ [FilesNext]_<<fatvars, tables>> => CallsInv'
  BY CallsStep
<1>3. CallsInv => FilesTypeOK
  BY CallsFollow
<1> QED
  BY <1>1, <1>2, <1>3, PTL DEF FilesSpec

\* No offset leaves the size that its open file remembers: the subtraction in
\* file_read never wraps, whatever other processes do to the file.
THEOREM OffsetsAreInside == FilesSpec => []OffsetWithinSize
<1>1. FilesInit => CallsInv
  BY CallsInit
<1>2. CallsInv /\ [FilesNext]_<<fatvars, tables>> => CallsInv'
  BY CallsStep
<1>3. CallsInv => OffsetWithinSize
  BY CallsFollow
<1> QED
  BY <1>1, <1>2, <1>3, PTL DEF FilesSpec

---------------------------------------------------------------------------
(* What open files and handles know of the disk.                           *)

\* The size that is remembered is the one the directory tells.
Sized(f, es, r) == {e.size : e \in Stat(f, es, r.path)} = {r.size}

\* So it is for all files that are open and whose name was not taken away.
SizesInv == \A s \in File : open_files[s].in_use /\ s \notin stale => Sized(fat, disk.entries, open_files[s])

\* The handle is of the directory at the path, and as many names of it have been
\* shown as its index says.
Listing(f, es, h, l) ==
    /\ h.cluster \in Opendir(f, es, l.path)
    /\ ShownUpTo(Row(f, es, h.cluster), l.names, h.index)

\* So it is for all handles whose listing is undisturbed.
ListsInv == \A p \in Procs, d \in DirFd :
    listed[p][d].noted => Listing(fat, disk.entries, dirs[p][d], listed[p][d])

\* The records of what a handle has shown.
Notes == [noted : BOOLEAN, path : Paths \cup {<<>>}, names : Seq(Names)]

\* The inductive invariant: until a call does what the code leaves undefined, the disk
\* and its directories are well formed and both of the above hold.
KnownInv ==
    /\ CallsInv
    /\ listed \in [Procs -> [DirFd -> Notes]]
    /\ ~wild => /\ Neat(fat, disk.entries, Dirs(fat, disk.entries))
                /\ SizesInv
                /\ ListsInv


\* What changed is the entry at path.
Edited(path, E) ==
    Edits(fat, disk.entries, Dirs(fat, disk.entries), fat', disk'.entries, Dirs(fat', disk'.entries),
          resolve_path(fat, disk.entries, path), NameOf(path), E)

\* What Apply makes of the disk is the outcome's.
LEMMA AppliedEdits ==
    ASSUME NEW path \in Paths, NEW o, Apply(o), NEW E, Brings(o, path, Dirs(fat, disk.entries), E)
    PROVE  Edited(path, E)
<1> DEFINE d == Done(fat, disk, o.items)
<1>1. fat' = d.fat /\ disk' = d.disk
  BY DEF Apply
<1>2. Edits(fat, disk.entries, Dirs(fat, disk.entries), d.fat, d.disk.entries, Dirs(d.fat, d.disk.entries),
            resolve_path(fat, disk.entries, path), NameOf(path), E)
  BY DEF Brings
<1> HIDE DEF d
<1> QED
  BY <1>1, <1>2 DEF Edited

\* Paths are sequences of names, and none is empty.
LEMMA PathsAreNames == \A p \in Paths : p \in Seq(Names) /\ p # <<>> /\ NameOf(p) \in Names
<1> SUFFICES ASSUME NEW p \in Paths PROVE p \in Seq(Names) /\ p # <<>> /\ NameOf(p) \in Names
  OBVIOUS
<1>1. p \in Seq(Names) /\ p # <<>>
  BY PathAssumption
<1>2. Len(p) \in 1..Len(p)
  BY <1>1
<1>3. p[Len(p)] \in Names
  BY <1>1, <1>2, ElementOfSeq
<1> QED
  BY <1>1, <1>3 DEF NameOf

\* So are the paths of handles, which may be the root's.
LEMMA HandlePaths == \A p \in Paths \cup {<<>>} : p \in Seq(Names)
<1>1. <<>> \in Seq(Names)
  OBVIOUS
<1> QED
  BY <1>1, PathsAreNames

\* A path below p is among the paths through p.
LEMMA ThroughHas ==
    ASSUME NEW p \in Paths, NEW q \in Paths, Under(p, q)
    PROVE  q \in Through(p)
<1> DEFINE r == SubSeq(q, 1, Len(p))
<1>1. p \in Seq(Names) /\ q \in Seq(Names) /\ Len(p) \in Nat /\ Len(q) \in Nat
  BY PathsAreNames
<1>2. Len(p) <= Len(q) /\ \A k \in 1..Len(p) : q[k] = p[k]
  BY DEF Under
<1>3. r \in Seq(Names) /\ Len(r) = Len(p) /\ \A k \in 1..Len(p) : r[k] = q[k]
  BY <1>1, <1>2
<1> HIDE DEF r
<1>4. r = p
  BY <1>1, <1>2, <1>3, SeqEqual
<1> QED
  BY <1>2, <1>4 DEF Through, r

\* What is not at or below the path keeps its size.
LEMMA SizedElsewhere ==
    ASSUME NEW path \in Paths, NEW E, Edited(path, E), NEW r, r.path \in Paths, r.path \notin Through(path),
           Sized(fat, disk.entries, r)
    PROVE  Sized(fat', disk'.entries, r)
<1> DEFINE f == fat
           es == disk.entries
           D == Dirs(f, es)
           F == fat'
           es2 == disk'.entries
           D2 == Dirs(F, es2)
           dir == resolve_path(f, es, path)
           name == NameOf(path)
           q == r.path
<1>1. Edits(f, es, D, F, es2, D2, dir, name, E)
  BY DEF Edited
<1>2. path \in Seq(Names) /\ path # <<>> /\ q \in Seq(Names)
  BY PathsAreNames
<1>3. ~Under(path, q)
  BY ThroughHas
<1>4. resolve_path(f, es, path) = dir /\ NameOf(path) = name
  OBVIOUS
<1>5. Sized(f, es, r)
  OBVIOUS
<1> HIDE DEF f, es, D, F, es2, D2, dir, name
<1>6. Stat(F, es2, q) = Stat(f, es, q)
  BY <1>1, <1>2, <1>3, <1>4, StatEdited
<1>7. Sized(F, es2, r)
  BY <1>5, <1>6 DEF Sized
<1> QED
  BY <1>7 DEF F, es2

\* At the path it is that of the new entry.
LEMMA StatAtPath ==
    ASSUME NEW path \in Paths, NEW E, Edited(path, E)
    PROVE  Stat(fat', disk'.entries, path) = E /\ Neat(fat', disk'.entries, Dirs(fat', disk'.entries))
<1> DEFINE f == fat
           es == disk.entries
           D == Dirs(f, es)
           F == fat'
           es2 == disk'.entries
           D2 == Dirs(F, es2)
           dir == resolve_path(f, es, path)
           name == NameOf(path)
<1>1. Edits(f, es, D, F, es2, D2, dir, name, E)
  BY DEF Edited
<1>2. path \in Seq(Names) /\ path # <<>>
  BY PathsAreNames
<1>3. resolve_path(f, es, path) = dir /\ NameOf(path) = name
  OBVIOUS
<1> HIDE DEF f, es, D, F, es2, D2, dir, name
<1>4. Stat(F, es2, path) = E
  BY <1>1, <1>2, <1>3, StatEdited
<1>5. Neat(F, es2, D2)
  BY <1>1 DEF Edits
<1> QED
  BY <1>4, <1>5 DEF F, es2, D2

\* A listing that an edit spares is still one.
LEMMA ListingKept ==
    ASSUME NEW f, NEW es, NEW D, NEW F, NEW es2, NEW D2, NEW dir, NEW name, NEW E,
           Edits(f, es, D, F, es2, D2, dir, name, E),
           NEW p \in Seq(Names), p # <<>>, resolve_path(f, es, p) = dir, NameOf(p) = name,
           NEW h, NEW l, l.path \in Seq(Names), Listing(f, es, h, l), Spared(f, es, p, l.path, E)
    PROVE  Listing(F, es2, h, l)
<1> DEFINE c == h.cluster
           q == l.path
<1>1. c \in Opendir(f, es, q) /\ ShownUpTo(Row(f, es, c), l.names, h.index)
  BY DEF Listing
<1>2. q \in Seq(Names) /\ Spared(f, es, p, q, E)
  OBVIOUS
<1> HIDE DEF c, q
<1>3. c \in Opendir(F, es2, q) /\ SameNames(Row(f, es, c), Row(F, es2, c))
  BY <1>1, <1>2, ListedKept
<1>4. \A i : Shown(Row(F, es2, c), i) = Shown(Row(f, es, c), i)
  BY <1>3, ShownSame
<1>5. ShownUpTo(Row(F, es2, c), l.names, h.index)
  BY <1>1, <1>4 DEF ShownUpTo
<1> QED
  BY <1>3, <1>5 DEF Listing, c, q

\* The listings that remain noted are the ones there were.
LEMMA NotesKept ==
    ASSUME listed \in [Procs -> [DirFd -> Notes]], NEW path, Renamed(path) \/ listed' = listed
    PROVE  /\ listed' \in [Procs -> [DirFd -> Notes]]
           /\ \A p \in Procs, d \in DirFd : listed'[p][d].noted => listed'[p][d] = listed[p][d]
<1>1. Unlisted \in Notes /\ ~Unlisted.noted
  BY DEF Unlisted, Notes
<1>2. CASE listed' = listed
  BY <1>2
<1>3. CASE Renamed(path)
  <2>1. \A p \in Procs, d \in DirFd : listed[p][d] \in Notes
    OBVIOUS
  <2>2. \A p \in Procs, d \in DirFd : listed'[p][d] \in {listed[p][d], Unlisted}
    BY <1>3 DEF Renamed
  <2>3. listed' = [p \in Procs |-> [d \in DirFd |-> listed'[p][d]]]
    BY <1>3 DEF Renamed
  <2>4. \A p \in Procs, d \in DirFd : listed'[p][d] \in Notes
    BY <1>1, <2>1, <2>2
  <2> QED
    BY <1>1, <2>2, <2>3, <2>4
<1> QED
  BY <1>2, <1>3

\* A listing stays true or is forgotten.
LEMMA ListsEdited ==
    ASSUME KnownInv, ~wild, NEW path \in Paths, NEW E, Edited(path, E), dirs' = dirs,
           \/ Renamed(path)
           \/ listed' = listed /\ (\E x \in Stat(fat, disk.entries, path) : ~x.dir) /\ E # {}
    PROVE  listed' \in [Procs -> [DirFd -> Notes]] /\ ListsInv'
<1> DEFINE f == fat
           es == disk.entries
           D == Dirs(f, es)
           F == fat'
           es2 == disk'.entries
           D2 == Dirs(F, es2)
           dir == resolve_path(f, es, path)
           name == NameOf(path)
           parent == SubSeq(path, 1, Len(path) - 1)
<1>1. Edits(f, es, D, F, es2, D2, dir, name, E)
  BY DEF Edited
<1>2. path \in Seq(Names) /\ path # <<>>
  BY PathsAreNames
<1>3. resolve_path(f, es, path) = dir /\ NameOf(path) = name
  OBVIOUS
<1>4. listed \in [Procs -> [DirFd -> Notes]]
  BY DEF KnownInv
<1>5. ~Unlisted.noted
  BY DEF Unlisted
<1>6. /\ listed' \in [Procs -> [DirFd -> Notes]]
      /\ \A p \in Procs, d \in DirFd : listed'[p][d].noted => listed'[p][d] = listed[p][d]
  BY <1>4, NotesKept
<1>7. ASSUME NEW p \in Procs, NEW d \in DirFd, listed'[p][d].noted
      PROVE  Listing(F, es2, dirs'[p][d], listed'[p][d])
  <2> DEFINE l == listed[p][d]
             h == dirs[p][d]
  <2>1. listed'[p][d] = l /\ dirs'[p][d] = h /\ l.noted
    BY <1>6, <1>7
  <2>2. Listing(f, es, h, l)
    BY <2>1 DEF KnownInv, ListsInv
  <2>3. l.path \in Paths \cup {<<>>}
    BY <1>4 DEF Notes
  <2>4. l.path \in Seq(Names)
    <3>1. \A q \in Paths \cup {<<>>} : q \in Seq(Names)
      BY HandlePaths
    <3> HIDE DEF l
    <3> QED
      BY <2>3, <3>1
  <2>5. Spared(f, es, path, l.path, E)
    <3>1. CASE Renamed(path)
      <4>1. l.path \notin Through(path) \cup {parent}
        <5>1. listed'[p][d] = IF l.noted /\ l.path \in Through(path) \cup {parent} THEN Unlisted ELSE l
          BY <3>1 DEF Renamed
        <5> QED
          BY <1>5, <1>7, <2>1, <5>1
      <4>2. ~Under(path, l.path)
        <5>1. CASE l.path \in Paths
          BY <4>1, <5>1, ThroughHas
        <5>2. CASE l.path = <<>>
          <6>1. Len(path) \in Nat /\ Len(path) # 0 /\ Len(<<>>) = 0
            BY <1>2
          <6> QED
            BY <5>2, <6>1 DEF Under
        <5> QED
          BY <2>3, <5>1, <5>2
      <4> QED
        BY <4>1, <4>2 DEF Spared
    <3>2. CASE ~Renamed(path)
      BY <3>2 DEF Spared
    <3> QED
      BY <3>1, <3>2
  <2> HIDE DEF f, es, D, F, es2, D2, dir, name, l, h
  <2>6. Listing(F, es2, h, l)
    BY <1>1, <1>2, <1>3, <2>2, <2>4, <2>5, ListingKept
  <2> QED
    BY <2>1, <2>6
<1> QED
  BY <1>6, <1>7 DEF ListsInv
---------------------------------------------------------------------------
(* The calls.                                                              *)

\* What is known after a call.
Known2 ==
    /\ listed' \in [Procs -> [DirFd -> Notes]]
    /\ ~wild' => /\ Neat(fat', disk'.entries, Dirs(fat', disk'.entries))
                 /\ \A s \in File : open_files'[s].in_use /\ s \notin stale' => Sized(fat', disk'.entries, open_files'[s])
                 /\ \A p \in Procs, d \in DirFd :
                        listed'[p][d].noted => Listing(fat', disk'.entries, dirs'[p][d], listed'[p][d])

\* Which is the rest of the invariant, CallsInv being kept.
LEMMA Known2Is == ASSUME CallsInv', Known2 PROVE KnownInv'
BY DEF Known2, KnownInv, SizesInv, ListsInv

\* What fat_stat and fat_opendir tell.
LEMMA TreeTells ==
    ASSUME KnownInv, ~wild, NEW path \in Paths \cup {<<>>}
    PROVE  /\ fat_stat(path) = Stat(fat, disk.entries, path)
           /\ fat_opendir(path) = Opendir(fat, disk.entries, path)
           /\ IsFile(path) => \E x \in Stat(fat, disk.entries, path) : ~x.dir
<1>1. path \in Seq(Names)
  BY HandlePaths
<1>2. Neat(fat, disk.entries, Dirs(fat, disk.entries))
  BY DEF KnownInv
<1>3. fat_stat(path) = Stat(fat, disk.entries, path)
  BY <1>1, <1>2, StatIs
<1> QED
  BY <1>3 DEF fat_opendir, Opendir, IsFile

\* Calls that change no directory and no handle.
LEMMA DiskSameKnows ==
    ASSUME KnownInv, ~wild, UNCHANGED <<fat, disk, dirs, listed>>,
           \A s \in File : open_files'[s].in_use /\ s \notin stale' => Sized(fat, disk.entries, open_files'[s])
    PROVE  Known2
<1>1. /\ listed \in [Procs -> [DirFd -> Notes]] /\ Neat(fat, disk.entries, Dirs(fat, disk.entries))
      /\ ListsInv
  BY DEF KnownInv
<1> QED
  BY <1>1 DEF Known2, ListsInv

\* Calls that leave the open files and the disk alone.
LEMMA FilesSame ==
    ASSUME KnownInv, ~wild, UNCHANGED <<fat, disk, wild, open_files, stale>>,
           listed' \in [Procs -> [DirFd -> Notes]],
           \A p \in Procs, d \in DirFd :
               listed'[p][d].noted => Listing(fat, disk.entries, dirs'[p][d], listed'[p][d])
    PROVE  Known2
<1>1. Neat(fat, disk.entries, Dirs(fat, disk.entries)) /\ SizesInv
  BY DEF KnownInv
<1> QED
  BY <1>1 DEF Known2, SizesInv

\* Any edit of the tree keeps it, if the sizes that are remembered stay true.
LEMMA EditKnows ==
    ASSUME KnownInv, ~wild, NEW path \in Paths, NEW E, Edited(path, E), dirs' = dirs,
           \/ Renamed(path)
           \/ listed' = listed /\ (\E x \in Stat(fat, disk.entries, path) : ~x.dir) /\ E # {},
           \A s \in File : open_files'[s].in_use /\ s \notin stale' => Sized(fat', disk'.entries, open_files'[s])
    PROVE  Known2
<1>1. listed' \in [Procs -> [DirFd -> Notes]] /\ ListsInv'
  BY ListsEdited
<1>2. Neat(fat', disk'.entries, Dirs(fat', disk'.entries))
  BY StatAtPath
<1>3. \A p \in Procs, d \in DirFd :
         listed'[p][d].noted => Listing(fat', disk'.entries, dirs'[p][d], listed'[p][d])
  BY <1>1 DEF ListsInv
<1> QED
  BY <1>1, <1>2, <1>3 DEF Known2

\* SYS_OPEN for reading takes the size from the entry.
LEMMA OpenReadKnows ==
    ASSUME KnownInv, NEW p \in Procs, NEW path \in Paths, NEW writable \in BOOLEAN, ~writable,
           Open(p, path, writable)
    PROVE  Known2
<1> DEFINE slot == First(FreeFiles)
           Z == {e.size : e \in fat_stat(path)}
<1>1. ~wild /\ UNCHANGED <<fat, disk, wild, dirs, listed>> /\ stale' = Cut(path, slot)
  BY DEF Open, Running, fatvars
<1>2. \E z \in Z : open_files' = [open_files EXCEPT ![slot] = OpenFile(path, z, writable)]
  BY Zenon DEF Open
<1>3. fat_stat(path) = Stat(fat, disk.entries, path) /\ Neat(fat, disk.entries, Dirs(fat, disk.entries))
  BY <1>1, TreeTells DEF KnownInv
<1>4. path \in Seq(Names)
  BY PathsAreNames
<1>5. PICK x \in Stat(fat, disk.entries, path) :
          open_files' = [open_files EXCEPT ![slot] = OpenFile(path, x.size, writable)]
  BY <1>2, <1>3
<1>6. \A y \in Stat(fat, disk.entries, path) : y = x
  BY <1>3, <1>4, StatOne
<1> DEFINE r == OpenFile(path, x.size, writable)
<1>7. r.path = Kept[path] /\ r.size = x.size
  BY DEF OpenFile
<1> HIDE DEF slot, r
<1>8. Kept[path] = path => Sized(fat, disk.entries, r)
  BY <1>6, <1>7 DEF Sized
<1>9. \A s \in File : open_files'[s] = IF s = slot THEN r ELSE open_files[s]
  BY <1>5 DEF KnownInv, CallsInv, SlotsInv, r
<1>10. ASSUME NEW s \in File, open_files'[s].in_use, s \notin stale'
       PROVE  Sized(fat, disk.entries, open_files'[s])
  <2>1. s \notin stale /\ (s = slot => Kept[path] = path)
    BY <1>1, <1>10 DEF Cut
  <2>2. CASE s = slot
    BY <1>8, <1>9, <2>1, <2>2
  <2>3. CASE s # slot
    BY <1>1, <1>9, <1>10, <2>1, <2>3 DEF KnownInv, SizesInv
  <2> QED
    BY <2>2, <2>3
<1> QED
  BY <1>1, <1>10, DiskSameKnows

\* SYS_OPEN for writing empties the file, for every descriptor that has it.
LEMMA OpenWriteKnows ==
    ASSUME KnownInv, NEW p \in Procs, NEW path \in Paths, NEW writable \in BOOLEAN, writable,
           Open(p, path, writable)
    PROVE  Known2
<1> DEFINE slot == First(FreeFiles)
           new == Entry(NameOf(path), FALSE, 0, 0)
           D == Dirs(fat, disk.entries)
           E == {new}
<1>1. /\ ~wild /\ UNCHANGED dirs /\ stale' = Cut(path, slot) \cup Outdated(File, path)
      /\ IF IsFile(path) THEN listed' = listed ELSE Renamed(path)
  BY DEF Open, Running
<1>2. PICK o \in fat_write_file(path) : Apply(o)
  BY DEF Open
<1>3. open_files' = [open_files EXCEPT ![slot] = OpenFile(path, 0, writable)]
  <2>1. \E z \in IF writable THEN {0} ELSE {e.size : e \in fat_stat(path)} :
            open_files' = [open_files EXCEPT ![slot] = OpenFile(path, z, writable)]
    BY Zenon DEF Open
  <2> QED
    BY <2>1
<1> DEFINE r == OpenFile(path, 0, writable)
<1>4. r.path = Kept[path] /\ r.size = 0
  BY DEF OpenFile
<1> HIDE DEF r
<1>5. \A s \in File : open_files'[s] = IF s = slot THEN r ELSE open_files[s]
  BY <1>3 DEF KnownInv, CallsInv, SlotsInv, r
<1>6. wild' = (o.code = "wild")
  BY <1>2 DEF Apply
<1>7. CASE o.code = "wild"
  <2>1. listed \in [Procs -> [DirFd -> Notes]]
    BY DEF KnownInv
  <2>2. listed' \in [Procs -> [DirFd -> Notes]]
    BY <1>1, <2>1, NotesKept
  <2>3. wild'
    BY <1>6, <1>7
  <2> QED
    BY <2>2, <2>3 DEF Known2
<1>8. CASE o.code # "wild"
  <2>1. fat \in Tables /\ disk \in Disks /\ Neat(fat, disk.entries, D)
    BY <1>1 DEF KnownInv, CallsInv, DiskInv
  <2>2. o \in Called("truncate", path)
    BY <1>2 DEF Called, OutcomesOf
  <2> HIDE DEF D, slot
  <2>3. Brings(o, path, D, {Entry(NameOf(path), FALSE, 0, 0)})
    BY <1>8, <2>1, <2>2, TruncateBrings
  <2> HIDE DEF E
  <2>4. Brings(o, path, D, E)
    BY <2>3 DEF E
  <2>5. Edited(path, E)
    BY <1>2, <2>4, AppliedEdits DEF D
  <2>6. Stat(fat', disk'.entries, path) = E
    BY <2>5, StatAtPath
  <2>7. Kept[path] = path => Sized(fat', disk'.entries, r)
    <3>1. new.size = 0
      BY DEF Entry
    <3> QED
      BY <1>4, <2>6, <3>1 DEF Sized, E
  <2>8. ASSUME NEW s \in File, open_files'[s].in_use, s \notin stale'
        PROVE  Sized(fat', disk'.entries, open_files'[s])
    <3>1. s \notin stale /\ (s = slot => Kept[path] = path) /\ s \notin Outdated(File, path)
      BY <1>1, <2>8 DEF Cut
    <3>2. CASE s = slot
      BY <1>5, <2>7, <3>1, <3>2
    <3>3. CASE s # slot
      <4> DEFINE t == open_files[s]
      <4>1. open_files'[s] = t /\ t.in_use
        BY <1>5, <2>8, <3>3
      <4>2. t.path \notin Through(path)
        BY <3>1, <4>1 DEF Outdated
      <4>3. t.path \in Paths
        BY <4>1 DEF KnownInv, CallsInv, Opened
      <4>4. Sized(fat, disk.entries, t)
        BY <1>1, <3>1, <4>1 DEF KnownInv, SizesInv
      <4> HIDE DEF t
      <4>5. Sized(fat', disk'.entries, t)
        BY <2>5, <4>2, <4>3, <4>4, SizedElsewhere
      <4> QED
        BY <4>1, <4>5
    <3> QED
      BY <3>2, <3>3
  <2>9. E # {}
    BY DEF E
  <2>10. IsFile(path) => \E x \in Stat(fat, disk.entries, path) : ~x.dir
    BY <1>1, TreeTells
  <2>11. \/ Renamed(path)
         \/ listed' = listed /\ (\E x \in Stat(fat, disk.entries, path) : ~x.dir) /\ E # {}
    BY <1>1, <2>9, <2>10
  <2> QED
    BY <1>1, <2>5, <2>8, <2>11, EditKnows
<1> QED
  BY <1>7, <1>8

\* SYS_UNLINK, SYS_MKDIR, SYS_RMDIR.
LEMMA ChangeKnows ==
    ASSUME KnownInv, NEW p \in Procs, NEW path \in Paths, Change(p, path)
    PROVE  Known2
<1> DEFINE D == Dirs(fat, disk.entries)
<1>1. /\ ~wild /\ dirs' = dirs /\ open_files' = open_files /\ stale' = stale \cup Outdated(File, path)
      /\ Renamed(path)
  BY DEF Change, Running
<1>2. PICK o \in fat_delete_file(path) \cup fat_mkdir(path) \cup fat_rmdir(path) : Apply(o)
  BY DEF Change
<1>3. wild' = (o.code = "wild")
  BY <1>2 DEF Apply
<1>4. CASE o.code = "wild"
  <2>1. listed \in [Procs -> [DirFd -> Notes]]
    BY DEF KnownInv
  <2>2. listed' \in [Procs -> [DirFd -> Notes]]
    BY <1>1, <2>1, NotesKept
  <2>3. wild'
    BY <1>3, <1>4
  <2> QED
    BY <2>2, <2>3 DEF Known2
<1>5. CASE o.code # "wild"
  <2>1. fat \in Tables /\ disk \in Disks /\ Neat(fat, disk.entries, D)
    BY <1>1 DEF KnownInv, CallsInv, DiskInv
  <2> HIDE DEF D
  <2>2. \E E : Brings(o, path, D, E)
    <3>1. CASE o \in fat_delete_file(path)
      <4> DEFINE act == "unlink"
      <4>1. o \in Called(act, path) /\ act \in {"unlink", "rmdir"}
        BY <3>1 DEF Called, OutcomesOf
      <4> HIDE DEF act
      <4>2. Brings(o, path, D, {})
        BY <1>5, <2>1, <4>1, RemovalBrings
      <4> QED
        BY <4>2
    <3>2. CASE o \in fat_rmdir(path)
      <4> DEFINE act == "rmdir"
      <4>1. o \in Called(act, path) /\ act \in {"unlink", "rmdir"}
        BY <3>2 DEF Called, OutcomesOf
      <4> HIDE DEF act
      <4>2. Brings(o, path, D, {})
        BY <1>5, <2>1, <4>1, RemovalBrings
      <4> QED
        BY <4>2
    <3>3. CASE o \in fat_mkdir(path)
      <4>1. o \in Called("mkdir", path)
        BY <3>3 DEF Called, OutcomesOf
      <4>2. \E E : Brings(o, path, D, E) /\ Opens(o, path, D, E)
        BY <1>5, <2>1, <4>1, MkdirBrings
      <4> QED
        BY <4>2
    <3> QED
      BY <1>2, <3>1, <3>2, <3>3
  <2>3. PICK E : Brings(o, path, D, E)
    BY <2>2
  <2>4. Edited(path, E)
    BY <1>2, <2>3, AppliedEdits DEF D
  <2>5. ASSUME NEW s \in File, open_files'[s].in_use, s \notin stale'
        PROVE  Sized(fat', disk'.entries, open_files'[s])
    <3> DEFINE t == open_files[s]
    <3>1. open_files'[s] = t /\ t.in_use /\ s \notin stale /\ s \notin Outdated(File, path)
      BY <1>1, <2>5
    <3>2. t.path \notin Through(path)
      BY <3>1 DEF Outdated
    <3>3. t.path \in Paths
      BY <3>1 DEF KnownInv, CallsInv, Opened
    <3>4. Sized(fat, disk.entries, t)
      BY <1>1, <3>1 DEF KnownInv, SizesInv
    <3> HIDE DEF t
    <3>5. Sized(fat', disk'.entries, t)
      BY <2>4, <3>2, <3>3, <3>4, SizedElsewhere
    <3> QED
      BY <3>1, <3>5
  <2> QED
    BY <1>1, <2>4, <2>5, EditKnows
<1> QED
  BY <1>4, <1>5

\* What fat_write_at does is one of the calls.
LEMMA WriteIsCalled ==
    ASSUME fat \in Tables, disk \in Disks, NEW p \in Paths, NEW e \in Extent, NEW b \in Bytes,
           NEW o \in fat_write_at(p, e, b)
    PROVE  o \in Called("write", p)
<1>1. Shape(o)
  BY WriteAtShape
<1>2. o \in WritesOf(p)
  BY <1>1 DEF WritesOf, Shape
<1> QED
  BY <1>2 DEF Called, OutcomesOf

\* SYS_WRITE stores as many bytes as it reckons with, or none.
LEMMA WriteKnows ==
    ASSUME KnownInv, NEW p \in Procs, NEW fd \in Fd, NEW len \in Lengths, NEW b \in Bytes,
           file_write(p, fd, len, b)
    PROVE  Known2
<1> DEFINE s == fds[p][fd]
           f == open_files[s]
           path == f.path
           e == [offset |-> f.offset, len |-> len]
           D == Dirs(fat, disk.entries)
           E == Ent(Row(fat, disk.entries, resolve_path(fat, disk.entries, path)), NameOf(path))
<1>0. CallsInv /\ ~wild /\ dirs' = dirs
  BY DEF KnownInv, file_write, Running
<1>1. s \in File /\ Opened(f) /\ len \in Nat \ {0} /\ MaxSize \in Nat /\ DiskInv
  BY <1>0, NamesAFile, LengthAssumption DEF CallsInv
<1>2. f.in_use /\ stale' = stale \cup Outdated(File \ {s}, path)
  BY DEF file_write
<1>3. f.offset \in Nat /\ f.size \in Nat /\ path \in Paths /\ f \in OpenFiles
  BY <1>1, <1>2 DEF Opened, OpenFiles
<1>4. \E o \in fat_write_at(path, e, b) :
         /\ Apply(o)
         /\ open_files' = IF o.code = "ok" THEN [open_files EXCEPT ![s] = Written(f, len)] ELSE open_files
  BY DEF file_write
<1>5. PICK o \in fat_write_at(path, e, b) :
         /\ Apply(o)
         /\ open_files' = IF o.code = "ok" THEN [open_files EXCEPT ![s] = Written(f, len)] ELSE open_files
  BY <1>4
<1>6. IF IsFile(path) THEN listed' = listed ELSE Renamed(path)
  BY DEF file_write
<1>7. wild' = (o.code = "wild")
  BY <1>5 DEF Apply
<1>8. CASE o.code = "wild"
  <2>1. listed \in [Procs -> [DirFd -> Notes]]
    BY DEF KnownInv
  <2>2. listed' \in [Procs -> [DirFd -> Notes]]
    BY <1>6, <2>1, NotesKept
  <2>3. wild'
    BY <1>7, <1>8
  <2> QED
    BY <2>2, <2>3 DEF Known2
<1>9. CASE o.code # "wild"
  <2>1. fat \in Tables /\ disk \in Disks /\ Neat(fat, disk.entries, D)
    BY <1>0 DEF KnownInv, CallsInv, DiskInv
  <2>2. e \in Extent /\ e.offset = f.offset /\ e.len = len
    BY <1>1, <1>3 DEF Extent
  <2>3. IsFile(path) => \E x \in Stat(fat, disk.entries, path) : ~x.dir
    BY <1>0, <1>3, TreeTells
  <2>4. \A t \in File \ {s} : t \notin stale' /\ open_files[t].in_use => t \notin stale /\ open_files[t].path \notin Through(path)
    BY <1>2 DEF Outdated
  <2>5. s \notin stale' /\ f.in_use => s \notin stale
    BY <1>2
  <2>6. \A t \in File : open_files[t].in_use /\ t \notin stale => Sized(fat, disk.entries, open_files[t])
    BY <1>0 DEF KnownInv, SizesInv
  <2>7. \A t \in File : open_files[t].in_use => open_files[t].path \in Paths
    BY <1>0 DEF CallsInv, Opened
  <2>8. open_files = [t \in File |-> open_files[t]]
    BY <1>0 DEF CallsInv, SlotsInv
  <2>w. Written(f, len) = [f EXCEPT !.offset = f.offset + len,
                             !.size = IF f.offset + len > f.size THEN f.offset + len ELSE f.size]
    BY <1>3 DEF Written, OpenFiles
  <2> DEFINE w == Written(f, len)
  <2>9. w.path = path /\ w.size = (IF f.offset + len > f.size THEN f.offset + len ELSE f.size)
    BY <1>3, <2>w DEF OpenFiles
  <2> HIDE DEF w, s, e, D
  <2>10. o \in Called("write", path)
    BY <1>3, <1>5, <2>1, <2>2, WriteIsCalled
  <2>11. Wrote(o, path, D, e)
    BY <1>3, <1>5, <1>9, <2>1, <2>2, <2>10, WriteBrings
  <2> DEFINE Others == \A t \in File \ {s} : open_files[t].in_use /\ t \notin stale' =>
                            Sized(fat', disk'.entries, open_files[t])
  <2>12. ASSUME NEW G, Edited(path, G) PROVE Others
    <3> SUFFICES ASSUME NEW t \in File \ {s}, open_files[t].in_use, t \notin stale'
                 PROVE  Sized(fat', disk'.entries, open_files[t])
      OBVIOUS
    <3> DEFINE r == open_files[t]
    <3>1. r.path \in Paths /\ r.path \notin Through(path) /\ Sized(fat, disk.entries, r)
      BY <2>4, <2>6, <2>7
    <3> HIDE DEF r, f, path
    <3>2. Sized(fat', disk'.entries, r)
      BY <1>3, <2>12, <3>1, SizedElsewhere
    <3> QED
      BY <3>2 DEF r
  <2>13. ASSUME NEW G, Edited(path, G) PROVE Stat(fat, disk.entries, path) = E
    <3>1. resolve_path(fat, disk.entries, path) \in D
      BY <2>13 DEF Edited, Edits, D
    <3>2. resolve_path(fat, disk.entries, path) # NULL
      BY <2>1, <3>1, NeatFacts, NullIsNoBlock
    <3>3. path # <<>>
      BY <1>3, PathsAreNames
    <3> QED
      BY <3>2, <3>3 DEF Stat
  <2>14. CASE o.code = "full" /\ Brings(o, path, D, E)
    <3> HIDE DEF E
    <3>1. Edited(path, E)
      BY <1>3, <1>5, <2>14, AppliedEdits DEF D
    <3>2. Stat(fat, disk.entries, path) = E /\ Stat(fat', disk'.entries, path) = E
      BY <1>3, <2>13, <3>1, StatAtPath
    <3>3. open_files' = open_files
      BY <1>5, <2>14
    <3>4. s \notin stale' => Sized(fat', disk'.entries, f)
      BY <1>1, <1>2, <2>5, <2>6, <3>2 DEF Sized
    <3>5. \A t \in File : open_files'[t].in_use /\ t \notin stale' => Sized(fat', disk'.entries, open_files'[t])
      BY <2>12, <3>1, <3>3, <3>4
    <3>6. \/ Renamed(path)
          \/ listed' = listed /\ (\E x \in Stat(fat, disk.entries, path) : ~x.dir) /\ E # {}
      BY <1>6, <2>3, <3>2
    <3> HIDE DEF f, path
    <3> QED
      BY <1>0, <1>3, <3>1, <3>5, <3>6, EditKnows
  <2>15. CASE /\ o.code = "ok"
              /\ \E x, z : /\ Brings(o, path, D, {x}) /\ x.size = NewSize(e, z.size) /\ ~x.dir
                           /\ E = {z} \/ (E = {} /\ z.size = 0)
    <3>0. PICK x, z : /\ Brings(o, path, D, {x}) /\ x.size = NewSize(e, z.size) /\ ~x.dir
                      /\ E = {z} \/ (E = {} /\ z.size = 0)
      BY <2>15
    <3> HIDE DEF E
    <3> DEFINE G == {x}
    <3>g. Brings(o, path, D, G)
      BY <3>0
    <3> HIDE DEF G
    <3>1. Edited(path, G)
      BY <1>3, <1>5, <3>g, AppliedEdits DEF D
    <3>2. Stat(fat, disk.entries, path) = E /\ Stat(fat', disk'.entries, path) = G
      BY <1>3, <2>13, <3>1, StatAtPath
    <3>3. open_files' = [open_files EXCEPT ![s] = w]
      BY <1>5, <2>15 DEF w
    <3>4. s \notin stale' => Sized(fat', disk'.entries, w)
      <4> SUFFICES ASSUME s \notin stale' PROVE Sized(fat', disk'.entries, w)
        OBVIOUS
      <4>1. {y.size : y \in E} = {f.size}
        BY <1>1, <1>2, <2>5, <2>6, <3>2 DEF Sized
      <4>2. z.size = f.size
        BY <3>0, <4>1
      <4>3. x.size = w.size
        BY <1>1, <1>3, <2>2, <2>9, <3>0, <4>2 DEF NewSize
      <4> QED
        BY <2>9, <3>2, <4>3 DEF Sized, G
    <3>5. \A t \in File : open_files'[t] = IF t = s THEN w ELSE open_files[t]
      BY <2>8, <3>3
    <3>6. Others
      BY <2>12, <3>1
    <3>7. \A t \in File : open_files'[t].in_use /\ t \notin stale' => Sized(fat', disk'.entries, open_files'[t])
      <4> SUFFICES ASSUME NEW t \in File, open_files'[t].in_use, t \notin stale'
                   PROVE  Sized(fat', disk'.entries, open_files'[t])
        OBVIOUS
      <4>1. CASE t = s
        BY <3>4, <3>5, <4>1
      <4>2. CASE t # s
        BY <3>5, <3>6, <4>2
      <4> QED
        BY <4>1, <4>2
    <3>8. \/ Renamed(path)
          \/ listed' = listed /\ (\E y \in Stat(fat, disk.entries, path) : ~y.dir) /\ G # {}
      BY <1>6, <2>3 DEF G
    <3> HIDE DEF f, path, Others
    <3> QED
      BY <1>0, <1>3, <3>1, <3>7, <3>8, EditKnows
  <2> QED
    BY <2>11, <2>14, <2>15 DEF Wrote, D, E
<1> QED
  BY <1>8, <1>9

\* SYS_READ and SYS_CLOSE.
LEMMA ReadKnows ==
    ASSUME KnownInv, NEW p \in Procs, NEW fd \in Fd, NEW len \in Lengths, file_read(p, fd, len)
    PROVE  Known2
<1> DEFINE s == fds[p][fd]
           f == open_files[s]
<1>0. CallsInv
  BY DEF KnownInv
<1>1. s \in File /\ Opened(f)
  BY <1>0, NamesAFile DEF CallsInv
<1>2. ~wild /\ UNCHANGED <<fat, disk, dirs, listed>> /\ stale' = stale
  BY DEF file_read, Running
<1>3. \E x : open_files' = [open_files EXCEPT ![s].offset = x]
  BY DEF file_read
<1>4. PICK x : open_files' = [open_files EXCEPT ![s].offset = x]
  BY <1>3
<1>5. \A t \in File : open_files'[t].in_use = open_files[t].in_use /\ open_files'[t].path = open_files[t].path
                      /\ open_files'[t].size = open_files[t].size
  <2>1. f \in OpenFiles /\ open_files = [t \in File |-> open_files[t]]
    BY <1>0, <1>1 DEF Opened, CallsInv, SlotsInv
  <2>2. open_files' = [open_files EXCEPT ![s] = [f EXCEPT !.offset = x]]
    BY <1>4
  <2> DEFINE r == [f EXCEPT !.offset = x]
  <2>3. r.in_use = f.in_use /\ r.path = f.path /\ r.size = f.size
    BY <2>1 DEF OpenFiles
  <2> HIDE DEF r
  <2>4. \A t \in File : open_files'[t] = IF t = s THEN r ELSE open_files[t]
    BY <1>1, <2>1, <2>2 DEF r
  <2> QED
    BY <2>3, <2>4
<1>6. \A t \in File : open_files'[t].in_use /\ t \notin stale' => Sized(fat, disk.entries, open_files'[t])
  BY <1>2, <1>5 DEF KnownInv, SizesInv, Sized
<1> QED
  BY <1>2, <1>6, DiskSameKnows

\* fd_close
LEMMA CloseKnows ==
    ASSUME KnownInv, NEW p \in Procs, NEW fd \in Fd, Close(p, fd)
    PROVE  Known2
<1> DEFINE s == fds[p][fd]
           r == [open_files[s] EXCEPT !.in_use = FALSE]
<1>0. CallsInv
  BY DEF KnownInv
<1>1. s \in File /\ Shaped(open_files[s])
  BY <1>0 DEF Close, CallsInv, SlotsInv
<1>2. ~wild /\ UNCHANGED <<fat, disk, wild, dirs, listed>> /\ stale' = stale \ {s}
  BY DEF Close, Running, fatvars
<1>3. open_files' = [open_files EXCEPT ![s] = r]
  BY DEF Close
<1>4. ~r.in_use
  BY <1>1, ClosedEntry
<1> HIDE DEF r, s
<1>5. \A t \in File : open_files'[t] = IF t = s THEN r ELSE open_files[t]
  BY <1>0, <1>3 DEF CallsInv, SlotsInv
<1>6. \A t \in File : open_files'[t].in_use /\ t \notin stale' => Sized(fat, disk.entries, open_files'[t])
  BY <1>2, <1>4, <1>5 DEF KnownInv, SizesInv
<1> QED
  BY <1>2, <1>6, DiskSameKnows

\* The end of a process: what it had open is closed or lost, and its handles are
\* forgotten.
LEMMA EndKnows ==
    ASSUME KnownInv, NEW p \in Procs, CleanUp(p) \/ Reap(p)
    PROVE  Known2
<1>0. CallsInv /\ ~wild /\ UNCHANGED <<fat, disk, wild>>
  BY DEF KnownInv, CleanUp, Reap, Forget, fatvars
<1>1. /\ dirs' = [dirs EXCEPT ![p] = NoDirs]
      /\ listed' = [listed EXCEPT ![p] = [d \in DirFd |-> Unlisted]]
  BY DEF CleanUp, Reap, Forget
<1>2. listed \in [Procs -> [DirFd -> Notes]] /\ dirs \in [Procs -> [DirFd -> Handles]]
  BY DEF KnownInv, CallsInv
<1>3. Unlisted \in Notes /\ ~Unlisted.noted
  BY DEF Unlisted, Notes
<1> DEFINE U == [d \in DirFd |-> Unlisted]
<1>4. U \in [DirFd -> Notes] /\ \A d \in DirFd : U[d] = Unlisted
  BY <1>3
<1> HIDE DEF U
<1>5. /\ listed' \in [Procs -> [DirFd -> Notes]]
      /\ \A q \in Procs : listed'[q] = IF q = p THEN U ELSE listed[q]
  BY <1>1, <1>2, <1>4 DEF U
<1>6. \A q \in Procs, d \in DirFd :
          listed'[q][d].noted => listed'[q][d] = listed[q][d] /\ dirs'[q][d] = dirs[q][d]
  BY <1>1, <1>2, <1>3, <1>4, <1>5
<1>7. \A q \in Procs, d \in DirFd :
          listed'[q][d].noted => Listing(fat, disk.entries, dirs'[q][d], listed'[q][d])
  BY <1>0, <1>6 DEF KnownInv, ListsInv
<1>8. \A s \in File : open_files'[s].in_use /\ s \notin stale' =>
          s \notin stale /\ open_files'[s] = open_files[s] /\ open_files[s].in_use
  <2>1. CASE Reap(p)
    BY <2>1 DEF Reap
  <2>2. CASE CleanUp(p)
    <3> DEFINE C == Closed(p)
    <3>1. /\ stale' = stale \ C
          /\ open_files' = [s \in File |-> IF s \in C THEN [open_files[s] EXCEPT !.in_use = FALSE]
                                                      ELSE open_files[s]]
      BY <2>2 DEF CleanUp
    <3>2. \A s \in File : ~[open_files[s] EXCEPT !.in_use = FALSE].in_use
      BY <1>0, ClosedEntry DEF CallsInv, SlotsInv
    <3> HIDE DEF C
    <3> QED
      BY <3>1, <3>2
  <2> QED
    BY <2>1, <2>2
<1>9. \A s \in File : open_files'[s].in_use /\ s \notin stale' => Sized(fat, disk.entries, open_files'[s])
  BY <1>0, <1>8 DEF KnownInv, SizesInv
<1>10. Neat(fat, disk.entries, Dirs(fat, disk.entries))
  BY <1>0 DEF KnownInv
<1> QED
  BY <1>0, <1>5, <1>7, <1>9, <1>10 DEF Known2

\* A new handle has shown nothing.
LEMMA OpenDirKnows ==
    ASSUME KnownInv, NEW p \in Procs, NEW path \in Paths \cup {<<>>}, OpenDir(p, path)
    PROVE  Known2
<1> DEFINE d == First(FreeDirs(p))
           l == [path |-> path, names |-> <<>>, noted |-> TRUE]
<1>0. CallsInv /\ ~wild /\ UNCHANGED <<fat, disk, wild, open_files, stale>>
  BY DEF KnownInv, OpenDir, Running, fatvars
<1>1. \E c \in fat_opendir(path) :
         /\ dirs' = [dirs EXCEPT ![p][d] = [in_use |-> TRUE, cluster |-> c, index |-> 0]]
         /\ listed' = [listed EXCEPT ![p][d] = l]
  BY Zenon DEF OpenDir
<1>2. PICK c \in fat_opendir(path) :
         /\ dirs' = [dirs EXCEPT ![p][d] = [in_use |-> TRUE, cluster |-> c, index |-> 0]]
         /\ listed' = [listed EXCEPT ![p][d] = l]
  BY <1>1
<1>3. c \in Opendir(fat, disk.entries, path)
  BY <1>0, <1>2, TreeTells
<1> DEFINE h == [in_use |-> TRUE, cluster |-> c, index |-> 0]
<1>4. /\ listed \in [Procs -> [DirFd -> Notes]] /\ dirs \in [Procs -> [DirFd -> Handles]]
  BY DEF KnownInv, CallsInv
<1>5. <<>> \in Seq(Names) /\ Len(<<>>) = 0
  OBVIOUS
<1>6. l \in Notes
  BY <1>5 DEF Notes
<1>7. Listing(fat, disk.entries, h, l)
  BY <1>3, <1>5 DEF Listing, ShownUpTo
<1> HIDE DEF l, h, d
<1>8. listed' = [listed EXCEPT ![p][d] = l] /\ dirs' = [dirs EXCEPT ![p][d] = h]
  BY <1>2 DEF h
<1>9. /\ listed' \in [Procs -> [DirFd -> Notes]]
      /\ \A q \in Procs, i \in DirFd : /\ listed'[q][i] = IF q = p /\ i = d THEN l ELSE listed[q][i]
                                       /\ dirs'[q][i] = IF q = p /\ i = d THEN h ELSE dirs[q][i]
  BY <1>4, <1>6, <1>8
<1>10. \A q \in Procs, i \in DirFd :
          listed'[q][i].noted => Listing(fat, disk.entries, dirs'[q][i], listed'[q][i])
  BY <1>0, <1>7, <1>9 DEF KnownInv, ListsInv
<1> QED
  BY <1>0, <1>9, <1>10, FilesSame

\* A handle whose listing is noted is of a directory that is there.
LEMMA ListingIsThere ==
    ASSUME KnownInv, ~wild, NEW p \in Procs, NEW d \in DirFd, listed[p][d].noted
    PROVE  dirs[p][d].cluster \in Dirs(fat, disk.entries)
<1> DEFINE c == dirs[p][d].cluster
           q == listed[p][d].path
           D == Dirs(fat, disk.entries)
<1>1. Neat(fat, disk.entries, D) /\ c \in Opendir(fat, disk.entries, q)
  BY DEF KnownInv, ListsInv, Listing
<1>2. q \in Paths \cup {<<>>}
  BY DEF KnownInv, Notes
<1>3. q \in Seq(Names)
  BY <1>2, HandlePaths
<1> HIDE DEF c, q, D
<1>4. PICK g : Visits(fat, disk.entries, q, g, Len(q))
  BY <1>1, <1>3, WalkExists
<1>5. c \in D
  BY <1>1, <1>3, <1>4, DirWalk
<1> QED
  BY <1>5 DEF c, D

\* SYS_READDIR shows the next name.
LEMMA ReadDirKnows ==
    ASSUME KnownInv, NEW p \in Procs, NEW d \in DirFd, ReadDir(p, d)
    PROVE  Known2
<1> DEFINE h == dirs[p][d]
           l == listed[p][d]
           h2 == [h EXCEPT !.index = h.index + 1]
<1>0. CallsInv /\ ~wild /\ UNCHANGED <<fat, disk, wild, open_files, stale>>
  BY DEF KnownInv, ReadDir, Running, fatvars
<1>1. /\ listed \in [Procs -> [DirFd -> Notes]] /\ dirs \in [Procs -> [DirFd -> Handles]]
      /\ l \in Notes /\ h \in Handles
  BY DEF KnownInv, CallsInv
<1>2. dirs' = [dirs EXCEPT ![p][d] = h2]
  BY <1>1 DEF ReadDir
<1>3. \A q \in Procs, i \in DirFd : dirs'[q][i] = IF q = p /\ i = d THEN h2 ELSE dirs[q][i]
  BY <1>1, <1>2
<1>4. h2.cluster = h.cluster /\ h2.index = h.index + 1 /\ h.index \in Nat
  BY <1>1 DEF Handles
<1>5. \/ listed' = listed /\ ~l.noted
      \/ \E n \in fat_readdir(h.cluster, h.index) : listed' = [listed EXCEPT ![p][d].names = Append(@, n)]
  <2>1. CASE h.cluster \in Dirs(fat, disk.entries)
    <3>1. PICK n \in fat_readdir(h.cluster, h.index) :
              listed' = IF l = Unlisted THEN listed ELSE [listed EXCEPT ![p][d].names = Append(@, n)]
      BY <2>1 DEF ReadDir
    <3>2. ~Unlisted.noted
      BY DEF Unlisted
    <3>3. CASE l = Unlisted
      BY <3>1, <3>2, <3>3
    <3>4. CASE l # Unlisted
      BY <3>1, <3>4
    <3> QED
      BY <3>3, <3>4
  <2>2. CASE h.cluster \notin Dirs(fat, disk.entries)
    <3>1. listed' = listed
      BY <2>2 DEF ReadDir
    <3>2. ~l.noted
      BY <1>0, <2>2, ListingIsThere
    <3> QED
      BY <3>1, <3>2
  <2> QED
    BY <2>1, <2>2
<1>6. CASE listed' = listed /\ ~l.noted
  <2>1. \A q \in Procs, i \in DirFd : listed'[q][i].noted => Listing(fat, disk.entries, dirs'[q][i], listed'[q][i])
    <3> SUFFICES ASSUME NEW q \in Procs, NEW i \in DirFd, listed'[q][i].noted
                 PROVE  Listing(fat, disk.entries, dirs'[q][i], listed'[q][i])
      OBVIOUS
    <3>1. ~(q = p /\ i = d) /\ listed'[q][i] = listed[q][i]
      BY <1>6
    <3> HIDE DEF h2
    <3>2. dirs'[q][i] = dirs[q][i]
      BY <1>3, <3>1
    <3> QED
      BY <1>0, <3>1, <3>2 DEF KnownInv, ListsInv
  <2>2. listed' \in [Procs -> [DirFd -> Notes]]
    BY <1>1, <1>6
  <2> QED
    BY <1>0, <2>1, <2>2, FilesSame
<1>7. ASSUME NEW n \in fat_readdir(h.cluster, h.index),
             listed' = [listed EXCEPT ![p][d].names = Append(@, n)]
      PROVE  Known2
  <2> DEFINE R == Row(fat, disk.entries, h.cluster)
             m == h.index
             names == l.names
             s == Append(names, n)
             l2 == [l EXCEPT !.names = s]
  <2>1. n \in Shown(R, m)
    BY <1>7, ReaddirIs
  <2>2. n \in Names
    BY <2>1 DEF Shown, Counts
  <2>3. names \in Seq(Names)
    BY <1>1 DEF Notes
  <2>4. s \in Seq(Names)
    BY <2>2, <2>3
  <2>5. listed' = [listed EXCEPT ![p][d] = l2]
    BY <1>1, <1>7
  <2> HIDE DEF s, R
  <2>6. l2 \in Notes /\ l2.names = s /\ l2.path = l.path /\ l2.noted = l.noted
    BY <1>1, <2>4 DEF Notes
  <2> HIDE DEF l2, h2
  <2>7. /\ listed' \in [Procs -> [DirFd -> Notes]]
        /\ \A q \in Procs, i \in DirFd : listed'[q][i] = IF q = p /\ i = d THEN l2 ELSE listed[q][i]
    BY <1>1, <2>5, <2>6
  <2>8. l.noted => Listing(fat, disk.entries, h2, l2)
    <3> SUFFICES ASSUME l.noted PROVE Listing(fat, disk.entries, h2, l2)
      OBVIOUS
    <3>1. Listing(fat, disk.entries, h, l)
      BY <1>0 DEF KnownInv, ListsInv
    <3>2. h.cluster \in Opendir(fat, disk.entries, l.path) /\ ShownUpTo(R, names, m)
      BY <3>1 DEF Listing, R
    <3>3. m \in Nat
      BY <1>4
    <3> HIDE DEF m, names
    <3>4. ShownUpTo(R, s, m + 1)
      BY <2>1, <3>2, <3>3, ShownNext DEF s
    <3> QED
      BY <1>4, <2>6, <3>2, <3>4 DEF Listing, R, m
  <2>9. \A q \in Procs, i \in DirFd : listed'[q][i].noted => Listing(fat, disk.entries, dirs'[q][i], listed'[q][i])
    <3> SUFFICES ASSUME NEW q \in Procs, NEW i \in DirFd, listed'[q][i].noted
                 PROVE  Listing(fat, disk.entries, dirs'[q][i], listed'[q][i])
      OBVIOUS
    <3>1. CASE q = p /\ i = d
      BY <1>3, <2>6, <2>7, <2>8, <3>1
    <3>2. CASE ~(q = p /\ i = d)
      <4>1. listed'[q][i] = listed[q][i] /\ dirs'[q][i] = dirs[q][i]
        BY <1>3, <2>7, <3>2
      <4> QED
        BY <1>0, <4>1 DEF KnownInv, ListsInv
    <3> QED
      BY <3>1, <3>2
  <2> QED
    BY <1>0, <2>7, <2>9, FilesSame
<1> QED
  BY <1>5, <1>6, <1>7

\* closedir
LEMMA CloseDirKnows ==
    ASSUME KnownInv, NEW p \in Procs, NEW d \in DirFd, CloseDir(p, d)
    PROVE  Known2
<1>0. CallsInv /\ ~wild /\ UNCHANGED <<fat, disk, wild, open_files, stale>>
  BY DEF KnownInv, CloseDir, Running, fatvars
<1>1. /\ dirs' = [dirs EXCEPT ![p][d].in_use = FALSE]
      /\ listed' = [listed EXCEPT ![p][d] = Unlisted]
  BY DEF CloseDir
<1>2. listed \in [Procs -> [DirFd -> Notes]] /\ dirs \in [Procs -> [DirFd -> Handles]]
  BY DEF KnownInv, CallsInv
<1>3. Unlisted \in Notes /\ ~Unlisted.noted
  BY DEF Unlisted, Notes
<1>4. /\ listed' \in [Procs -> [DirFd -> Notes]]
      /\ \A q \in Procs, i \in DirFd : listed'[q][i] = IF q = p /\ i = d THEN Unlisted ELSE listed[q][i]
  BY <1>1, <1>2, <1>3
<1>5. \A q \in Procs, i \in DirFd : ~(q = p /\ i = d) => dirs'[q][i] = dirs[q][i]
  BY <1>1, <1>2
<1>6. \A q \in Procs, i \in DirFd :
          listed'[q][i].noted => Listing(fat, disk.entries, dirs'[q][i], listed'[q][i])
  BY <1>0, <1>3, <1>4, <1>5 DEF KnownInv, ListsInv
<1> QED
  BY <1>0, <1>4, <1>6, FilesSame

\* At first the file system is empty and nothing is open.
LEMMA KnownInit == ASSUME FilesInit PROVE KnownInv
<1>0. CallsInv /\ Init
  BY CallsInit DEF FilesInit
<1>3. Neat(fat, disk.entries, Dirs(fat, disk.entries))
  BY <1>0, InitNeat
<1>4. listed \in [Procs -> [DirFd -> Notes]] /\ \A p \in Procs, d \in DirFd : ~listed[p][d].noted
  BY DEF FilesInit, Unlisted, Notes
<1>5. \A s \in File : ~open_files[s].in_use
  BY DEF FilesInit, NoFile
<1> QED
  BY <1>0, <1>3, <1>4, <1>5 DEF KnownInv, SizesInv, ListsInv

\* Every step keeps the invariant.
LEMMA KnownStep ==
    ASSUME KnownInv, [FilesNext]_<<fatvars, tables>>
    PROVE  KnownInv'
<1>0. CallsInv'
  BY CallsStep DEF KnownInv
<1> SUFFICES Known2 \/ (wild /\ listed' = listed /\ wild' = wild)
  <2>1. ASSUME wild, listed' = listed, wild' = wild PROVE Known2
    BY <2>1 DEF KnownInv, Known2
  <2> QED
    BY <1>0, <2>1, Known2Is
<1>1. \A s \in File : ~wild => (open_files[s].in_use /\ s \notin stale => Sized(fat, disk.entries, open_files[s]))
  BY DEF KnownInv, SizesInv
<1>2. ASSUME ~wild, UNCHANGED <<fat, disk, wild, dirs, listed, open_files, stale>> PROVE Known2
  BY <1>1, <1>2, DiskSameKnows
<1>3. CASE UNCHANGED <<fatvars, tables>>
  BY <1>2, <1>3 DEF fatvars, tables
<1>4. ASSUME NEW p \in Procs, NEW q \in Procs, Start(q, p) \/ Die(p) \/ \E in \in Inputs : ChDir(p, in)
      PROVE  Known2
  BY <1>2, <1>4 DEF Start, Die, ChDir, Running, fatvars
<1>5. ASSUME NEW p \in Procs, NEW path \in Paths, NEW writable \in BOOLEAN, Open(p, path, writable) PROVE Known2
  <2>1. CASE writable
    BY <1>5, <2>1, OpenWriteKnows
  <2>2. CASE ~writable
    BY <1>5, <2>2, OpenReadKnows
  <2> QED
    BY <2>1, <2>2
<1> QED
  BY <1>3, <1>4, <1>5, CloseKnows, ReadKnows, WriteKnows, ChangeKnows, OpenDirKnows, ReadDirKnows,
     CloseDirKnows, EndKnows DEF FilesNext

\* The first property follows.
LEMMA KnownSizes == ASSUME KnownInv PROVE SizeIsTrue
<1> SUFFICES ASSUME NEW p \in Procs, Running(p), NEW s \in Held(p) \ stale
             PROVE  {e.size : e \in fat_stat(open_files[s].path)} = {open_files[s].size}
  BY DEF SizeIsTrue
<1>1. ~wild /\ CallsInv
  BY DEF Running, KnownInv
<1>2. s \in File /\ open_files[s].in_use
  BY <1>1 DEF CallsInv, SlotsInv, Held
<1>3. open_files[s].path \in Paths
  BY <1>1, <1>2 DEF CallsInv, Opened
<1>4. fat_stat(open_files[s].path) = Stat(fat, disk.entries, open_files[s].path)
  BY <1>1, <1>3, TreeTells
<1>5. Sized(fat, disk.entries, open_files[s])
  BY <1>1, <1>2 DEF KnownInv, SizesInv
<1> QED
  BY <1>4, <1>5 DEF Sized

\* The second one as well.
LEMMA KnownLists == ASSUME KnownInv PROVE ReaddirComplete
<1> SUFFICES ASSUME NEW p \in Procs, Running(p), NEW d \in DirFd, listed[p][d].noted
             PROVE  LET l == listed[p][d]
                        there == {n \in Names : fat_stat(Append(l.path, n)) # {}}
                    IN  /\ \A i, j \in DOMAIN l.names : l.names[i] = l.names[j] => i = j
                        /\ fat_readdir(dirs[p][d].cluster, dirs[p][d].index) = {} =>
                                {l.names[i] : i \in DOMAIN l.names} = there
  BY DEF ReaddirComplete
<1> DEFINE l == listed[p][d]
           h == dirs[p][d]
           c == h.cluster
           n == h.index
           q == l.path
           names == l.names
           D == Dirs(fat, disk.entries)
           R == Row(fat, disk.entries, c)
<1>1. ~wild /\ CallsInv /\ Neat(fat, disk.entries, D)
  BY DEF Running, KnownInv
<1>2. c \in Opendir(fat, disk.entries, q) /\ ShownUpTo(R, names, n)
  BY <1>1 DEF KnownInv, ListsInv, Listing
<1>3. n \in Nat
  BY <1>1 DEF CallsInv, Handles
<1>4. q \in Seq(Names)
  <2>1. q \in Paths \cup {<<>>}
    BY DEF KnownInv, Notes
  <2> HIDE DEF q
  <2> QED
    BY <2>1, HandlePaths
<1>5. c \in D
  BY <1>1, ListingIsThere
<1> HIDE DEF D
<1>6. fat \in Tables /\ EntriesOK(disk.entries) /\ D \subseteq Cluster \cup {Root}
  BY <1>1, NeatFacts
<1>7. Single(R)
  BY <1>1, <1>5 DEF Neat
<1>8. c \in Cluster \cup {Root}
  BY <1>5, <1>6
<1> HIDE DEF c
<1>9. PICK m \in Nat : DOMAIN R = 1..m
  BY <1>6, <1>8, RowIs
<1>10. fat_readdir(c, n) = Shown(R, n)
  BY ReaddirIs
<1>11. {x \in Names : fat_stat(Append(q, x)) # {}} = {x \in Names : Ent(R, x) # {}}
  <2>1. ASSUME NEW x \in Names PROVE fat_stat(Append(q, x)) = Ent(R, x)
    <3>1. Append(q, x) \in Seq(Names)
      BY <1>4
    <3> DEFINE y == Append(q, x)
    <3>2. y \in Seq(Names)
      BY <3>1
    <3> HIDE DEF y
    <3>3. fat_stat(y) = Stat(fat, disk.entries, y)
      BY <1>1, <3>2, StatIs
    <3> HIDE DEF q, R
    <3>4. Stat(fat, disk.entries, Append(q, x)) = Ent(Row(fat, disk.entries, c), x)
      BY <1>1, <1>2, <1>4, StatBelow
    <3> QED
      BY <3>3, <3>4 DEF y, R
  <2> HIDE DEF q, R
  <2> QED
    BY <2>1
<1> HIDE DEF R, names, n
<1>12. /\ \A i, j \in DOMAIN names : names[i] = names[j] => i = j
       /\ Shown(R, n) = {} => {names[i] : i \in DOMAIN names} = {x \in Names : Ent(R, x) # {}}
  BY <1>2, <1>3, <1>7, <1>9, ShownAll
<1> QED
  BY <1>10, <1>11, <1>12 DEF names, n, c

\* Whatever other processes open, write, remove and create, the size that an open
\* file remembers is the one its directory entry tells, until a call of another
\* descriptor on the path or on a directory above it: also after writes that stop
\* half way at a full disk.
THEOREM SizesAreTrue == FilesSpec => []SizeIsTrue
<1>1. FilesInit => KnownInv
  BY KnownInit
<1>2. KnownInv /\ [FilesNext]_<<fatvars, tables>> => KnownInv'
  BY KnownStep
<1>3. KnownInv => SizeIsTrue
  BY KnownSizes
<1> QED
  BY <1>1, <1>2, <1>3, PTL DEF FilesSpec

\* While no name comes or goes in it, a directory is listed completely, each name
\* once, whatever is written and created elsewhere and however its entries and
\* its chain have become what they are.
THEOREM ListingsAreComplete == FilesSpec => []ReaddirComplete
<1>1. FilesInit => KnownInv
  BY KnownInit
<1>2. KnownInv /\ [FilesNext]_<<fatvars, tables>> => KnownInv'
  BY KnownStep
<1>3. KnownInv => ReaddirComplete
  BY KnownLists
<1> QED
  BY <1>1, <1>2, <1>3, PTL DEF FilesSpec
---------------------------------------------------------------------------
(* Paths with "..".                                                        *)

\* Second entries lead to parents, and nothing is anywhere but at the paths.
Climbs(f, es) == Dotted(f, es, Dirs(f, es)) /\ Confined(f, es, Paths \cup {<<>>})

\* What the third property needs of the disk, besides KnownInv.
ClimbsInv == ~wild => Climbs(fat, disk.entries)

\* What is new at path is no directory or a new one, that leads back.
LeadsBack(path, E) ==
    NewBelow(fat', disk'.entries, Dirs(fat, disk.entries), resolve_path(fat, disk.entries, path), E)

\* An edit at a path keeps this.
LEMMA EditClimbs ==
    ASSUME NEW path \in Paths, NEW E, Edited(path, E), LeadsBack(path, E), Climbs(fat, disk.entries)
    PROVE  Climbs(fat', disk'.entries)
<1> DEFINE f == fat
           es == disk.entries
           F == fat'
           es2 == disk'.entries
           D == Dirs(f, es)
           D2 == Dirs(F, es2)
           dir == resolve_path(f, es, path)
           name == NameOf(path)
           P == Paths \cup {<<>>}
<1>1. Edits(f, es, D, F, es2, D2, dir, name, E)
  BY DEF Edited
<1>2. NewBelow(F, es2, D, dir, E)
  BY DEF LeadsBack
<1>3. Dotted(f, es, D) /\ Confined(f, es, P)
  BY DEF Climbs
<1>4. path \in Seq(Names) /\ path # <<>> /\ resolve_path(f, es, path) = dir /\ NameOf(path) = name
  BY PathsAreNames
<1>5. path \in P
  OBVIOUS
<1>6. SUFFICES Dotted(F, es2, D2) /\ Confined(F, es2, P)
  BY DEF Climbs
<1> HIDE DEF f, es, F, es2, D, D2, dir, name, P
<1>7. Dotted(F, es2, D2)
  BY <1>1, <1>2, <1>3, DottedKept
<1>8. Confined(F, es2, P)
  BY <1>1, <1>2, <1>3, <1>4, <1>5, ConfinedKept
<1> QED
  BY <1>7, <1>8

\* What brings no directory to a path brings none that could lead elsewhere.
LEMMA NoneBelow ==
    ASSUME NEW path, NEW E, \A x \in E : ~x.dir
    PROVE  LeadsBack(path, E)
BY DEF LeadsBack, NewBelow

\* What Apply makes of a directory that an operation opens is below its path.
LEMMA AppliedOpens ==
    ASSUME NEW path, NEW o, Apply(o), NEW E, Opens(o, path, Dirs(fat, disk.entries), E)
    PROVE  LeadsBack(path, E)
<1> DEFINE d == Done(fat, disk, o.items)
           D == Dirs(fat, disk.entries)
           dir == resolve_path(fat, disk.entries, path)
<1>1. fat' = d.fat /\ disk' = d.disk
  BY DEF Apply
<1>2. \A x \in E : x.dir => x.first \notin D /\ Points(Row(d.fat, d.disk.entries, x.first), dir)
  BY DEF Opens
<1> HIDE DEF d, D, dir
<1>3. \A x \in E : x.dir => x.first \notin D /\ Points(Row(fat', disk'.entries, x.first), dir)
  BY <1>1, <1>2
<1>4. NewBelow(fat', disk'.entries, D, dir, E)
  BY <1>3 DEF NewBelow
<1> QED
  BY <1>4 DEF LeadsBack, D, dir

\* SYS_OPEN for writing puts a file at its path.
LEMMA OpenClimbs ==
    ASSUME KnownInv, NEW p \in Procs, NEW path \in Paths, NEW writable \in BOOLEAN, writable,
           Open(p, path, writable), ~wild', Climbs(fat, disk.entries)
    PROVE  Climbs(fat', disk'.entries)
<1> DEFINE D == Dirs(fat, disk.entries)
           E == {Entry(NameOf(path), FALSE, 0, 0)}
<1>1. ~wild
  BY DEF Open, Running
<1>2. PICK o \in fat_write_file(path) : Apply(o)
  BY DEF Open
<1>3. o.code # "wild"
  BY <1>2 DEF Apply
<1>4. fat \in Tables /\ disk \in Disks /\ Neat(fat, disk.entries, D)
  BY <1>1 DEF KnownInv, CallsInv, DiskInv
<1>5. o \in Called("truncate", path)
  BY <1>2 DEF Called, OutcomesOf
<1> HIDE DEF D
<1>6. Brings(o, path, D, E)
  BY <1>3, <1>4, <1>5, TruncateBrings
<1>7. \A x \in E : ~x.dir
  BY DEF Entry
<1> HIDE DEF E
<1>8. Edited(path, E)
  BY <1>2, <1>6, AppliedEdits DEF D
<1> QED
  BY <1>7, <1>8, NoneBelow, EditClimbs

\* SYS_UNLINK and SYS_RMDIR leave nothing at their path, SYS_MKDIR a directory
\* that leads back.
LEMMA ChangeClimbs ==
    ASSUME KnownInv, NEW p \in Procs, NEW path \in Paths, Change(p, path), ~wild', Climbs(fat, disk.entries)
    PROVE  Climbs(fat', disk'.entries)
<1> DEFINE D == Dirs(fat, disk.entries)
<1>1. ~wild
  BY DEF Change, Running
<1>2. PICK o \in fat_delete_file(path) \cup fat_mkdir(path) \cup fat_rmdir(path) : Apply(o)
  BY DEF Change
<1>3. o.code # "wild"
  BY <1>2 DEF Apply
<1>4. fat \in Tables /\ disk \in Disks /\ Neat(fat, disk.entries, D)
  BY <1>1 DEF KnownInv, CallsInv, DiskInv
<1> HIDE DEF D
<1>5. \E E : Brings(o, path, D, E) /\ LeadsBack(path, E)
  <2> DEFINE none == {}
  <2>1. \A x \in none : ~x.dir
    OBVIOUS
  <2>2. ASSUME Brings(o, path, D, none) PROVE \E E : Brings(o, path, D, E) /\ LeadsBack(path, E)
    <3> HIDE DEF none
    <3>1. LeadsBack(path, none)
      BY <2>1, NoneBelow
    <3> QED
      BY <2>2, <3>1
  <2>3. CASE o \in fat_delete_file(path)
    <3> DEFINE act == "unlink"
    <3>1. o \in Called(act, path) /\ act \in {"unlink", "rmdir"}
      BY <2>3 DEF Called, OutcomesOf
    <3> HIDE DEF act
    <3>2. Brings(o, path, D, {})
      BY <1>3, <1>4, <3>1, RemovalBrings
    <3> QED
      BY <2>2, <3>2
  <2>4. CASE o \in fat_rmdir(path)
    <3> DEFINE act == "rmdir"
    <3>1. o \in Called(act, path) /\ act \in {"unlink", "rmdir"}
      BY <2>4 DEF Called, OutcomesOf
    <3> HIDE DEF act
    <3>2. Brings(o, path, D, {})
      BY <1>3, <1>4, <3>1, RemovalBrings
    <3> QED
      BY <2>2, <3>2
  <2>5. CASE o \in fat_mkdir(path)
    <3>1. o \in Called("mkdir", path)
      BY <2>5 DEF Called, OutcomesOf
    <3>2. PICK E : Brings(o, path, D, E) /\ Opens(o, path, D, E)
      BY <1>3, <1>4, <3>1, MkdirBrings
    <3>3. LeadsBack(path, E)
      BY <1>2, <3>2, AppliedOpens DEF D
    <3> QED
      BY <3>2, <3>3
  <2> QED
    BY <1>2, <2>3, <2>4, <2>5
<1>6. PICK E : Brings(o, path, D, E) /\ LeadsBack(path, E)
  BY <1>5
<1>7. Edited(path, E)
  BY <1>2, <1>6, AppliedEdits DEF D
<1> QED
  BY <1>6, <1>7, EditClimbs

\* SYS_WRITE puts a file where one was or nothing.
LEMMA WriteClimbs ==
    ASSUME KnownInv, NEW p \in Procs, NEW fd \in Fd, NEW len \in Lengths, NEW b \in Bytes,
           file_write(p, fd, len, b), ~wild', Climbs(fat, disk.entries)
    PROVE  Climbs(fat', disk'.entries)
<1> DEFINE s == fds[p][fd]
           f == open_files[s]
           path == f.path
           e == [offset |-> f.offset, len |-> len]
           D == Dirs(fat, disk.entries)
<1>1. CallsInv /\ ~wild
  BY DEF KnownInv, file_write, Running
<1>2. s \in File /\ Opened(f) /\ len \in Nat \ {0} /\ f.in_use
  BY <1>1, NamesAFile, LengthAssumption DEF CallsInv, file_write
<1>3. f.offset \in Nat /\ path \in Paths
  BY <1>2 DEF Opened, OpenFiles
<1>4. \E o \in fat_write_at(path, e, b) : Apply(o)
  BY DEF file_write
<1>5. PICK o \in fat_write_at(path, e, b) : Apply(o)
  BY <1>4
<1>6. o.code # "wild"
  BY <1>5 DEF Apply
<1>7. fat \in Tables /\ disk \in Disks /\ Neat(fat, disk.entries, D)
  BY <1>1 DEF KnownInv, CallsInv, DiskInv
<1>8. e \in Extent
  BY <1>2, <1>3 DEF Extent
<1> HIDE DEF path, e, D
<1>9. o \in Called("write", path)
  BY <1>3, <1>5, <1>7, <1>8, WriteIsCalled
<1>10. Wrote(o, path, D, e)
  BY <1>3, <1>5, <1>6, <1>7, <1>8, <1>9, WriteBrings
<1>11. \E E : Brings(o, path, D, E) /\ \A x \in E : ~x.dir
  <2> DEFINE E == Ent(Row(fat, disk.entries, resolve_path(fat, disk.entries, path)), NameOf(path))
  <2>1. CASE Brings(o, path, D, E) /\ \A x \in E : ~x.dir
    BY <2>1
  <2>2. CASE \E x, z : Brings(o, path, D, {x}) /\ ~x.dir
    BY <2>2
  <2> QED
    BY <1>10, <2>1, <2>2 DEF Wrote
<1>12. PICK E : Brings(o, path, D, E) /\ \A x \in E : ~x.dir
  BY <1>11
<1>13. Edited(path, E)
  BY <1>3, <1>5, <1>12, AppliedEdits DEF D
<1> QED
  BY <1>3, <1>12, <1>13, NoneBelow, EditClimbs

\* An empty disk has nothing but its root.
LEMMA ClimbsInit == ASSUME FilesInit PROVE ClimbsInv
<1> DEFINE f == fat
           es == disk.entries
           D == Dirs(f, es)
<1>0. KnownInv /\ Init
  BY KnownInit DEF FilesInit
<1>1. ~wild
  BY <1>0 DEF Init
<1>2. f \in Tables /\ EntriesOK(es) /\ Neat(f, es, D)
  BY <1>0, <1>1 DEF KnownInv, CallsInv, DiskInv, Disks
<1>3. es = [c \in Cluster \cup {Root} |-> [i \in 1..InBlock(c) |-> NoEntry]]
  BY <1>0 DEF Init
<1>4. \A s \in SlotSet : At(es, s) = NoEntry
  BY <1>3 DEF SlotSet, At
<1>5. SUFFICES Dotted(f, es, D) /\ Confined(f, es, Paths \cup {<<>>})
  BY DEF ClimbsInv, Climbs
<1> HIDE DEF f, es, D
<1>6. D \subseteq Cluster \cup {Root}
  BY <1>2, NeatFacts
<1>7. ASSUME NEW d \in D, NEW n \in Names PROVE Ent(Row(f, es, d), n) = {}
  <2>1. \A k \in DOMAIN Row(f, es, d) : Row(f, es, d)[k] = NoEntry
    BY <1>2, <1>4, <1>6, RowIs
  <2>2. NoEntry.name = END /\ END \notin Names
    BY NamesAssumption DEF NoEntry
  <2> QED
    BY <2>1, <2>2 DEF Ent
<1>8. Dotted(f, es, D)
  BY <1>7 DEF Dotted
<1>9. ASSUME NEW q \in Seq(Names), Stat(f, es, q) # {} PROVE q \in Paths \cup {<<>>}
  <2>1. CASE q = <<>>
    BY <2>1
  <2>2. CASE q # <<>>
    <3>1. PICK c \in Opendir(f, es, Parent(q)) : c \in D /\ Stat(f, es, q) = Ent(Row(f, es, c), NameOf(q))
      BY <1>2, <1>9, <2>2, ParentThere
    <3>2. NameOf(q) \in Names
      BY <2>2, ParentIs
    <3> QED
      BY <1>7, <1>9, <3>1, <3>2
  <2> QED
    BY <2>1, <2>2
<1>10. Confined(f, es, Paths \cup {<<>>})
  BY <1>9 DEF Confined
<1> QED
  BY <1>8, <1>10

\* Every call keeps it.
LEMMA ClimbsStep ==
    ASSUME KnownInv, ClimbsInv, [FilesNext]_<<fatvars, tables>>
    PROVE  ClimbsInv'
<1>1. ASSUME UNCHANGED <<fat, disk>>, wild => wild' PROVE ClimbsInv'
  BY <1>1 DEF ClimbsInv, Climbs
<1>2. ASSUME ~wild, ~wild' => Climbs(fat', disk'.entries) PROVE ClimbsInv'
  BY <1>2 DEF ClimbsInv, Climbs
<1>3. CASE UNCHANGED <<fatvars, tables>>
  BY <1>1, <1>3 DEF fatvars
<1>4. ASSUME NEW p \in Procs, NEW path \in Paths, NEW writable \in BOOLEAN, Open(p, path, writable)
      PROVE  ClimbsInv'
  <2>1. CASE writable
    <3>1. ~wild /\ Climbs(fat, disk.entries)
      BY <1>4 DEF Open, Running, ClimbsInv
    <3>2. ~wild' => Climbs(fat', disk'.entries)
      BY <1>4, <2>1, <3>1, OpenClimbs
    <3> QED
      BY <1>2, <3>1, <3>2
  <2>2. CASE ~writable
    <3>1. UNCHANGED fatvars
      BY <1>4, <2>2, Zenon DEF Open
    <3> QED
      BY <1>1, <3>1 DEF fatvars
  <2> QED
    BY <2>1, <2>2
<1>5. ASSUME NEW p \in Procs, NEW path \in Paths, Change(p, path) PROVE ClimbsInv'
  <2>1. ~wild /\ Climbs(fat, disk.entries)
    BY <1>5 DEF Change, Running, ClimbsInv
  <2>2. ~wild' => Climbs(fat', disk'.entries)
    BY <1>5, <2>1, ChangeClimbs
  <2> QED
    BY <1>2, <2>1, <2>2
<1>6. ASSUME NEW p \in Procs, NEW fd \in Fd, NEW len \in Lengths, NEW b \in Bytes, file_write(p, fd, len, b)
      PROVE  ClimbsInv'
  <2>1. ~wild /\ Climbs(fat, disk.entries)
    BY <1>6 DEF file_write, Running, ClimbsInv
  <2>2. ~wild' => Climbs(fat', disk'.entries)
    BY <1>6, <2>1, WriteClimbs
  <2> QED
    BY <1>2, <2>1, <2>2
<1>7. ASSUME NEW p \in Procs,
             \/ \E fd \in Fd : Close(p, fd) \/ \E len \in Lengths : file_read(p, fd, len)
             \/ \E path \in Paths \cup {<<>>} : OpenDir(p, path)
             \/ \E d \in DirFd : ReadDir(p, d) \/ CloseDir(p, d)
             \/ \E in \in Inputs : ChDir(p, in)
             \/ \E q \in Procs : Start(q, p)
             \/ Die(p) \/ CleanUp(p) \/ Reap(p)
      PROVE  ClimbsInv'
  <2>1. UNCHANGED <<fat, disk>> /\ (wild => wild')
    BY <1>7 DEF Close, file_read, OpenDir, ReadDir, CloseDir, ChDir, Start, Die, CleanUp, Reap, Forget,
                Running, fatvars
  <2> QED
    BY <1>1, <2>1
<1> QED
  BY <1>3, <1>4, <1>5, <1>6, <1>7 DEF FilesNext

\* A name that leads to a directory finds room.
Room(s, w) == w \in Names /\ Opendir(fat, disk.entries, Append(s, w)) # {} => Len(s) < MAX_PATH_DEPTH

\* One component more: where it leads, the path leads.
LEMMA FollowStep ==
    ASSUME NEW D, Neat(fat, disk.entries, D), Dotted(fat, disk.entries, D),
           NEW s \in Normal, NEW w \in Parts, NEW x \in {NULL} \cup Opendir(fat, disk.entries, s), Room(s, w)
    PROVE  Follow(x, w) \in {NULL} \cup Opendir(fat, disk.entries, Stacked(s, w))
<1> DEFINE f == fat
           es == disk.entries
<1>1. s \in Seq(Names) /\ Len(s) \in Nat /\ MAX_PATH_DEPTH \in Nat
  BY DepthAssumption DEF Normal
<1>2. CASE w = "." \/ x = NULL
  <2>1. Follow(x, w) = x
    BY <1>2 DEF Follow
  <2> QED
    BY <1>2, <2>1, StackedIs
<1>3. CASE x # NULL /\ w = ".."
  <2>1. Follow(x, w) = IF x = Root THEN Root ELSE es[x][2].first
    BY <1>3 DEF Follow
  <2>2. Stacked(s, w) = IF s = <<>> THEN s ELSE Parent(s)
    BY <1>3, StackedIs
  <2>3. x \in Opendir(f, es, s)
    BY <1>3
  <2> HIDE DEF f, es
  <2>4. IF s = <<>> THEN x = Root ELSE x # Root /\ es[x][2].first \in Opendir(f, es, Parent(s))
    BY <1>1, <2>3, StepUp DEF f, es
  <2>5. Follow(x, w) \in Opendir(f, es, Stacked(s, w))
    BY <2>1, <2>2, <2>3, <2>4
  <2> QED
    BY <2>5 DEF f, es
<1>4. CASE x # NULL /\ w # "." /\ w # ".."
  <2> DEFINE a == DirectoryAt(es, dir_lookup(f, es, x, w, FALSE))
  <2>1. Follow(x, w) = a
    BY <1>4 DEF Follow
  <2>2. w \in Names
    BY <1>4 DEF Parts
  <2>3. x \in Opendir(f, es, s)
    BY <1>4
  <2>4. ASSUME a # NULL PROVE a \in Opendir(f, es, Append(s, w))
    BY <1>1, <2>2, <2>3, <2>4, StepDown
  <2> HIDE DEF a
  <2>5. ASSUME a # NULL PROVE Stacked(s, w) = Append(s, w)
    <3>4. Len(s) < MAX_PATH_DEPTH
      BY <2>2, <2>4, <2>5 DEF Room
    <3> QED
      BY <2>2, <3>4, StackedIs
  <2> QED
    BY <2>1, <2>4, <2>5
<1> QED
  BY <1>2, <1>3, <1>4

\* Following the names leads to where their paths lead, if to anything.
LEMMA FollowedIs ==
    ASSUME NEW D, Neat(fat, disk.entries, D), Dotted(fat, disk.entries, D),
           NEW p, NEW c \in Opendir(fat, disk.entries, p),
           NEW names \in Seq(Parts), NEW h, Stack(h, p, names), \A k \in 1..Len(names) : Room(h[k - 1], names[k])
    PROVE  Followed(c, names) \in {NULL} \cup Opendir(fat, disk.entries, h[Len(names)])
<1> DEFINE n == Len(names)
           G(g) == [k \in 0..n |-> IF k = 0 THEN c ELSE Follow(g[k - 1], names[k])]
           at == CHOOSE g : g = G(g)
           A == [k \in 0..n |-> {NULL} \cup Opendir(fat, disk.entries, h[k])]
           step == [k \in 1..n |-> [x \in A[k - 1] |-> Follow(x, names[k])]]
<1>1. Followed(c, names) = at[n]
  BY DEF Followed
<1>2. n \in Nat
  OBVIOUS
<1>3. \A k \in 1..n : names[k] \in Parts /\ h[k] = Stacked(h[k - 1], names[k]) /\ Room(h[k - 1], names[k])
  BY ElementOfSeq DEF Stack
<1>4. h[0] = p /\ \A k \in 0..n : h[k] \in Normal
  BY DEF Stack
<1> HIDE DEF n
<1>5. \A k \in 1..n : k \in Nat /\ k - 1 \in 0..n /\ k \in 0..n /\ k # 0
  BY <1>2
<1>6. c \in A[0]
  BY <1>2, <1>4
<1>7. ASSUME NEW k \in 1..n, NEW x \in A[k - 1] PROVE Follow(x, names[k]) \in A[k]
  <2>1. k - 1 \in 0..n /\ k \in 0..n /\ h[k - 1] \in Normal /\ names[k] \in Parts
    BY <1>3, <1>4, <1>5
  <2>2. x \in {NULL} \cup Opendir(fat, disk.entries, h[k - 1])
    BY <2>1
  <2>3. Follow(x, names[k]) \in {NULL} \cup Opendir(fat, disk.entries, Stacked(h[k - 1], names[k]))
    BY <1>3, <2>1, <2>2, FollowStep
  <2> QED
    BY <1>3, <2>1, <2>3
<1>8. A[n] = {NULL} \cup Opendir(fat, disk.entries, h[n])
  BY <1>2
<1> HIDE DEF A
<1>9. \A k \in 1..n : \A x \in A[k - 1] : step[k][x] \in A[k]
  BY <1>7
<1> HIDE DEF step
<1>10. PICK g : IsHistory(g, n, c, step) /\ \A k \in 0..n : g[k] \in A[k]
  BY <1>2, <1>6, <1>9, Iteration
<1>11. g = G(g)
  <2>1. g = [k \in 0..n |-> IF k = 0 THEN c ELSE step[k][g[k - 1]]]
    BY <1>10 DEF IsHistory
  <2>2. ASSUME NEW k \in 0..n, k # 0 PROVE step[k][g[k - 1]] = Follow(g[k - 1], names[k])
    <3>1. k \in 1..n /\ k - 1 \in 0..n
      BY <1>2, <2>2
    <3>2. g[k - 1] \in A[k - 1]
      BY <1>10, <3>1
    <3> QED
      BY <3>1, <3>2 DEF step
  <2>3. \A k \in 0..n : g[k] = IF k = 0 THEN c ELSE Follow(g[k - 1], names[k])
    <3> HIDE DEF G
    <3> TAKE k \in 0..n
    <3>1. g[k] = IF k = 0 THEN c ELSE step[k][g[k - 1]]
      BY <2>1
    <3> QED
      BY <2>2, <3>1
  <2>4. g = [k \in 0..n |-> g[k]]
    BY <2>1
  <2> QED
    BY <2>3, <2>4
<1>12. at = G(at)
  <2> HIDE DEF G
  <2> QED
    BY <1>11, Zenon
<1> HIDE DEF at
<1>13. \A k \in 0..n : at[k] = IF k = 0 THEN c ELSE Follow(at[k - 1], names[k])
  BY <1>12
<1> HIDE DEF G
<1> DEFINE S == {k \in Nat : k <= n => at[k] \in A[k]}
<1>14. 0 \in S
  BY <1>2, <1>6, <1>13
<1>15. \A k \in Nat : k \in S => k + 1 \in S
  <2> SUFFICES ASSUME NEW k \in Nat, k \in S, k + 1 <= n PROVE at[k + 1] \in A[k + 1]
    OBVIOUS
  <2> DEFINE j == k + 1
  <2>1. j \in 0..n /\ j \in 1..n /\ j # 0 /\ j - 1 = k /\ at[k] \in A[k]
    BY <1>2
  <2> HIDE DEF j
  <2>2. at[j] = Follow(at[j - 1], names[j]) /\ at[j - 1] \in A[j - 1]
    BY <1>13, <2>1
  <2>3. at[j] \in A[j]
    BY <1>7, <2>1, <2>2
  <2> QED
    BY <2>3 DEF j
<1> HIDE DEF S
<1>16. Nat \subseteq S
  BY <1>14, <1>15, NatSetInduction
<1>17. at[n] \in A[n]
  BY <1>2, <1>16 DEF S
<1> QED
  BY <1>1, <1>8, <1>17 DEF n

\* Both from the same directory: the walk fails or ends where the path does.
LEMMA BothWays ==
    ASSUME NEW D, Neat(fat, disk.entries, D), Dotted(fat, disk.entries, D),
           NEW p \in Normal, NEW c \in Opendir(fat, disk.entries, p), NEW names \in Seq(Parts),
           Overflows(p \o names) => \A q \in Seq(Names) : Opendir(fat, disk.entries, q) # {} => Len(q) <= MAX_PATH_DEPTH
    PROVE  Followed(c, names) = NULL \/ fat_opendir(path_normalize(p \o names)) = {Followed(c, names)}
<1> DEFINE a == Followed(c, names)
           q == path_normalize(p \o names)
           O == Opendir(fat, disk.entries, q)
<1>h. PICK h : Normalizes(h, p, names)
  BY NormalizeStacks
<1>1. /\ Stack(h, p, names) /\ path_normalize(p \o names) = h[Len(names)]
      /\ ~Overflows(p \o names) => Roomy(h, names)
  BY <1>h DEF Normalizes
<1>r. ASSUME NEW k \in 1..Len(names) PROVE Room(h[k - 1], names[k])
  <2> DEFINE s == h[k - 1]
             w == names[k]
             y == Append(s, w)
  <2>1. s \in Seq(Names) /\ Len(s) \in Nat /\ MAX_PATH_DEPTH \in Nat
    <3>1. k - 1 \in 0..Len(names)
      <4>1. Len(names) \in Nat
        OBVIOUS
      <4> QED
        BY <4>1
    <3>2. s \in Normal
      BY <1>1, <3>1 DEF Stack
    <3> HIDE DEF s
    <3> QED
      BY <3>2, DepthAssumption DEF Normal
  <2>2. CASE ~Overflows(p \o names)
    <3>1. w \in Names => Len(s) < MAX_PATH_DEPTH
      BY <1>1, <2>2 DEF Roomy
    <3> QED
      BY <3>1 DEF Room
  <2>3. CASE Overflows(p \o names)
    <3> HIDE DEF s, w
    <3>1. ASSUME w \in Names PROVE y \in Seq(Names) /\ Len(y) = Len(s) + 1
      BY <2>1, <3>1
    <3> HIDE DEF y
    <3>2. ASSUME w \in Names, Opendir(fat, disk.entries, y) # {} PROVE Len(s) < MAX_PATH_DEPTH
      <4>1. Len(y) <= MAX_PATH_DEPTH
        BY <2>3, <3>1, <3>2
      <4> QED
        BY <2>1, <3>1, <3>2, <4>1
    <3> QED
      BY <3>2 DEF Room, s, w, y
  <2> QED
    BY <2>2, <2>3
<1>2. a = NULL \/ a \in O
  BY <1>1, <1>r, FollowedIs
<1>3. q \in Seq(Names)
  <2>1. Len(names) \in 0..Len(names)
    <3>1. Len(names) \in Nat
      OBVIOUS
    <3> QED
      BY <3>1
  <2>2. h[Len(names)] \in Normal
    BY <1>1, <2>1 DEF Stack
  <2> QED
    BY <1>1, <2>2 DEF Normal
<1> HIDE DEF a, q
<1>4. fat_opendir(q) = O
  <2>1. fat_stat(q) = Stat(fat, disk.entries, q)
    BY <1>3, StatIs
  <2> QED
    BY <2>1 DEF fat_opendir, Opendir
<1>5. \A y \in O : y = a \/ a \notin O
  <2> SUFFICES ASSUME NEW y \in O, a \in O PROVE y = a
    OBVIOUS
  <2>1. PICK g : Visits(fat, disk.entries, q, g, Len(q))
    BY <1>3, WalkExists
  <2>2. g[Len(q)] = y /\ g[Len(q)] = a
    BY <1>3, <2>1, DirWalk
  <2> QED
    BY <2>2
<1> HIDE DEF O
<1>6. a = NULL \/ fat_opendir(q) = {a}
  BY <1>2, <1>4, <1>5
<1> QED
  BY <1>6 DEF a, q

\* The third property follows.
LEMMA ClimbsAgree == ASSUME KnownInv, ClimbsInv PROVE PathsAgree
<1> DEFINE D == Dirs(fat, disk.entries)
<1> SUFFICES ASSUME ~wild, NEW p \in Procs, NEW in \in Inputs,
                    NEW c \in IF in.absolute THEN {Root} ELSE fat_opendir(cwd[p]),
                    ~(Overflows(FromRoot(cwd[p], in)) /\ TooDeep)
             PROVE  \/ Followed(c, in.names) = NULL
                    \/ fat_opendir(path_resolve_cwd(cwd[p], in)) = {Followed(c, in.names)}
  BY DEF PathsAgree, Running
<1>1. Neat(fat, disk.entries, D) /\ Dotted(fat, disk.entries, D) /\ Confined(fat, disk.entries, Paths \cup {<<>>})
  BY DEF KnownInv, ClimbsInv, Climbs
<1> HIDE DEF D
<1>2. in.absolute \in BOOLEAN /\ in.names \in Seq(Parts)
  BY InputAssumption DEF Parts
<1>3. cwd[p] \in Normal /\ <<>> \in Normal
  BY RootIsNormal DEF KnownInv, CallsInv, NamesInv
<1>4. ASSUME ~TooDeep, NEW q \in Seq(Names), Opendir(fat, disk.entries, q) # {} PROVE Len(q) <= MAX_PATH_DEPTH
  <2>1. Stat(fat, disk.entries, q) # {}
    BY <1>4 DEF Opendir
  <2>2. q \in Paths \cup {<<>>}
    BY <1>1, <2>1 DEF Confined
  <2>3. MAX_PATH_DEPTH \in Nat /\ Len(q) \in Nat
    BY DepthAssumption
  <2>4. CASE q = <<>>
    <3>1. Len(q) = 0
      BY <2>4
    <3> QED
      BY <2>3, <3>1
  <2>5. CASE q \in Paths
    <3>1. fat_opendir(q) = Opendir(fat, disk.entries, q)
      BY <2>5, TreeTells
    <3>2. ~(Len(q) > MAX_PATH_DEPTH)
      BY <1>4, <2>5, <3>1 DEF TooDeep
    <3> QED
      BY <2>3, <3>2
  <2> QED
    BY <2>2, <2>4, <2>5
<1> DEFINE from == IF in.absolute THEN <<>> ELSE cwd[p]
           names == in.names
           at == Followed(c, names)
<1>5. from \in Normal /\ from \in Seq(Names)
  BY <1>3 DEF Normal
<1>6. from \o names = FromRoot(cwd[p], in)
  <2>1. CASE in.absolute
    <3>1. from = <<>> /\ FromRoot(cwd[p], in) = names
      BY <2>1 DEF FromRoot
    <3> HIDE DEF from, names
    <3>2. <<>> \o names = names
      BY <1>2 DEF names
    <3> QED
      BY <3>1, <3>2
  <2>2. CASE ~in.absolute
    BY <2>2 DEF FromRoot
  <2> QED
    BY <2>1, <2>2
<1>7. c \in Opendir(fat, disk.entries, from)
  <2>1. CASE in.absolute
    <3> DEFINE e == Entry("/", TRUE, Root, 0)
    <3>1. from = <<>> /\ c = Root
      BY <2>1
    <3>2. e \in Stat(fat, disk.entries, from)
      BY <3>1 DEF Stat
    <3>3. e.dir /\ e.first = Root
      BY DEF Entry
    <3> HIDE DEF e, from
    <3> QED
      BY <3>1, <3>2, <3>3 DEF Opendir
  <2>2. CASE ~in.absolute
    <3>1. from = cwd[p] /\ c \in fat_opendir(from)
      BY <2>2
    <3> HIDE DEF from
    <3>2. fat_stat(from) = Stat(fat, disk.entries, from)
      BY <1>1, <1>5, StatIs
    <3> QED
      BY <3>1, <3>2 DEF fat_opendir, Opendir
  <2> QED
    BY <2>1, <2>2
<1> HIDE DEF from
<1>8. path_resolve_cwd(cwd[p], in) = path_normalize(from \o names)
  BY <1>6 DEF path_resolve_cwd
<1>9. Overflows(from \o names) => ~TooDeep
  BY <1>6
<1>10. names \in Seq(Parts)
  BY <1>2
<1> HIDE DEF names
<1>11. at = NULL \/ fat_opendir(path_normalize(from \o names)) = {at}
  BY <1>1, <1>4, <1>5, <1>7, <1>9, <1>10, BothWays
<1> QED
  BY <1>8, <1>11 DEF names

\* Wherever a process is and however "." and ".." are mixed into what it is given,
\* following that entry by entry, ".." by the entries that fat_mkdir wrote, leads
\* nowhere or to the directory that the normalized path names: no unlink, mkdir,
\* rmdir or write in between makes a second entry lead elsewhere than back.  The
\* exception is named: a name that path_normalize drops while some directory is
\* deeper than MAX_PATH_DEPTH.
THEOREM PathsAlwaysAgree == FilesSpec => []PathsAgree
<1> DEFINE I == KnownInv /\ ClimbsInv
<1>1. FilesInit => I
  BY KnownInit, ClimbsInit
<1>2. I /\ [FilesNext]_<<fatvars, tables>> => I'
  BY KnownStep, ClimbsStep
<1>3. I => PathsAgree
  BY ClimbsAgree
<1> QED
  BY <1>1, <1>2, <1>3, PTL DEF FilesSpec
=============================================================================
