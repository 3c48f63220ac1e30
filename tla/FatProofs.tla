----------------------------- MODULE FatProofs -----------------------------
(* Proofs about Fat, for every size of the disk, of clusters and of        *)
(* directories, any set of paths and writes, and whatever faults happen.   *)
EXTENDS Fat, ListLemmas, FiniteSetTheorems, SequenceTheorems

\* The least member of a set of numbers.
LEMMA FirstIs ==
    ASSUME NEW S \in SUBSET Nat, S # {}
    PROVE  First(S) \in S /\ \A j \in S : First(S) <= j
<1>1. \E k \in S : \A j \in S : k <= j
  BY LeastNat
<1> QED
  BY <1>1, Zenon DEF First
---------------------------------------------------------------------------
(* Chains.                                                                 *)

\* What the constants are.
LEMMA Sizes ==
    /\ MaxCluster \in Nat /\ MaxCluster >= 2
    /\ EntriesPerSector \in Nat \ {0} /\ fat_count \in Nat \ {0}
    /\ RootEntries \in Nat \ {0} /\ DirEntries \in Nat \ {0} /\ cluster_size \in Nat \ {0}
BY ClusterAssumption, SizeAssumption, DirAssumption

\* A chain is walked in the clusters, until it ends.
LEMMA WalkOfChain ==
    ASSUME NEW f \in Tables, NEW c
    PROVE  \A k \in 0..MaxCluster :
              /\ ChainWalk(f, c)[k] \in Cluster \cup {NULL}
              /\ ChainWalk(f, c)[k] = IF k = 0 THEN (IF c \in Cluster THEN c ELSE NULL)
                                      ELSE IF ChainWalk(f, c)[k - 1] = NULL THEN NULL
                                      ELSE ToEnd(f)[ChainWalk(f, c)[k - 1]]
<1> DEFINE Q == Cluster \cup {NULL}
           start == IF c \in Cluster THEN c ELSE NULL
<1>0. MaxCluster \in Nat
  BY Sizes
<1>1. \A p \in Q \ {NULL} : ToEnd(f)[p] \in Q
  BY DEF ToEnd
<1>2. NULL \in Q /\ start \in Q
  OBVIOUS
<1>3. ChainWalk(f, c) = Walk(start, ToEnd(f), MaxCluster)
  BY DEF ChainWalk
<1> HIDE DEF Q, start
<1>4. LET w == Walk(start, ToEnd(f), MaxCluster) IN
      \A k \in 0..MaxCluster :
         /\ w[k] \in Q
         /\ w[k] = IF k = 0 THEN start
                   ELSE IF w[k - 1] = NULL THEN NULL ELSE ToEnd(f)[w[k - 1]]
  BY <1>0, <1>1, <1>2, WalkEquation
<1> QED
  BY <1>3, <1>4 DEF Q, start

\* Once it has ended it does not go on.
LEMMA WalkHasEnded ==
    ASSUME NEW f \in Tables, NEW c, NEW k \in 0..MaxCluster, ChainWalk(f, c)[k] = NULL
    PROVE  \A j \in k..MaxCluster : ChainWalk(f, c)[j] = NULL
<1> DEFINE w == ChainWalk(f, c)
           S == {n \in Nat : k + n <= MaxCluster => w[k + n] = NULL}
<1>0. MaxCluster \in Nat
  BY Sizes
<1>1. 0 \in S
  OBVIOUS
<1>2. \A n \in Nat : n \in S => n + 1 \in S
  <2> SUFFICES ASSUME NEW n \in Nat, n \in S, k + n + 1 <= MaxCluster
               PROVE  w[k + n + 1] = NULL
    OBVIOUS
  <2>1. w[k + n] = NULL /\ k + n + 1 \in 0..MaxCluster /\ (k + n + 1) - 1 = k + n /\ k + n + 1 # 0
    BY <1>0
  <2> QED
    BY <2>1, WalkOfChain
<1>3. Nat \subseteq S
  BY <1>1, <1>2, NatSetInduction
<1> QED
  <2> TAKE j \in k..MaxCluster
  <2>1. j - k \in Nat /\ k + (j - k) = j /\ j <= MaxCluster
    BY <1>0
  <2> QED
    BY <2>1, <1>3

\* A chain is a set of clusters.
LEMMA ChainIsFinite ==
    ASSUME NEW f \in Tables, NEW c
    PROVE  /\ Chain(f, c) \subseteq Cluster
           /\ IsFiniteSet(Chain(f, c))
           /\ Cardinality(Chain(f, c)) \in 0..(MaxCluster - 1)
<1>1. Chain(f, c) \subseteq Cluster
  BY WalkOfChain DEF Chain
<1>2. IsFiniteSet(Cluster) /\ Cardinality(Cluster) = MaxCluster - 1
  BY Sizes, FS_Interval DEF Cluster
<1>3. IsFiniteSet(Chain(f, c)) /\ Cardinality(Chain(f, c)) <= MaxCluster - 1
  BY <1>1, <1>2, FS_Subset
<1> QED
  BY <1>1, <1>3, FS_CardinalityType, Sizes

\* The clusters of a chain are as many as steps of the walk before its end.
LEMMA WalkOfMembers ==
    ASSUME NEW f \in Tables, NEW c, NEW k \in 1..Cardinality(Chain(f, c))
    PROVE  k - 1 \in 0..MaxCluster /\ ChainWalk(f, c)[k - 1] \in Chain(f, c)
<1> DEFINE w == ChainWalk(f, c)
           n == Cardinality(Chain(f, c))
<1>0. k - 1 \in 0..MaxCluster /\ MaxCluster \in Nat /\ n \in Nat /\ k \in 1..n
  BY Sizes, ChainIsFinite
<1> HIDE DEF n
<1>1. ASSUME w[k - 1] = NULL PROVE FALSE
  <2>1. \A j \in (k - 1)..MaxCluster : w[j] = NULL
    BY <1>0, <1>1, WalkHasEnded
  <2>2. \A j \in 0..MaxCluster : w[j] # NULL => j \in 0..(k - 2)
    BY <1>0, <2>1
  <2> DEFINE T == {w[j] : j \in 0..(k - 2)}
  <2>3. Chain(f, c) \subseteq T
    BY <2>2 DEF Chain
  <2>4. IsFiniteSet(0..(k - 2)) /\ Cardinality(0..(k - 2)) = k - 1
    BY <1>0, FS_Interval
  <2>5. IsFiniteSet(T) /\ Cardinality(T) <= Cardinality(0..(k - 2))
    <3>1. [j \in 0..(k - 2) |-> w[j]] \in Surjection(0..(k - 2), T)
      BY DEF Surjection
    <3> QED
      BY <2>4, <3>1, FS_Surjection
  <2>6. n <= Cardinality(T)
    BY <2>3, <2>5, FS_Subset DEF n
  <2>7. Cardinality(T) \in Nat
    BY <2>5, FS_CardinalityType
  <2> QED
    BY <1>0, <2>4, <2>5, <2>6, <2>7
<1>2. w[k - 1] \in {w[j] : j \in 0..MaxCluster}
  BY <1>0
<1> QED
  BY <1>0, <1>1, <1>2 DEF Chain

\* fat_read_file and the loops over directories go along the chain.
LEMMA ChainSeqIs ==
    ASSUME NEW f \in Tables, NEW c
    PROVE  /\ ChainSeq(f, c) \in Seq(Chain(f, c))
           /\ ChainSeq(f, c) \in Seq(Cluster)
           /\ Len(ChainSeq(f, c)) = Cardinality(Chain(f, c))
           /\ \A k \in 1..Cardinality(Chain(f, c)) : ChainSeq(f, c)[k] = ChainWalk(f, c)[k - 1]
<1> DEFINE n == Cardinality(Chain(f, c))
           w == ChainWalk(f, c)
<1>1. n \in Nat /\ Chain(f, c) \subseteq Cluster
  BY ChainIsFinite, Sizes
<1>2. \A k \in 1..n : w[k - 1] \in Chain(f, c)
  BY WalkOfMembers
<1>3. ChainSeq(f, c) = [k \in 1..n |-> w[k - 1]]
  BY DEF ChainSeq
<1> HIDE DEF n, w
<1>4. [k \in 1..n |-> w[k - 1]] \in Seq(Chain(f, c))
  BY <1>1, <1>2, IsASeq
<1> QED
  BY <1>1, <1>2, <1>3, <1>4 DEF n, w
---------------------------------------------------------------------------
(* Types.                                                                  *)

\* A place in a sequence of blocks is a block and a place in it.
LEMMA Places ==
    ASSUME NEW n \in Nat \ {0}, NEW m \in Nat, NEW k \in 1..(n * m)
    PROVE  /\ (k - 1) \div n \in 0..(m - 1) /\ 1 + (k - 1) \div n \in 1..m
           /\ 1 + ((k - 1) % n) \in 1..n
           /\ k = n * ((k - 1) \div n) + (1 + ((k - 1) % n))
<1> DEFINE q == (k - 1) \div n
           r == (k - 1) % n
<1>0. n * m \in Nat
  OBVIOUS
<1>1. k - 1 \in Nat /\ k - 1 < n * m
  BY <1>0
<1>2. q \in Int /\ r \in 0..(n - 1) /\ k - 1 = n * q + r
  BY <1>1
<1> HIDE DEF q, r
<1>3. q >= 0
  <2>1. ASSUME q <= -1 PROVE FALSE
    <3>1. n * q <= n * (-1)
      BY <1>2, <2>1
    <3> QED
      BY <1>1, <1>2, <3>1
  <2> QED
    BY <1>2, <2>1
<1>4. q < m
  <2>1. ASSUME q >= m PROVE FALSE
    <3>1. n * q >= n * m
      BY <1>2, <2>1
    <3> QED
      BY <1>1, <1>2, <3>1
  <2> QED
    BY <1>2, <2>1
<1> QED
  BY <1>2, <1>3, <1>4 DEF q, r

\* Every block and every place in it has its place in the sequence.
LEMMA PlaceOf ==
    ASSUME NEW n \in Nat \ {0}, NEW m \in Nat, NEW i \in 1..m, NEW j \in 1..n
    PROVE  \E k \in 1..(n * m) : (k - 1) \div n = i - 1 /\ (k - 1) % n = j - 1
<1> DEFINE x == n * (i - 1) + (j - 1)
           q == x \div n
           r == x % n
<1>0. n * (i - 1) \in Nat /\ n * m \in Nat /\ n * (m - 1) = n * m - n /\ n * (i - 1) <= n * (m - 1)
  <2>1. i - 1 \in Nat /\ m - 1 \in Nat /\ i - 1 <= m - 1
    OBVIOUS
  <2>2. n * (i - 1) \in Nat
    BY <2>1
  <2>3. n * m \in Nat /\ n * (m - 1) = n * m - n
    OBVIOUS
  <2>4. n * (i - 1) <= n * (m - 1)
    BY <2>1
  <2> QED
    BY <2>2, <2>3, <2>4
<1>1. x \in Nat /\ x + 1 \in 1..(n * m)
  BY <1>0
<1>2. q \in Int /\ r \in 0..(n - 1) /\ x = n * q + r
  BY <1>1
<1>3. x = n * (i - 1) + (j - 1)
  OBVIOUS
<1> HIDE DEF x
<1>4. q = i - 1
  <2> HIDE DEF q, r
  <2> DEFINE d == q - (i - 1)
  <2>1. d \in Int /\ n * d = (j - 1) - r
    <3>1. n * d = n * q - n * (i - 1)
      BY <1>2
    <3> QED
      BY <1>2, <1>3, <3>1
  <2> HIDE DEF d
  <2>2. ~(d >= 1)
    <3>1. ASSUME d >= 1 PROVE FALSE
      <4>1. n * d >= n
        BY <2>1, <3>1
      <4> QED
        BY <1>2, <2>1, <4>1
    <3> QED
      BY <3>1
  <2>3. ~(d <= -1)
    <3>1. ASSUME d <= -1 PROVE FALSE
      <4>1. n * d <= n * (-1)
        BY <2>1, <3>1
      <4> QED
        BY <1>2, <2>1, <4>1
    <3> QED
      BY <3>1
  <2>4. d = 0
    BY <2>1, <2>2, <2>3
  <2> QED
    BY <1>2, <2>4 DEF d
<1>5. r = j - 1
  BY <1>2, <1>3, <1>4
<1>6. (x + 1) - 1 = x
  BY <1>1
<1> QED
  BY <1>1, <1>4, <1>5, <1>6 DEF q, r

\* The blocks of a directory.
BlocksOf(f, dir) == IF dir = Root THEN <<Root>> ELSE ChainSeq(f, dir)

LEMMA BlocksAre ==
    ASSUME NEW f \in Tables, NEW dir \in Cluster \cup {Root}
    PROVE  /\ BlocksOf(f, dir) \in Seq(Cluster \cup {Root})
           /\ Len(BlocksOf(f, dir)) \in Nat
           /\ \A i \in 1..Len(BlocksOf(f, dir)) :
                 /\ BlocksOf(f, dir)[i] \in Cluster \cup {Root}
                 /\ InBlock(BlocksOf(f, dir)[i]) = InBlock(dir)
<1>1. Root \notin Cluster
  BY DEF Root, Cluster
<1>2. CASE dir = Root
  <2>1. BlocksOf(f, dir) = <<Root>>
    BY <1>2 DEF BlocksOf
  <2> QED
    BY <1>2, <2>1
<1>3. CASE dir # Root
  <2>1. BlocksOf(f, dir) = ChainSeq(f, dir) /\ dir \in Cluster
    BY <1>3 DEF BlocksOf
  <2>2. ChainSeq(f, dir) \in Seq(Cluster)
    BY ChainSeqIs
  <2>3. ChainSeq(f, dir) \in Seq(Cluster \cup {Root})
    BY <2>2, SeqMonotonic
  <2>4. \A i \in 1..Len(ChainSeq(f, dir)) : ChainSeq(f, dir)[i] \in Cluster
    BY <2>2, ElementOfSeq
  <2> QED
    BY <1>1, <1>3, <2>1, <2>2, <2>3, <2>4, LenProperties DEF InBlock
<1> QED
  BY <1>2, <1>3

LEMMA InBlockIs == \A dir : InBlock(dir) \in Nat \ {0}
BY Sizes DEF InBlock

\* The slots of a directory are slots of the disk.
LEMMA SlotsAre ==
    ASSUME NEW f \in Tables, NEW dir \in Cluster \cup {Root}
    PROVE  /\ Slots(f, dir) \in Seq(SlotSet)
           /\ Len(Slots(f, dir)) = InBlock(dir) * Len(BlocksOf(f, dir))
           /\ DOMAIN Slots(f, dir) = 1..(InBlock(dir) * Len(BlocksOf(f, dir)))
           /\ \A k \in 1..(InBlock(dir) * Len(BlocksOf(f, dir))) :
                 Slots(f, dir)[k] = <<BlocksOf(f, dir)[1 + (k - 1) \div InBlock(dir)],
                                      1 + ((k - 1) % InBlock(dir))>>
<1> DEFINE n == InBlock(dir)
           blocks == BlocksOf(f, dir)
           m == Len(blocks)
           e(k) == <<blocks[1 + (k - 1) \div n], 1 + ((k - 1) % n)>>
<1>1. Slots(f, dir) = [k \in 1..(n * m) |-> e(k)]
  BY DEF Slots, BlocksOf
<1>2. n \in Nat \ {0} /\ m \in Nat
  BY InBlockIs, BlocksAre
<1>3. \A i \in 1..m : blocks[i] \in Cluster \cup {Root} /\ InBlock(blocks[i]) = n
  BY BlocksAre
<1> HIDE DEF n, blocks, m
<1>4. \A k \in 1..(n * m) : e(k) \in SlotSet
  <2> TAKE k \in 1..(n * m)
  <2>1. 1 + (k - 1) \div n \in 1..m /\ 1 + ((k - 1) % n) \in 1..n
    BY <1>2, Places
  <2>2. blocks[1 + (k - 1) \div n] \in Cluster \cup {Root} /\ InBlock(blocks[1 + (k - 1) \div n]) = n
    BY <1>3, <2>1
  <2> QED
    BY <1>2, <2>1, <2>2 DEF SlotSet
<1>5. n * m \in Nat
  BY <1>2
<1> HIDE DEF e
<1>6. [k \in 1..(n * m) |-> e(k)] \in Seq(SlotSet)
  BY <1>4, <1>5, IsASeq
<1>7. Len([k \in 1..(n * m) |-> e(k)]) = n * m
  BY <1>5
<1> QED
  BY <1>1, <1>6, <1>7 DEF n, blocks, m, e

\* The directories' part of the disk.
Blocks == [1..RootEntries -> Entries] \cup [1..DirEntries -> Entries]
EntriesOK(es) ==
    /\ es \in [Cluster \cup {Root} -> Blocks]
    /\ \A c \in Cluster \cup {Root} : es[c] \in [1..InBlock(c) -> Entries]

Disks == {d \in [fats : [1..fat_count -> Tables], entries : [Cluster \cup {Root} -> Blocks],
                 bytes : [Cluster -> Contents]] : EntriesOK(d.entries)}

LEMMA AtIs ==
    ASSUME NEW es, EntriesOK(es), NEW slot \in SlotSet
    PROVE  /\ At(es, slot) \in Entries
           /\ At(es, slot).first \in Cluster \cup {Root}
           /\ At(es, slot).dir \in BOOLEAN
           /\ At(es, slot).size \in Nat
           /\ At(es, slot) = Entry(At(es, slot).name, At(es, slot).dir, At(es, slot).first, At(es, slot).size)
<1>1. slot[1] \in Cluster \cup {Root} /\ slot[2] \in 1..InBlock(slot[1])
  BY DEF SlotSet
<1>2. es[slot[1]] \in [1..InBlock(slot[1]) -> Entries]
  BY <1>1 DEF EntriesOK
<1>3. At(es, slot) \in Entries
  BY <1>1, <1>2 DEF At
<1> HIDE DEF At
<1> QED
  BY <1>3 DEF Entries, Root, Entry

\* What a lookup may return.
Lookups == [r : {0, 2, 3}, exists : BOOLEAN, slot : SlotSet, fat : Tables, items : Seq(Items)]

LEMMA RootSlot == <<Root, 1>> \in SlotSet
BY Sizes DEF SlotSet, InBlock, Root

LEMMA ItemIs ==
    ASSUME NEW f \in Tables, NEW w \in Writes
    PROVE  Item(f, w) \in Seq(Items) /\ Len(Item(f, w)) = 1 /\ Item(f, w)[1] = [fat |-> f, write |-> w]
<1>1. [fat |-> f, write |-> w] \in Items
  BY DEF Items
<1> QED
  BY <1>1 DEF Item

LEMMA WriteEntryIs ==
    ASSUME NEW f \in Tables, NEW slot \in SlotSet, NEW e \in Entries
    PROVE  WriteEntry(f, slot, e) \in Seq(Items)
<1>1. [kind |-> "entry", at |-> slot, val |-> e] \in Writes
  BY DEF Writes
<1> QED
  BY <1>1, ItemIs DEF WriteEntry

LEMMA WriteDirIs ==
    ASSUME NEW f \in Tables, NEW c \in Cluster, NEW es \in [1..DirEntries -> Entries]
    PROVE  WriteDir(f, c, es) \in Seq(Items)
<1>1. [kind |-> "dir", at |-> c, val |-> es] \in Writes
  BY DEF Writes
<1> QED
  BY <1>1, ItemIs DEF WriteDir

LEMMA WriteBytesIs ==
    ASSUME NEW f \in Tables, NEW c \in Cluster, NEW bs \in Contents
    PROVE  WriteBytes(f, c, bs) \in Seq(Items)
<1>1. [kind |-> "bytes", at |-> c, val |-> bs] \in Writes
  BY DEF Writes
<1> QED
  BY <1>1, ItemIs DEF WriteBytes

LEMMA ReturnIs ==
    ASSUME NEW f \in Tables, NEW code \in {"ok", "full"}
    PROVE  Return(f, code) \in Seq(Items)
<1>1. [kind |-> "return", at |-> Root, val |-> code] \in Writes
  BY DEF Writes
<1> QED
  BY <1>1, ItemIs DEF Return

LEMMA SectorIs ==
    /\ \A c \in Cluster : SectorOf(c) \in 1..sectors_per_fat
    /\ sectors_per_fat \in Nat \ {0}
<1>1. ASSUME NEW c \in Cluster
      PROVE  SectorOf(c) \in 1..sectors_per_fat
  <2> DEFINE n == EntriesPerSector
             q == (c - 2) \div n
             t == (MaxCluster - 2) \div n
  <2>1. n \in Nat \ {0} /\ MaxCluster \in Nat /\ c \in Nat /\ 2 <= c /\ c <= MaxCluster
    BY <1>1, Sizes DEF Cluster
  <2> HIDE DEF n
  <2>2. /\ q \in Int /\ t \in Int
        /\ (c - 2) = n * q + ((c - 2) % n) /\ (c - 2) % n \in 0..(n - 1)
        /\ (MaxCluster - 2) = n * t + ((MaxCluster - 2) % n) /\ (MaxCluster - 2) % n \in 0..(n - 1)
    BY <2>1
  <2>5. SectorOf(c) = 1 + q /\ sectors_per_fat = 1 + t
    BY DEF SectorOf, sectors_per_fat, n
  <2> HIDE DEF q, t
  <2>3. q >= 0
    <3>1. ASSUME q <= -1 PROVE FALSE
      <4>1. n * q <= n * (-1)
        BY <2>1, <2>2, <3>1
      <4> QED
        BY <4>1, <2>1, <2>2
    <3> QED
      BY <3>1, <2>2
  <2>4. q <= t
    <3>1. ASSUME q >= t + 1 PROVE FALSE
      <4>1. n * q >= n * (t + 1) /\ n * (t + 1) = n * t + n
        BY <2>1, <2>2, <3>1
      <4> QED
        BY <4>1, <2>1, <2>2
    <3> QED
      BY <3>1, <2>2
  <2> QED
    BY <2>2, <2>3, <2>4, <2>5
<1>2. MaxCluster \in Cluster
  BY Sizes DEF Cluster
<1> QED
  BY <1>1, <1>2 DEF sectors_per_fat

LEMMA FlushIs ==
    ASSUME NEW f \in Tables
    PROVE  /\ fat_flush(f) \in Seq(Items)
           /\ Len(fat_flush(f)) = fat_count * sectors_per_fat
           /\ \A k \in 1..(fat_count * sectors_per_fat) :
                 fat_flush(f)[k] = [fat |-> f, write |-> [kind |-> "fat", at |-> 1 + (k - 1) \div sectors_per_fat,
                                                          val |-> 1 + ((k - 1) % sectors_per_fat)]]
<1> DEFINE n == sectors_per_fat
           m == fat_count
           e(k) == [fat |-> f, write |-> [kind |-> "fat", at |-> 1 + (k - 1) \div n, val |-> 1 + ((k - 1) % n)]]
<1>1. n \in Nat \ {0} /\ m \in Nat
  BY SectorIs, Sizes
<1>2. fat_flush(f) = [k \in 1..(m * n) |-> e(k)]
  BY DEF fat_flush
<1>3. \A k \in 1..(m * n) : e(k) \in Items
  <2> TAKE k \in 1..(m * n)
  <2> DEFINE i == 1 + (k - 1) \div n
             j == 1 + ((k - 1) % n)
  <2>0. m * n = n * m
    BY <1>1
  <2>1. i \in 1..m /\ j \in 1..n
    BY <1>1, <2>0, Places
  <2> HIDE DEF i, j
  <2>2. [kind |-> "fat", at |-> i, val |-> j] \in Writes
    BY <2>1 DEF Writes
  <2>3. [fat |-> f, write |-> [kind |-> "fat", at |-> i, val |-> j]] \in Items
    BY <2>2 DEF Items
  <2> QED
    BY <2>3 DEF i, j
<1>4. m * n \in Nat
  BY <1>1
<1> HIDE DEF n, m, e
<1>5. [k \in 1..(m * n) |-> e(k)] \in Seq(Items)
  BY <1>3, <1>4, IsASeq
<1>6. Len([k \in 1..(m * n) |-> e(k)]) = m * n
  BY <1>4
<1> QED
  BY <1>2, <1>5, <1>6 DEF n, m, e

LEMMA AllocateIs ==
    ASSUME NEW f \in Tables, Unused(f) # {}
    PROVE  /\ NewCluster(f) \in Cluster /\ f[NewCluster(f)] = FAT12_FREE
           /\ Allocate(f) \in Tables
           /\ \A c \in Cluster : Allocate(f)[c] = IF c = NewCluster(f) THEN FAT12_EOC ELSE f[c]
<1>1. Unused(f) \in SUBSET Nat
  BY Sizes DEF Unused, Cluster
<1>2. NewCluster(f) \in Unused(f)
  BY <1>1, FirstIs DEF NewCluster
<1> QED
  BY <1>2 DEF Unused, Tables, Allocate

LEMMA FreeChainIs ==
    ASSUME NEW f \in Tables, NEW c
    PROVE  /\ fat_free_chain(f, c) \in Tables
           /\ \A x \in Cluster : fat_free_chain(f, c)[x] = IF x \in Chain(f, c) THEN FAT12_FREE ELSE f[x]
BY DEF fat_free_chain, Tables

LEMMA EmptyDirIs ==
    /\ EmptyDir \in [1..DirEntries -> Entries] /\ DataBlock \in [1..DirEntries -> Entries]
    /\ NoEntry \in Entries /\ Gone \in Entries
<1>1. NoEntry \in Entries
  BY DEF NoEntry, Entries, END
<1>2. Gone \in Entries
  BY DEF Gone, NoEntry, Entries, DELETED
<1>3. [NoEntry EXCEPT !.name = DATA] \in Entries
  BY DEF NoEntry, Entries, DATA
<1> QED
  BY <1>1, <1>2, <1>3 DEF EmptyDir, DataBlock

\* No other mark stands for data.
LEMMA MarksDiffer == DATA \notin {END, DELETED, ".", ".."}
<1>1. END # DATA
  BY Zenon DEF END, DATA
<1>2. DATA \notin {DELETED, ".", ".."}
  BY DEF DELETED, DATA
<1> QED
  BY <1>1, <1>2

\* The last cluster of a chain.
LEMMA LastOfChain ==
    ASSUME NEW f \in Tables, NEW dir \in Cluster
    PROVE  /\ Cardinality(Chain(f, dir)) \in Nat \ {0}
           /\ ChainSeq(f, dir)[Cardinality(Chain(f, dir))] \in Chain(f, dir)
           /\ ChainSeq(f, dir)[Cardinality(Chain(f, dir))] \in Cluster
<1>1. 0 \in 0..MaxCluster
  BY Sizes
<1>2. ChainWalk(f, dir)[0] = dir
  BY <1>1, WalkOfChain
<1>3. dir \in Chain(f, dir)
  BY <1>1, <1>2 DEF Chain, NULL, Cluster
<1>4. Cardinality(Chain(f, dir)) \in Nat \ {0}
  BY <1>3, ChainIsFinite, FS_EmptySet, Sizes
<1>5. ChainSeq(f, dir)[Cardinality(Chain(f, dir))] \in Chain(f, dir)
  BY <1>4, ChainSeqIs, ElementOfSeq
<1> QED
  BY <1>4, <1>5, ChainIsFinite

\* What dir_lookup returns when it extends the directory.
LEMMA GrownIs ==
    ASSUME NEW f \in Tables, NEW dir \in Cluster, Unused(f) # {}
    PROVE  /\ Grown(f, dir).r = 0 /\ Grown(f, dir).exists = FALSE
           /\ Grown(f, dir).slot = <<NewCluster(f), 1>>
           /\ Grown(f, dir).fat = [Allocate(f) EXCEPT ![ChainSeq(f, dir)[Cardinality(Chain(f, dir))]] = NewCluster(f)]
           /\ Grown(f, dir).fat \in Tables
           /\ Grown(f, dir).items = WriteDir(Grown(f, dir).fat, NewCluster(f), EmptyDir) \o fat_flush(Grown(f, dir).fat)
           /\ Grown(f, dir) \in Lookups
<1> DEFINE g == [Allocate(f) EXCEPT ![ChainSeq(f, dir)[Cardinality(Chain(f, dir))]] = NewCluster(f)]
           s == WriteDir(g, NewCluster(f), EmptyDir) \o fat_flush(g)
<1>1. Grown(f, dir) = [r |-> 0, exists |-> FALSE, slot |-> <<NewCluster(f), 1>>, fat |-> g, items |-> s]
  BY DEF Grown
<1>2. NewCluster(f) \in Cluster /\ Allocate(f) \in Tables
  BY AllocateIs
<1>3. g \in Tables
  BY <1>2, LastOfChain DEF Tables
<1>4. s \in Seq(Items)
  BY <1>2, <1>3, WriteDirIs, EmptyDirIs, FlushIs, ConcatProperties
<1>5. <<NewCluster(f), 1>> \in SlotSet
  BY <1>2, Sizes DEF SlotSet, InBlock
<1> HIDE DEF g, s
<1>6. Grown(f, dir) \in Lookups
  BY <1>1, <1>3, <1>4, <1>5 DEF Lookups
<1> QED
  BY <1>1, <1>3, <1>6 DEF g, s

\* The slots that a lookup looks at have numbers.
LEMMA HavingIs ==
    ASSUME NEW f \in Tables, NEW es, NEW dir \in Cluster \cup {Root}, NEW names
    PROVE  /\ Having(f, es, dir, names) \subseteq DOMAIN Slots(f, dir)
           /\ Having(f, es, dir, names) \in SUBSET Nat
           /\ Having(f, es, dir, names) # {} =>
                 /\ First(Having(f, es, dir, names)) \in Having(f, es, dir, names)
                 /\ \A j \in Having(f, es, dir, names) : First(Having(f, es, dir, names)) <= j
<1>1. Having(f, es, dir, names) \subseteq DOMAIN Slots(f, dir)
  BY DEF Having, Scanned
<1>2. DOMAIN Slots(f, dir) \subseteq Nat
  BY SlotsAre
<1>3. Having(f, es, dir, names) \in SUBSET Nat
  BY <1>1, <1>2
<1> QED
  BY <1>1, <1>3, FirstIs

LEMMA FoundIs ==
    ASSUME NEW f \in Tables, NEW es, NEW dir \in Cluster \cup {Root}, NEW names, NEW exists \in BOOLEAN,
           Having(f, es, dir, names) # {}
    PROVE  Found(f, dir, Having(f, es, dir, names), exists) \in Lookups
<1> DEFINE k == First(Having(f, es, dir, names))
<1>1. k \in 1..Len(Slots(f, dir))
  BY HavingIs, SlotsAre
<1>2. Slots(f, dir)[k] \in SlotSet
  BY <1>1, SlotsAre, ElementOfSeq
<1>3. <<>> \in Seq(Items)
  BY EmptySeq
<1> QED
  BY <1>2, <1>3 DEF Found, Lookups

LEMMA FailureIs ==
    ASSUME NEW f \in Tables, NEW r \in {2, 3}
    PROVE  Failure(r, f) \in Lookups
BY RootSlot, EmptySeq DEF Failure, Lookups

LEMMA ResultFields ==
    ASSUME NEW f, NEW r
    PROVE  /\ Failure(r, f).fat = f /\ Failure(r, f).items = <<>> /\ Failure(r, f).exists = FALSE
BY DEF Failure

LEMMA LookupIs ==
    ASSUME NEW f \in Tables, NEW es, NEW dir \in Cluster \cup {Root}, NEW name, NEW create \in BOOLEAN
    PROVE  /\ dir_lookup(f, es, dir, name, create) \in Lookups
           /\ dir_lookup(f, es, dir, name, create).exists => dir_lookup(f, es, dir, name, create).fat = f
           /\ dir_lookup(f, es, dir, name, create).exists => dir_lookup(f, es, dir, name, create).items = <<>>
<1> DEFINE l == dir_lookup(f, es, dir, name, create)
<1>1. CASE Named(f, es, dir, name) # {}
  <2>1. Found(f, dir, Named(f, es, dir, name), TRUE) \in Lookups
    BY <1>1, FoundIs DEF Named
  <2>2. l = Found(f, dir, Named(f, es, dir, name), TRUE)
    BY <1>1 DEF dir_lookup
  <2>4. l \in Lookups
    BY <2>1, <2>2
  <2>5. l.fat = f /\ l.items = <<>>
    BY <2>2 DEF Found
  <2> HIDE DEF l
  <2>6. l = dir_lookup(f, es, dir, name, create)
    BY DEF l
  <2> QED
    BY <2>4, <2>5, <2>6, Zenon
<1>2. CASE Named(f, es, dir, name) = {} /\ Usable(f, es, dir) # {}
  <2>1. Found(f, dir, Usable(f, es, dir), FALSE) \in Lookups
    BY <1>2, FoundIs DEF Usable
  <2>2. l = Found(f, dir, Usable(f, es, dir), FALSE)
    BY <1>2 DEF dir_lookup
  <2>4. l \in Lookups
    BY <2>1, <2>2
  <2>5. l.fat = f /\ l.items = <<>>
    BY <2>2 DEF Found
  <2> HIDE DEF l
  <2>6. l = dir_lookup(f, es, dir, name, create)
    BY DEF l
  <2> QED
    BY <2>4, <2>5, <2>6, Zenon
<1>3. CASE Named(f, es, dir, name) = {} /\ Usable(f, es, dir) = {}
  <2>2. CASE dir = Root \/ ~create
    <3>1. l = Failure(2, f)
      BY <1>3, <2>2 DEF dir_lookup
    <3> QED
      BY <3>1, FailureIs, ResultFields, Zenon
  <2>3. CASE dir # Root /\ create /\ Unused(f) = {}
    <3>1. l = Failure(3, f)
      BY <1>3, <2>3 DEF dir_lookup
    <3> QED
      BY <3>1, FailureIs, ResultFields, Zenon
  <2>4. CASE dir # Root /\ create /\ Unused(f) # {}
    <3>1. l = Grown(f, dir) /\ dir \in Cluster
      BY <1>3, <2>4 DEF dir_lookup
    <3>2. Grown(f, dir) \in Lookups /\ Grown(f, dir).exists = FALSE
      BY <2>4, <3>1, GrownIs
    <3> QED
      BY <3>1, <3>2, Zenon
  <2> QED
    BY <2>2, <2>3, <2>4
<1> QED
  BY <1>1, <1>2, <1>3

LEMMA LookupExisting ==
    ASSUME NEW f \in Tables, NEW es, NEW dir \in Cluster \cup {Root}, NEW name, NEW create \in BOOLEAN,
           NEW l, l = dir_lookup(f, es, dir, name, create), l.exists
    PROVE  l.fat = f /\ l.items = <<>>
BY LookupIs

LEMMA LookupReading ==
    ASSUME NEW f \in Tables, NEW es, NEW dir \in Cluster \cup {Root}, NEW name
    PROVE  dir_lookup(f, es, dir, name, FALSE).fat = f
<1> DEFINE l == dir_lookup(f, es, dir, name, FALSE)
<1>1. \/ l = Found(f, dir, Named(f, es, dir, name), TRUE)
      \/ l = Found(f, dir, Usable(f, es, dir), FALSE)
      \/ l = Failure(2, f)
  BY DEF dir_lookup
<1> HIDE DEF l
<1>2. l.fat = f
  BY <1>1 DEF Found, Failure
<1> QED
  BY <1>2 DEF l

\* The directory that an entry leads to.
LEMMA DirectoryAtIs ==
    ASSUME NEW es, EntriesOK(es), NEW l \in Lookups
    PROVE  DirectoryAt(es, l) \in Cluster \cup {Root, NULL}
<1>1. l.slot \in SlotSet
  BY DEF Lookups
<1>2. At(es, l.slot).first \in Cluster \cup {Root}
  BY <1>1, AtIs
<1> QED
  BY <1>2 DEF DirectoryAt

\* One name of a path on.
StepInto(f, es, p) ==
    [k \in 1..(Len(p) - 1) |-> [c \in Cluster \cup {Root, NULL} |->
        IF c = NULL THEN NULL ELSE DirectoryAt(es, dir_lookup(f, es, c, p[k], FALSE))]]

LEMMA ResolveIs ==
    ASSUME NEW f \in Tables, NEW es, EntriesOK(es), NEW p \in Paths
    PROVE  /\ resolve_path(f, es, p) \in Cluster \cup {Root, NULL}
           /\ Len(p) \in Nat \ {0} /\ NameOf(p) \in Names
           /\ \E g : /\ IsHistory(g, Len(p) - 1, Root, StepInto(f, es, p))
                     /\ \A k \in 0..(Len(p) - 1) : g[k] \in Cluster \cup {Root, NULL}
                     /\ resolve_path(f, es, p) = g[Len(p) - 1]
<1> DEFINE Q == Cluster \cup {Root, NULL}
           n == Len(p) - 1
           step == StepInto(f, es, p)
           A == [k \in 0..n |-> Q]
           Nx(k, x) == IF x = NULL THEN NULL ELSE DirectoryAt(es, dir_lookup(f, es, x, p[k], FALSE))
           G(g) == [k \in 0..n |-> IF k = 0 THEN Root ELSE Nx(k, g[k - 1])]
<1>1. p \in Seq(Names) /\ p # <<>>
  BY PathAssumption
<1>2. Len(p) \in Nat \ {0} /\ NameOf(p) \in Names /\ n \in Nat
  BY <1>1, EmptySeq, LenProperties, ElementOfSeq DEF NameOf
<1>3. \A c \in Q, k \in 1..n : c # NULL => DirectoryAt(es, dir_lookup(f, es, c, p[k], FALSE)) \in Q
  <2> SUFFICES ASSUME NEW c \in Cluster \cup {Root}, NEW k \in 1..n
               PROVE  DirectoryAt(es, dir_lookup(f, es, c, p[k], FALSE)) \in Q
    OBVIOUS
  <2>1. dir_lookup(f, es, c, p[k], FALSE) \in Lookups
    BY LookupIs
  <2> QED
    BY <2>1, DirectoryAtIs
<1>4. \A k \in 1..n : \A x \in A[k - 1] : step[k][x] \in A[k]
  <2> TAKE k \in 1..n
  <2> TAKE x \in A[k - 1]
  <2>1. k - 1 \in 0..n /\ k \in 0..n
    BY <1>2
  <2>2. x \in Q
    BY <2>1
  <2>3. step[k][x] = IF x = NULL THEN NULL ELSE DirectoryAt(es, dir_lookup(f, es, x, p[k], FALSE))
    BY <2>2 DEF StepInto
  <2>4. step[k][x] \in Q
    BY <1>3, <2>2, <2>3
  <2> QED
    BY <2>1, <2>4
<1>5. Root \in A[0]
  BY <1>2
<1> HIDE DEF step, n
<1>6. PICK g : IsHistory(g, n, Root, step) /\ \A k \in 0..n : g[k] \in A[k]
  <2> HIDE DEF A
  <2> QED
    BY <1>2, <1>4, <1>5, Iteration
<1>7. \A k \in 0..n : g[k] \in Q
  BY <1>6
<1>8. g = G(g)
  <2>1. g = [k \in 0..n |-> IF k = 0 THEN Root ELSE step[k][g[k - 1]]]
    BY <1>6 DEF IsHistory
  <2>2. \A k \in 1..n : step[k][g[k - 1]] = Nx(k, g[k - 1])
    <3> TAKE k \in 1..n
    <3>1. k - 1 \in 0..n
      BY <1>2
    <3>2. g[k - 1] \in Q
      BY <3>1, <1>7
    <3> QED
      BY <3>2 DEF step, StepInto, n
  <2> HIDE DEF Nx
  <2>3. \A k \in 0..n : k # 0 => k \in 1..n
    BY <1>2
  <2>4. [k \in 0..n |-> IF k = 0 THEN Root ELSE step[k][g[k - 1]]] = G(g)
    BY <2>2, <2>3
  <2> QED
    BY <2>1, <2>4
<1> DEFINE cur == CHOOSE h : h = G(h)
<1>9. cur = G(cur)
  <2> HIDE DEF G
  <2> QED
    BY <1>8, Zenon
<1>10. resolve_path(f, es, p) = cur[n]
  BY DEF resolve_path, n
<1> HIDE DEF Nx
<1>13. \A k \in 0..n : g[k] = IF k = 0 THEN Root ELSE Nx(k, g[k - 1])
  BY <1>8
<1> HIDE DEF cur
<1>14. \A k \in 0..n : cur[k] = IF k = 0 THEN Root ELSE Nx(k, cur[k - 1])
  BY <1>9
<1> HIDE DEF G
<1>11. \A k \in 0..n : cur[k] = g[k]
  <2> DEFINE S == {k \in Nat : k <= n => cur[k] = g[k]}
  <2>1. 0 \in S
    BY <1>13, <1>14, <1>2
  <2>2. \A k \in Nat : k \in S => k + 1 \in S
    <3> SUFFICES ASSUME NEW k \in Nat, k \in S, k + 1 <= n PROVE cur[k + 1] = g[k + 1]
      OBVIOUS
    <3>1. k + 1 \in 0..n /\ k + 1 # 0 /\ (k + 1) - 1 = k /\ cur[k] = g[k]
      BY <1>2
    <3> QED
      BY <3>1, <1>13, <1>14
  <2> HIDE DEF S
  <2>3. Nat \subseteq S
    BY <2>1, <2>2, NatSetInduction
  <2> QED
    BY <2>3, <1>2 DEF S
<1>12. cur[n] = g[n] /\ g[n] \in Q
  BY <1>2, <1>7, <1>11
<1> QED
  BY <1>2, <1>6, <1>7, <1>10, <1>12 DEF n, step
---------------------------------------------------------------------------
(* The loops of fat_write_at.                                              *)

\* One cluster: number i of the file, after h.
StoreRound(first, e, b, i, h) ==
    LET n == Onward(h, first) IN
    IF h.full \/ n.full THEN [h EXCEPT !.full = TRUE]
    ELSE IF i < e.offset \div cluster_size THEN n
    ELSE [n EXCEPT !.items = @ \o WriteBytes(n.fat, n.at, Patched(n.at, i, e, b))]

Rounds(e) == (e.offset + e.len - 1) \div cluster_size

LEMMA RoundsIs ==
    ASSUME NEW e, e.offset \in Nat, e.len \in Nat \ {0}
    PROVE  Rounds(e) \in Nat
<1> DEFINE x == e.offset + e.len - 1
<1>1. x \in Nat /\ cluster_size \in Nat \ {0}
  BY Sizes
<1> HIDE DEF x
<1>2. x \div cluster_size \in Nat
  BY <1>1
<1> QED
  BY <1>2 DEF Rounds, x

Unstored(f, first) == [at |-> 0, first |-> first, fat |-> f, items |-> <<>>, full |-> FALSE]

\* What holds before the first cluster and is kept by each holds at the end.
LEMMA StoredInduction ==
    ASSUME NEW e, Rounds(e) \in Nat, NEW f, NEW first, NEW b, NEW A,
           Unstored(f, first) \in A[0],
           \A i \in 0..Rounds(e) : \A h \in A[i] : StoreRound(first, e, b, i, h) \in A[i + 1]
    PROVE  Stored(f, first, e, b) \in A[Rounds(e) + 1]
<1> DEFINE N == Rounds(e)
           Nx(i, h) == StoreRound(first, e, b, i, h)
           start == Unstored(f, first)
           All == UNION {A[i] : i \in 0..(N + 1)}
           step == [k \in 1..(N + 1) |-> [h \in All |-> Nx(k - 1, h)]]
           G(a) == [i \in -1..N |-> IF i = -1 THEN start ELSE Nx(i, a[i - 1])]
<1>0. N \in Nat
  OBVIOUS
<1>1. \A i \in 0..N : \A h \in A[i] : Nx(i, h) \in A[i + 1]
  OBVIOUS
<1>2. start \in A[0]
  OBVIOUS
<1>3. Stored(f, first, e, b) = (CHOOSE a : a = G(a))[N]
  BY DEF Stored, Rounds, StoreRound, Unstored
<1> HIDE DEF N, Nx, start
<1>4. \A i \in 0..(N + 1) : A[i] \subseteq All
  OBVIOUS
<1> HIDE DEF All
<1>5. \A k \in 1..(N + 1) : \A h \in A[k - 1] : step[k][h] \in A[k]
  <2> TAKE k \in 1..(N + 1)
  <2> TAKE h \in A[k - 1]
  <2>1. k - 1 \in 0..N /\ k - 1 \in 0..(N + 1) /\ (k - 1) + 1 = k
    BY <1>0
  <2>2. h \in All
    BY <1>4, <2>1
  <2>3. step[k][h] = Nx(k - 1, h)
    BY <2>2
  <2>4. Nx(k - 1, h) \in A[(k - 1) + 1]
    BY <1>1, <2>1
  <2> QED
    BY <2>1, <2>3, <2>4
<1>6. N + 1 \in Nat
  BY <1>0
<1>7. PICK g : IsHistory(g, N + 1, start, step) /\ \A k \in 0..(N + 1) : g[k] \in A[k]
  <2> HIDE DEF step
  <2> QED
    BY <1>2, <1>5, <1>6, Iteration
<1>8. \A k \in 0..(N + 1) : g[k] = IF k = 0 THEN start ELSE step[k][g[k - 1]]
  BY <1>7 DEF IsHistory
<1>9. \A i \in 0..N : g[i + 1] = Nx(i, g[i])
  <2> TAKE i \in 0..N
  <2>1. i + 1 \in 1..(N + 1) /\ i + 1 # 0 /\ i + 1 \in 0..(N + 1) /\ (i + 1) - 1 = i /\ i \in 0..(N + 1)
    BY <1>0
  <2>2. g[i] \in All
    BY <2>1, <1>4, <1>7
  <2>3. g[i + 1] = step[i + 1][g[i]]
    BY <1>8, <2>1
  <2>4. step[i + 1][g[i]] = Nx((i + 1) - 1, g[i])
    BY <2>1, <2>2
  <2> QED
    BY <2>1, <2>3, <2>4
<1>10. g[0] = start
  <2>1. 0 \in 0..(N + 1)
    BY <1>0
  <2> HIDE DEF step
  <2> QED
    BY <1>8, <2>1
<1> DEFINE a0 == [i \in -1..N |-> g[i + 1]]
<1>11. a0 = G(a0)
  <2>1. \A i \in -1..N : a0[i] = IF i = -1 THEN start ELSE Nx(i, a0[i - 1])
    <3> TAKE i \in -1..N
    <3>1. CASE i = -1
      BY <1>0, <1>10, <3>1
    <3>2. CASE i # -1
      <4>1. i \in 0..N /\ i - 1 \in -1..N /\ (i - 1) + 1 = i
        BY <1>0, <3>2
      <4>2. a0[i - 1] = g[i]
        BY <4>1
      <4>3. a0[i] = g[i + 1]
        OBVIOUS
      <4> QED
        BY <4>1, <4>2, <4>3, <1>9, <3>2
    <3> QED
      BY <3>1, <3>2
  <2>2. a0 = [i \in -1..N |-> a0[i]]
    OBVIOUS
  <2> HIDE DEF a0
  <2>3. [i \in -1..N |-> a0[i]] = G(a0)
    BY <2>1
  <2> QED
    BY <2>2, <2>3
<1> DEFINE after == CHOOSE a : a = G(a)
<1>12. after = G(after)
  <2> HIDE DEF G, a0
  <2> QED
    BY <1>11, Zenon
<1>13. Stored(f, first, e, b) = after[N]
  BY <1>3
<1> HIDE DEF after
<1>14. \A i \in -1..N : after[i] = IF i = -1 THEN start ELSE Nx(i, after[i - 1])
  BY <1>12
<1> HIDE DEF G, a0, step
<1> DEFINE S == {k \in Nat : k <= N + 1 => after[k - 1] = g[k]}
<1>15. 0 \in S
  <2>1. 0 - 1 = -1 /\ -1 \in -1..N
    BY <1>0
  <2>2. after[0 - 1] = start
    BY <2>1, <1>14
  <2> QED
    BY <2>2, <1>10
<1>16. \A k \in Nat : k \in S => k + 1 \in S
  <2> SUFFICES ASSUME NEW k \in Nat, k \in S, k + 1 <= N + 1 PROVE after[(k + 1) - 1] = g[k + 1]
    OBVIOUS
  <2>1. k \in 0..N /\ k \in -1..N /\ k # -1 /\ (k + 1) - 1 = k /\ after[k - 1] = g[k]
    BY <1>0
  <2>2. after[k] = Nx(k, after[k - 1])
    BY <2>1, <1>14
  <2> QED
    BY <2>1, <2>2, <1>9
<1> HIDE DEF S
<1>17. N + 1 \in S
  BY <1>6, <1>15, <1>16, NatSetInduction
<1>18. after[(N + 1) - 1] = g[N + 1] /\ (N + 1) - 1 = N /\ N + 1 \in 0..(N + 1)
  BY <1>17, <1>0 DEF S
<1> QED
  BY <1>7, <1>13, <1>18 DEF N

\* The loop's state.
Stores == [at : Cluster \cup {0}, first : Cluster \cup {0}, fat : Tables, items : Seq(Items), full : BOOLEAN]

\* One cluster on, case by case.
LEMMA OnwardIs ==
    ASSUME NEW h \in Stores, NEW first \in Cluster \cup {0}
    PROVE  LET next == IF h.at = 0 THEN first ELSE h.fat[h.at]
               new == NewCluster(h.fat)
           IN  /\ next \in Cluster => Onward(h, first) = [h EXCEPT !.at = next]
               /\ (next \notin Cluster /\ Unused(h.fat) = {}) => Onward(h, first) = [h EXCEPT !.full = TRUE]
               /\ (next \notin Cluster /\ Unused(h.fat) # {} /\ h.at = 0) =>
                     /\ new \in Cluster
                     /\ Onward(h, first) = [h EXCEPT !.at = new, !.first = new, !.fat = Allocate(h.fat)]
               /\ (next \notin Cluster /\ Unused(h.fat) # {} /\ h.at # 0) =>
                     /\ new \in Cluster /\ [Allocate(h.fat) EXCEPT ![h.at] = new] \in Tables
                     /\ Onward(h, first) = [h EXCEPT !.at = new, !.fat = [Allocate(h.fat) EXCEPT ![h.at] = new]]
               /\ Onward(h, first) \in Stores
               /\ Onward(h, first).items = h.items
               /\ Onward(h, first).full \/ Onward(h, first).at \in Cluster
<1> DEFINE next == IF h.at = 0 THEN first ELSE h.fat[h.at]
           new == NewCluster(h.fat)
<1>0. h.fat \in Tables /\ h.at \in Cluster \cup {0} /\ h.items \in Seq(Items) /\ h.full \in BOOLEAN
      /\ h.first \in Cluster \cup {0}
  BY DEF Stores
<1>1. CASE next \in Cluster
  <2>1. Onward(h, first) = [h EXCEPT !.at = next]
    BY <1>1 DEF Onward
  <2> QED
    BY <1>0, <1>1, <2>1 DEF Stores
<1>2. CASE next \notin Cluster /\ Unused(h.fat) = {}
  <2>1. Onward(h, first) = [h EXCEPT !.full = TRUE]
    BY <1>2 DEF Onward
  <2> QED
    BY <1>0, <1>2, <2>1 DEF Stores
<1>3. CASE next \notin Cluster /\ Unused(h.fat) # {} /\ h.at = 0
  <2>1. Onward(h, first) = [h EXCEPT !.at = new, !.first = new, !.fat = Allocate(h.fat)]
    BY <1>3 DEF Onward
  <2>2. new \in Cluster /\ Allocate(h.fat) \in Tables
    BY <1>0, <1>3, AllocateIs
  <2> QED
    BY <1>0, <1>3, <2>1, <2>2 DEF Stores
<1>4. CASE next \notin Cluster /\ Unused(h.fat) # {} /\ h.at # 0
  <2>1. Onward(h, first) = [h EXCEPT !.at = new, !.fat = [Allocate(h.fat) EXCEPT ![h.at] = new]]
    BY <1>4 DEF Onward
  <2>2. new \in Cluster /\ Allocate(h.fat) \in Tables
    BY <1>0, <1>4, AllocateIs
  <2>3. [Allocate(h.fat) EXCEPT ![h.at] = new] \in Tables
    BY <1>0, <1>4, <2>2 DEF Tables
  <2> QED
    BY <1>0, <1>4, <2>1, <2>2, <2>3 DEF Stores
<1> QED
  BY <1>1, <1>2, <1>3, <1>4
---------------------------------------------------------------------------
(* What an operation writes: no end before the last item, and where it     *)
(* returns without an error, the whole of the last table on every copy.    *)

\* Item it writes sector s of copy i.
Flushes(it, i, s) == it.write.kind = "fat" /\ it.write.at = i /\ it.write.val = s

\* From item k on, copy i is written as F says wherever the sector of c is.
Agree(X, k, F, i, c) ==
    \A j \in k..Len(X) : Flushes(X[j], i, SectorOf(c)) => X[j].fat[c] = F[c]

Settles(X, F) ==
    \A i \in 1..fat_count, c \in Cluster :
        \E k \in 1..Len(X) : Flushes(X[k], i, SectorOf(c)) /\ Agree(X, k, F, i, c)

Plain(X) == X \in Seq(Items) /\ \A k \in 1..Len(X) : X[k].write.kind # "return"

NoFlush(X) == \A k \in 1..Len(X) : X[k].write.kind # "fat"

LEMMA ItemsConcat ==
    ASSUME NEW X \in Seq(Items), NEW Y \in Seq(Items)
    PROVE  /\ X \o Y \in Seq(Items) /\ Len(X) \in Nat /\ Len(Y) \in Nat
           /\ Len(X \o Y) = Len(X) + Len(Y)
           /\ \A k \in 1..Len(X) : (X \o Y)[k] = X[k]
           /\ \A k \in 1..Len(Y) : (X \o Y)[Len(X) + k] = Y[k]
           /\ \A k \in 1..(Len(X) + Len(Y)) : k > Len(X) => (X \o Y)[k] = Y[k - Len(X)] /\ k - Len(X) \in 1..Len(Y)
<1>1. Len(X) \in Nat /\ Len(Y) \in Nat
  BY LenProperties
<1>2. X \o Y \in Seq(Items) /\ Len(X \o Y) = Len(X) + Len(Y)
  BY ConcatProperties
<1>3. \A i \in 1..(Len(X) + Len(Y)) : (X \o Y)[i] = IF i <= Len(X) THEN X[i] ELSE Y[i - Len(X)]
  BY ConcatProperties
<1>4. ASSUME NEW k \in 1..Len(X) PROVE (X \o Y)[k] = X[k]
  BY <1>1, <1>3
<1>5. ASSUME NEW k \in 1..Len(Y) PROVE (X \o Y)[Len(X) + k] = Y[k]
  <2>1. Len(X) + k \in 1..(Len(X) + Len(Y)) /\ ~(Len(X) + k <= Len(X)) /\ (Len(X) + k) - Len(X) = k
    BY <1>1
  <2> QED
    BY <2>1, <1>3
<1>6. ASSUME NEW k \in 1..(Len(X) + Len(Y)), k > Len(X)
      PROVE  (X \o Y)[k] = Y[k - Len(X)] /\ k - Len(X) \in 1..Len(Y)
  BY <1>1, <1>3, <1>6
<1> QED
  BY <1>1, <1>2, <1>4, <1>5, <1>6

LEMMA PlainConcat ==
    ASSUME NEW X, NEW Y, Plain(X), Plain(Y)
    PROVE  Plain(X \o Y)
<1>1. X \in Seq(Items) /\ Y \in Seq(Items)
  BY DEF Plain
<1>2. ASSUME NEW k \in 1..(Len(X) + Len(Y)) PROVE (X \o Y)[k].write.kind # "return"
  <2>1. Len(X) \in Nat /\ Len(Y) \in Nat
    BY <1>1, ItemsConcat
  <2>2. CASE k <= Len(X)
    <3>1. k \in 1..Len(X)
      BY <2>1, <2>2
    <3> QED
      BY <1>1, <3>1, ItemsConcat DEF Plain
  <2>3. CASE k > Len(X)
    <3>1. (X \o Y)[k] = Y[k - Len(X)] /\ k - Len(X) \in 1..Len(Y)
      BY <1>1, <2>3, ItemsConcat
    <3> QED
      BY <3>1 DEF Plain
  <2> QED
    BY <2>1, <2>2, <2>3
<1> QED
  BY <1>1, <1>2, ItemsConcat DEF Plain

\* What comes before the table is written does not matter.
LEMMA SettlesBehind ==
    ASSUME NEW X \in Seq(Items), NEW Y \in Seq(Items), NEW F, Settles(Y, F)
    PROVE  Settles(X \o Y, F)
<1>1. Len(X) \in Nat /\ Len(Y) \in Nat /\ Len(X \o Y) = Len(X) + Len(Y)
  BY ItemsConcat
<1>2. SUFFICES ASSUME NEW i \in 1..fat_count, NEW c \in Cluster
               PROVE  \E k \in 1..Len(X \o Y) : Flushes((X \o Y)[k], i, SectorOf(c)) /\ Agree(X \o Y, k, F, i, c)
  BY DEF Settles
<1>3. PICK k \in 1..Len(Y) : Flushes(Y[k], i, SectorOf(c)) /\ Agree(Y, k, F, i, c)
  BY DEF Settles
<1>4. Len(X) + k \in 1..Len(X \o Y) /\ (X \o Y)[Len(X) + k] = Y[k]
  BY <1>1, ItemsConcat
<1>5. Agree(X \o Y, Len(X) + k, F, i, c)
  <2> SUFFICES ASSUME NEW j \in (Len(X) + k)..Len(X \o Y), Flushes((X \o Y)[j], i, SectorOf(c))
               PROVE  (X \o Y)[j].fat[c] = F[c]
    BY DEF Agree
  <2>1. j \in 1..(Len(X) + Len(Y)) /\ j > Len(X) /\ j - Len(X) \in k..Len(Y)
    BY <1>1
  <2>2. (X \o Y)[j] = Y[j - Len(X)]
    BY <2>1, ItemsConcat
  <2> QED
    BY <1>3, <2>1, <2>2 DEF Agree
<1> QED
  BY <1>3, <1>4, <1>5

\* Nor what comes behind and is not the table.
LEMMA SettlesBefore ==
    ASSUME NEW X \in Seq(Items), NEW Y \in Seq(Items), NEW F, Settles(X, F), NoFlush(Y)
    PROVE  Settles(X \o Y, F)
<1>1. Len(X) \in Nat /\ Len(Y) \in Nat /\ Len(X \o Y) = Len(X) + Len(Y)
  BY ItemsConcat
<1>2. SUFFICES ASSUME NEW i \in 1..fat_count, NEW c \in Cluster
               PROVE  \E k \in 1..Len(X \o Y) : Flushes((X \o Y)[k], i, SectorOf(c)) /\ Agree(X \o Y, k, F, i, c)
  BY DEF Settles
<1>3. PICK k \in 1..Len(X) : Flushes(X[k], i, SectorOf(c)) /\ Agree(X, k, F, i, c)
  BY DEF Settles
<1>4. k \in 1..Len(X \o Y) /\ (X \o Y)[k] = X[k]
  BY <1>1, ItemsConcat
<1>5. Agree(X \o Y, k, F, i, c)
  <2> SUFFICES ASSUME NEW j \in k..Len(X \o Y), Flushes((X \o Y)[j], i, SectorOf(c))
               PROVE  (X \o Y)[j].fat[c] = F[c]
    BY DEF Agree
  <2>1. CASE j <= Len(X)
    <3>1. j \in 1..Len(X) /\ j \in k..Len(X)
      BY <1>1, <2>1
    <3>2. (X \o Y)[j] = X[j]
      BY <3>1, ItemsConcat
    <3> QED
      BY <1>3, <3>1, <3>2 DEF Agree
  <2>2. CASE j > Len(X)
    <3>1. j \in 1..(Len(X) + Len(Y))
      BY <1>1
    <3>2. (X \o Y)[j] = Y[j - Len(X)] /\ j - Len(X) \in 1..Len(Y)
      BY <3>1, <2>2, ItemsConcat
    <3>3. Y[j - Len(X)].write.kind # "fat"
      BY <3>2 DEF NoFlush
    <3> QED
      BY <3>2, <3>3 DEF Flushes
  <2> QED
    BY <1>1, <2>1, <2>2
<1> QED
  BY <1>3, <1>4, <1>5

\* fat_flush writes every sector of every copy.
LEMMA FlushSettles ==
    ASSUME NEW F \in Tables
    PROVE  Settles(fat_flush(F), F) /\ Plain(fat_flush(F))
<1> DEFINE n == sectors_per_fat
           m == fat_count
           X == fat_flush(F)
<1>0. n \in Nat \ {0} /\ m \in Nat \ {0} /\ \A c \in Cluster : SectorOf(c) \in 1..n
  BY SectorIs, Sizes
<1>1. /\ X \in Seq(Items) /\ Len(X) = m * n
      /\ \A k \in 1..(m * n) : X[k] = [fat |-> F, write |-> [kind |-> "fat", at |-> 1 + (k - 1) \div n,
                                                             val |-> 1 + ((k - 1) % n)]]
  BY FlushIs
<1> HIDE DEF X, n, m
<1>2. \A k \in 1..Len(X) : /\ X[k].fat = F /\ X[k].write.kind = "fat"
                           /\ X[k].write.at = 1 + (k - 1) \div n
                           /\ X[k].write.val = 1 + ((k - 1) % n)
  BY <1>1
<1>3. Plain(X)
  BY <1>1, <1>2 DEF Plain
<1>4. ASSUME NEW i \in 1..m, NEW c \in Cluster
      PROVE  \E k \in 1..Len(X) : Flushes(X[k], i, SectorOf(c)) /\ Agree(X, k, F, i, c)
  <2> DEFINE s == SectorOf(c)
             k == n * (i - 1) + s
  <2>0. s \in 1..n
    BY <1>0
  <2> HIDE DEF s
  <2>1. k \in 1..(m * n) /\ (k - 1) \div n = i - 1 /\ (k - 1) % n = s - 1
    <3>1. n * (i - 1) \in Nat /\ n * (i - 1) + n = n * i /\ n * i <= m * n /\ k \in Nat /\ m * n \in Nat
      <4>1. n * (i - 1) \in Nat /\ n * (i - 1) + n = n * i
        BY <1>0
      <4>2. n * i <= n * m /\ n * m = m * n
        BY <1>0
      <4> QED
        BY <4>1, <4>2, <1>0, <2>0
    <3>2. k - 1 = n * (i - 1) + (s - 1) /\ s - 1 \in 0..(n - 1) /\ i - 1 \in Nat
      BY <1>0, <2>0
    <3>4. k - 1 \in Nat /\ (k - 1) \div n \in Int /\ (k - 1) % n \in 0..(n - 1)
          /\ k - 1 = n * ((k - 1) \div n) + ((k - 1) % n)
      <4> DEFINE x == k - 1
      <4>1. x \in Nat
        BY <3>1, <3>2
      <4> HIDE DEF x
      <4>2. x \div n \in Int /\ x % n \in 0..(n - 1) /\ x = n * (x \div n) + (x % n)
        BY <4>1, <1>0
      <4> QED
        BY <4>1, <4>2 DEF x
    <3>3. (k - 1) \div n = i - 1 /\ (k - 1) % n = s - 1
      <4> DEFINE q == (k - 1) \div n
                 r == (k - 1) % n
                 a == i - 1
                 z == s - 1
      <4>1. q \in Int /\ r \in 0..(n - 1) /\ a \in Nat /\ z \in 0..(n - 1) /\ n * q + r = n * a + z
        BY <3>2, <3>4
      <4> HIDE DEF q, r, a, z
      <4>2. ASSUME q < a PROVE FALSE
        <5>1. n * (q + 1) <= n * a /\ n * (q + 1) = n * q + n
          BY <1>0, <4>1, <4>2
        <5> QED
          BY <1>0, <4>1, <5>1
      <4>3. ASSUME q > a PROVE FALSE
        <5>1. n * (a + 1) <= n * q /\ n * (a + 1) = n * a + n
          BY <1>0, <4>1, <4>3
        <5> QED
          BY <1>0, <4>1, <5>1
      <4>4. q = a
        BY <4>1, <4>2, <4>3
      <4> QED
        BY <4>1, <4>4, <1>0 DEF q, r, a, z
    <3> QED
      BY <2>0, <3>1, <3>3, <1>0
  <2>2. k \in 1..Len(X)
    BY <2>1, <1>1
  <2> HIDE DEF k
  <2>3. X[k].write.at = i /\ X[k].write.val = s /\ X[k].write.kind = "fat"
    BY <1>2, <2>0, <2>1, <2>2
  <2>4. Agree(X, k, F, i, c)
    <3>1. \A j \in k..Len(X) : j \in 1..Len(X)
      BY <2>2, <1>0, <1>1
    <3> QED
      BY <3>1, <1>2 DEF Agree
  <2> QED
    BY <2>2, <2>3, <2>4 DEF Flushes, s
<1> QED
  BY <1>3, <1>4 DEF Settles, X, m

\* The pieces that operations put together.
LEMMA Pieces ==
    /\ \A f \in Tables, slot \in SlotSet, e \in Entries :
          Plain(WriteEntry(f, slot, e)) /\ NoFlush(WriteEntry(f, slot, e))
    /\ \A f \in Tables, c \in Cluster, es \in [1..DirEntries -> Entries] :
          Plain(WriteDir(f, c, es)) /\ NoFlush(WriteDir(f, c, es))
    /\ \A f \in Tables, c \in Cluster, bs \in Contents :
          Plain(WriteBytes(f, c, bs)) /\ NoFlush(WriteBytes(f, c, bs))
    /\ Plain(<<>>)
<1>1. ASSUME NEW f \in Tables, NEW slot \in SlotSet, NEW e \in Entries
      PROVE  Plain(WriteEntry(f, slot, e)) /\ NoFlush(WriteEntry(f, slot, e))
  <2>1. WriteEntry(f, slot, e) = Item(f, [kind |-> "entry", at |-> slot, val |-> e])
    BY DEF WriteEntry
  <2>2. WriteEntry(f, slot, e) \in Seq(Items)
    BY WriteEntryIs
  <2> QED
    BY <2>1, <2>2 DEF Plain, NoFlush, Item
<1>2. ASSUME NEW f \in Tables, NEW c \in Cluster, NEW es \in [1..DirEntries -> Entries]
      PROVE  Plain(WriteDir(f, c, es)) /\ NoFlush(WriteDir(f, c, es))
  <2>1. WriteDir(f, c, es) = Item(f, [kind |-> "dir", at |-> c, val |-> es])
    BY DEF WriteDir
  <2>2. WriteDir(f, c, es) \in Seq(Items)
    BY WriteDirIs
  <2> QED
    BY <2>1, <2>2 DEF Plain, NoFlush, Item
<1>3. ASSUME NEW f \in Tables, NEW c \in Cluster, NEW bs \in Contents
      PROVE  Plain(WriteBytes(f, c, bs)) /\ NoFlush(WriteBytes(f, c, bs))
  <2>1. WriteBytes(f, c, bs) = Item(f, [kind |-> "bytes", at |-> c, val |-> bs])
    BY DEF WriteBytes
  <2>2. WriteBytes(f, c, bs) \in Seq(Items)
    BY WriteBytesIs
  <2> QED
    BY <2>1, <2>2 DEF Plain, NoFlush, Item
<1>4. Plain(<<>>)
  BY EmptySeq DEF Plain
<1> QED
  BY <1>1, <1>2, <1>3, <1>4

\* A lookup writes items without an end: those of a directory that grows.
LEMMA LookupPlain ==
    ASSUME NEW f \in Tables, NEW es, NEW dir \in Cluster \cup {Root}, NEW name, NEW create \in BOOLEAN
    PROVE  Plain(dir_lookup(f, es, dir, name, create).items)
<1> DEFINE l == dir_lookup(f, es, dir, name, create)
<1>1. CASE l.items = <<>>
  BY <1>1, Pieces
<1>2. CASE l.items # <<>>
  <2>1. l = Grown(f, dir) /\ dir \in Cluster /\ Unused(f) # {}
    <3>1. CASE Named(f, es, dir, name) # {}
      BY <1>2, <3>1 DEF dir_lookup, Found
    <3>2. CASE Named(f, es, dir, name) = {} /\ Usable(f, es, dir) # {}
      BY <1>2, <3>2 DEF dir_lookup, Found
    <3>3. CASE Named(f, es, dir, name) = {} /\ Usable(f, es, dir) = {} /\ (dir = Root \/ ~create \/ Unused(f) = {})
      <4>1. l = Failure(2, f) \/ l = Failure(3, f)
        BY <3>3 DEF dir_lookup
      <4> QED
        BY <1>2, <4>1 DEF Failure
    <3>4. CASE Named(f, es, dir, name) = {} /\ Usable(f, es, dir) = {} /\ dir # Root /\ create /\ Unused(f) # {}
      BY <3>4 DEF dir_lookup
    <3> QED
      BY <3>1, <3>2, <3>3, <3>4
  <2> DEFINE g == Grown(f, dir).fat
  <2>2. g \in Tables /\ NewCluster(f) \in Cluster /\ Grown(f, dir).items = WriteDir(g, NewCluster(f), EmptyDir) \o fat_flush(g)
    BY <2>1, GrownIs, AllocateIs
  <2> HIDE DEF g, l
  <2>3. Plain(WriteDir(g, NewCluster(f), EmptyDir)) /\ Plain(fat_flush(g))
    BY <2>2, Pieces, EmptyDirIs, FlushSettles
  <2> QED
    BY <2>1, <2>2, <2>3, PlainConcat DEF l
<1> QED
  BY <1>1, <1>2

\* A cluster's new contents.
LEMMA PatchedIs ==
    ASSUME disk \in Disks, NEW c \in Cluster, NEW i, NEW e, NEW b \in Bytes
    PROVE  Patched(c, i, e, b) \in Contents
<1>1. disk.bytes[c] \in Contents
  BY DEF Disks
<1> QED
  BY <1>1 DEF Contents, Patched

OnlyBytes(X) == X \in Seq(Items) /\ \A k \in 1..Len(X) : X[k].write.kind = "bytes"

LEMMA MoreBytes ==
    ASSUME NEW X, OnlyBytes(X), NEW f \in Tables, NEW c \in Cluster, NEW bs \in Contents
    PROVE  OnlyBytes(X \o WriteBytes(f, c, bs))
<1> DEFINE w == [kind |-> "bytes", at |-> c, val |-> bs]
           Y == WriteBytes(f, c, bs)
<1>1. w \in Writes /\ w.kind = "bytes"
  BY DEF Writes
<1>2. Y = Item(f, w)
  BY DEF WriteBytes
<1> HIDE DEF w, Y
<1>3. Y \in Seq(Items) /\ Len(Y) = 1 /\ Y[1].write.kind = "bytes"
  <2>1. Item(f, w) \in Seq(Items) /\ Len(Item(f, w)) = 1 /\ Item(f, w)[1] = [fat |-> f, write |-> w]
    BY <1>1, ItemIs
  <2> QED
    BY <1>1, <1>2, <2>1
<1>4. X \in Seq(Items) /\ \A k \in 1..Len(X) : X[k].write.kind = "bytes"
  BY DEF OnlyBytes
<1>5. ASSUME NEW k \in 1..(Len(X) + Len(Y)) PROVE (X \o Y)[k].write.kind = "bytes"
  <2>1. Len(X) \in Nat
    BY <1>4, LenProperties
  <2>2. CASE k <= Len(X)
    <3>1. k \in 1..Len(X)
      BY <2>1, <2>2
    <3> QED
      BY <1>3, <1>4, <3>1, ItemsConcat
  <2>3. CASE k > Len(X)
    <3>1. (X \o Y)[k] = Y[k - Len(X)] /\ k - Len(X) \in 1..Len(Y)
      BY <1>3, <1>4, <2>3, ItemsConcat
    <3>2. k - Len(X) = 1
      BY <1>3, <2>1, <3>1
    <3> QED
      BY <1>3, <3>1, <3>2
  <2> QED
    BY <2>1, <2>2, <2>3
<1>6. X \o Y \in Seq(Items) /\ Len(X \o Y) = Len(X) + Len(Y)
  BY <1>3, <1>4, ItemsConcat
<1>7. OnlyBytes(X \o Y)
  BY <1>5, <1>6 DEF OnlyBytes
<1> QED
  BY <1>7 DEF Y

LEMMA BytesArePlain ==
    /\ OnlyBytes(<<>>)
    /\ \A X : OnlyBytes(X) => Plain(X)
BY EmptySeq DEF OnlyBytes, Plain

LEMMA StoredIs ==
    ASSUME disk \in Disks, NEW f \in Tables, NEW first \in Cluster \cup {0}, NEW b \in Bytes,
           NEW e, e.offset \in Nat, e.len \in Nat \ {0}
    PROVE  Stored(f, first, e, b) \in Stores /\ OnlyBytes(Stored(f, first, e, b).items)
<1> DEFINE H == {h \in Stores : OnlyBytes(h.items)}
           N == Rounds(e)
           A == [i \in 0..(N + 1) |-> H]
<1>1. N \in Nat
  BY RoundsIs
<1>2. Unstored(f, first) \in H
  BY BytesArePlain DEF Unstored, Stores, OnlyBytes
<1>3. \A i \in 0..N : \A h \in H : StoreRound(first, e, b, i, h) \in H
  <2> TAKE i \in 0..N
  <2> TAKE h \in H
  <2> DEFINE n == Onward(h, first)
             w == WriteBytes(n.fat, n.at, Patched(n.at, i, e, b))
  <2>1. n \in Stores /\ n.items = h.items /\ (n.full \/ n.at \in Cluster) /\ n.fat \in Tables
    BY OnwardIs DEF Stores
  <2>2. CASE h.full \/ n.full
    <3>1. StoreRound(first, e, b, i, h) = [h EXCEPT !.full = TRUE]
      BY <2>2 DEF StoreRound
    <3> QED
      BY <3>1 DEF Stores
  <2>3. CASE ~(h.full \/ n.full) /\ i < e.offset \div cluster_size
    <3>1. StoreRound(first, e, b, i, h) = n
      BY <2>3 DEF StoreRound
    <3> QED
      BY <2>1, <3>1
  <2>4. CASE ~(h.full \/ n.full) /\ ~(i < e.offset \div cluster_size)
    <3>1. StoreRound(first, e, b, i, h) = [n EXCEPT !.items = @ \o w]
      BY <2>4 DEF StoreRound
    <3> HIDE DEF n
    <3>2. n.at \in Cluster /\ Patched(n.at, i, e, b) \in Contents
      BY <2>1, <2>4, PatchedIs
    <3>3. OnlyBytes(n.items \o w)
      BY <2>1, <3>2, MoreBytes
    <3> HIDE DEF w
    <3>4. n.items \o w \in Seq(Items)
      BY <3>3 DEF OnlyBytes
    <3> QED
      BY <2>1, <3>1, <3>3, <3>4 DEF Stores
  <2> QED
    BY <2>2, <2>3, <2>4
<1> HIDE DEF N, H
<1>4. Unstored(f, first) \in A[0]
  BY <1>1, <1>2
<1>5. \A i \in 0..N : \A h \in A[i] : StoreRound(first, e, b, i, h) \in A[i + 1]
  <2> TAKE i \in 0..N
  <2> TAKE h \in A[i]
  <2>1. i \in 0..(N + 1) /\ i + 1 \in 0..(N + 1)
    BY <1>1
  <2> QED
    BY <2>1, <1>3
<1> HIDE DEF A
<1>6. Stored(f, first, e, b) \in A[N + 1]
  BY <1>1, <1>4, <1>5, StoredInduction DEF N
<1>7. N + 1 \in 0..(N + 1)
  BY <1>1
<1> QED
  BY <1>6, <1>7 DEF A, H
---------------------------------------------------------------------------
(* What the operations come to.                                            *)

Outcomes == [items : Seq(Items), code : {"ok", "full", "wild"}, emptied : BOOLEAN]

\* An operation that is not wild writes X and returns, with the table F.
Returns(o, X, F) ==
    /\ F \in Tables /\ Plain(X)
    /\ o.items = X \o Return(F, o.code)
    /\ o.code \in {"ok", "full"}
    /\ o.code = "ok" => Settles(X, F)

Shape(o) ==
    /\ o \in Outcomes
    /\ o.code = "wild" => o.items = <<>>
    /\ o.code # "wild" => \E X, F : Returns(o, X, F)

LEMMA DerailedShape == Shape(Derailed)
BY EmptySeq DEF Shape, Derailed, Outcomes

LEMMA OutcomeShape ==
    ASSUME NEW F \in Tables, NEW X, Plain(X), NEW code \in {"ok", "full"}, code = "ok" => Settles(X, F)
    PROVE  Shape(Outcome(X, F, code)) /\ Shape([Outcome(X, F, code) EXCEPT !.emptied = TRUE])
           /\ Shape([Outcome(X, F, code) EXCEPT !.emptied = FALSE])
<1>1. X \in Seq(Items) /\ Return(F, code) \in Seq(Items)
  BY ReturnIs DEF Plain
<1>2. X \o Return(F, code) \in Seq(Items)
  BY <1>1, ConcatProperties
<1> DEFINE o == Outcome(X, F, code)
<1>3. o.items = X \o Return(F, code) /\ o.code = code /\ o \in Outcomes
  BY <1>2 DEF Outcome, Outcomes
<1>4. ASSUME NEW o2, o2.items = X \o Return(F, code), o2.code = code, o2 \in Outcomes
      PROVE  Shape(o2)
  BY <1>4 DEF Shape, Returns
<1>5. ASSUME NEW z \in BOOLEAN
      PROVE  LET o2 == [o EXCEPT !.emptied = z] IN
             o2.items = X \o Return(F, code) /\ o2.code = code /\ o2 \in Outcomes
  BY <1>3 DEF Outcomes
<1> HIDE DEF o
<1>6. Shape(o)
  BY <1>3, <1>4
<1>7. Shape([o EXCEPT !.emptied = TRUE])
  BY <1>5, <1>4
<1>8. Shape([o EXCEPT !.emptied = FALSE])
  BY <1>5, <1>4
<1> QED
  BY <1>6, <1>7, <1>8 DEF o

\* The table and then things that are not the table.
LEMMA FlushedThen ==
    ASSUME NEW F \in Tables, NEW X, Plain(X), NEW Y, Plain(Y), NoFlush(Y)
    PROVE  /\ Plain(X \o fat_flush(F)) /\ Settles(X \o fat_flush(F), F)
           /\ Plain(fat_flush(F) \o Y) /\ Settles(fat_flush(F) \o Y, F)
           /\ Plain(X \o fat_flush(F) \o Y) /\ Settles(X \o fat_flush(F) \o Y, F)
           /\ Plain(X \o (fat_flush(F) \o Y)) /\ Settles(X \o (fat_flush(F) \o Y), F)
<1>1. Plain(fat_flush(F)) /\ Settles(fat_flush(F), F)
  BY FlushSettles
<1>2. Plain(X \o fat_flush(F)) /\ Settles(X \o fat_flush(F), F)
  BY <1>1, PlainConcat, SettlesBehind DEF Plain
<1>3. Plain(fat_flush(F) \o Y) /\ Settles(fat_flush(F) \o Y, F)
  BY <1>1, PlainConcat, SettlesBefore DEF Plain
<1>4. Plain(X \o fat_flush(F) \o Y) /\ Settles(X \o fat_flush(F) \o Y, F)
  BY <1>2, PlainConcat, SettlesBefore DEF Plain
<1>5. Plain(X \o (fat_flush(F) \o Y)) /\ Settles(X \o (fat_flush(F) \o Y), F)
  BY <1>3, PlainConcat, SettlesBehind DEF Plain
<1> QED
  BY <1>2, <1>3, <1>4, <1>5

\* Where the lookups of the operations look.
LEMMA LookupsAre ==
    ASSUME fat \in Tables, disk \in Disks, NEW p \in Paths, NEW create \in BOOLEAN, NEW l \in Lookup(p, create)
    PROVE  /\ l \in Lookups /\ Plain(l.items)
           /\ EntriesOK(disk.entries)
           /\ At(disk.entries, l.slot) \in Entries
           /\ At(disk.entries, l.slot).first \in Cluster \cup {0}
           /\ l.exists => l.fat = fat /\ l.items = <<>>
           /\ ~create => l.fat = fat
           /\ resolve_path(fat, disk.entries, p) \in Cluster \cup {Root}
           /\ l = dir_lookup(fat, disk.entries, resolve_path(fat, disk.entries, p), NameOf(p), create)
<1> DEFINE dir == resolve_path(fat, disk.entries, p)
<1>1. EntriesOK(disk.entries)
  BY DEF Disks
<1>2. dir \in Cluster \cup {Root}
  BY <1>1, ResolveIs DEF Lookup
<1>3. l = dir_lookup(fat, disk.entries, dir, NameOf(p), create)
  BY DEF Lookup
<1> HIDE DEF dir
<1>4. l \in Lookups /\ Plain(l.items) /\ (l.exists => l.fat = fat /\ l.items = <<>>) /\ (~create => l.fat = fat)
  <2>1. l \in Lookups /\ Plain(l.items)
    BY <1>2, <1>3, LookupIs, LookupPlain
  <2>2. ASSUME l.exists PROVE l.fat = fat /\ l.items = <<>>
    <3> DEFINE es == disk.entries
               name == NameOf(p)
    <3>1. l = dir_lookup(fat, es, dir, name, create)
      BY <1>3
    <3> HIDE DEF es, name
    <3> QED
      BY <1>2, <3>1, <2>2, LookupExisting
  <2>3. ASSUME ~create PROVE l.fat = fat
    <3>1. l = dir_lookup(fat, disk.entries, dir, NameOf(p), FALSE)
      BY <1>3, <2>3
    <3>2. dir_lookup(fat, disk.entries, dir, NameOf(p), FALSE).fat = fat
      BY <1>2, LookupReading
    <3> QED
      BY <3>1, <3>2
  <2> QED
    BY <2>1, <2>2, <2>3
<1>5. l.slot \in SlotSet
  BY <1>4 DEF Lookups
<1>6. At(disk.entries, l.slot) \in Entries /\ At(disk.entries, l.slot).first \in Cluster \cup {0}
  BY <1>1, <1>5, AtIs DEF Root
<1> QED
  BY <1>1, <1>2, <1>3, <1>4, <1>6 DEF dir

LEMMA EntryIs ==
    ASSUME NEW name \in Names, NEW dir \in BOOLEAN, NEW first \in Cluster \cup {0}, NEW size \in Nat
    PROVE  Entry(name, dir, first, size) \in Entries
BY DEF Entry, Entries

LEMMA WriteFileShape ==
    ASSUME fat \in Tables, disk \in Disks, NEW p \in Paths, NEW o \in fat_write_file(p)
    PROVE  Shape(o)
<1>1. PICK l \in Lookup(p, TRUE) :
         LET old == At(disk.entries, l.slot)
             f == IF l.exists THEN fat_free_chain(fat, old.first) ELSE l.fat
         IN  o = IF l.r = 3 THEN Derailed
                 ELSE [Outcome(l.items \o fat_flush(f)
                               \o WriteEntry(f, l.slot, Entry(NameOf(p), FALSE, 0, 0)), f, "ok")
                       EXCEPT !.emptied = l.exists /\ old.dir]
  BY DEF fat_write_file
<1> DEFINE old == At(disk.entries, l.slot)
           f == IF l.exists THEN fat_free_chain(fat, old.first) ELSE l.fat
           new == Entry(NameOf(p), FALSE, 0, 0)
           X == l.items \o fat_flush(f) \o WriteEntry(f, l.slot, new)
<1>2. l \in Lookups /\ Plain(l.items) /\ NameOf(p) \in Names /\ EntriesOK(disk.entries)
  BY LookupsAre, ResolveIs
<1>3. f \in Tables /\ l.slot \in SlotSet
  BY <1>2, FreeChainIs DEF Lookups
<1>4. new \in Entries
  BY <1>2, EntryIs
<1> HIDE DEF f, new
<1>5. Plain(WriteEntry(f, l.slot, new)) /\ NoFlush(WriteEntry(f, l.slot, new))
  BY <1>3, <1>4, Pieces
<1>6. Plain(X) /\ Settles(X, f)
  <2> DEFINE Y == WriteEntry(f, l.slot, new)
  <2> HIDE DEF Y
  <2> QED
    BY <1>2, <1>3, <1>5, FlushedThen DEF Y
<1> HIDE DEF X
<1>7. CASE l.r = 3
  BY <1>1, <1>7, DerailedShape
<1>8. CASE l.r # 3
  <2>1. Shape([Outcome(X, f, "ok") EXCEPT !.emptied = TRUE]) /\ Shape([Outcome(X, f, "ok") EXCEPT !.emptied = FALSE])
    BY <1>3, <1>6, OutcomeShape
  <2>2. o = [Outcome(X, f, "ok") EXCEPT !.emptied = l.exists /\ old.dir]
    BY <1>1, <1>8 DEF X, f, new
  <2> DEFINE z == l.exists /\ old.dir
  <2>3. z \in BOOLEAN
    OBVIOUS
  <2>4. o = [Outcome(X, f, "ok") EXCEPT !.emptied = z]
    BY <2>2
  <2> HIDE DEF z
  <2>5. CASE z = TRUE
    BY <2>1, <2>4, <2>5, Zenon
  <2>6. CASE z = FALSE
    BY <2>1, <2>4, <2>6, Zenon
  <2> QED
    BY <2>3, <2>5, <2>6
<1> QED
  BY <1>7, <1>8

\* Whatever the extent that is written.
Extent == [offset : Nat, len : Nat \ {0}]

LEMMA WriteAtShape ==
    ASSUME fat \in Tables, disk \in Disks, NEW p \in Paths, NEW e \in Extent, NEW b \in Bytes,
           NEW o \in fat_write_at(p, e, b)
    PROVE  Shape(o)
<1> DEFINE Ent(l) == IF l.exists THEN At(disk.entries, l.slot) ELSE Entry(NameOf(p), FALSE, 0, 0)
           H(l) == Stored(l.fat, Ent(l).first, e, b)
           New(l) == [Ent(l) EXCEPT !.first = H(l).first, !.size = NewSize(e, Ent(l).size)]
<1>1. PICK l \in Lookup(p, TRUE) :
         \/ o = Derailed
         \/ o = Outcome(l.items \o fat_write_items(l.fat, H(l), l.slot, New(l)), H(l).fat, "ok")
         \/ o = Outcome(l.items \o H(l).items, H(l).fat, "full")
  BY Zenon DEF fat_write_at
<1> DEFINE ent == Ent(l)
           h == H(l)
           new == New(l)
<1>2. /\ l \in Lookups /\ Plain(l.items) /\ NameOf(p) \in Names /\ EntriesOK(disk.entries)
      /\ l.fat \in Tables /\ l.slot \in SlotSet /\ At(disk.entries, l.slot) \in Entries
  BY LookupsAre, ResolveIs DEF Lookups
<1>3. ent \in Entries
  BY <1>2, EntryIs
<1>4. e.offset \in Nat /\ e.len \in Nat \ {0}
  BY DEF Extent
<1> HIDE DEF Ent
<1>5. ent.first \in Cluster \cup {0} /\ ent.size \in Nat
  BY <1>3 DEF Entries
<1>6. h \in Stores /\ Plain(h.items)
  BY <1>2, <1>4, <1>5, StoredIs, BytesArePlain
<1> HIDE DEF H
<1>7. NewSize(e, ent.size) \in Nat
  BY <1>4, <1>5 DEF NewSize
<1>8. new \in Entries
  BY <1>3, <1>6, <1>7 DEF Entries, Stores
<1> HIDE DEF New
<1>9. h.fat \in Tables
  BY <1>6 DEF Stores
<1>10. CASE o = Derailed
  BY <1>10, DerailedShape
<1>11. CASE o = Outcome(l.items \o fat_write_items(l.fat, H(l), l.slot, New(l)), H(l).fat, "ok")
  <2> DEFINE Y == WriteEntry(h.fat, l.slot, new)
             X == h.items \o fat_flush(h.fat) \o Y
  <2>1. Plain(Y) /\ NoFlush(Y)
    BY <1>2, <1>8, <1>9, Pieces
  <2> HIDE DEF Y
  <2>2. Plain(X) /\ Settles(X, h.fat)
    BY <1>6, <1>9, <2>1, FlushedThen
  <2>3. fat_write_items(l.fat, H(l), l.slot, New(l)) = X
    BY DEF fat_write_items, Y
  <2> HIDE DEF X
  <2>4. Plain(l.items \o X) /\ Settles(l.items \o X, h.fat)
    BY <1>2, <2>2, PlainConcat, SettlesBehind DEF Plain
  <2> QED
    BY <1>9, <1>11, <2>3, <2>4, OutcomeShape
<1>12. CASE o = Outcome(l.items \o H(l).items, H(l).fat, "full")
  <2>1. Plain(l.items \o h.items)
    BY <1>2, <1>6, PlainConcat
  <2> QED
    BY <1>9, <1>12, <2>1, OutcomeShape
<1> QED
  BY <1>1, <1>10, <1>11, <1>12

LEMMA DeleteShape ==
    ASSUME fat \in Tables, disk \in Disks, NEW p \in Paths,
           NEW o \in fat_delete_file(p) \cup fat_rmdir(p)
    PROVE  Shape(o)
<1> DEFINE F(l) == fat_free_chain(fat, At(disk.entries, l.slot).first)
<1>1. PICK l \in Lookup(p, FALSE) :
         \/ o = Outcome(fat_delete_items(F(l), l.slot), F(l), "ok")
         \/ o = Outcome(fat_flush(F(l)) \o WriteEntry(F(l), l.slot, Gone), F(l), "ok")
  BY DEF fat_delete_file, fat_rmdir
<1> DEFINE f == F(l)
           Y == WriteEntry(f, l.slot, Gone)
<1>2. l \in Lookups /\ l.slot \in SlotSet
  BY LookupsAre DEF Lookups
<1>3. f \in Tables
  BY FreeChainIs
<1> HIDE DEF F
<1>4. Plain(Y) /\ NoFlush(Y)
  BY <1>2, <1>3, Pieces, EmptyDirIs
<1> HIDE DEF Y
<1>5. Plain(Y \o fat_flush(f)) /\ Settles(Y \o fat_flush(f), f)
      /\ Plain(fat_flush(f) \o Y) /\ Settles(fat_flush(f) \o Y, f)
  BY <1>3, <1>4, FlushedThen
<1>6. fat_delete_items(F(l), l.slot) = Y \o fat_flush(f)
  BY DEF fat_delete_items, Y
<1>7. fat_flush(F(l)) \o WriteEntry(F(l), l.slot, Gone) = fat_flush(f) \o Y
  BY DEF Y
<1> QED
  BY <1>1, <1>3, <1>5, <1>6, <1>7, OutcomeShape

LEMMA FirstBlockIs ==
    ASSUME NEW c \in Cluster, NEW parent \in Cluster \cup {Root}
    PROVE  FirstBlock(c, parent) \in [1..DirEntries -> Entries]
<1>1. Entry(".", TRUE, c, 0) \in Entries /\ Entry("..", TRUE, parent, 0) \in Entries
  BY DEF Entry, Entries, Root
<1> QED
  BY <1>1, EmptyDirIs DEF FirstBlock

LEMMA MkdirShape ==
    ASSUME fat \in Tables, disk \in Disks, NEW p \in Paths, NEW o \in fat_mkdir(p)
    PROVE  Shape(o)
<1> DEFINE parent == resolve_path(fat, disk.entries, p)
           C(l) == NewCluster(l.fat)
           F(l) == Allocate(l.fat)
<1>1. PICK l \in Lookup(p, TRUE) :
         \/ /\ Unused(l.fat) # {}
            /\ o = Outcome(l.items \o WriteDir(F(l), C(l), FirstBlock(C(l), parent)) \o fat_flush(F(l))
                           \o WriteEntry(F(l), l.slot, Entry(NameOf(p), TRUE, C(l), 0)), F(l), "ok")
         \/ o = Outcome(l.items, l.fat, "full")
  BY DEF fat_mkdir
<1>2. /\ l \in Lookups /\ Plain(l.items) /\ NameOf(p) \in Names /\ parent \in Cluster \cup {Root}
      /\ l.fat \in Tables /\ l.slot \in SlotSet
  BY LookupsAre, ResolveIs DEF Lookups
<1> HIDE DEF parent
<1>3. CASE /\ Unused(l.fat) # {}
           /\ o = Outcome(l.items \o WriteDir(F(l), C(l), FirstBlock(C(l), parent)) \o fat_flush(F(l))
                           \o WriteEntry(F(l), l.slot, Entry(NameOf(p), TRUE, C(l), 0)), F(l), "ok")
  <2> DEFINE f == F(l)
             c == C(l)
             X == WriteDir(f, c, FirstBlock(c, parent))
             Y == WriteEntry(f, l.slot, Entry(NameOf(p), TRUE, c, 0))
  <2>1. f \in Tables /\ c \in Cluster
    BY <1>2, <1>3, AllocateIs
  <2> HIDE DEF F, C
  <2>2. FirstBlock(c, parent) \in [1..DirEntries -> Entries] /\ Entry(NameOf(p), TRUE, c, 0) \in Entries
    BY <1>2, <2>1, FirstBlockIs, EntryIs
  <2>3. Plain(X) /\ Plain(Y) /\ NoFlush(Y)
    BY <1>2, <2>1, <2>2, Pieces
  <2> HIDE DEF X, Y
  <2>4. Plain(l.items \o X)
    BY <1>2, <2>3, PlainConcat
  <2>5. Plain(l.items \o X \o fat_flush(f) \o Y) /\ Settles(l.items \o X \o fat_flush(f) \o Y, f)
    BY <2>1, <2>3, <2>4, FlushedThen
  <2>6. o = Outcome(l.items \o X \o fat_flush(f) \o Y, f, "ok")
    BY <1>3 DEF X, Y
  <2> QED
    BY <2>1, <2>5, <2>6, OutcomeShape
<1>4. CASE o = Outcome(l.items, l.fat, "full")
  BY <1>2, <1>4, OutcomeShape
<1> QED
  BY <1>1, <1>3, <1>4
---------------------------------------------------------------------------
(* The writes.                                                             *)

\* What one write changes.
LEMMA EffectIs ==
    ASSUME NEW d \in Disks, NEW it \in Items
    PROVE  /\ Effect(d, it) \in Disks
           /\ it.write.kind # "fat" => Effect(d, it).fats = d.fats
           /\ it.write.kind = "fat" =>
                 /\ it.write.at \in 1..fat_count
                 /\ \A i \in 1..fat_count, c \in Cluster :
                       Effect(d, it).fats[i][c] = IF Flushes(it, i, SectorOf(c)) THEN it.fat[c] ELSE d.fats[i][c]
                 /\ Effect(d, it).entries = d.entries
<1> DEFINE w == it.write
           E == Effect(d, it)
<1>0. /\ it.fat \in Tables /\ w \in Writes
      /\ d.fats \in [1..fat_count -> Tables] /\ d.entries \in [Cluster \cup {Root} -> Blocks]
      /\ d.bytes \in [Cluster -> Contents] /\ EntriesOK(d.entries)
      /\ d = [fats |-> d.fats, entries |-> d.entries, bytes |-> d.bytes]
  BY DEF Items, Disks
<1>1. CASE w.kind = "fat"
  <2>1. w.at \in 1..fat_count /\ w.val \in 1..sectors_per_fat
    BY <1>0, <1>1 DEF Writes
  <2> DEFINE g == [c \in Cluster |-> IF SectorOf(c) = w.val THEN it.fat[c] ELSE d.fats[w.at][c]]
  <2>2. E = [d EXCEPT !.fats[w.at] = g]
    BY <1>1, <2>1 DEF Effect
  <2>3. d.fats[w.at] \in Tables
    BY <1>0, <2>1
  <2>4. g \in Tables
    BY <1>0, <2>3 DEF Tables
  <2>5. \A c \in Cluster : g[c] = IF SectorOf(c) = w.val THEN it.fat[c] ELSE d.fats[w.at][c]
    OBVIOUS
  <2> HIDE DEF g, E
  <2>6. E.fats = [d.fats EXCEPT ![w.at] = g] /\ E.entries = d.entries /\ E.bytes = d.bytes
        /\ E = [fats |-> E.fats, entries |-> E.entries, bytes |-> E.bytes]
    BY <1>0, <2>2
  <2>7. E.fats \in [1..fat_count -> Tables]
    BY <1>0, <2>1, <2>4, <2>6
  <2>8. E \in Disks
    BY <1>0, <2>6, <2>7 DEF Disks
  <2>9. ASSUME NEW i \in 1..fat_count, NEW c \in Cluster
        PROVE  E.fats[i][c] = IF Flushes(it, i, SectorOf(c)) THEN it.fat[c] ELSE d.fats[i][c]
    <3>1. E.fats[i] = IF i = w.at THEN g ELSE d.fats[i]
      BY <1>0, <2>1, <2>6
    <3> QED
      BY <3>1, <2>5, <1>1 DEF Flushes
  <2> QED
    BY <1>1, <2>1, <2>6, <2>8, <2>9 DEF E
<1>2. CASE w.kind = "entry"
  <2>1. w.at \in SlotSet /\ w.val \in Entries
    BY <1>0, <1>2 DEF Writes
  <2>2. E = [d EXCEPT !.entries[w.at[1]][w.at[2]] = w.val]
    BY <1>2 DEF Effect
  <2>3. w.at[1] \in Cluster \cup {Root} /\ w.at[2] \in 1..InBlock(w.at[1])
    BY <2>1 DEF SlotSet
  <2> DEFINE block == [d.entries[w.at[1]] EXCEPT ![w.at[2]] = w.val]
  <2> HIDE DEF E
  <2>4. E.fats = d.fats /\ E.entries = [d.entries EXCEPT ![w.at[1]] = block] /\ E.bytes = d.bytes
        /\ E = [fats |-> E.fats, entries |-> E.entries, bytes |-> E.bytes]
    BY <1>0, <2>2
  <2>5. block \in [1..InBlock(w.at[1]) -> Entries]
    BY <1>0, <2>1, <2>3 DEF EntriesOK
  <2>6. block \in Blocks
    BY <2>5 DEF Blocks, InBlock
  <2> HIDE DEF block
  <2>7. EntriesOK(E.entries)
    BY <1>0, <2>3, <2>4, <2>5, <2>6 DEF EntriesOK
  <2>8. E \in Disks
    BY <1>0, <2>4, <2>7 DEF Disks, EntriesOK
  <2> QED
    BY <1>2, <2>4, <2>8 DEF E
<1>3. CASE w.kind = "dir"
  <2>1. w.at \in Cluster /\ w.val \in [1..DirEntries -> Entries]
    BY <1>0, <1>3 DEF Writes
  <2>2. E = [d EXCEPT !.entries[w.at] = w.val]
    BY <1>3 DEF Effect
  <2> HIDE DEF E
  <2>4. E.fats = d.fats /\ E.entries = [d.entries EXCEPT ![w.at] = w.val] /\ E.bytes = d.bytes
        /\ E = [fats |-> E.fats, entries |-> E.entries, bytes |-> E.bytes]
    BY <1>0, <2>2
  <2>5. w.val \in [1..InBlock(w.at) -> Entries] /\ w.val \in Blocks
    BY <2>1 DEF Blocks, InBlock, Root, Cluster
  <2>7. EntriesOK(E.entries)
    BY <1>0, <2>1, <2>4, <2>5 DEF EntriesOK
  <2>8. E \in Disks
    BY <1>0, <2>4, <2>7 DEF Disks, EntriesOK
  <2> QED
    BY <1>3, <2>4, <2>8 DEF E
<1>4. CASE w.kind = "bytes"
  <2>1. w.at \in Cluster /\ w.val \in Contents
    BY <1>0, <1>4 DEF Writes
  <2>2. E = [d EXCEPT !.bytes[w.at] = w.val, !.entries[w.at] = DataBlock]
    BY <1>4 DEF Effect
  <2>3. DataBlock \in [1..InBlock(w.at) -> Entries] /\ DataBlock \in Blocks
    BY <2>1, EmptyDirIs DEF Blocks, InBlock, Root, Cluster
  <2> HIDE DEF E
  <2>4. E.fats = d.fats /\ E.entries = [d.entries EXCEPT ![w.at] = DataBlock]
        /\ E.bytes = [d.bytes EXCEPT ![w.at] = w.val]
        /\ E = [fats |-> E.fats, entries |-> E.entries, bytes |-> E.bytes]
    BY <1>0, <2>2
  <2>5. E.bytes \in [Cluster -> Contents]
    BY <1>0, <2>1, <2>4
  <2>7. EntriesOK(E.entries)
    BY <1>0, <2>1, <2>3, <2>4 DEF EntriesOK
  <2>8. E \in Disks
    BY <1>0, <2>4, <2>5, <2>7 DEF Disks, EntriesOK
  <2> QED
    BY <1>4, <2>4, <2>8 DEF E
<1>5. CASE w.kind = "return"
  <2>1. E = d
    BY <1>5 DEF Effect
  <2> QED
    BY <1>5, <2>1
<1>6. w.kind \in {"fat", "entry", "dir", "bytes", "return"}
  BY <1>0 DEF Writes
<1> QED
  BY <1>1, <1>2, <1>3, <1>4, <1>5, <1>6
---------------------------------------------------------------------------
(* Type correctness.                                                       *)

TypeInv == TypeOK /\ disk \in Disks

LEMMA InitTypes == Init => TypeInv
<1> SUFFICES ASSUME Init PROVE TypeInv
  OBVIOUS
<1>1. fat \in Tables
  BY DEF Init, Tables
<1>2. /\ op = "none" /\ todo = <<>> /\ wild = FALSE /\ late = FALSE /\ past = {}
      /\ disk = [fats |-> [i \in 1..fat_count |-> fat],
                 entries |-> [c \in Cluster \cup {Root} |-> [i \in 1..InBlock(c) |-> NoEntry]],
                 bytes |-> [c \in Cluster |-> [k \in 0..(cluster_size - 1) |-> 0]]]
  BY DEF Init
<1> DEFINE es == [c \in Cluster \cup {Root} |-> [i \in 1..InBlock(c) |-> NoEntry]]
           bs == [c \in Cluster |-> [k \in 0..(cluster_size - 1) |-> 0]]
           fs == [i \in 1..fat_count |-> fat]
<1>3. EntriesOK(es)
  <2>1. \A c \in Cluster \cup {Root} : es[c] \in [1..InBlock(c) -> Entries]
    BY EmptyDirIs
  <2>2. \A c \in Cluster \cup {Root} : es[c] \in Blocks
    BY <2>1 DEF Blocks, InBlock
  <2>3. es = [c \in Cluster \cup {Root} |-> es[c]]
    OBVIOUS
  <2> HIDE DEF es
  <2> QED
    BY <2>1, <2>2, <2>3 DEF EntriesOK
<1>4. bs \in [Cluster -> Contents]
  BY DEF Contents
<1>5. fs \in [1..fat_count -> Tables]
  BY <1>1
<1> HIDE DEF es, bs, fs
<1>6. disk = [fats |-> fs, entries |-> es, bytes |-> bs]
  BY <1>2 DEF es, bs, fs
<1>7. disk \in Disks
  BY <1>3, <1>4, <1>5, <1>6 DEF Disks, EntriesOK
<1>8. todo \in Seq(Items)
  BY <1>2, EmptySeq
<1>9. /\ disk.fats \in [1..fat_count -> Tables] /\ disk.bytes \in [Cluster -> Contents]
      /\ \A c \in Cluster \cup {Root} : disk.entries[c] \in [1..InBlock(c) -> Entries]
  BY <1>7 DEF Disks, EntriesOK
<1> HIDE DEF es, bs, fs
<1>10. TypeOK
  BY <1>1, <1>2, <1>8, <1>9 DEF TypeOK
<1> QED
  BY <1>7, <1>10 DEF TypeInv

\* What an operation may come to.
WritesOf(p) == {o \in Outcomes : \E e \in Extent, b \in Bytes : o \in fat_write_at(p, e, b)}

OutcomesOf(p) ==
    fat_write_file(p) \cup WritesOf(p)
    \cup fat_delete_file(p) \cup fat_rmdir(p) \cup fat_mkdir(p)

LEMMA OutcomesShape ==
    ASSUME fat \in Tables, disk \in Disks, NEW p \in Paths, NEW o \in OutcomesOf(p)
    PROVE  Shape(o)
<1>1. CASE o \in fat_write_file(p)
  BY <1>1, WriteFileShape
<1>2. CASE \E e \in Extent, b \in Bytes : o \in fat_write_at(p, e, b)
  BY <1>2, WriteAtShape
<1>3. CASE o \in fat_delete_file(p) \cup fat_rmdir(p)
  BY <1>3, DeleteShape
<1>4. CASE o \in fat_mkdir(p)
  BY <1>4, MkdirShape
<1>5. o \in WritesOf(p) => \E e \in Extent, b \in Bytes : o \in fat_write_at(p, e, b)
  BY DEF WritesOf
<1> QED
  BY <1>1, <1>2, <1>3, <1>4, <1>5 DEF OutcomesOf

\* Those of operation name.
Called(name, p) ==
    {o \in OutcomesOf(p) :
        \/ name = "truncate" /\ o \in fat_write_file(p)
        \/ name = "write" /\ o \in WritesOf(p)
        \/ name = "unlink" /\ o \in fat_delete_file(p)
        \/ name = "mkdir" /\ o \in fat_mkdir(p)
        \/ name = "rmdir" /\ o \in fat_rmdir(p)}

\* An operation begins.
Begins(p) == \E o \in OutcomesOf(p) :
    /\ todo = <<>> /\ Sound(fat, disk.entries)
    /\ op' \in {"truncate", "write", "unlink", "mkdir", "rmdir"} /\ o \in Called(op', p)
    /\ todo' = o.items
    /\ wild' = (o.code = "wild")
    /\ past' = IF o.emptied THEN past \cup {"dir"} ELSE past
    /\ UNCHANGED <<fat, disk, late>>

\* What Next calls.
LEMMA OperationsAre ==
    ASSUME fat \in Tables, disk \in Disks, NEW p \in Paths
    PROVE  /\ fat_write_file(p) \subseteq Called("truncate", p) /\ fat_delete_file(p) \subseteq Called("unlink", p)
           /\ fat_rmdir(p) \subseteq Called("rmdir", p) /\ fat_mkdir(p) \subseteq Called("mkdir", p)
           /\ \A e \in Extents, b \in Bytes : fat_write_at(p, e, b) \subseteq Called("write", p)
<1>1. /\ fat_write_file(p) \subseteq Called("truncate", p) /\ fat_delete_file(p) \subseteq Called("unlink", p)
      /\ fat_rmdir(p) \subseteq Called("rmdir", p) /\ fat_mkdir(p) \subseteq Called("mkdir", p)
      /\ WritesOf(p) \subseteq Called("write", p)
  BY DEF OutcomesOf, Called
<1>2. \A e \in Extents, b \in Bytes : fat_write_at(p, e, b) \subseteq WritesOf(p)
  <2>1. Extents \subseteq Extent
    BY ExtentAssumption DEF Extent
  <2>2. \A e \in Extent, b \in Bytes : fat_write_at(p, e, b) \subseteq WritesOf(p)
    BY WriteAtShape DEF WritesOf, Shape
  <2> QED
    BY <2>1, <2>2
<1>3. \A e \in Extents, b \in Bytes : fat_write_at(p, e, b) \subseteq Called("write", p)
  BY <1>1, <1>2
<1> QED
  BY <1>1, <1>3

LEMMA OperationBegins ==
    ASSUME fat \in Tables, disk \in Disks, NEW p \in Paths, Operation(p)
    PROVE  Begins(p)
<1>1. ASSUME NEW name \in {"truncate", "write", "unlink", "mkdir", "rmdir"}, NEW S,
             S \subseteq Called(name, p), Begin(name, S)
      PROVE  Begins(p)
  <2>1. Called(name, p) \subseteq OutcomesOf(p)
    BY DEF Called
  <2>2. todo = <<>> /\ Sound(fat, disk.entries)
    BY <1>1 DEF Begin, Idle
  <2>3. PICK o \in S :
          /\ op' = name /\ todo' = o.items /\ wild' = (o.code = "wild")
          /\ past' = IF o.emptied THEN past \cup {"dir"} ELSE past
          /\ UNCHANGED <<fat, disk, late>>
    BY <1>1, Zenon DEF Begin
  <2>4. o \in OutcomesOf(p) /\ o \in Called(op', p) /\ op' \in {"truncate", "write", "unlink", "mkdir", "rmdir"}
    BY <1>1, <2>1, <2>3
  <2> QED
    BY <2>2, <2>3, <2>4, Zenon DEF Begins
<1> QED
  BY <1>1, OperationsAre DEF Operation

LEMMA TypesStep == TypeInv /\ [Next]_vars => TypeInv'
<1> SUFFICES ASSUME TypeInv, [Next]_vars PROVE TypeInv'
  OBVIOUS
<1>0. /\ fat \in Tables /\ disk \in Disks /\ todo \in Seq(Items)
      /\ op \in {"none", "truncate", "write", "unlink", "mkdir", "rmdir"}
      /\ wild \in BOOLEAN /\ late \in BOOLEAN
      /\ past \subseteq {"dir", "full", "error", "cut"}
  BY DEF TypeInv, TypeOK
<1>a. ASSUME fat' \in Tables, disk' \in Disks, todo' \in Seq(Items),
             op' \in {"none", "truncate", "write", "unlink", "mkdir", "rmdir"},
             wild' \in BOOLEAN, late' \in BOOLEAN,
             past' \subseteq {"dir", "full", "error", "cut"}
      PROVE  TypeInv'
  BY <1>a DEF TypeInv, TypeOK, Disks, EntriesOK
<1>1. ASSUME NEW p \in Paths, Operation(p) PROVE TypeInv'
  <2>1. PICK o \in OutcomesOf(p) :
          /\ op' \in {"truncate", "write", "unlink", "mkdir", "rmdir"}
          /\ todo' = o.items
          /\ wild' = (o.code = "wild")
          /\ past' = IF o.emptied THEN past \cup {"dir"} ELSE past
          /\ UNCHANGED <<fat, disk, late>>
    BY <1>0, <1>1, OperationBegins DEF Begins
  <2>2. o.items \in Seq(Items)
    BY <1>0, OutcomesShape DEF Shape, Outcomes
  <2>3. past' \subseteq {"dir", "full", "error", "cut"}
    BY <1>0, <2>1
  <2> QED
    BY <1>0, <1>a, <2>1, <2>2, <2>3
<1>2. ASSUME todo # <<>> PROVE Head(todo) \in Items /\ Tail(todo) \in Seq(Items) /\ Head(todo).fat \in Tables
  <2>1. Head(todo) \in Items /\ Tail(todo) \in Seq(Items)
    BY <1>0, <1>2, HeadTailProperties
  <2> QED
    BY <2>1 DEF Items
<1>3. CASE WriteNext
  <2>1. todo # <<>> /\ disk' = Effect(disk, Head(todo)) /\ fat' = Head(todo).fat /\ todo' = Tail(todo)
        /\ UNCHANGED <<op, wild, late, past>>
    BY <1>3 DEF WriteNext
  <2>2. disk' \in Disks
    BY <1>0, <1>2, <2>1, EffectIs
  <2> QED
    BY <1>0, <1>2, <1>a, <2>1, <2>2
<1>4. CASE Finish \/ DiskError
  <2>1. todo # <<>> /\ UNCHANGED <<disk, wild>> /\ fat' = Head(todo).fat /\ todo' = <<>> /\ op' = "none"
        /\ late' \in BOOLEAN /\ past' \subseteq past \cup {"full", "error"}
    BY <1>4 DEF Finish, DiskError
  <2>2. todo' \in Seq(Items)
    BY <2>1, EmptySeq
  <2> QED
    BY <1>0, <1>2, <1>a, <2>1, <2>2
<1>5. CASE PowerCut
  <2>1. UNCHANGED <<disk, wild>> /\ fat' = disk.fats[1] /\ todo' = <<>> /\ op' = "none"
        /\ late' = FALSE /\ past' = past \cup {"cut"}
    BY <1>5 DEF PowerCut
  <2>2. todo' \in Seq(Items) /\ fat' \in Tables
    BY <1>0, <2>1, EmptySeq, Sizes DEF Disks
  <2> QED
    BY <1>0, <1>a, <2>1, <2>2
<1>6. CASE UNCHANGED vars
  BY <1>0, <1>a, <1>6 DEF vars
<1> QED
  BY <1>1, <1>3, <1>4, <1>5, <1>6 DEF Next

\* The cached table, the copies, the directories and what has yet to be written
\* stay well formed, whatever fails: no write goes to a cluster, a sector or an
\* entry that is not there, and no entry names a cluster that does not exist.
THEOREM FatTypes == Spec => []TypeOK
<1>1. TypeInv => TypeOK
  BY DEF TypeInv
<1> QED
  BY <1>1, InitTypes, TypesStep, PTL DEF Spec
---------------------------------------------------------------------------
(* The copies of the table.                                                *)

\* What is written where copy i holds cluster c: it is as in F already or a
\* write to come makes it so, and no later one changes it.
Covered(X, F) ==
    \A i \in 1..fat_count, c \in Cluster :
        \/ disk.fats[i][c] = F[c] /\ Agree(X, 1, F, i, c)
        \/ \E k \in 1..Len(X) : Flushes(X[k], i, SectorOf(c)) /\ Agree(X, k, F, i, c)

\* The operation that runs is on its way to an end.
Underway(X, F, code) ==
    /\ F \in Tables /\ Plain(X) /\ code \in {"ok", "full"}
    /\ todo = X \o Return(F, code)
    /\ code = "ok" => Covered(X, F)

\* A restart finds the table as it was left, unless an operation was stopped.
FirstWritten == (todo = <<>> /\ ~late) => disk.fats[1] = fat

CopiesInv ==
    /\ TypeInv
    /\ TableWritten /\ FirstWritten
    /\ todo # <<>> => \E X, F, code : Underway(X, F, code)

\* The first of the items, and the others.
LEMMA FirstItem ==
    ASSUME NEW X \in Seq(Items), X # <<>>, NEW Y \in Seq(Items)
    PROVE  /\ Head(X \o Y) = X[1] /\ Tail(X \o Y) = Tail(X) \o Y
           /\ Tail(X) \in Seq(Items) /\ Len(X) \in Nat \ {0} /\ Len(Tail(X)) = Len(X) - 1
           /\ \A k \in 1..Len(Tail(X)) : Tail(X)[k] = X[k + 1]
           /\ X \o Y # <<>>
<1>1. Len(X) \in Nat \ {0}
  BY EmptySeq
<1>2. /\ Tail(X) \in Seq(Items) /\ Len(Tail(X)) = Len(X) - 1
      /\ \A k \in 1..Len(Tail(X)) : Tail(X)[k] = X[k + 1]
  BY HeadTailProperties
<1>3. X \o Y \in Seq(Items) /\ Len(X \o Y) = Len(X) + Len(Y) /\ Len(Y) \in Nat
  BY ItemsConcat
<1>4. X \o Y # <<>>
  BY <1>1, <1>3, EmptySeq
<1>5. (X \o Y)[1] = X[1]
  BY <1>1, ItemsConcat
<1>6. Head(X \o Y) = X[1]
  BY <1>4, <1>5
<1> DEFINE S == X \o Y
           A == Tail(S)
           B == Tail(X) \o Y
<1>7. A \in Seq(Items) /\ Len(A) = Len(S) - 1 /\ \A k \in 1..Len(A) : A[k] = S[k + 1]
  BY <1>3, <1>4, HeadTailProperties
<1>8. B \in Seq(Items) /\ Len(B) = Len(X) - 1 + Len(Y)
  BY <1>2, ItemsConcat
<1>9. \A k \in 1..Len(A) : A[k] = B[k]
  <2> TAKE k \in 1..Len(A)
  <2>1. A[k] = S[k + 1] /\ k \in 1..(Len(X) - 1 + Len(Y)) /\ k + 1 \in 1..(Len(X) + Len(Y))
    BY <1>1, <1>3, <1>7
  <2>2. CASE k <= Len(X) - 1
    <3>1. k + 1 \in 1..Len(X) /\ k \in 1..Len(Tail(X))
      BY <1>1, <1>2, <2>1, <2>2
    <3>2. S[k + 1] = X[k + 1]
      BY <3>1, ItemsConcat
    <3>3. B[k] = Tail(X)[k]
      BY <1>2, <3>1, ItemsConcat
    <3> QED
      BY <1>2, <2>1, <3>1, <3>2, <3>3
  <2>3. CASE k > Len(X) - 1
    <3>1. k + 1 > Len(X) /\ k > Len(Tail(X)) /\ k \in 1..(Len(Tail(X)) + Len(Y))
          /\ (k + 1) - Len(X) = k - Len(Tail(X))
      BY <1>1, <1>2, <2>1, <2>3
    <3>2. S[k + 1] = Y[(k + 1) - Len(X)]
      BY <2>1, <3>1, ItemsConcat
    <3>3. B[k] = Y[k - Len(Tail(X))]
      BY <1>2, <3>1, ItemsConcat
    <3> QED
      BY <2>1, <3>1, <3>2, <3>3
  <2> QED
    BY <1>1, <2>1, <2>2, <2>3
<1>10. A = B
  <2> HIDE DEF A, B
  <2>1. Len(A) = Len(B)
    BY <1>1, <1>3, <1>7, <1>8 DEF S
  <2> QED
    BY <1>7, <1>8, <1>9, <2>1, SeqEqual
<1> QED
  BY <1>1, <1>2, <1>4, <1>6, <1>10

\* One write less.
LEMMA CoveredStep ==
    ASSUME disk \in Disks, NEW X, Plain(X), X # <<>>, NEW F \in Tables, Covered(X, F),
           disk' = Effect(disk, X[1])
    PROVE  Covered(Tail(X), F)'
<1>1. /\ X \in Seq(Items) /\ Len(X) \in Nat \ {0} /\ Len(Tail(X)) = Len(X) - 1
      /\ \A k \in 1..Len(Tail(X)) : Tail(X)[k] = X[k + 1]
  <2>1. X \in Seq(Items) /\ <<>> \in Seq(Items)
    BY EmptySeq DEF Plain
  <2> QED
    BY <2>1, FirstItem
<1>2. X[1] \in Items
  BY <1>1, ElementOfSeq
<1>3. ASSUME NEW i \in 1..fat_count, NEW c \in Cluster
      PROVE  disk'.fats[i][c] = IF Flushes(X[1], i, SectorOf(c)) THEN X[1].fat[c] ELSE disk.fats[i][c]
  BY <1>2, EffectIs DEF Flushes
<1>4. ASSUME NEW k \in 1..Len(X), NEW i, NEW c, Agree(X, k, F, i, c)
      PROVE  Agree(Tail(X), IF k = 1 THEN 1 ELSE k - 1, F, i, c)
  <2> DEFINE m == IF k = 1 THEN 1 ELSE k - 1
  <2> SUFFICES ASSUME NEW j \in m..Len(Tail(X)), Flushes(Tail(X)[j], i, SectorOf(c))
               PROVE  Tail(X)[j].fat[c] = F[c]
    BY DEF Agree
  <2>1. j \in 1..Len(Tail(X)) /\ j + 1 \in k..Len(X)
    BY <1>1
  <2>2. Tail(X)[j] = X[j + 1]
    BY <1>1, <2>1
  <2> QED
    BY <1>4, <2>1, <2>2 DEF Agree
<1>5. SUFFICES ASSUME NEW i \in 1..fat_count, NEW c \in Cluster
      PROVE  \/ disk'.fats[i][c] = F[c] /\ Agree(Tail(X), 1, F, i, c)
             \/ \E k \in 1..Len(Tail(X)) : Flushes(Tail(X)[k], i, SectorOf(c)) /\ Agree(Tail(X), k, F, i, c)
  BY DEF Covered
<1>6. \/ disk.fats[i][c] = F[c] /\ Agree(X, 1, F, i, c)
      \/ \E k \in 1..Len(X) : Flushes(X[k], i, SectorOf(c)) /\ Agree(X, k, F, i, c)
  BY DEF Covered
<1>7. 1 \in 1..Len(X)
  BY <1>1
<1>8. ASSUME Agree(X, 1, F, i, c)
      PROVE  Agree(Tail(X), 1, F, i, c) /\ (Flushes(X[1], i, SectorOf(c)) => X[1].fat[c] = F[c])
  BY <1>4, <1>7, <1>8 DEF Agree
<1>9. CASE disk.fats[i][c] = F[c] /\ Agree(X, 1, F, i, c)
  BY <1>3, <1>8, <1>9
<1>10. CASE \E k \in 1..Len(X) : Flushes(X[k], i, SectorOf(c)) /\ Agree(X, k, F, i, c)
  <2>1. PICK k \in 1..Len(X) : Flushes(X[k], i, SectorOf(c)) /\ Agree(X, k, F, i, c)
    BY <1>10
  <2>2. CASE k = 1
    BY <1>3, <1>8, <2>1, <2>2
  <2>3. CASE k # 1
    <3>1. k - 1 \in 1..Len(Tail(X)) /\ (k - 1) + 1 = k
      BY <1>1, <2>3
    <3>2. Tail(X)[k - 1] = X[k]
      BY <1>1, <3>1
    <3>3. Agree(Tail(X), k - 1, F, i, c)
      BY <1>4, <2>1, <2>3
    <3> QED
      BY <2>1, <3>1, <3>2, <3>3
  <2> QED
    BY <2>2, <2>3
<1> QED
  BY <1>6, <1>9, <1>10

\* The last item.
LEMMA LastItem ==
    ASSUME NEW F \in Tables, NEW code \in {"ok", "full"}
    PROVE  /\ Return(F, code) \in Seq(Items) /\ Return(F, code) # <<>>
           /\ Head(Return(F, code)) = [fat |-> F, write |-> [kind |-> "return", at |-> Root, val |-> code]]
           /\ <<>> \o Return(F, code) = Return(F, code)
<1>1. Return(F, code) = <<[fat |-> F, write |-> [kind |-> "return", at |-> Root, val |-> code]]>>
  BY DEF Return, Item
<1>2. Return(F, code) \in Seq(Items)
  BY ReturnIs
<1>3. <<>> \o Return(F, code) = Return(F, code)
  BY <1>2, ConcatEmptySeq
<1> QED
  BY <1>1, <1>2, <1>3

LEMMA InitCopies == Init => CopiesInv
<1> SUFFICES ASSUME Init PROVE CopiesInv
  OBVIOUS
<1>1. TypeInv
  BY InitTypes
<1>2. todo = <<>> /\ disk.fats = [i \in 1..fat_count |-> fat]
  BY DEF Init
<1>3. TableWritten
  BY <1>2 DEF TableWritten
<1>4. FirstWritten
  BY <1>2, Sizes DEF FirstWritten
<1> QED
  BY <1>1, <1>2, <1>3, <1>4 DEF CopiesInv

LEMMA CopiesStep == CopiesInv /\ [Next]_vars => CopiesInv'
<1> SUFFICES ASSUME CopiesInv, [Next]_vars PROVE CopiesInv'
  OBVIOUS
<1>0. TypeInv /\ TypeInv' /\ TableWritten /\ FirstWritten /\ (todo # <<>> => \E X, F, code : Underway(X, F, code))
  BY TypesStep DEF CopiesInv
<1>a. /\ fat \in Tables /\ disk \in Disks /\ todo \in Seq(Items)
      /\ disk.fats \in [1..fat_count -> Tables]
  BY <1>0 DEF TypeInv, TypeOK
<1>1. ASSUME NEW p \in Paths, Operation(p) PROVE CopiesInv'
  <2>1. PICK o \in OutcomesOf(p) :
          /\ todo = <<>>
          /\ todo' = o.items
          /\ past' = IF o.emptied THEN past \cup {"dir"} ELSE past
          /\ UNCHANGED <<fat, disk, late>>
    BY <1>a, <1>1, OperationBegins DEF Begins
  <2>2. Shape(o)
    BY <1>a, OutcomesShape
  <2>3. TableWritten' /\ FirstWritten'
    BY <1>0, <2>1 DEF TableWritten, FirstWritten
  <2>4. ASSUME todo' # <<>> PROVE \E X, F, code : Underway(X, F, code)'
    <3>1. o.code # "wild"
      BY <2>1, <2>2, <2>4 DEF Shape
    <3>2. PICK X, F : Returns(o, X, F)
      BY <2>2, <3>1 DEF Shape
    <3>3. o.code = "ok" => Covered(X, F)'
      <4> SUFFICES ASSUME o.code = "ok" PROVE Covered(X, F)'
        OBVIOUS
      <4>1. Settles(X, F)
        BY <3>2 DEF Returns
      <4> QED
        BY <4>1 DEF Covered, Settles
    <3>4. Underway(X, F, o.code)'
      BY <2>1, <3>2, <3>3 DEF Underway, Returns
    <3> QED
      BY <3>4
  <2> QED
    BY <1>0, <2>3, <2>4 DEF CopiesInv
<1>2. CASE WriteNext
  <2>1. todo # <<>> /\ Head(todo).write.kind # "return" /\ disk' = Effect(disk, Head(todo))
        /\ todo' = Tail(todo)
    BY <1>2 DEF WriteNext
  <2>2. PICK X, F, code : Underway(X, F, code)
    BY <1>0, <2>1
  <2>3. F \in Tables /\ code \in {"ok", "full"} /\ Plain(X) /\ todo = X \o Return(F, code) /\ X \in Seq(Items)
    BY <2>2 DEF Underway, Plain
  <2>4. X # <<>>
    BY <2>1, <2>3, LastItem
  <2>5. Return(F, code) \in Seq(Items)
    BY <2>3, LastItem
  <2>6. /\ Head(todo) = X[1] /\ todo' = Tail(X) \o Return(F, code) /\ Tail(X) \in Seq(Items)
        /\ Len(X) \in Nat \ {0} /\ Len(Tail(X)) = Len(X) - 1
        /\ \A k \in 1..Len(Tail(X)) : Tail(X)[k] = X[k + 1]
    BY <2>1, <2>3, <2>4, <2>5, FirstItem
  <2>7. Plain(Tail(X))
    <3>1. \A k \in 1..Len(Tail(X)) : k + 1 \in 1..Len(X)
      BY <2>6
    <3> QED
      BY <2>3, <2>6, <3>1 DEF Plain
  <2>8. code = "ok" => Covered(Tail(X), F)'
    <3> SUFFICES ASSUME code = "ok" PROVE Covered(Tail(X), F)'
      OBVIOUS
    <3>1. Covered(X, F) /\ disk' = Effect(disk, X[1])
      BY <2>1, <2>2, <2>6 DEF Underway
    <3> QED
      BY <1>a, <2>3, <2>4, <3>1, CoveredStep
  <2>9. Underway(Tail(X), F, code)'
    BY <2>3, <2>6, <2>7, <2>8 DEF Underway
  <2>10. todo' # <<>>
    <3>1. Tail(X) \o Return(F, code) \in Seq(Items) /\ Len(Tail(X) \o Return(F, code)) = Len(Tail(X)) + Len(Return(F, code))
          /\ Len(Tail(X)) \in Nat
      BY <2>5, <2>6, ItemsConcat
    <3>2. Len(Return(F, code)) \in Nat \ {0}
      BY <2>3, LastItem, EmptySeq
    <3>3. Len(Tail(X) \o Return(F, code)) # 0
      BY <3>1, <3>2
    <3> QED
      BY <2>6, <3>3, EmptySeq
  <2>11. TableWritten' /\ FirstWritten'
    BY <2>10 DEF TableWritten, FirstWritten
  <2> QED
    BY <1>0, <2>9, <2>11 DEF CopiesInv
<1>3. CASE Finish
  <2>1. todo # <<>> /\ Head(todo).write.kind = "return" /\ fat' = Head(todo).fat /\ todo' = <<>>
        /\ late' = (Head(todo).write.val = "full") /\ disk' = disk
    BY <1>3 DEF Finish
  <2>2. PICK X, F, code : Underway(X, F, code)
    BY <1>0, <2>1
  <2>3. F \in Tables /\ code \in {"ok", "full"} /\ Plain(X) /\ todo = X \o Return(F, code) /\ X \in Seq(Items)
    BY <2>2 DEF Underway, Plain
  <2>4. X = <<>>
    <3> SUFFICES ASSUME X # <<>> PROVE FALSE
      OBVIOUS
    <3>1. Return(F, code) \in Seq(Items)
      BY <2>3, LastItem
    <3>2. Head(todo) = X[1] /\ 1 \in 1..Len(X)
      BY <2>3, <3>1, FirstItem
    <3> QED
      BY <2>1, <2>3, <3>2 DEF Plain
  <2>5. Head(todo) = [fat |-> F, write |-> [kind |-> "return", at |-> Root, val |-> code]]
    BY <2>3, <2>4, LastItem
  <2>6. fat' = F /\ late' = (code = "full")
    BY <2>1, <2>5
  <2>7. code = "ok" => \A i \in 1..fat_count, c \in Cluster : disk.fats[i][c] = F[c]
    <3>1. Len(X) = 0
      BY <2>4
    <3> QED
      BY <2>2, <3>1 DEF Underway, Covered
  <2>8. code = "ok" => \A i \in 1..fat_count : disk.fats[i] = F
    <3> SUFFICES ASSUME code = "ok", NEW i \in 1..fat_count PROVE disk.fats[i] = F
      OBVIOUS
    <3>1. disk.fats[i] \in Tables
      BY <1>a
    <3> QED
      BY <2>3, <2>7, <3>1 DEF Tables
  <2>10. ~late' => code = "ok"
    BY <2>3, <2>6
  <2>11. 1 \in 1..fat_count
    BY Sizes
  <2>9. TableWritten' /\ FirstWritten'
    BY <2>1, <2>6, <2>8, <2>10, <2>11 DEF TableWritten, FirstWritten
  <2> QED
    BY <1>0, <2>1, <2>9 DEF CopiesInv
<1>4. CASE DiskError
  <2>1. todo' = <<>> /\ late' = TRUE
    BY <1>4 DEF DiskError
  <2> QED
    BY <1>0, <2>1 DEF CopiesInv, TableWritten, FirstWritten
<1>5. CASE PowerCut
  <2>1. todo' = <<>> /\ "cut" \in past' /\ fat' = disk.fats[1] /\ disk' = disk
    BY <1>5 DEF PowerCut
  <2> QED
    BY <1>0, <2>1 DEF CopiesInv, TableWritten, FirstWritten
<1>6. CASE UNCHANGED vars
  <2>1. UNCHANGED <<fat, disk, todo, late, past>>
    BY <1>6 DEF vars
  <2>2. TableWritten' /\ FirstWritten'
    BY <1>0, <2>1 DEF TableWritten, FirstWritten
  <2>3. ASSUME NEW X, NEW F, NEW code, Underway(X, F, code) PROVE Underway(X, F, code)'
    BY <2>1, <2>3 DEF Underway, Covered
  <2> QED
    BY <1>0, <2>1, <2>2, <2>3 DEF CopiesInv
<1> QED
  BY <1>1, <1>2, <1>3, <1>4, <1>5, <1>6 DEF Next

\* When an operation returns without an error, fat_flush has made all copies of
\* the table on the disk what is cached, whatever was stopped half way before.
THEOREM TableIsWritten == Spec => []TableWritten
<1>1. CopiesInv => TableWritten
  BY DEF CopiesInv
<1> QED
  BY <1>1, InitCopies, CopiesStep, PTL DEF Spec
---------------------------------------------------------------------------
(* Chains that come to an end.                                             *)

\* A chain without clusters.
LEMMA NoChain ==
    ASSUME NEW f \in Tables, NEW c, c \notin Cluster
    PROVE  Chain(f, c) = {} /\ Proper(f, c) /\ Cardinality(Chain(f, c)) = 0
<1>0. 0 \in 0..MaxCluster /\ MaxCluster \in 0..MaxCluster
  BY Sizes
<1>1. ChainWalk(f, c)[0] = NULL
  BY <1>0, WalkOfChain
<1>2. \A j \in 0..MaxCluster : ChainWalk(f, c)[j] = NULL
  BY <1>0, <1>1, WalkHasEnded
<1>3. Chain(f, c) = {}
  BY <1>2 DEF Chain
<1> QED
  BY <1>0, <1>2, <1>3, FS_EmptySet DEF Proper

\* A chain begins with its first cluster.
LEMMA HeadInChain == \A f \in Tables, c \in Cluster : c \in Chain(f, c)
<1> SUFFICES ASSUME NEW f \in Tables, NEW c \in Cluster PROVE c \in Chain(f, c)
  OBVIOUS
<1>1. 0 \in 0..MaxCluster /\ c # NULL
  BY Sizes DEF Cluster, NULL
<1>2. ChainWalk(f, c)[0] = c
  BY <1>1, WalkOfChain
<1> QED
  BY <1>1, <1>2 DEF Chain

\* A chain depends on the table where it runs only.
LEMMA ChainAgree ==
    ASSUME NEW f \in Tables, NEW g \in Tables, NEW c, \A x \in Chain(f, c) : g[x] = f[x]
    PROVE  /\ \A k \in 0..MaxCluster : ChainWalk(g, c)[k] = ChainWalk(f, c)[k]
           /\ Chain(g, c) = Chain(f, c)
           /\ Proper(f, c) => Proper(g, c)
<1> DEFINE v == ChainWalk(g, c)
           w == ChainWalk(f, c)
           S == {k \in Nat : k <= MaxCluster => v[k] = w[k]}
<1>0. MaxCluster \in Nat
  BY Sizes
<1>1. 0 \in S
  <2>1. 0 \in 0..MaxCluster
    BY <1>0
  <2> QED
    BY <2>1, WalkOfChain
<1>2. \A k \in Nat : k \in S => k + 1 \in S
  <2> SUFFICES ASSUME NEW k \in Nat, k \in S, k + 1 <= MaxCluster PROVE v[k + 1] = w[k + 1]
    OBVIOUS
  <2>1. k \in 0..MaxCluster /\ k + 1 \in 0..MaxCluster /\ k + 1 # 0 /\ (k + 1) - 1 = k /\ v[k] = w[k]
    BY <1>0
  <2>2. /\ v[k + 1] = IF v[k] = NULL THEN NULL ELSE ToEnd(g)[v[k]]
        /\ w[k + 1] = IF w[k] = NULL THEN NULL ELSE ToEnd(f)[w[k]]
        /\ w[k] \in Cluster \cup {NULL}
    BY <2>1, WalkOfChain
  <2>3. CASE w[k] = NULL
    BY <2>1, <2>2, <2>3
  <2>4. CASE w[k] # NULL
    <3>1. w[k] \in Chain(f, c) /\ w[k] \in Cluster
      BY <2>1, <2>2, <2>4 DEF Chain
    <3>2. ToEnd(g)[w[k]] = ToEnd(f)[w[k]]
      BY <3>1 DEF ToEnd
    <3> QED
      BY <2>1, <2>2, <2>4, <3>2
  <2> QED
    BY <2>3, <2>4
<1> HIDE DEF S
<1>3. Nat \subseteq S
  BY <1>1, <1>2, NatSetInduction
<1>4. \A k \in 0..MaxCluster : v[k] = w[k]
  BY <1>0, <1>3 DEF S
<1>5. Chain(g, c) = Chain(f, c)
  BY <1>4 DEF Chain
<1>6. Proper(f, c) => Proper(g, c)
  <2>1. MaxCluster \in 0..MaxCluster
    BY <1>0
  <2> HIDE DEF v, w
  <2> QED
    BY <1>4, <1>5, <2>1 DEF Proper, v, w
<1> QED
  BY <1>4, <1>5, <1>6

\* A chain that ends visits each of its clusters once.
LEMMA ProperWalk ==
    ASSUME NEW f \in Tables, NEW c, Proper(f, c)
    PROVE  \A k \in 0..MaxCluster :
              /\ ChainWalk(f, c)[k] = NULL <=> Cardinality(Chain(f, c)) <= k
              /\ \A j \in 0..MaxCluster : (j < k /\ ChainWalk(f, c)[k] # NULL) => ChainWalk(f, c)[j] # ChainWalk(f, c)[k]
<1> DEFINE w == ChainWalk(f, c)
           E == {k \in 0..MaxCluster : w[k] = NULL}
<1>0. MaxCluster \in Nat /\ MaxCluster \in 0..MaxCluster
  BY Sizes
<1>1. MaxCluster \in E /\ E \in SUBSET Nat
  BY <1>0 DEF Proper
<1>2. PICK m \in E : \A k \in E : m <= k
  BY <1>1, LeastNat
<1>3. m \in 0..MaxCluster /\ w[m] = NULL /\ \A k \in 0..MaxCluster : w[k] = NULL <=> m <= k
  <2>1. m \in 0..MaxCluster /\ w[m] = NULL
    BY <1>2
  <2>2. \A k \in 0..MaxCluster : m <= k => w[k] = NULL
    BY <1>0, <2>1, WalkHasEnded
  <2>3. \A k \in 0..MaxCluster : w[k] = NULL => m <= k
    BY <1>2
  <2> QED
    BY <2>1, <2>2, <2>3
<1>4. ASSUME NEW i \in 0..(m - 1), NEW j \in 0..(m - 1), i < j, w[i] = w[j] PROVE FALSE
  <2> DEFINE S == {t \in Nat : j + t <= m => w[i + t] = w[j + t]}
  <2>1. 0 \in S
    BY <1>3, <1>4
  <2>2. \A t \in Nat : t \in S => t + 1 \in S
    <3> SUFFICES ASSUME NEW t \in Nat, t \in S, j + (t + 1) <= m
                 PROVE  w[i + (t + 1)] = w[j + (t + 1)]
      OBVIOUS
    <3>1. w[i + t] = w[j + t]
      BY <1>3
    <3>2. /\ i + t \in 0..MaxCluster /\ i + (t + 1) \in 0..MaxCluster /\ i + (t + 1) # 0 /\ (i + (t + 1)) - 1 = i + t
          /\ j + t \in 0..MaxCluster /\ j + (t + 1) \in 0..MaxCluster /\ j + (t + 1) # 0 /\ (j + (t + 1)) - 1 = j + t
      BY <1>0, <1>3, <1>4
    <3>3. w[i + (t + 1)] = IF w[i + t] = NULL THEN NULL ELSE ToEnd(f)[w[i + t]]
      BY <3>2, WalkOfChain
    <3>4. w[j + (t + 1)] = IF w[j + t] = NULL THEN NULL ELSE ToEnd(f)[w[j + t]]
      BY <3>2, WalkOfChain
    <3> QED
      BY <3>1, <3>3, <3>4
  <2> HIDE DEF S
  <2>3. m - j \in S
    <3>1. m - j \in Nat
      BY <1>3
    <3> QED
      BY <2>1, <2>2, <3>1, NatSetInduction
  <2>4. w[i + (m - j)] = w[m] /\ i + (m - j) \in 0..MaxCluster /\ i + (m - j) < m
    <3>1. j + (m - j) = m /\ i + (m - j) \in 0..MaxCluster /\ i + (m - j) < m
      BY <1>0, <1>3, <1>4
    <3> QED
      BY <2>3, <3>1 DEF S
  <2> QED
    BY <1>3, <2>4
<1> DEFINE b == [k \in 1..m |-> w[k - 1]]
<1>5. b \in Bijection(1..m, Chain(f, c))
  <2>1. \A k \in 1..m : k - 1 \in 0..MaxCluster /\ w[k - 1] # NULL /\ w[k - 1] \in Chain(f, c)
    <3> TAKE k \in 1..m
    <3>1. k - 1 \in 0..MaxCluster /\ ~(m <= k - 1)
      BY <1>0, <1>3
    <3> QED
      BY <1>3, <3>1 DEF Chain
  <2>2. b \in [1..m -> Chain(f, c)]
    BY <2>1
  <2>3. \A k, l \in 1..m : b[k] = b[l] => k = l
    <3> SUFFICES ASSUME NEW k \in 1..m, NEW l \in 1..m, w[k - 1] = w[l - 1], k < l PROVE FALSE
      BY <1>3
    <3>1. k - 1 \in 0..(m - 1) /\ l - 1 \in 0..(m - 1) /\ k - 1 < l - 1
      BY <1>3
    <3> QED
      BY <1>4, <3>1
  <2>4. \A x \in Chain(f, c) : \E k \in 1..m : b[k] = x
    <3> TAKE x \in Chain(f, c)
    <3>1. PICK k \in 0..MaxCluster : x = w[k] /\ w[k] # NULL
      BY DEF Chain
    <3>2. k + 1 \in 1..m /\ (k + 1) - 1 = k
      BY <1>0, <1>3, <3>1
    <3> QED
      BY <3>1, <3>2
  <2> HIDE DEF b
  <2>5. b \in Injection(1..m, Chain(f, c))
    BY <2>2, <2>3 DEF Injection, IsInjective
  <2>6. b \in Surjection(1..m, Chain(f, c))
    BY <2>2, <2>4 DEF Surjection
  <2> QED
    BY <2>5, <2>6 DEF Bijection
<1>6. Cardinality(Chain(f, c)) = m
  <2>1. ExistsBijection(1..m, Chain(f, c))
    BY <1>5 DEF ExistsBijection
  <2>2. m \in Nat
    BY <1>3
  <2> QED
    BY <2>1, <2>2, FS_CountingElements
<1>7. ASSUME NEW k \in 0..MaxCluster, NEW j \in 0..MaxCluster, j < k, w[k] # NULL PROVE w[j] # w[k]
  <2>1. k \in 0..(m - 1) /\ j \in 0..(m - 1)
    BY <1>0, <1>3, <1>7
  <2> QED
    BY <1>4, <1>7, <2>1
<1> QED
  BY <1>3, <1>6, <1>7

\* What ends a chain.
LEMMA EndsIs ==
    ASSUME NEW f \in Tables, NEW x \in Cluster
    PROVE  /\ f[x] \in Cluster \/ f[x] = FAT12_FREE \/ f[x] = FAT12_EOC
           /\ FAT12_FREE \notin Cluster /\ FAT12_EOC \notin Cluster /\ NULL \notin Cluster /\ FAT12_FREE # FAT12_EOC
BY Sizes DEF Tables, Cluster, FAT12_FREE, FAT12_EOC, NULL

\* A sequence of different clusters, each with its next.
Spells(f, n, w) ==
    /\ n \in Nat \ {0} /\ w \in [1..n -> Cluster]
    /\ \A i, j \in 1..n : w[i] = w[j] => i = j
    /\ \A k \in 1..(n - 1) : f[w[k]] = w[k + 1]
    /\ f[w[n]] \notin Cluster

\* It is what the walk meets.
LEMMA Spelled ==
    ASSUME NEW f \in Tables, NEW n, NEW w, Spells(f, n, w)
    PROVE  /\ n <= MaxCluster - 1
           /\ \A k \in 0..MaxCluster : ChainWalk(f, w[1])[k] = IF k < n THEN w[k + 1] ELSE NULL
           /\ \A x : x \in Chain(f, w[1]) <=> \E k \in 1..n : x = w[k]
           /\ Cardinality(Chain(f, w[1])) = n
<1> DEFINE T == {w[k] : k \in 1..n}
           v == ChainWalk(f, w[1])
           S == {k \in Nat : k <= MaxCluster => v[k] = IF k < n THEN w[k + 1] ELSE NULL}
<1>0. /\ n \in Nat \ {0} /\ w \in [1..n -> Cluster]
      /\ \A i, j \in 1..n : w[i] = w[j] => i = j
      /\ \A k \in 1..(n - 1) : f[w[k]] = w[k + 1]
      /\ f[w[n]] \notin Cluster
  BY DEF Spells
<1> USE <1>0
<1>1. Cardinality(T) = n
  <2>1. w \in Bijection(1..n, T)
    <3>1. w \in [1..n -> T]
      OBVIOUS
    <3>2. w \in Injection(1..n, T)
      BY <3>1 DEF Injection, IsInjective
    <3>3. w \in Surjection(1..n, T)
      BY <3>1 DEF Surjection
    <3> QED
      BY <3>2, <3>3 DEF Bijection
  <2>2. ExistsBijection(1..n, T)
    BY <2>1 DEF ExistsBijection
  <2> HIDE DEF T
  <2> QED
    BY <2>2, FS_CountingElements
<1>2. n <= MaxCluster - 1
  <2>1. IsFiniteSet(Cluster) /\ Cardinality(Cluster) = MaxCluster - 1
    BY Sizes, FS_Interval DEF Cluster
  <2>2. T \subseteq Cluster
    OBVIOUS
  <2> HIDE DEF T
  <2> QED
    BY <1>1, <2>1, <2>2, FS_Subset
<1>3. 0 \in S
  <2>1. 0 \in 0..MaxCluster /\ 1 \in 1..n
    BY Sizes
  <2>2. v[0] = w[1]
    BY <2>1, WalkOfChain
  <2> QED
    BY <2>2
<1>4. \A k \in Nat : k \in S => k + 1 \in S
  <2> SUFFICES ASSUME NEW k \in Nat, k \in S, k + 1 <= MaxCluster
               PROVE  v[k + 1] = IF k + 1 < n THEN w[(k + 1) + 1] ELSE NULL
    OBVIOUS
  <2>1. k \in 0..MaxCluster /\ k + 1 \in 0..MaxCluster /\ k + 1 # 0 /\ (k + 1) - 1 = k
    BY Sizes
  <2>2. v[k + 1] = IF v[k] = NULL THEN NULL ELSE ToEnd(f)[v[k]]
    BY <2>1, WalkOfChain
  <2>3. v[k] = IF k < n THEN w[k + 1] ELSE NULL
    BY <2>1
  <2>4. CASE k < n
    <3>1. k + 1 \in 1..n /\ w[k + 1] \in Cluster /\ w[k + 1] # NULL
      BY <2>4 DEF Cluster, NULL
    <3>2. v[k + 1] = IF f[w[k + 1]] \in Cluster THEN f[w[k + 1]] ELSE NULL
      BY <2>2, <2>3, <2>4, <3>1 DEF ToEnd
    <3>3. CASE k + 1 < n
      <4>1. k + 1 \in 1..(n - 1) /\ (k + 1) + 1 \in 1..n
        BY <3>3
      <4> QED
        BY <3>2, <3>3, <4>1
    <3>4. CASE ~(k + 1 < n)
      <4>1. k + 1 = n
        BY <2>4, <3>4
      <4> QED
        BY <3>2, <3>4, <4>1
    <3> QED
      BY <3>3, <3>4
  <2>5. CASE ~(k < n)
    BY <2>2, <2>3, <2>5
  <2> QED
    BY <2>4, <2>5
<1> HIDE DEF S
<1>5. Nat \subseteq S
  BY <1>3, <1>4, NatSetInduction
<1>6. \A k \in 0..MaxCluster : v[k] = IF k < n THEN w[k + 1] ELSE NULL
  BY <1>5, Sizes DEF S
<1>7. Chain(f, w[1]) = T
  <2>1. Chain(f, w[1]) \subseteq T
    <3> SUFFICES ASSUME NEW k \in 0..MaxCluster, v[k] # NULL PROVE v[k] \in T
      BY DEF Chain
    <3>1. v[k] = w[k + 1] /\ k + 1 \in 1..n
      BY <1>6, Sizes
    <3> QED
      BY <3>1
  <2>2. T \subseteq Chain(f, w[1])
    <3> SUFFICES ASSUME NEW k \in 1..n PROVE w[k] \in Chain(f, w[1])
      OBVIOUS
    <3>1. k - 1 \in 0..MaxCluster /\ k - 1 < n /\ (k - 1) + 1 = k
      BY <1>2, Sizes
    <3>2. v[k - 1] = w[k] /\ w[k] # NULL
      BY <1>6, <3>1 DEF Cluster, NULL
    <3> QED
      BY <3>1, <3>2 DEF Chain
  <2> QED
    BY <2>1, <2>2
<1> QED
  <2>1. \A x : x \in Chain(f, w[1]) <=> \E k \in 1..n : x = w[k]
    BY <1>7
  <2> QED
    BY <1>1, <1>2, <1>6, <1>7, <2>1

\* A cluster with the mark is a chain.
LEMMA OneCluster ==
    ASSUME NEW f \in Tables, NEW c \in Cluster, f[c] = FAT12_EOC
    PROVE  /\ Chain(f, c) = {c} /\ Proper(f, c) /\ Cardinality(Chain(f, c)) = 1
           /\ ChainWalk(f, c)[0] = c
<1> DEFINE n == 1
           w == [k \in 1..n |-> c]
<1>1. /\ w \in [1..n -> Cluster] /\ w[1] = c /\ \A i, j \in 1..n : w[i] = w[j] => i = j
      /\ w[n] = c /\ n \in Nat \ {0} /\ \A x : x = c <=> \E k \in 1..n : x = w[k]
      /\ \A k \in 1..(n - 1) : f[w[k]] = w[k + 1]
  OBVIOUS
<1>2. f[w[n]] \notin Cluster
  BY <1>1, EndsIs
<1>3. 0 \in 0..MaxCluster /\ MaxCluster \in 0..MaxCluster /\ 0 < n /\ ~(MaxCluster < n) /\ n = 1
  BY Sizes
<1> HIDE DEF n, w
<1>6. Spells(f, n, w)
  BY <1>1, <1>2 DEF Spells
<1>4. /\ \A k \in 0..MaxCluster : ChainWalk(f, w[1])[k] = IF k < n THEN w[k + 1] ELSE NULL
      /\ \A x : x \in Chain(f, w[1]) <=> \E k \in 1..n : x = w[k]
      /\ Cardinality(Chain(f, w[1])) = n
  BY <1>6, Spelled
<1>5. ChainWalk(f, c)[MaxCluster] = NULL /\ ChainWalk(f, c)[0] = w[0 + 1]
  BY <1>1, <1>3, <1>4
<1>7. w[0 + 1] = c
  BY <1>1
<1> QED
  <2>1. Chain(f, c) = {c} /\ Cardinality(Chain(f, c)) = 1
    BY <1>1, <1>3, <1>4
  <2> QED
    BY <1>3, <1>5, <1>7, <2>1, EndsIs DEF Proper

\* The last cluster of a proper chain has the mark; one more can follow it.
LEMMA LastHasMark ==
    ASSUME NEW f \in Tables, NEW c \in Cluster, Proper(f, c)
    PROVE  LET m == Cardinality(Chain(f, c)) IN
           /\ m \in 1..(MaxCluster - 1)
           /\ ChainWalk(f, c)[m - 1] \in Chain(f, c)
           /\ f[ChainWalk(f, c)[m - 1]] = FAT12_EOC
           /\ \A k \in 0..(m - 1) : ChainWalk(f, c)[k] \in Chain(f, c)
           /\ \A k \in 0..(m - 2) : f[ChainWalk(f, c)[k]] = ChainWalk(f, c)[k + 1]
<1> DEFINE m == Cardinality(Chain(f, c))
           w == ChainWalk(f, c)
<1>1. m \in Nat \ {0} /\ m \in 0..(MaxCluster - 1)
  BY LastOfChain, ChainIsFinite
<1>2. \A k \in 0..MaxCluster : w[k] = NULL <=> m <= k
  BY ProperWalk
<1>3. \A k \in 0..(MaxCluster - 1) : w[k + 1] = IF w[k] = NULL THEN NULL ELSE ToEnd(f)[w[k]]
  <2> TAKE k \in 0..(MaxCluster - 1)
  <2>1. k + 1 \in 0..MaxCluster /\ k + 1 # 0 /\ (k + 1) - 1 = k
    BY Sizes
  <2> QED
    BY <2>1, WalkOfChain
<1> HIDE DEF m
<1>4. \A k \in 0..(m - 1) : k \in 0..MaxCluster /\ k \in 0..(MaxCluster - 1) /\ w[k] # NULL
  BY <1>1, <1>2, Sizes
<1>5. \A k \in 0..(m - 1) : w[k] \in Chain(f, c)
  BY <1>4 DEF Chain
<1>6. Chain(f, c) \subseteq Cluster
  BY ChainIsFinite
<1>7. \A k \in 0..(m - 1) : w[k + 1] = IF f[w[k]] \in Cluster THEN f[w[k]] ELSE NULL
  BY <1>3, <1>4, <1>5, <1>6 DEF ToEnd
<1>8. \A k \in 0..(m - 2) : f[w[k]] = w[k + 1]
  <2> TAKE k \in 0..(m - 2)
  <2>1. k \in 0..(m - 1) /\ k + 1 \in 0..(m - 1)
    BY <1>1
  <2>2. w[k + 1] # NULL
    BY <1>4, <2>1
  <2> QED
    BY <1>7, <2>1, <2>2
<1>9. m - 1 \in 0..(m - 1) /\ (m - 1) + 1 = m /\ m \in 0..MaxCluster
  BY <1>1, Sizes
<1>10. w[m - 1] \in Chain(f, c) /\ w[m] = NULL
  BY <1>2, <1>5, <1>9
<1>11. f[w[m - 1]] \notin Cluster
  <2>1. f[w[m - 1]] \in Cluster => f[w[m - 1]] # NULL
    BY DEF Cluster, NULL
  <2> QED
    BY <1>7, <1>9, <1>10, <2>1
<1>12. f[w[m - 1]] # FAT12_FREE
  BY <1>10 DEF Proper
<1>13. f[w[m - 1]] = FAT12_EOC
  BY <1>6, <1>10, <1>11, <1>12, EndsIs
<1> QED
  BY <1>1, <1>5, <1>8, <1>10, <1>13 DEF m

LEMMA Extended ==
    ASSUME NEW f \in Tables, NEW g \in Tables, NEW c \in Cluster, Proper(f, c),
           NEW n \in Cluster, f[n] = FAT12_FREE,
           NEW x, x = ChainWalk(f, c)[Cardinality(Chain(f, c)) - 1],
           g[x] = n, g[n] = FAT12_EOC,
           \A y \in Chain(f, c) : y # x => g[y] = f[y]
    PROVE  /\ n \notin Chain(f, c)
           /\ Chain(g, c) = Chain(f, c) \cup {n} /\ Proper(g, c)
           /\ Cardinality(Chain(g, c)) = Cardinality(Chain(f, c)) + 1
           /\ ChainWalk(g, c)[Cardinality(Chain(f, c))] = n
<1> DEFINE m == Cardinality(Chain(f, c))
           v == ChainWalk(f, c)
           w == [k \in 1..(m + 1) |-> IF k = m + 1 THEN n ELSE v[k - 1]]
<1>1. /\ m \in 1..(MaxCluster - 1)
      /\ v[m - 1] \in Chain(f, c)
      /\ \A k \in 0..(m - 1) : v[k] \in Chain(f, c)
      /\ \A k \in 0..(m - 2) : f[v[k]] = v[k + 1]
  BY LastHasMark
<1>2. Chain(f, c) \subseteq Cluster /\ NULL \notin Cluster
  BY ChainIsFinite, EndsIs
<1>3. n \notin Chain(f, c)
  BY DEF Proper
<1>4. \A k, j \in 0..(m - 1) : v[k] = v[j] => k = j
  <2> SUFFICES ASSUME NEW k \in 0..(m - 1), NEW j \in 0..(m - 1), j < k PROVE v[j] # v[k]
    BY <1>1
  <2>1. v[k] # NULL
    BY <1>1, <1>2
  <2>2. k \in 0..MaxCluster /\ j \in 0..MaxCluster
    BY <1>1, Sizes
  <2> QED
    BY <2>1, <2>2, ProperWalk
<1>5. \A z \in Chain(f, c) : \E k \in 0..(m - 1) : z = v[k]
  <2> TAKE z \in Chain(f, c)
  <2>1. PICK k \in 0..MaxCluster : z = v[k] /\ z # NULL
    BY <1>2 DEF Chain
  <2>2. ~(m <= k)
    BY <2>1, ProperWalk
  <2>3. k \in 0..(m - 1)
    BY <1>1, <2>1, <2>2, Sizes
  <2> QED
    BY <2>1, <2>3
<1>6. v[0] = c
  BY WalkOfChain, Sizes
<1>7. x = v[m - 1]
  OBVIOUS
<1> HIDE DEF m, v
<1>8. \A k \in 1..m : k - 1 \in 0..(m - 1) /\ k \in 1..(m + 1) /\ k # m + 1 /\ w[k] = v[k - 1]
  BY <1>1
<1>9. w[m + 1] = n /\ m + 1 \in 1..(m + 1)
  BY <1>1
<1>10. \A k \in 1..(m + 1) : k = m + 1 \/ k \in 1..m
  BY <1>1
<1>11. w \in [1..(m + 1) -> Cluster] /\ m + 1 \in Nat \ {0}
  BY <1>1, <1>2, <1>8, <1>10
<1> HIDE DEF w
<1>12. \A i, j \in 1..(m + 1) : w[i] = w[j] => i = j
  <2> SUFFICES ASSUME NEW i \in 1..(m + 1), NEW j \in 1..(m + 1), w[i] = w[j] PROVE i = j
    OBVIOUS
  <2>1. CASE i \in 1..m /\ j \in 1..m
    <3>1. i - 1 = j - 1
      BY <1>4, <1>8, <2>1
    <3> QED
      BY <1>1, <2>1, <3>1
  <2>2. CASE i = m + 1 /\ j \in 1..m
    BY <1>1, <1>3, <1>8, <1>9, <2>2
  <2>3. CASE j = m + 1 /\ i \in 1..m
    BY <1>1, <1>3, <1>8, <1>9, <2>3
  <2> QED
    BY <1>10, <2>1, <2>2, <2>3
<1>13. \A k \in 1..m : g[w[k]] = w[k + 1]
  <2> TAKE k \in 1..m
  <2>1. CASE k = m
    <3>1. w[k] = x
      BY <1>7, <1>8, <2>1
    <3> QED
      BY <1>9, <2>1, <3>1
  <2>2. CASE k # m
    <3>1. /\ k + 1 \in 1..m /\ (k + 1) - 1 = k /\ k - 1 \in 0..(m - 1) /\ k - 1 \in 0..(m - 2)
          /\ m - 1 \in 0..(m - 1) /\ k - 1 # m - 1 /\ (k - 1) + 1 = k
      BY <1>1, <2>2
    <3>2. w[k] = v[k - 1] /\ w[k + 1] = v[k]
      BY <1>8, <3>1
    <3>3. v[k - 1] # x /\ v[k - 1] \in Chain(f, c)
      BY <1>1, <1>4, <1>7, <3>1
    <3>4. g[v[k - 1]] = f[v[k - 1]]
      BY <3>3
    <3>5. f[v[k - 1]] = v[(k - 1) + 1]
      BY <1>1, <3>1
    <3> QED
      BY <3>1, <3>2, <3>4, <3>5
  <2> QED
    BY <2>1, <2>2
<1>14. Spells(g, m + 1, w)
  <2>1. \A k \in 1..((m + 1) - 1) : k \in 1..m
    BY <1>1
  <2>2. g[w[m + 1]] \notin Cluster
    BY <1>9, EndsIs
  <2> QED
    BY <1>11, <1>12, <1>13, <2>1, <2>2 DEF Spells
<1>15. w[1] = c
  <2>1. 1 \in 1..m /\ 1 - 1 = 0
    BY <1>1
  <2> QED
    BY <1>6, <1>8, <2>1
<1>16. /\ \A k \in 0..MaxCluster : ChainWalk(g, c)[k] = IF k < m + 1 THEN w[k + 1] ELSE NULL
       /\ \A z : z \in Chain(g, c) <=> \E k \in 1..(m + 1) : z = w[k]
       /\ Cardinality(Chain(g, c)) = m + 1
       /\ m + 1 <= MaxCluster - 1
  BY <1>14, <1>15, Spelled
<1>17. Chain(g, c) = Chain(f, c) \cup {n}
  <2>1. ASSUME NEW z \in Chain(g, c) PROVE z \in Chain(f, c) \cup {n}
    <3>1. PICK k \in 1..(m + 1) : z = w[k]
      BY <1>16
    <3> QED
      BY <1>1, <1>8, <1>9, <1>10, <3>1
  <2>2. ASSUME NEW z \in Chain(f, c) PROVE z \in Chain(g, c)
    <3>1. PICK k \in 0..(m - 1) : z = v[k]
      BY <1>5
    <3>2. k + 1 \in 1..m /\ (k + 1) - 1 = k /\ k + 1 \in 1..(m + 1)
      BY <1>1
    <3>3. z = w[k + 1]
      BY <1>8, <3>1, <3>2
    <3> QED
      BY <1>16, <3>2, <3>3
  <2>3. n \in Chain(g, c)
    BY <1>9, <1>16
  <2> QED
    BY <2>1, <2>2, <2>3
<1>18. ChainWalk(g, c)[MaxCluster] = NULL /\ ChainWalk(g, c)[m] = n
  <2>1. MaxCluster \in 0..MaxCluster /\ ~(MaxCluster < m + 1) /\ m \in 0..MaxCluster /\ m < m + 1
    BY <1>1, <1>16, Sizes
  <2> QED
    BY <1>9, <1>16, <2>1
<1>19. \A z \in Chain(g, c) : g[z] # FAT12_FREE
  <2> TAKE z \in Chain(g, c)
  <2>1. CASE z = n
    BY <2>1, EndsIs
  <2>2. CASE z = x
    BY <2>2, EndsIs
  <2>3. CASE z \in Chain(f, c) /\ z # x
    <3>1. g[z] = f[z]
      BY <2>3
    <3> QED
      BY <2>3, <3>1 DEF Proper
  <2> QED
    BY <1>17, <2>1, <2>2, <2>3
<1>20. Proper(g, c)
  BY <1>18, <1>19 DEF Proper
<1> QED
  BY <1>3, <1>16, <1>17, <1>18, <1>20 DEF m
---------------------------------------------------------------------------
(* Directories and the chains they name.  D is a set of directories that   *)
(* holds the root and whatever a directory of it names: it may hold more   *)
(* than Dirs, so that what is cut off from the root counts as well.        *)

\* The clusters of a directory.
BlockSet(f, d) == IF d = Root THEN {Root} ELSE Chain(f, d)

\* The slots in use in D, those behind the end of a directory included.
Used(f, es, D) == {s \in SlotSet : At(es, s).name \in Names /\ \E d \in D : s[1] \in BlockSet(f, d)}

\* No block of D holds a file's data.
NoData(f, es, D) ==
    \A s \in SlotSet : (\E d \in D : s[1] \in BlockSet(f, d)) => At(es, s).name # DATA

\* Where chains begin.
Heads(f, es, D) == (D \ {Root}) \cup {At(es, s).first : s \in Used(f, es, D)}

\* The size of a file and the length of its chain.
Fits(f, e, fit) ==
    /\ e.size <= cluster_size * Cardinality(Chain(f, e.first))
    /\ fit = "exact" => cluster_size * Cardinality(Chain(f, e.first)) < e.size + cluster_size

Covers(f, es, D) ==
    /\ Root \in D /\ D \subseteq Cluster \cup {Root}
    /\ \A s \in Used(f, es, D) : At(es, s).first \in D \ {Root} <=> At(es, s).dir

Good(f, es, D, fit) ==
    /\ f \in Tables /\ EntriesOK(es)
    /\ Covers(f, es, D) /\ NoData(f, es, D)
    /\ \A s \in Used(f, es, D) : ~At(es, s).dir => Fits(f, At(es, s), fit)
    /\ \A h \in Heads(f, es, D) : Proper(f, h)
    /\ \A h, k \in Heads(f, es, D) : h # k => Chain(f, h) \cap Chain(f, k) = {}
    /\ \A s, t \in Used(f, es, D) : s # t /\ At(es, s).first = At(es, t).first => At(es, s).first = 0

LEMMA BlocksAreClusters ==
    ASSUME NEW f \in Tables, NEW d
    PROVE  BlockSet(f, d) \subseteq Cluster \cup {Root}
BY ChainIsFinite DEF BlockSet

\* A slot of a directory lies in one of its blocks.
LEMMA SlotIn ==
    ASSUME NEW f \in Tables, NEW d \in Cluster \cup {Root}, NEW k \in DOMAIN Slots(f, d)
    PROVE  Slots(f, d)[k] \in SlotSet /\ Slots(f, d)[k][1] \in BlockSet(f, d)
<1> DEFINE n == InBlock(d)
           m == Len(BlocksOf(f, d))
           i == 1 + (k - 1) \div n
<1>1. n \in Nat \ {0} /\ m \in Nat
  BY InBlockIs, BlocksAre
<1>2. k \in 1..(n * m)
  BY SlotsAre
<1>3. i \in 1..m
  <2> HIDE DEF n, m
  <2> QED
    BY <1>1, <1>2, Places
<1>4. Slots(f, d)[k][1] = BlocksOf(f, d)[i]
  BY <1>2, SlotsAre
<1>5. Slots(f, d)[k] \in SlotSet
  <2>1. k \in 1..Len(Slots(f, d))
    BY <1>2, SlotsAre
  <2> QED
    BY <2>1, SlotsAre, ElementOfSeq
<1>6. BlocksOf(f, d)[i] \in BlockSet(f, d)
  <2> HIDE DEF i
  <2>1. CASE d = Root
    <3>1. BlocksOf(f, d) = <<Root>>
      BY <2>1 DEF BlocksOf
    <3> QED
      BY <1>3, <2>1, <3>1 DEF BlockSet
  <2>2. CASE d # Root
    <3>1. BlocksOf(f, d) = ChainSeq(f, d)
      BY <2>2 DEF BlocksOf
    <3>2. ChainSeq(f, d) \in Seq(Chain(f, d))
      BY ChainSeqIs
    <3>3. ChainSeq(f, d)[i] \in Chain(f, d)
      BY <1>3, <3>1, <3>2, ElementOfSeq
    <3> QED
      BY <2>2, <3>1, <3>3 DEF BlockSet
  <2> QED
    BY <2>1, <2>2
<1> QED
  BY <1>4, <1>5, <1>6

\* The slots in use by Fat's own count are among those of a cover.
LEMMA LiveIsUsed ==
    ASSUME NEW f \in Tables, NEW es, NEW E, NEW D, E \subseteq D
    PROVE  Live(f, es, E) \subseteq Used(f, es, D)
<1> SUFFICES ASSUME NEW s \in Live(f, es, E) PROVE s \in Used(f, es, D)
  OBVIOUS
<1>1. PICK d \in E \cap (Cluster \cup {Root}) : s \in {Slots(f, d)[k] : k \in DOMAIN Slots(f, d)}
  BY DEF Live, AllSlots
<1>2. PICK k \in DOMAIN Slots(f, d) : s = Slots(f, d)[k]
  BY <1>1
<1>3. At(es, s).name \in Names
  BY DEF Live
<1>4. s \in SlotSet /\ s[1] \in BlockSet(f, d)
  BY <1>1, <1>2, SlotIn
<1> QED
  BY <1>1, <1>3, <1>4 DEF Used

\* A directory's chain is proper, so each of its entries is one of its slots.
LEMMA SlotHasPlace ==
    ASSUME NEW f \in Tables, NEW d \in Cluster \cup {Root}, d # Root => Proper(f, d),
           NEW s \in SlotSet, s[1] \in BlockSet(f, d)
    PROVE  \E k \in DOMAIN Slots(f, d) : s = Slots(f, d)[k]
<1> DEFINE B == BlocksOf(f, d)
           n == InBlock(d)
           m == Len(B)
<1>1. n \in Nat \ {0} /\ m \in Nat
  BY InBlockIs, BlocksAre
<1>2. s[2] \in 1..InBlock(s[1]) /\ s = <<s[1], s[2]>> /\ s[1] \in Cluster \cup {Root}
  BY DEF SlotSet
<1>3. PICK i \in 1..m : B[i] = s[1]
  <2>1. CASE d = Root
    <3>1. B = <<Root>> /\ s[1] = Root
      BY <2>1 DEF BlocksOf, BlockSet
    <3> QED
      BY <3>1
  <2>2. CASE d # Root
    <3> DEFINE c == Cardinality(Chain(f, d))
               w == ChainWalk(f, d)
    <3>1. B = ChainSeq(f, d) /\ s[1] \in Chain(f, d)
      BY <2>2 DEF BlocksOf, BlockSet
    <3>2. m = c /\ c \in Nat /\ \A k \in 1..c : ChainSeq(f, d)[k] = w[k - 1]
      BY <3>1, ChainSeqIs, ChainIsFinite
    <3>3. PICK k \in 0..MaxCluster : s[1] = w[k] /\ s[1] # NULL
      BY <3>1 DEF Chain
    <3>4. ~(c <= k)
      BY <2>2, <3>3, ProperWalk
    <3> HIDE DEF c, w, m, B
    <3>5. k + 1 \in 1..c /\ (k + 1) - 1 = k
      BY <3>2, <3>4, Sizes
    <3>6. ChainSeq(f, d)[k + 1] = w[k]
      BY <3>2, <3>5
    <3> QED
      BY <3>1, <3>2, <3>3, <3>5, <3>6
  <2> QED
    BY <2>1, <2>2
<1>4. s[2] \in 1..n
  BY <1>2, <1>3, BlocksAre
<1> HIDE DEF n, m
<1>5. PICK k \in 1..(n * m) : (k - 1) \div n = i - 1 /\ (k - 1) % n = s[2] - 1
  BY <1>1, <1>3, <1>4, PlaceOf
<1>6. k \in DOMAIN Slots(f, d) /\ Slots(f, d)[k] = <<B[1 + (k - 1) \div n], 1 + ((k - 1) % n)>>
  BY SlotsAre DEF n, m, B
<1>7. 1 + (i - 1) = i /\ 1 + (s[2] - 1) = s[2]
  BY <1>1, <1>3, <1>4
<1>8. Slots(f, d)[k] = <<B[i], s[2]>>
  BY <1>5, <1>6, <1>7
<1> QED
  BY <1>2, <1>3, <1>6, <1>8

\* The directories of E and those they name.
Below(f, es, E) == E \cup {At(es, s).first : s \in {s \in Live(f, es, E) : At(es, s).dir}}

LEMMA BelowIs ==
    ASSUME NEW f \in Tables, NEW es, EntriesOK(es), NEW E
    PROVE  /\ E \subseteq Below(f, es, E)
           /\ E \subseteq Cluster \cup {Root} => Below(f, es, E) \subseteq Cluster \cup {Root}
           /\ Live(f, es, E) \subseteq SlotSet
<1>1. Live(f, es, E) \subseteq SlotSet
  BY LiveIsUsed DEF Used
<1>2. \A s \in Live(f, es, E) : At(es, s).first \in Cluster \cup {Root}
  BY <1>1, AtIs
<1> QED
  BY <1>1, <1>2 DEF Below

LEMMA DirsAre ==
    ASSUME NEW f \in Tables, NEW es, EntriesOK(es)
    PROVE  \E g : /\ Dirs(f, es) = g[MaxCluster] /\ g[0] = {Root}
                  /\ \A k \in 0..MaxCluster : g[k] \subseteq Cluster \cup {Root}
                  /\ \A k \in 1..MaxCluster : g[k] = Below(f, es, g[k - 1])
<1> DEFINE N == MaxCluster
           D == Cluster \cup {Root}
           Nx(E) == E \cup {At(es, s).first : s \in {s \in Live(f, es, E) : At(es, s).dir}}
           G(u) == [n \in 0..N |-> IF n = 0 THEN {Root} ELSE Nx(u[n - 1])]
           u == CHOOSE h : h = G(h)
           A == [k \in 0..N |-> SUBSET D]
           step == [k \in 1..N |-> [E \in SUBSET D |-> Nx(E)]]
<1>0. N \in Nat
  BY Sizes
<1>1. Dirs(f, es) = u[N]
  BY DEF Dirs
<1>2. \A E \in SUBSET D : Nx(E) \in SUBSET D
  BY BelowIs DEF Below
<1>b. \A E : Nx(E) = Below(f, es, E)
  BY DEF Below
<1> HIDE DEF Nx
<1>3. {Root} \in A[0]
  BY <1>0
<1>4. \A k \in 1..N : \A x \in A[k - 1] : step[k][x] \in A[k]
  <2> TAKE k \in 1..N
  <2> TAKE x \in A[k - 1]
  <2>1. k - 1 \in 0..N /\ k \in 0..N
    BY <1>0
  <2>2. x \in SUBSET D
    BY <2>1
  <2> QED
    BY <1>2, <2>1, <2>2
<1>5. PICK g : IsHistory(g, N, {Root}, step) /\ \A k \in 0..N : g[k] \in A[k]
  <2> HIDE DEF A, N, step
  <2> QED
    BY <1>0, <1>3, <1>4, Iteration
<1>6. g = G(g)
  <2>1. g = [k \in 0..N |-> IF k = 0 THEN {Root} ELSE step[k][g[k - 1]]]
    BY <1>5 DEF IsHistory
  <2>2. \A k \in 1..N : step[k][g[k - 1]] = Nx(g[k - 1])
    <3> TAKE k \in 1..N
    <3>1. k - 1 \in 0..N
      BY <1>0
    <3>2. g[k - 1] \in SUBSET D
      BY <1>5, <3>1
    <3> QED
      BY <3>2
  <2>3. \A k \in 0..N : k # 0 => k \in 1..N
    BY <1>0
  <2> HIDE DEF step
  <2> QED
    BY <2>1, <2>2, <2>3
<1>7. u = G(u)
  <2> HIDE DEF G
  <2> QED
    BY <1>6, Zenon
<1> HIDE DEF u
<1>8. \A k \in 0..N : u[k] = IF k = 0 THEN {Root} ELSE Nx(u[k - 1])
  BY <1>7
<1> DEFINE S == {k \in Nat : k <= N => u[k] \in SUBSET D}
<1>12. u[0] = {Root}
  BY <1>0, <1>8
<1>9. 0 \in S
  BY <1>12
<1>13. \A k \in 1..N : u[k] = Nx(u[k - 1])
  BY <1>0, <1>8
<1>10. \A k \in Nat : k \in S => k + 1 \in S
  <2> SUFFICES ASSUME NEW k \in Nat, k \in S, k + 1 <= N PROVE u[k + 1] \in SUBSET D
    OBVIOUS
  <2>1. k + 1 \in 1..N /\ (k + 1) - 1 = k /\ u[k] \in SUBSET D
    BY <1>0
  <2>2. u[k + 1] = Nx(u[k])
    BY <1>13, <2>1
  <2> QED
    BY <1>2, <2>1, <2>2
<1> HIDE DEF S
<1>11. Nat \subseteq S
  BY <1>9, <1>10, NatSetInduction
<1>14. \A k \in 0..N : u[k] \subseteq Cluster \cup {Root}
  BY <1>0, <1>11 DEF S
<1> QED
  BY <1>1, <1>b, <1>12, <1>13, <1>14

\* The directories below the root are in every cover.
LEMMA DirsAreCovered ==
    ASSUME NEW f \in Tables, NEW es, EntriesOK(es), NEW D, Covers(f, es, D)
    PROVE  Dirs(f, es) \subseteq D
<1> DEFINE N == MaxCluster
<1>0. N \in Nat
  BY Sizes
<1>1. PICK g : /\ Dirs(f, es) = g[N] /\ g[0] = {Root}
               /\ \A k \in 1..N : g[k] = Below(f, es, g[k - 1])
  BY DirsAre
<1>2. \A E \in SUBSET D : Below(f, es, E) \in SUBSET D
  <2> TAKE E \in SUBSET D
  <2>1. Live(f, es, E) \subseteq Used(f, es, D)
    BY LiveIsUsed
  <2>2. \A s \in Live(f, es, E) : At(es, s).dir => At(es, s).first \in D
    BY <2>1 DEF Covers
  <2> QED
    BY <2>2 DEF Below
<1> DEFINE S == {k \in Nat : k <= N => g[k] \in SUBSET D}
<1>3. 0 \in S
  BY <1>1 DEF Covers
<1>4. \A k \in Nat : k \in S => k + 1 \in S
  <2> SUFFICES ASSUME NEW k \in Nat, k \in S, k + 1 <= N PROVE g[k + 1] \in SUBSET D
    OBVIOUS
  <2>1. k + 1 \in 1..N /\ (k + 1) - 1 = k /\ g[k] \in SUBSET D
    BY <1>0
  <2>2. g[k + 1] = Below(f, es, g[k])
    BY <1>1, <2>1
  <2> QED
    BY <1>2, <2>1, <2>2
<1> HIDE DEF S, N
<1>5. Nat \subseteq S
  BY <1>3, <1>4, NatSetInduction
<1>6. g[N] \in SUBSET D
  BY <1>0, <1>5 DEF S
<1> QED
  BY <1>1, <1>6

\* As many steps as there are clusters reach all of them.
LEMMA DirsAreClosed ==
    ASSUME NEW f \in Tables, NEW es, EntriesOK(es)
    PROVE  /\ Root \in Dirs(f, es) /\ Dirs(f, es) \subseteq Cluster \cup {Root}
           /\ Below(f, es, Dirs(f, es)) = Dirs(f, es)
<1> DEFINE N == MaxCluster
           D == Cluster \cup {Root}
<1>0. N \in Nat /\ N >= 2
  BY Sizes, ClusterAssumption
<1>1. PICK g : /\ Dirs(f, es) = g[N] /\ g[0] = {Root}
               /\ \A k \in 0..N : g[k] \subseteq D
               /\ \A k \in 1..N : g[k] = Below(f, es, g[k - 1])
  BY DirsAre
<1>2. IsFiniteSet(D) /\ Cardinality(D) = N
  <2>1. IsFiniteSet(Cluster) /\ Cardinality(Cluster) = N - 1
    BY <1>0, FS_Interval DEF Cluster
  <2>2. Root \notin Cluster
    BY DEF Root, Cluster
  <2> HIDE DEF N
  <2> QED
    BY <1>0, <2>1, <2>2, FS_AddElement
<1>3. \A k \in 0..N : IsFiniteSet(g[k]) /\ Cardinality(g[k]) \in Nat /\ Cardinality(g[k]) <= N
  BY <1>1, <1>2, FS_Subset, FS_CardinalityType
<1> DEFINE Shut(k) == Below(f, es, g[k]) = g[k]
           S == {k \in Nat : k <= N => Root \in g[k] /\ (Shut(k) \/ Cardinality(g[k]) >= k + 1)}
<1>4. 0 \in S
  <2>1. Cardinality(g[0]) = 1
    BY <1>1, FS_Singleton
  <2> QED
    BY <1>1, <2>1
<1>5. \A k \in Nat : k \in S => k + 1 \in S
  <2> SUFFICES ASSUME NEW k \in Nat, k \in S, k + 1 <= N
               PROVE  Root \in g[k + 1] /\ (Shut(k + 1) \/ Cardinality(g[k + 1]) >= (k + 1) + 1)
    OBVIOUS
  <2>1. k \in 0..N /\ k + 1 \in 0..N /\ k + 1 \in 1..N /\ (k + 1) - 1 = k
    BY <1>0
  <2>2. g[k + 1] = Below(f, es, g[k])
    BY <1>1, <2>1
  <2>3. g[k] \subseteq g[k + 1]
    BY <2>2, BelowIs
  <2>4. Root \in g[k] /\ (Shut(k) \/ Cardinality(g[k]) >= k + 1)
    BY <2>1
  <2>5. CASE Shut(k)
    <3>1. g[k + 1] = g[k]
      BY <2>2, <2>5
    <3> QED
      BY <2>4, <2>5, <3>1
  <2>6. CASE ~Shut(k) /\ Cardinality(g[k]) >= k + 1
    <3>1. PICK x \in g[k + 1] : x \notin g[k]
      BY <2>2, <2>3, <2>6
    <3>2. IsFiniteSet(g[k]) /\ IsFiniteSet(g[k + 1]) /\ Cardinality(g[k]) \in Nat /\ Cardinality(g[k + 1]) \in Nat
      BY <1>3, <2>1
    <3>3. Cardinality(g[k] \cup {x}) = Cardinality(g[k]) + 1
      BY <3>1, <3>2, FS_AddElement
    <3>4. g[k] \cup {x} \in SUBSET g[k + 1]
      BY <2>3, <3>1
    <3>5. Cardinality(g[k] \cup {x}) <= Cardinality(g[k + 1])
      BY <3>2, <3>4, FS_Subset
    <3>6. Cardinality(g[k + 1]) >= (k + 1) + 1
      BY <2>6, <3>2, <3>3, <3>5
    <3> QED
      BY <2>3, <2>4, <3>6
  <2> QED
    BY <2>4, <2>5, <2>6
<1> HIDE DEF S
<1>6. Nat \subseteq S
  BY <1>4, <1>5, NatSetInduction
<1>7. Root \in g[N] /\ (Shut(N) \/ Cardinality(g[N]) >= N + 1)
  BY <1>0, <1>6 DEF S
<1>8. N \in 0..N
  BY <1>0
<1>9. ~(Cardinality(g[N]) >= N + 1)
  BY <1>0, <1>3, <1>8
<1> QED
  BY <1>1, <1>7, <1>8, <1>9

\* A sound table is good for the directories below the root.
LEMMA SoundIsGood ==
    ASSUME NEW f \in Tables, NEW es, EntriesOK(es), Sound(f, es)
    PROVE  Good(f, es, Dirs(f, es), "loose")
<1> DEFINE D == Dirs(f, es)
           S == Live(f, es, D)
<1>1. /\ Root \in D /\ D \subseteq Cluster \cup {Root} /\ Below(f, es, D) = D
      /\ S \subseteq SlotSet
  BY DirsAreClosed, BelowIs
<1>2. /\ \A s \in AllSlots(f, D) : At(es, s).name # DATA
      /\ \A s \in S : /\ Proper(f, At(es, s).first)
                      /\ At(es, s).dir => At(es, s).first \in Cluster
                      /\ ~At(es, s).dir => At(es, s).size <= cluster_size * Cardinality(Chain(f, At(es, s).first))
      /\ \A s, t \in S : s # t => Chain(f, At(es, s).first) \cap Chain(f, At(es, t).first) = {}
  BY DEF Sound
<1>3. ASSUME NEW d \in D \ {Root} PROVE \E s \in S : At(es, s).dir /\ At(es, s).first = d
  <2>1. PICK g : /\ Dirs(f, es) = g[MaxCluster] /\ g[0] = {Root}
                 /\ \A k \in 1..MaxCluster : g[k] = Below(f, es, g[k - 1])
    BY DirsAre
  <2> DEFINE N == MaxCluster
             P(c) == c = Root \/ \E s \in S : At(es, s).dir /\ At(es, s).first = c
             Q == {k \in Nat : k <= N => g[k] \subseteq D /\ \A c \in g[k] : P(c)}
  <2>0. N \in Nat
    BY Sizes
  <2>2. 0 \in Q
    BY <1>1, <2>1
  <2>3. \A k \in Nat : k \in Q => k + 1 \in Q
    <3> SUFFICES ASSUME NEW k \in Nat, k \in Q, k + 1 <= N
                 PROVE  g[k + 1] \subseteq D /\ \A c \in g[k + 1] : P(c)
      OBVIOUS
    <3>1. k + 1 \in 1..N /\ (k + 1) - 1 = k /\ g[k] \subseteq D /\ \A c \in g[k] : P(c)
      BY <2>0
    <3>2. g[k + 1] = Below(f, es, g[k])
      BY <2>1, <3>1
    <3>3. Live(f, es, g[k]) \subseteq S
      BY <3>1 DEF Live, AllSlots
    <3>4. \A s \in S : At(es, s).dir => At(es, s).first \in D
      BY <1>1 DEF Below
    <3> HIDE DEF S, D
    <3> QED
      BY <3>1, <3>2, <3>3, <3>4 DEF Below
  <2> HIDE DEF P, N, Q
  <2>4. Nat \subseteq Q
    BY <2>2, <2>3, NatSetInduction
  <2>5. P(d)
    BY <2>0, <2>1, <2>4 DEF Q, N
  <2> QED
    BY <2>5 DEF P
<1>4. \A d \in D : d # Root => Proper(f, d)
  BY <1>2, <1>3
<1>5. ASSUME NEW s \in SlotSet, NEW d \in D, s[1] \in BlockSet(f, d) PROVE s \in AllSlots(f, D)
  <2>1. \E k \in DOMAIN Slots(f, d) : s = Slots(f, d)[k]
    BY <1>1, <1>4, <1>5, SlotHasPlace
  <2> QED
    BY <1>1, <2>1 DEF AllSlots
<1>6. Used(f, es, D) \subseteq S
  BY <1>5 DEF Used, Live
<1>7. NoData(f, es, D)
  BY <1>2, <1>5 DEF NoData
<1> HIDE DEF D, S
<1>8. \A c \in Cluster : c \in Chain(f, c)
  BY HeadInChain
<1>9. ASSUME NEW s \in S, NEW t \in S, At(es, s).first = At(es, t).first, At(es, s).first \in Cluster PROVE s = t
  <2>1. At(es, s).first \in Chain(f, At(es, s).first) \cap Chain(f, At(es, t).first)
    BY <1>8, <1>9
  <2> QED
    BY <1>2, <2>1
<1>10. Covers(f, es, D)
  <2>1. ASSUME NEW s \in Used(f, es, D) PROVE At(es, s).first \in D \ {Root} <=> At(es, s).dir
    <3>1. ASSUME At(es, s).dir PROVE At(es, s).first \in D \ {Root}
      <4>1. At(es, s).first \in Cluster /\ Root \notin Cluster
        BY <1>2, <1>6, <3>1 DEF Cluster, Root
      <4>2. At(es, s).first \in D
        BY <1>1, <1>6, <3>1 DEF Below, S
      <4> QED
        BY <4>1, <4>2
    <3>2. ASSUME At(es, s).first \in D \ {Root} PROVE At(es, s).dir
      <4>1. PICK t \in S : At(es, t).dir /\ At(es, t).first = At(es, s).first
        BY <1>3, <3>2
      <4>2. At(es, s).first \in Cluster
        BY <1>1, <3>2
      <4>3. s = t
        BY <1>6, <1>9, <4>1, <4>2
      <4> QED
        BY <4>1, <4>3
    <3> QED
      BY <3>1, <3>2
  <2> QED
    BY <1>1, <2>1 DEF Covers
<1>11. ASSUME NEW h \in Heads(f, es, D) PROVE \E s \in S : h = At(es, s).first
  <2>1. CASE h \in D \ {Root}
    BY <1>3, <2>1
  <2>2. CASE \E s \in Used(f, es, D) : h = At(es, s).first
    BY <1>6, <2>2
  <2> QED
    BY <2>1, <2>2 DEF Heads
<1>12. \A h \in Heads(f, es, D) : Proper(f, h)
  BY <1>2, <1>11
<1>13. ASSUME NEW h \in Heads(f, es, D), NEW k \in Heads(f, es, D), h # k PROVE Chain(f, h) \cap Chain(f, k) = {}
  <2>1. PICK s \in S : h = At(es, s).first
    BY <1>11
  <2>2. PICK t \in S : k = At(es, t).first
    BY <1>11
  <2> QED
    BY <1>2, <1>13, <2>1, <2>2
<1>14. \A s, t \in Used(f, es, D) : s # t /\ At(es, s).first = At(es, t).first => At(es, s).first = 0
  <2> SUFFICES ASSUME NEW s \in Used(f, es, D), NEW t \in Used(f, es, D), s # t, At(es, s).first = At(es, t).first
               PROVE  At(es, s).first = 0
    OBVIOUS
  <2>1. At(es, s).first \in Cluster \cup {Root}
    BY AtIs DEF Used
  <2>2. At(es, s).first \notin Cluster
    BY <1>6, <1>9
  <2> QED
    BY <2>1, <2>2 DEF Root
<1>15. \A s \in Used(f, es, D) : ~At(es, s).dir => Fits(f, At(es, s), "loose")
  BY <1>2, <1>6 DEF Fits
<1>16. Good(f, es, D, "loose")
  BY <1>7, <1>10, <1>12, <1>13, <1>14, <1>15 DEF Good
<1> QED
  BY <1>16 DEF D

\* What the theorems are about follows from a good cover.
LEMMA GoodIsSound ==
    ASSUME NEW f, NEW es, NEW D, NEW fit, Good(f, es, D, fit)
    PROVE  Sound(f, es)
<1> DEFINE S == Live(f, es, Dirs(f, es))
<1>1. f \in Tables /\ Covers(f, es, D) /\ EntriesOK(es)
  BY DEF Good
<1>2. S \subseteq Used(f, es, D)
  BY <1>1, DirsAreCovered, LiveIsUsed
<1>3. \A s \in S : At(es, s).first \in Heads(f, es, D)
  BY <1>2 DEF Heads
<1>4. \A s \in S : Proper(f, At(es, s).first)
  BY <1>3 DEF Good
<1>5. \A s \in S : At(es, s).dir => At(es, s).first \in Cluster
  BY <1>1, <1>2 DEF Covers
<1>6. \A s \in S : ~At(es, s).dir => At(es, s).size <= cluster_size * Cardinality(Chain(f, At(es, s).first))
  BY <1>2 DEF Good, Fits
<1>7. ASSUME NEW s \in S, NEW t \in S, s # t
      PROVE  Chain(f, At(es, s).first) \cap Chain(f, At(es, t).first) = {}
  <2>1. CASE At(es, s).first = At(es, t).first
    <3>1. At(es, s).first = 0
      BY <1>2, <1>7, <2>1 DEF Good
    <3>2. 0 \notin Cluster
      BY DEF Cluster
    <3>3. Chain(f, At(es, s).first) = {}
      BY <1>1, <3>1, <3>2, NoChain
    <3> QED
      BY <3>3
  <2>2. CASE At(es, s).first # At(es, t).first
    BY <1>3, <2>2 DEF Good
  <2> QED
    BY <2>1, <2>2
<1>9. ASSUME NEW s \in AllSlots(f, Dirs(f, es)) PROVE At(es, s).name # DATA
  <2>1. PICK d \in Dirs(f, es) \cap (Cluster \cup {Root}) : s \in {Slots(f, d)[k] : k \in DOMAIN Slots(f, d)}
    BY DEF AllSlots
  <2>2. PICK k \in DOMAIN Slots(f, d) : s = Slots(f, d)[k]
    BY <2>1
  <2>3. s \in SlotSet /\ s[1] \in BlockSet(f, d)
    BY <1>1, <2>1, <2>2, SlotIn
  <2>4. d \in D
    BY <1>1, <2>1, DirsAreCovered
  <2> QED
    BY <2>3, <2>4 DEF Good, NoData
<1> HIDE DEF S
<1>8. Sound(f, es) <=>
        /\ \A s \in AllSlots(f, Dirs(f, es)) : At(es, s).name # DATA
        /\ \A s \in S : /\ Proper(f, At(es, s).first)
                        /\ At(es, s).dir => At(es, s).first \in Cluster
                        /\ ~At(es, s).dir => At(es, s).size <= cluster_size * Cardinality(Chain(f, At(es, s).first))
        /\ \A s, t \in S : s # t => Chain(f, At(es, s).first) \cap Chain(f, At(es, t).first) = {}
  BY DEF Sound, S
<1> QED
  BY <1>4, <1>5, <1>6, <1>7, <1>8, <1>9

LEMMA GoodIsExact ==
    ASSUME NEW f, NEW es, NEW D, Good(f, es, D, "exact")
    PROVE  \A s \in Live(f, es, Dirs(f, es)) :
              ~At(es, s).dir =>
                 cluster_size * Cardinality(Chain(f, At(es, s).first)) < At(es, s).size + cluster_size
<1>1. f \in Tables /\ Covers(f, es, D) /\ EntriesOK(es)
  BY DEF Good
<1>2. Live(f, es, Dirs(f, es)) \subseteq Used(f, es, D)
  BY <1>1, DirsAreCovered, LiveIsUsed
<1>3. \A s \in Used(f, es, D) : ~At(es, s).dir => Fits(f, At(es, s), "exact")
  BY DEF Good
<1> QED
  BY <1>2, <1>3 DEF Fits
---------------------------------------------------------------------------
(* What the operations do to a good cover.                                 *)

Put(es, s, e) == [es EXCEPT ![s[1]][s[2]] = e]
Zeroed(es, n, block) == [es EXCEPT ![n] = block]

LEMMA PutIs ==
    ASSUME NEW es, EntriesOK(es), NEW s \in SlotSet, NEW e \in Entries
    PROVE  /\ EntriesOK(Put(es, s, e))
           /\ At(Put(es, s, e), s) = e
           /\ \A t \in SlotSet : t # s => At(Put(es, s, e), t) = At(es, t)
<1> DEFINE c == s[1]
           i == s[2]
           p == Put(es, s, e)
<1>1. c \in Cluster \cup {Root} /\ i \in 1..InBlock(c) /\ s = <<c, i>>
  BY DEF SlotSet
<1>2. es \in [Cluster \cup {Root} -> Blocks] /\ \A d \in Cluster \cup {Root} : es[d] \in [1..InBlock(d) -> Entries]
  BY DEF EntriesOK
<1>3. p = [es EXCEPT ![c] = [es[c] EXCEPT ![i] = e]]
  BY DEF Put
<1>4. [es[c] EXCEPT ![i] = e] \in [1..InBlock(c) -> Entries]
  BY <1>1, <1>2
<1>5. [1..InBlock(c) -> Entries] \subseteq Blocks
  BY <1>1 DEF InBlock, Blocks
<1>6. p \in [Cluster \cup {Root} -> Blocks]
  BY <1>1, <1>2, <1>3, <1>4, <1>5
<1>7. p[c] = [es[c] EXCEPT ![i] = e] /\ \A d \in Cluster \cup {Root} : d # c => p[d] = es[d]
  BY <1>1, <1>2, <1>3
<1>8. p[c][i] = e /\ \A j \in 1..InBlock(c) : j # i => p[c][j] = es[c][j]
  BY <1>1, <1>2, <1>7
<1> HIDE DEF p
<1>9. EntriesOK(p)
  BY <1>2, <1>4, <1>6, <1>7 DEF EntriesOK
<1>10. At(p, s) = e
  BY <1>8 DEF At
<1>11. ASSUME NEW t \in SlotSet, t # s PROVE At(p, t) = At(es, t)
  <2>1. t[1] \in Cluster \cup {Root} /\ t[2] \in 1..InBlock(t[1]) /\ t = <<t[1], t[2]>>
    BY DEF SlotSet
  <2>2. CASE t[1] = c
    <3>1. t[2] # i
      BY <1>1, <1>11, <2>1, <2>2
    <3> QED
      BY <1>8, <2>1, <2>2, <3>1 DEF At
  <2>3. CASE t[1] # c
    BY <1>7, <2>1, <2>3 DEF At
  <2> QED
    BY <2>2, <2>3
<1> QED
  BY <1>9, <1>10, <1>11 DEF p

LEMMA ZeroedIs ==
    ASSUME NEW es, EntriesOK(es), NEW n \in Cluster, NEW block \in [1..DirEntries -> Entries]
    PROVE  /\ EntriesOK(Zeroed(es, n, block))
           /\ \A t \in SlotSet : At(Zeroed(es, n, block), t) = IF t[1] = n THEN block[t[2]] ELSE At(es, t)
           /\ \A t \in SlotSet : t[1] = n => t[2] \in 1..DirEntries
<1> DEFINE p == Zeroed(es, n, block)
<1>1. es \in [Cluster \cup {Root} -> Blocks] /\ \A d \in Cluster \cup {Root} : es[d] \in [1..InBlock(d) -> Entries]
  BY DEF EntriesOK
<1>2. InBlock(n) = DirEntries
  BY DEF InBlock, Root, Cluster
<1>3. block \in Blocks
  BY DEF Blocks
<1>4. p \in [Cluster \cup {Root} -> Blocks]
  BY <1>1, <1>3 DEF Zeroed
<1>5. p[n] = block /\ \A d \in Cluster \cup {Root} : d # n => p[d] = es[d]
  BY <1>1 DEF Zeroed
<1> HIDE DEF p
<1>6. EntriesOK(p)
  BY <1>1, <1>2, <1>4, <1>5 DEF EntriesOK
<1>7. \A t \in SlotSet : At(p, t) = IF t[1] = n THEN block[t[2]] ELSE At(es, t)
  BY <1>5 DEF At, SlotSet
<1>8. \A t \in SlotSet : t[1] = n => t[2] \in 1..DirEntries
  BY <1>2 DEF SlotSet
<1> QED
  BY <1>6, <1>7, <1>8 DEF p

\* The same entries, or fewer.
FewerEntries(f, es, es2, D) ==
    \A s \in SlotSet :
       (\E d \in D : s[1] \in BlockSet(f, d))
       => /\ At(es2, s).name \in Names =>
                /\ At(es2, s) = At(es, s)
                /\ At(es, s).dir => At(es, s).first \in D
          /\ At(es2, s).name = DATA => At(es, s).name = DATA

\* They lead into H, and the chains from there are as they were.
Narrows(f, es, D, g, es2, D2, H) ==
    /\ g \in Tables /\ EntriesOK(es2) /\ D2 \subseteq D /\ Root \in D2
    /\ FewerEntries(f, es, es2, D2)
    /\ Heads(f, es2, D2) \subseteq H
    /\ \A h \in H : \A c \in Chain(f, h) : g[c] = f[c]

\* With them, chains that are the same, or fewer, are good.
LEMMA Restricted ==
    ASSUME NEW f, NEW es, NEW D, NEW fit, Good(f, es, D, fit),
           NEW g, NEW es2, NEW D2, NEW H, Narrows(f, es, D, g, es2, D2, H)
    PROVE  /\ Good(g, es2, D2, fit)
           /\ Used(g, es2, D2) \subseteq Used(f, es, D)
           /\ Heads(g, es2, D2) \subseteq Heads(f, es, D) \cap H
           /\ \A h \in Heads(g, es2, D2) : Chain(g, h) = Chain(f, h)
<1>0. /\ g \in Tables /\ EntriesOK(es2) /\ D2 \subseteq D /\ Root \in D2
      /\ FewerEntries(f, es, es2, D2)
      /\ Heads(f, es2, D2) \subseteq H
      /\ \A h \in H : \A c \in Chain(f, h) : g[c] = f[c]
  BY DEF Narrows
<1>1. /\ f \in Tables /\ EntriesOK(es)
      /\ Root \in D /\ D \subseteq Cluster \cup {Root}
      /\ \A s \in Used(f, es, D) : At(es, s).first \in D \ {Root} <=> At(es, s).dir
      /\ \A s \in Used(f, es, D) : ~At(es, s).dir => Fits(f, At(es, s), fit)
      /\ \A h \in Heads(f, es, D) : Proper(f, h)
      /\ \A h, k \in Heads(f, es, D) : h # k => Chain(f, h) \cap Chain(f, k) = {}
      /\ \A s, t \in Used(f, es, D) : s # t /\ At(es, s).first = At(es, t).first => At(es, s).first = 0
      /\ NoData(f, es, D)
  BY DEF Good, Covers
<1>2. D2 \ {Root} \subseteq H
  BY <1>0 DEF Heads
<1>3. \A h \in H : Chain(g, h) = Chain(f, h) /\ (Proper(f, h) => Proper(g, h))
  BY <1>0, <1>1, ChainAgree
<1>4. \A d \in D2 : BlockSet(g, d) = BlockSet(f, d)
  BY <1>2, <1>3 DEF BlockSet
<1>5. Used(g, es2, D2) = Used(f, es2, D2)
  BY <1>4 DEF Used
<1>6. Heads(g, es2, D2) = Heads(f, es2, D2)
  BY <1>5 DEF Heads
<1>7. \A s \in Used(g, es2, D2) :
         /\ s \in Used(f, es, D) /\ At(es2, s) = At(es, s)
         /\ At(es, s).dir => At(es, s).first \in D2
         /\ At(es, s).first \in H
  <2> SUFFICES ASSUME NEW s \in Used(f, es2, D2)
               PROVE  /\ s \in Used(f, es, D) /\ At(es2, s) = At(es, s)
                      /\ At(es, s).dir => At(es, s).first \in D2
                      /\ At(es, s).first \in H
    BY <1>5
  <2>1. s \in SlotSet /\ At(es2, s).name \in Names /\ \E d \in D2 : s[1] \in BlockSet(f, d)
    BY DEF Used
  <2>2. At(es2, s) = At(es, s) /\ (At(es, s).dir => At(es, s).first \in D2)
    BY <1>0, <2>1 DEF FewerEntries
  <2>3. s \in Used(f, es, D)
    BY <1>0, <2>1, <2>2 DEF Used
  <2>4. At(es2, s).first \in H
    BY <1>0 DEF Heads
  <2> QED
    BY <2>2, <2>3, <2>4
<1>8. Heads(g, es2, D2) \subseteq Heads(f, es, D) \cap H
  <2>1. Heads(g, es2, D2) \subseteq H
    BY <1>0, <1>6
  <2>2. Heads(g, es2, D2) \subseteq Heads(f, es, D)
    BY <1>0, <1>7 DEF Heads
  <2> QED
    BY <2>1, <2>2
<1>9. Covers(g, es2, D2)
  <2>1. ASSUME NEW s \in Used(g, es2, D2)
        PROVE  At(es2, s).first \in D2 \ {Root} <=> At(es2, s).dir
    BY <1>0, <1>1, <1>7
  <2> QED
    BY <1>0, <1>1, <2>1 DEF Covers
<1>10. \A s \in Used(g, es2, D2) : ~At(es2, s).dir => Fits(g, At(es2, s), fit)
  <2> TAKE s \in Used(g, es2, D2)
  <2>1. Chain(g, At(es, s).first) = Chain(f, At(es, s).first) /\ At(es2, s) = At(es, s)
    BY <1>3, <1>7
  <2>2. ~At(es, s).dir => Fits(f, At(es, s), fit)
    BY <1>1, <1>7
  <2> QED
    BY <2>1, <2>2 DEF Fits
<1>11. \A h \in Heads(g, es2, D2) : Proper(g, h)
  BY <1>1, <1>3, <1>8
<1>12. \A h, k \in Heads(g, es2, D2) : h # k => Chain(g, h) \cap Chain(g, k) = {}
  BY <1>1, <1>3, <1>8
<1>13. \A s, t \in Used(g, es2, D2) : s # t /\ At(es2, s).first = At(es2, t).first => At(es2, s).first = 0
  BY <1>1, <1>7
<1>15. NoData(g, es2, D2)
  <2> SUFFICES ASSUME NEW s \in SlotSet, \E d \in D2 : s[1] \in BlockSet(f, d), At(es2, s).name = DATA
               PROVE  FALSE
    BY <1>4 DEF NoData
  <2>1. At(es, s).name = DATA
    BY <1>0 DEF FewerEntries
  <2> QED
    BY <1>0, <1>1, <2>1 DEF NoData
<1>14. Good(g, es2, D2, fit)
  BY <1>0, <1>9, <1>10, <1>11, <1>12, <1>13, <1>15 DEF Good
<1> QED
  BY <1>3, <1>7, <1>8, <1>14

\* What a good cover says, for those who use a part.
LEMMA GoodFacts ==
    ASSUME NEW f, NEW es, NEW D, NEW fit, Good(f, es, D, fit)
    PROVE  /\ f \in Tables /\ EntriesOK(es)
           /\ Root \in D /\ D \subseteq Cluster \cup {Root}
           /\ \A s \in Used(f, es, D) : At(es, s).first \in D \ {Root} <=> At(es, s).dir
           /\ \A s \in Used(f, es, D) : ~At(es, s).dir => Fits(f, At(es, s), fit)
           /\ \A h \in Heads(f, es, D) : Proper(f, h)
           /\ \A h, k \in Heads(f, es, D) : h # k => Chain(f, h) \cap Chain(f, k) = {}
           /\ \A s, t \in Used(f, es, D) : s # t /\ At(es, s).first = At(es, t).first => At(es, s).first = 0
           /\ NoData(f, es, D)
BY DEF Good, Covers

\* No chain has a free cluster, so nothing is lost where free ones change.
LEMMA Untouched ==
    ASSUME NEW f, NEW es, NEW D, NEW fit, Good(f, es, D, fit),
           NEW g \in Tables, \A c \in Cluster : g[c] = f[c] \/ f[c] = FAT12_FREE,
           NEW es2, EntriesOK(es2),
           \A s \in SlotSet : At(es2, s) = At(es, s) \/ s[1] \in Unused(f)
    PROVE  /\ Good(g, es2, D, fit)
           /\ \A h \in Heads(g, es2, D) : Chain(g, h) \cap Unused(f) = {}
<1>1. /\ f \in Tables /\ EntriesOK(es) /\ Root \in D /\ D \subseteq Cluster \cup {Root}
      /\ \A s \in Used(f, es, D) : At(es, s).first \in D \ {Root} <=> At(es, s).dir
      /\ \A h \in Heads(f, es, D) : Proper(f, h)
  BY GoodFacts
<1>2. \A h \in Heads(f, es, D) : Chain(f, h) \cap Unused(f) = {}
  BY <1>1 DEF Proper, Unused
<1>3. \A d \in D : BlockSet(f, d) \cap Unused(f) = {}
  <2> TAKE d \in D
  <2>1. CASE d = Root
    BY <2>1 DEF BlockSet, Unused, Root, Cluster
  <2>2. CASE d # Root
    BY <1>2, <2>2 DEF BlockSet, Heads
  <2> QED
    BY <2>1, <2>2
<1>4. ASSUME NEW s \in SlotSet, At(es2, s).name \in Names, \E d \in D : s[1] \in BlockSet(f, d)
      PROVE  /\ At(es2, s) = At(es, s) /\ s \in Used(f, es, D)
             /\ At(es, s).dir => At(es, s).first \in D
  <2>1. At(es2, s) = At(es, s)
    BY <1>3, <1>4
  <2>2. s \in Used(f, es, D)
    BY <1>4, <2>1 DEF Used
  <2> QED
    BY <1>1, <2>1, <2>2
<1>5. Heads(f, es2, D) \subseteq Heads(f, es, D)
  <2>1. \A s \in Used(f, es2, D) : s \in Used(f, es, D) /\ At(es2, s) = At(es, s)
    BY <1>4 DEF Used
  <2> QED
    BY <2>1 DEF Heads
<1>6. \A h \in Heads(f, es, D) : \A c \in Chain(f, h) : g[c] = f[c]
  BY <1>1, ChainIsFinite DEF Proper
<1> DEFINE H == Heads(f, es, D)
<1>9. ASSUME NEW s \in SlotSet, \E d \in D : s[1] \in BlockSet(f, d) PROVE At(es2, s) = At(es, s)
  BY <1>3, <1>9
<1>7. /\ FewerEntries(f, es, es2, D)
      /\ Heads(f, es2, D) \subseteq H
      /\ \A h \in H : \A c \in Chain(f, h) : g[c] = f[c]
      /\ D \in SUBSET D
  BY <1>4, <1>5, <1>6, <1>9 DEF FewerEntries
<1> HIDE DEF H
<1>75. Narrows(f, es, D, g, es2, D, H)
  BY <1>1, <1>7 DEF Narrows
<1>8. /\ Good(g, es2, D, fit)
      /\ Heads(g, es2, D) \subseteq Heads(f, es, D) \cap H
      /\ \A h \in Heads(g, es2, D) : Chain(g, h) = Chain(f, h)
  BY <1>75, Restricted
<1> QED
  BY <1>2, <1>8

\* An entry that is cleared, whose chain may change as free clusters may.
LEMMA Cleared ==
    ASSUME NEW f, NEW es, NEW D, NEW fit, Good(f, es, D, fit),
           NEW s \in Used(f, es, D), NEW K, K = Chain(f, At(es, s).first),
           NEW g \in Tables, \A c \in Cluster : g[c] = f[c] \/ c \in K \/ f[c] = FAT12_FREE,
           NEW D2, D2 = IF At(es, s).dir THEN D \ {At(es, s).first} ELSE D
    PROVE  /\ Good(g, Put(es, s, Gone), D2, fit)
           /\ \A h \in Heads(g, Put(es, s, Gone), D2) : Chain(g, h) \cap (K \cup Unused(f)) = {}
<1> DEFINE old == At(es, s)
           es2 == Put(es, s, Gone)
           H == {h \in Heads(f, es, D) : h = old.first => h = 0}
<1>1. /\ f \in Tables /\ EntriesOK(es) /\ Root \in D /\ D \subseteq Cluster \cup {Root}
      /\ \A t \in Used(f, es, D) : At(es, t).first \in D \ {Root} <=> At(es, t).dir
      /\ \A h \in Heads(f, es, D) : Proper(f, h)
      /\ \A h, k \in Heads(f, es, D) : h # k => Chain(f, h) \cap Chain(f, k) = {}
      /\ \A r, t \in Used(f, es, D) : r # t /\ At(es, r).first = At(es, t).first => At(es, r).first = 0
  BY GoodFacts
<1>2. s \in SlotSet /\ Gone \in Entries /\ Gone.name \notin Names /\ Gone.name # DATA
  BY EmptyDirIs, NamesAssumption DEF Used, Gone, NoEntry, DELETED, DATA
<1>3. /\ EntriesOK(es2) /\ At(es2, s) = Gone
      /\ \A t \in SlotSet : t # s => At(es2, t) = At(es, t)
  BY <1>1, <1>2, PutIs
<1>4. D2 \in SUBSET D /\ Root \in D2
  BY <1>1
<1>5. ASSUME NEW t \in SlotSet, At(es2, t).name \in Names, \E d \in D2 : t[1] \in BlockSet(f, d)
      PROVE  /\ At(es2, t) = At(es, t) /\ t \in Used(f, es, D) /\ t # s
             /\ At(es, t).dir => At(es, t).first \in D2
  <2>1. t # s
    BY <1>2, <1>3, <1>5
  <2>2. At(es2, t) = At(es, t)
    BY <1>3, <2>1
  <2>3. t \in Used(f, es, D)
    BY <1>4, <1>5, <2>2 DEF Used
  <2>4. ASSUME At(es, t).dir PROVE At(es, t).first \in D2
    <3>1. At(es, t).first \in D \ {Root}
      BY <1>1, <2>3, <2>4
    <3>2. At(es, t).first # old.first
      BY <1>1, <2>1, <2>3, <3>1 DEF Root
    <3> QED
      BY <3>1, <3>2
  <2> QED
    BY <2>1, <2>2, <2>3, <2>4
<1>6. Heads(f, es2, D2) \subseteq H
  <2>1. ASSUME NEW t \in Used(f, es2, D2) PROVE At(es2, t).first \in H
    <3>1. t \in SlotSet /\ At(es2, t).name \in Names /\ \E d \in D2 : t[1] \in BlockSet(f, d)
      BY DEF Used
    <3>2. At(es2, t) = At(es, t) /\ t \in Used(f, es, D) /\ t # s
      BY <1>5, <3>1
    <3>3. At(es, t).first \in Heads(f, es, D)
      BY <3>2 DEF Heads
    <3> QED
      BY <1>1, <3>2, <3>3
  <2>2. ASSUME NEW d \in D2 \ {Root} PROVE d \in H
    <3>1. d \in Heads(f, es, D)
      BY <1>4 DEF Heads
    <3>2. d # old.first
      <4>1. CASE old.dir
        BY <4>1
      <4>2. CASE ~old.dir
        BY <1>1, <1>4, <4>2
      <4> QED
        BY <4>1, <4>2
    <3> QED
      BY <3>1, <3>2
  <2> HIDE DEF H, es2
  <2> QED
    BY <2>1, <2>2 DEF Heads
<1>7. old.first \in Heads(f, es, D)
  BY DEF Heads
<1>8. \A h \in H : Chain(f, h) \cap (K \cup Unused(f)) = {}
  <2> TAKE h \in H
  <2>1. Chain(f, h) \cap Unused(f) = {}
    BY <1>1 DEF Proper, Unused
  <2>2. Chain(f, h) \cap K = {}
    <3>1. CASE h = old.first
      <4>1. h \notin Cluster
        BY <3>1 DEF Cluster
      <4> QED
        BY <1>1, <4>1, NoChain
    <3>2. CASE h # old.first
      BY <1>1, <1>7, <3>2
    <3> QED
      BY <3>1, <3>2
  <2> QED
    BY <2>1, <2>2
<1>9. \A h \in H : \A c \in Chain(f, h) : g[c] = f[c]
  <2> TAKE h \in H
  <2> TAKE c \in Chain(f, h)
  <2>1. c \in Cluster
    BY <1>1, ChainIsFinite
  <2>2. c \notin K /\ f[c] # FAT12_FREE
    BY <1>8, <2>1 DEF Unused
  <2> QED
    BY <2>1, <2>2
<1> HIDE DEF H, es2
<1>10. Narrows(f, es, D, g, es2, D2, H)
  <2>0. \A t \in SlotSet : At(es2, t).name = DATA => At(es, t).name = DATA
    BY <1>2, <1>3
  <2>1. FewerEntries(f, es, es2, D2)
    BY <1>5, <2>0 DEF FewerEntries
  <2> QED
    BY <1>3, <1>4, <1>6, <1>9, <2>1 DEF Narrows
<1>11. /\ Good(g, es2, D2, fit)
       /\ Heads(g, es2, D2) \subseteq Heads(f, es, D) \cap H
       /\ \A h \in Heads(g, es2, D2) : Chain(g, h) = Chain(f, h)
  BY <1>10, Restricted
<1>12. \A h \in Heads(g, es2, D2) : Chain(g, h) \cap (K \cup Unused(f)) = {}
  BY <1>8, <1>11
<1> QED
  BY <1>11, <1>12 DEF es2

\* An entry with a chain of its own in a slot that is not in use.
Linkable(f, es, D, fit, s, e) ==
    /\ s \in SlotSet /\ At(es, s).name \notin Names /\ e \in Entries /\ e.name # DATA
    /\ Proper(f, e.first)
    /\ \A h \in Heads(f, es, D) : Chain(f, h) \cap Chain(f, e.first) = {}
    /\ e.dir => /\ e.first \in Cluster
                /\ \A t \in SlotSet : t[1] \in Chain(f, e.first) =>
                      t # s /\ At(es, t).name \notin Names \cup {DATA}
    /\ ~e.dir => Fits(f, e, fit)

LEMMA Linked ==
    ASSUME NEW f, NEW es, NEW D, NEW fit, Good(f, es, D, fit),
           NEW s, NEW e, Linkable(f, es, D, fit, s, e),
           NEW D2, D2 = IF e.dir THEN D \cup {e.first} ELSE D
    PROVE  Good(f, Put(es, s, e), D2, fit)
<1> DEFINE c == e.first
           es2 == Put(es, s, e)
<1>1. /\ f \in Tables /\ EntriesOK(es) /\ Root \in D /\ D \subseteq Cluster \cup {Root}
      /\ \A t \in Used(f, es, D) : At(es, t).first \in D \ {Root} <=> At(es, t).dir
      /\ \A t \in Used(f, es, D) : ~At(es, t).dir => Fits(f, At(es, t), fit)
      /\ \A h \in Heads(f, es, D) : Proper(f, h)
      /\ \A h, k \in Heads(f, es, D) : h # k => Chain(f, h) \cap Chain(f, k) = {}
      /\ \A r, t \in Used(f, es, D) : r # t /\ At(es, r).first = At(es, t).first => At(es, r).first = 0
  BY GoodFacts
<1>2. /\ s \in SlotSet /\ At(es, s).name \notin Names /\ e \in Entries /\ e.name # DATA
      /\ Proper(f, c)
      /\ \A h \in Heads(f, es, D) : Chain(f, h) \cap Chain(f, c) = {}
      /\ e.dir => c \in Cluster
      /\ e.dir => \A t \in SlotSet : t[1] \in Chain(f, c) => t # s /\ At(es, t).name \notin Names \cup {DATA}
      /\ ~e.dir => Fits(f, e, fit)
  BY DEF Linkable
<1>3. c \in Cluster \cup {0} /\ 0 \notin Cluster /\ Root = 0 /\ e.dir \in BOOLEAN
  BY <1>2 DEF Entries, Cluster, Root
<1>4. EntriesOK(es2) /\ At(es2, s) = e /\ \A t \in SlotSet : t # s => At(es2, t) = At(es, t)
  BY <1>1, <1>2, PutIs
<1>5. \A d \in Cluster : d \in Chain(f, d)
  <2> TAKE d \in Cluster
  <2>1. 0 \in 0..MaxCluster /\ ChainWalk(f, d)[0] = d
    BY <1>1, Sizes, WalkOfChain
  <2> QED
    BY <2>1 DEF Chain, NULL, Cluster
<1>6. c \in Heads(f, es, D) => c = 0
  BY <1>2, <1>3, <1>5
<1> HIDE DEF es2, c
<1>7. ASSUME NEW t \in Used(f, es2, D2), t # s
      PROVE  t \in Used(f, es, D) /\ At(es2, t) = At(es, t) /\ At(es, t).first \in Heads(f, es, D)
  <2>1. t \in SlotSet /\ At(es2, t).name \in Names
    BY DEF Used
  <2>2. PICK d \in D2 : t[1] \in BlockSet(f, d)
    BY DEF Used
  <2>3. At(es2, t) = At(es, t)
    BY <1>4, <1>7, <2>1
  <2>4. d \in D
    <3>1. ASSUME d \notin D PROVE FALSE
      <4>1. e.dir /\ d = c /\ c \in Cluster
        BY <1>2, <3>1 DEF c
      <4>2. t[1] \in Chain(f, c)
        BY <1>3, <2>2, <4>1 DEF BlockSet
      <4> QED
        BY <1>2, <2>1, <2>3, <4>1, <4>2
    <3> QED
      BY <3>1
  <2>5. t \in Used(f, es, D)
    BY <2>1, <2>2, <2>3, <2>4 DEF Used
  <2> QED
    BY <2>3, <2>5 DEF Heads
<1>8. Heads(f, es2, D2) \subseteq Heads(f, es, D) \cup {c}
  <2>1. \A t \in Used(f, es2, D2) : At(es2, t).first \in Heads(f, es, D) \cup {c}
    BY <1>4, <1>7 DEF c
  <2>2. D2 \ {Root} \subseteq Heads(f, es, D) \cup {c}
    BY DEF Heads, c
  <2> QED
    BY <2>1, <2>2 DEF Heads
<1>9. Root \in D2 /\ D2 \subseteq Cluster \cup {Root}
  BY <1>1, <1>2 DEF c
<1>10. ASSUME NEW t \in Used(f, es2, D2) PROVE At(es2, t).first \in D2 \ {Root} <=> At(es2, t).dir
  <2>1. CASE t = s
    <3>1. CASE e.dir
      BY <1>2, <1>3, <1>4, <2>1, <3>1 DEF c
    <3>2. CASE ~e.dir
      <4>1. D2 = D
        BY <3>2
      <4>2. c \notin D \ {Root}
        BY <1>3, <1>6 DEF Heads
      <4> QED
        BY <1>4, <2>1, <3>2, <4>1, <4>2 DEF c
    <3> QED
      BY <3>1, <3>2
  <2>2. CASE t # s
    <3>1. t \in Used(f, es, D) /\ At(es2, t) = At(es, t) /\ At(es, t).first \in Heads(f, es, D)
      BY <1>7, <2>2
    <3>2. At(es, t).first \in D \ {Root} <=> At(es, t).dir
      BY <1>1, <3>1
    <3>3. e.dir => At(es, t).first # c
      BY <1>2, <1>3, <1>6, <3>1
    <3>4. D2 = IF e.dir THEN D \cup {c} ELSE D
      BY DEF c
    <3> QED
      BY <3>1, <3>2, <3>3, <3>4
  <2> QED
    BY <2>1, <2>2
<1>11. ASSUME NEW t \in Used(f, es2, D2), ~At(es2, t).dir PROVE Fits(f, At(es2, t), fit)
  BY <1>1, <1>2, <1>4, <1>7, <1>11
<1>12. \A h \in Heads(f, es2, D2) : Proper(f, h)
  BY <1>1, <1>2, <1>8
<1>13. \A h, k \in Heads(f, es2, D2) : h # k => Chain(f, h) \cap Chain(f, k) = {}
  BY <1>1, <1>2, <1>8
<1>14. ASSUME NEW r \in Used(f, es2, D2), NEW t \in Used(f, es2, D2), r # t, At(es2, r).first = At(es2, t).first
       PROVE  At(es2, r).first = 0
  <2>1. CASE r = s
    <3>1. At(es2, r).first = c /\ At(es2, t) = At(es, t) /\ At(es, t).first \in Heads(f, es, D)
      BY <1>4, <1>7, <1>14, <2>1 DEF c
    <3> QED
      BY <1>6, <1>14, <3>1
  <2>2. CASE t = s
    <3>1. At(es2, t).first = c /\ At(es2, r) = At(es, r) /\ At(es, r).first \in Heads(f, es, D)
      BY <1>4, <1>7, <1>14, <2>2 DEF c
    <3> QED
      BY <1>6, <1>14, <3>1
  <2>3. CASE r # s /\ t # s
    <3>1. /\ r \in Used(f, es, D) /\ At(es2, r) = At(es, r)
          /\ t \in Used(f, es, D) /\ At(es2, t) = At(es, t)
      BY <1>7, <2>3
    <3> QED
      BY <1>1, <1>14, <3>1
  <2> QED
    BY <2>1, <2>2, <2>3
<1>15. Covers(f, es2, D2)
  BY <1>9, <1>10 DEF Covers
<1>16. ASSUME NEW t \in SlotSet, NEW d \in D2, t[1] \in BlockSet(f, d) PROVE At(es2, t).name # DATA
  <2>1. CASE t = s
    BY <1>2, <1>4, <2>1
  <2>2. CASE t # s /\ d \in D
    <3>1. At(es2, t) = At(es, t) /\ At(es, t).name # DATA
      BY <1>4, <1>16, <2>2, GoodFacts DEF NoData
    <3> QED
      BY <3>1
  <2>3. CASE t # s /\ d \notin D
    <3>1. e.dir /\ d = c
      BY <1>2, <2>3 DEF c
    <3>2. t[1] \in Chain(f, c) /\ At(es2, t) = At(es, t)
      BY <1>2, <1>3, <1>4, <1>16, <2>3, <3>1 DEF BlockSet
    <3> QED
      BY <1>2, <3>1, <3>2
  <2> QED
    BY <2>1, <2>2, <2>3
<1>17. NoData(f, es2, D2)
  BY <1>16 DEF NoData
<1> QED
  BY <1>1, <1>4, <1>11, <1>12, <1>13, <1>14, <1>15, <1>17 DEF Good, es2
---------------------------------------------------------------------------
(* When no cluster is lost.                                                *)

\* Every cluster in use is in a chain, and every directory can be reached.
Owned(f, es, D) == \A c \in Cluster : f[c] # FAT12_FREE => \E h \in Heads(f, es, D) : c \in Chain(f, h)

Shut(f, es, D, E) ==
    Root \in E /\ \A s \in Used(f, es, E \cap D) : At(es, s).dir => At(es, s).first \in E

Whole(f, es, D) == Owned(f, es, D) /\ \A E : Shut(f, es, D, E) => D \subseteq E

LEMMA UsedIsLive ==
    ASSUME NEW f, NEW es, NEW D, NEW fit, Good(f, es, D, fit), NEW E, E \subseteq D
    PROVE  Used(f, es, E) \subseteq Live(f, es, E)
<1>1. /\ f \in Tables /\ D \subseteq Cluster \cup {Root}
      /\ \A h \in Heads(f, es, D) : Proper(f, h)
  BY GoodFacts
<1> SUFFICES ASSUME NEW s \in Used(f, es, E) PROVE s \in Live(f, es, E)
  OBVIOUS
<1>2. s \in SlotSet /\ At(es, s).name \in Names
  BY DEF Used
<1>3. PICK d \in E : s[1] \in BlockSet(f, d)
  BY DEF Used
<1>4. d \in Cluster \cup {Root} /\ (d # Root => Proper(f, d))
  BY <1>1 DEF Heads
<1>5. PICK k \in DOMAIN Slots(f, d) : s = Slots(f, d)[k]
  BY <1>1, <1>2, <1>3, <1>4, SlotHasPlace
<1>6. s \in AllSlots(f, E)
  BY <1>4, <1>5 DEF AllSlots
<1> QED
  BY <1>2, <1>6 DEF Live

\* Then the cover is Fat's own, and all clusters in use are in its chains.
LEMMA WholeIsExact ==
    ASSUME NEW f, NEW es, NEW D, NEW fit, Good(f, es, D, fit), Whole(f, es, D)
    PROVE  {c \in Cluster : f[c] # FAT12_FREE} =
           UNION {Chain(f, At(es, s).first) : s \in Live(f, es, Dirs(f, es))}
<1>1. /\ f \in Tables /\ EntriesOK(es) /\ Root \in D
      /\ \A h \in Heads(f, es, D) : Proper(f, h)
      /\ Covers(f, es, D)
  BY GoodFacts DEF Good
<1>2. Dirs(f, es) \subseteq D
  BY <1>1, DirsAreCovered
<1>3. Root \in Dirs(f, es) /\ Below(f, es, Dirs(f, es)) = Dirs(f, es)
  BY <1>1, DirsAreClosed
<1>4. D \subseteq Dirs(f, es)
  <2> DEFINE E == Dirs(f, es)
  <2>1. E \cap D \subseteq D /\ E \cap D = E
    BY <1>2
  <2> HIDE DEF E
  <2>2. Used(f, es, E) \subseteq Live(f, es, E)
    BY <2>1, UsedIsLive
  <2>3. \A s \in Live(f, es, E) : At(es, s).dir => At(es, s).first \in E
    BY <1>3 DEF Below, E
  <2>4. Shut(f, es, D, E)
    BY <1>3, <2>1, <2>2, <2>3 DEF Shut, E
  <2> QED
    BY <2>4 DEF Whole, E
<1>5. Live(f, es, Dirs(f, es)) = Used(f, es, D)
  <2>1. Dirs(f, es) = D
    BY <1>2, <1>4
  <2>2. Live(f, es, D) \subseteq Used(f, es, D)
    BY <1>1, LiveIsUsed
  <2>3. Used(f, es, D) \subseteq Live(f, es, D)
    BY UsedIsLive
  <2> QED
    BY <2>1, <2>2, <2>3
<1>6. \A d \in D \ {Root} : \E s \in Used(f, es, D) : At(es, s).first = d
  <2> DEFINE E == {Root} \cup {At(es, s).first : s \in Used(f, es, D)}
  <2>1. Used(f, es, E \cap D) \subseteq Used(f, es, D)
    BY DEF Used
  <2>2. Shut(f, es, D, E)
    BY <2>1 DEF Shut
  <2>3. D \subseteq E
    BY <2>2 DEF Whole
  <2> QED
    BY <2>3
<1>7. ASSUME NEW c \in Cluster, f[c] # FAT12_FREE
      PROVE  \E s \in Used(f, es, D) : c \in Chain(f, At(es, s).first)
  <2>1. PICK h \in Heads(f, es, D) : c \in Chain(f, h)
    BY <1>7 DEF Whole, Owned
  <2>2. \E s \in Used(f, es, D) : At(es, s).first = h
    BY <1>6 DEF Heads
  <2> QED
    BY <2>1, <2>2
<1>8. ASSUME NEW s \in Used(f, es, D), NEW c \in Chain(f, At(es, s).first)
      PROVE  c \in Cluster /\ f[c] # FAT12_FREE
  <2>1. At(es, s).first \in Heads(f, es, D)
    BY DEF Heads
  <2> QED
    BY <1>1, <2>1, ChainIsFinite DEF Proper
<1> QED
  BY <1>5, <1>7, <1>8

\* An operation changes one slot s, and with it at most one directory.
\* What it keeps: the other entries and the chains of all of them.
Keeps(f, es, D, g, es2, D2, s) ==
    /\ \A d \in D \cap D2 : BlockSet(f, d) \subseteq BlockSet(g, d)
    /\ \A t \in Used(f, es, D) : t # s => /\ At(es2, t) = At(es, t)
                                           /\ Chain(f, At(es, t).first) \subseteq Chain(g, At(es, t).first)

\* What it drops: an entry, the chain from there and, if it is an empty directory, that.
Drops(f, es, D, g, D2, s) ==
    /\ \A d \in D \ D2 : /\ s \in Used(f, es, D) /\ d = At(es, s).first
                         /\ \A t \in Used(f, es, D) : t[1] \notin BlockSet(f, d)
    /\ s \in Used(f, es, D) /\ At(es, s).dir => At(es, s).first \notin D2

\* What it gains: a directory, clusters.
Gains(f, es, D, g, es2, D2, s) ==
    /\ \A d \in D2 \ D : s \in Used(g, es2, D \cap D2) /\ At(es2, s).dir /\ At(es2, s).first = d
    /\ \A c \in Cluster : g[c] # FAT12_FREE =>
          \/ f[c] # FAT12_FREE /\ (s \in Used(f, es, D) => c \notin Chain(f, At(es, s).first))
          \/ \E h \in Heads(g, es2, D2) : c \in Chain(g, h)

LEMMA WholeIsKept ==
    ASSUME NEW f, NEW es, NEW D, NEW fit, Good(f, es, D, fit), Whole(f, es, D),
           NEW g, NEW es2, NEW D2, NEW s, Root \in D2,
           Keeps(f, es, D, g, es2, D2, s), Drops(f, es, D, g, D2, s), Gains(f, es, D, g, es2, D2, s)
    PROVE  Whole(g, es2, D2)
<1>1. /\ \A t \in Used(f, es, D) : At(es, t).first \in D \ {Root} <=> At(es, t).dir
      /\ Root \in D
  BY GoodFacts
<1>2. /\ \A d \in D \cap D2 : BlockSet(f, d) \subseteq BlockSet(g, d)
      /\ \A t \in Used(f, es, D) : t # s => At(es2, t) = At(es, t)
      /\ \A t \in Used(f, es, D) : t # s => Chain(f, At(es, t).first) \subseteq Chain(g, At(es, t).first)
  BY DEF Keeps
<1>3. /\ \A d \in D \ D2 : /\ s \in Used(f, es, D) /\ d = At(es, s).first
                           /\ \A t \in Used(f, es, D) : t[1] \notin BlockSet(f, d)
      /\ s \in Used(f, es, D) /\ At(es, s).dir => At(es, s).first \notin D2
  BY DEF Drops
<1>4. ASSUME NEW E, NEW t \in Used(f, es, E \cap D), t # s
      PROVE  t \in Used(g, es2, E \cap D2) /\ t \in Used(f, es, D) /\ At(es2, t) = At(es, t)
  <2>1. t \in SlotSet /\ At(es, t).name \in Names
    BY DEF Used
  <2>2. PICK d \in E \cap D : t[1] \in BlockSet(f, d)
    BY DEF Used
  <2>3. t \in Used(f, es, D)
    BY <2>1, <2>2 DEF Used
  <2>4. d \in D2
    BY <1>3, <2>2, <2>3
  <2>5. t[1] \in BlockSet(g, d) /\ At(es2, t) = At(es, t)
    BY <1>2, <1>4, <2>2, <2>3, <2>4
  <2> QED
    BY <2>1, <2>2, <2>3, <2>4, <2>5 DEF Used
<1>5. Owned(g, es2, D2)
  <2> SUFFICES ASSUME NEW c \in Cluster, g[c] # FAT12_FREE
               PROVE  \E h \in Heads(g, es2, D2) : c \in Chain(g, h)
    BY DEF Owned
  <2>1. CASE f[c] # FAT12_FREE /\ (s \in Used(f, es, D) => c \notin Chain(f, At(es, s).first))
    <3>1. PICK h \in Heads(f, es, D) : c \in Chain(f, h)
      BY <2>1 DEF Whole, Owned
    <3>2. CASE h \in D \ {Root}
      <4>1. h \in D2
        BY <1>3, <2>1, <3>1, <3>2
      <4>2. c \in Chain(g, h)
        BY <1>2, <3>1, <3>2, <4>1 DEF BlockSet
      <4> QED
        BY <3>2, <4>1, <4>2 DEF Heads
    <3>3. CASE h \notin D \ {Root}
      <4>1. PICK t \in Used(f, es, D) : h = At(es, t).first
        BY <3>1, <3>3 DEF Heads
      <4>2. t # s
        BY <2>1, <3>1, <4>1
      <4>3. t \in Used(f, es, D \cap D)
        BY <4>1
      <4>4. t \in Used(g, es2, D \cap D2) /\ At(es2, t) = At(es, t)
        BY <1>4, <4>2, <4>3
      <4>5. Used(g, es2, D \cap D2) \subseteq Used(g, es2, D2)
        BY DEF Used
      <4>6. c \in Chain(g, h)
        BY <1>2, <3>1, <4>1, <4>2
      <4> QED
        BY <4>1, <4>4, <4>5, <4>6 DEF Heads
    <3> QED
      BY <3>2, <3>3
  <2> QED
    BY <2>1 DEF Gains
<1>6. ASSUME NEW E, Shut(g, es2, D2, E) PROVE D2 \subseteq E
  <2> DEFINE E2 == E \cup (D \ D2)
  <2>0. Root \in E /\ \A t \in Used(g, es2, E \cap D2) : At(es2, t).dir => At(es2, t).first \in E
    BY <1>6 DEF Shut
  <2>1. ASSUME NEW t \in Used(f, es, E2 \cap D), At(es, t).dir PROVE At(es, t).first \in E2
    <3>1. t \in Used(f, es, D)
      BY DEF Used
    <3>2. CASE t = s
      BY <1>1, <1>3, <2>1, <3>1, <3>2
    <3>3. CASE t # s
      <4>1. t \in Used(g, es2, E2 \cap D2) /\ At(es2, t) = At(es, t)
        <5> HIDE DEF E2
        <5> QED
          BY <1>4, <3>3
      <4>2. E2 \cap D2 = E \cap D2
        OBVIOUS
      <4> HIDE DEF E2
      <4>3. At(es, t).first \in E
        BY <2>0, <2>1, <4>1, <4>2
      <4> QED
        BY <4>3 DEF E2
    <3> QED
      BY <3>2, <3>3
  <2>2. Shut(f, es, D, E2)
    BY <2>0, <2>1 DEF Shut
  <2>3. D \subseteq E2
    <3> HIDE DEF E2
    <3> QED
      BY <2>2 DEF Whole
  <2>4. D \cap D2 \subseteq E
    BY <2>3
  <2>5. ASSUME NEW d \in D2 \ D PROVE d \in E
    <3>1. s \in Used(g, es2, D \cap D2) /\ At(es2, s).dir /\ At(es2, s).first = d
      BY DEF Gains
    <3>2. s \in Used(g, es2, E \cap D2)
      BY <2>4, <3>1 DEF Used
    <3> QED
      BY <2>0, <3>1, <3>2
  <2> QED
    BY <2>4, <2>5
<1> QED
  BY <1>5, <1>6 DEF Whole

\* Where only free clusters and the chain of s change, the others keep theirs.
LEMMA OthersAreKept ==
    ASSUME NEW f, NEW es, NEW D, NEW fit, Good(f, es, D, fit), NEW s,
           NEW K, K = IF s \in Used(f, es, D) THEN Chain(f, At(es, s).first) ELSE {},
           NEW g \in Tables, \A c \in Cluster : g[c] = f[c] \/ c \in K \/ f[c] = FAT12_FREE,
           NEW es2, \A t \in Used(f, es, D) : t # s => At(es2, t) = At(es, t),
           NEW D2, s \in Used(f, es, D) /\ At(es, s).dir => At(es, s).first \notin D2
    PROVE  Keeps(f, es, D, g, es2, D2, s)
<1>1. /\ f \in Tables /\ EntriesOK(es) /\ Root \in D
      /\ \A t \in Used(f, es, D) : At(es, t).first \in D \ {Root} <=> At(es, t).dir
      /\ \A h \in Heads(f, es, D) : Proper(f, h)
      /\ \A h, k \in Heads(f, es, D) : h # k => Chain(f, h) \cap Chain(f, k) = {}
      /\ \A r, t \in Used(f, es, D) : r # t /\ At(es, r).first = At(es, t).first => At(es, r).first = 0
  BY GoodFacts
<1>2. ASSUME NEW h \in Heads(f, es, D), s \in Used(f, es, D) => At(es, s).first # h
      PROVE  Chain(g, h) = Chain(f, h)
  <2>1. Chain(f, h) \cap K = {}
    <3>1. CASE s \in Used(f, es, D)
      <4>1. At(es, s).first \in Heads(f, es, D) /\ At(es, s).first # h
        BY <1>2, <3>1 DEF Heads
      <4> QED
        BY <1>1, <3>1, <4>1
    <3> QED
      BY <3>1
  <2>2. \A c \in Chain(f, h) : g[c] = f[c]
    BY <1>1, <2>1, ChainIsFinite DEF Proper
  <2> QED
    BY <1>1, <2>2, ChainAgree
<1>3. ASSUME NEW d \in D \cap D2 PROVE BlockSet(f, d) \subseteq BlockSet(g, d)
  <2>1. CASE d = Root
    BY <2>1 DEF BlockSet
  <2>2. CASE d # Root
    <3>1. d \in Heads(f, es, D) /\ (s \in Used(f, es, D) => At(es, s).first # d)
      BY <1>1, <2>2 DEF Heads
    <3> QED
      BY <1>2, <2>2, <3>1 DEF BlockSet
  <2> QED
    BY <2>1, <2>2
<1>4. ASSUME NEW t \in Used(f, es, D), t # s
      PROVE  Chain(f, At(es, t).first) \subseteq Chain(g, At(es, t).first)
  <2>1. At(es, t).first \in Heads(f, es, D)
    BY DEF Heads
  <2>2. CASE s \in Used(f, es, D) /\ At(es, s).first = At(es, t).first
    <3>1. At(es, t).first \notin Cluster
      BY <1>1, <1>4, <2>2 DEF Cluster
    <3> QED
      BY <1>1, <3>1, NoChain
  <2>3. CASE s \in Used(f, es, D) => At(es, s).first # At(es, t).first
    BY <1>2, <2>1, <2>3
  <2> QED
    BY <2>2, <2>3
<1> QED
  BY <1>3, <1>4 DEF Keeps

\* The clusters in use are those of other chains and the chain of the new entry.
Leaves(f, K, g, e) ==
    \A c \in Cluster : g[c] # FAT12_FREE => (f[c] # FAT12_FREE /\ c \notin K) \/ c \in Chain(g, e.first)

\* An entry in a slot of a directory: nothing is lost but the chain it had.
LEMMA WholeWithEntry ==
    ASSUME NEW f, NEW es, NEW D, NEW fit, Good(f, es, D, fit), Whole(f, es, D),
           NEW s \in SlotSet, \E d \in D : s[1] \in BlockSet(f, d),
           NEW K, K = IF s \in Used(f, es, D) THEN Chain(f, At(es, s).first) ELSE {},
           s \in Used(f, es, D) => ~At(es, s).dir,
           NEW g \in Tables, \A c \in Cluster : g[c] = f[c] \/ c \in K \/ f[c] = FAT12_FREE,
           NEW e, e.name \in Names, Leaves(f, K, g, e),
           NEW es2, At(es2, s) = e, \A t \in Used(f, es, D) : t # s => At(es2, t) = At(es, t),
           NEW D2, D2 = IF e.dir THEN D \cup {e.first} ELSE D
    PROVE  Whole(g, es2, D2)
<1>1. Root \in D
  BY GoodFacts
<1>2. Keeps(f, es, D, g, es2, D2, s)
  BY OthersAreKept
<1>3. Drops(f, es, D, g, D2, s)
  BY DEF Drops
<1>4. s \in Used(g, es2, D \cap D2)
  <2>1. PICK d \in D : s[1] \in BlockSet(f, d)
    OBVIOUS
  <2>2. d \in D \cap D2
    OBVIOUS
  <2>3. s[1] \in BlockSet(g, d)
    BY <1>2, <2>1, <2>2 DEF Keeps
  <2> QED
    BY <2>2, <2>3 DEF Used
<1>5. e.first \in Heads(g, es2, D2)
  <2>1. s \in Used(g, es2, D2)
    BY <1>4 DEF Used
  <2> QED
    BY <2>1 DEF Heads
<1>6. Gains(f, es, D, g, es2, D2, s)
  <2>1. \A d \in D2 \ D : e.dir /\ e.first = d
    OBVIOUS
  <2> QED
    BY <1>4, <1>5, <2>1 DEF Gains, Leaves
<1> QED
  BY <1>1, <1>2, <1>3, <1>6, WholeIsKept

\* The same where a directory may be removed that is empty.
LEMMA WholeWithout ==
    ASSUME NEW f, NEW es, NEW D, NEW fit, Good(f, es, D, fit), Whole(f, es, D),
           NEW s \in Used(f, es, D), NEW K, K = Chain(f, At(es, s).first),
           NEW g \in Tables, \A c \in Cluster : g[c] = f[c] \/ c \in K,
           \A c \in Cluster : g[c] # FAT12_FREE => c \notin K,
           NEW es2, \A t \in Used(f, es, D) : t # s => At(es2, t) = At(es, t),
           At(es, s).dir => \A t \in Used(f, es, D) : t[1] \notin BlockSet(f, At(es, s).first),
           NEW D2, D2 = IF At(es, s).dir THEN D \ {At(es, s).first} ELSE D
    PROVE  Whole(g, es2, D2)
<1>1. /\ Root \in D
      /\ \A t \in Used(f, es, D) : At(es, t).first \in D \ {Root} <=> At(es, t).dir
  BY GoodFacts
<1>2. Keeps(f, es, D, g, es2, D2, s)
  BY OthersAreKept
<1>3. Drops(f, es, D, g, D2, s)
  BY DEF Drops
<1>4. Gains(f, es, D, g, es2, D2, s)
  BY DEF Gains
<1>5. Root \in D2
  BY <1>1
<1> QED
  BY <1>2, <1>3, <1>4, <1>5, WholeIsKept

\* What a directory that grew leaves: n, an empty block of d that the table names.
Regrown(f, es, D, fit, d, n, g, es2) ==
    /\ Good(g, es2, D, fit) /\ Good(f, es2, D, fit)
    /\ n \in Cluster /\ <<n, 1>> \in SlotSet /\ At(es2, <<n, 1>>).name \notin Names
    /\ g[n] # FAT12_FREE /\ \E x \in Cluster : g[x] = n
    /\ n \in BlockSet(g, d)
    /\ Whole(f, es, D) => Whole(g, es2, D)

\* A directory gets one cluster more.
LEMMA GrownIsGood ==
    ASSUME NEW f, NEW es, NEW D, NEW fit, Good(f, es, D, fit),
           NEW d \in D \ {Root}, Unused(f) # {},
           NEW n, n = NewCluster(f), NEW g, g = Grown(f, d).fat,
           NEW es2, es2 = Zeroed(es, n, EmptyDir)
    PROVE  Regrown(f, es, D, fit, d, n, g, es2)
<1> DEFINE m == Cardinality(Chain(f, d))
           x == ChainWalk(f, d)[m - 1]
<1>1. /\ f \in Tables /\ EntriesOK(es) /\ Root \in D /\ D \subseteq Cluster \cup {Root}
      /\ \A t \in Used(f, es, D) : At(es, t).first \in D \ {Root} <=> At(es, t).dir
      /\ \A t \in Used(f, es, D) : ~At(es, t).dir => Fits(f, At(es, t), fit)
      /\ \A h \in Heads(f, es, D) : Proper(f, h)
      /\ \A h, k \in Heads(f, es, D) : h # k => Chain(f, h) \cap Chain(f, k) = {}
      /\ \A r, t \in Used(f, es, D) : r # t /\ At(es, r).first = At(es, t).first => At(es, r).first = 0
  BY GoodFacts
<1>2. d \in Cluster /\ d \in Heads(f, es, D)
  BY <1>1 DEF Heads
<1>3. /\ n \in Cluster /\ f[n] = FAT12_FREE
      /\ Allocate(f) \in Tables /\ \A c \in Cluster : Allocate(f)[c] = IF c = n THEN FAT12_EOC ELSE f[c]
  BY <1>1, AllocateIs
<1>4. Proper(f, d) /\ n \notin Chain(f, d)
  BY <1>1, <1>2, <1>3 DEF Proper
<1>5. m \in 1..(MaxCluster - 1) /\ x \in Chain(f, d) /\ x \in Cluster /\ f[x] = FAT12_EOC
  BY <1>1, <1>2, <1>4, LastHasMark, ChainIsFinite
<1>6. ChainSeq(f, d)[m] = x
  <2>1. m \in 1..m
    BY <1>5
  <2> QED
    BY <1>1, <2>1, ChainSeqIs
<1> HIDE DEF x, m
<1>7. g \in Tables /\ g = [Allocate(f) EXCEPT ![x] = n]
  BY <1>1, <1>2, <1>6, GrownIs DEF m
<1>8. x # n /\ g[x] = n /\ g[n] = FAT12_EOC /\ \A c \in Cluster : c # x /\ c # n => g[c] = f[c]
  BY <1>3, <1>4, <1>5, <1>7 DEF Tables
<1>9. Chain(g, d) = Chain(f, d) \cup {n} /\ Proper(g, d)
  <2>1. \A y \in Chain(f, d) : y # x => g[y] = f[y]
    BY <1>1, <1>4, <1>8, ChainIsFinite
  <2>2. x = ChainWalk(f, d)[Cardinality(Chain(f, d)) - 1]
    BY DEF x, m
  <2>3. f \in Tables /\ d \in Cluster /\ Proper(f, d) /\ n \in Cluster /\ f[n] = FAT12_FREE
    BY <1>1, <1>2, <1>3, <1>4
  <2>4. g \in Tables /\ g[x] = n /\ g[n] = FAT12_EOC
    BY <1>7, <1>8
  <2> QED
    BY <2>1, <2>2, <2>3, <2>4, Extended
<1>10. \A h \in Heads(f, es, D) : n \notin Chain(f, h)
  BY <1>1, <1>3 DEF Proper
<1>11. \A h \in Heads(f, es, D) : h # d => Chain(g, h) = Chain(f, h) /\ Proper(g, h)
  <2> TAKE h \in Heads(f, es, D)
  <2>1. ASSUME h # d PROVE \A c \in Chain(f, h) : g[c] = f[c]
    <3> TAKE c \in Chain(f, h)
    <3>1. c \in Cluster
      BY <1>1, ChainIsFinite
    <3>2. c # n /\ c # x
      BY <1>1, <1>2, <1>5, <1>10, <2>1
    <3> QED
      BY <1>8, <3>1, <3>2
  <2> QED
    BY <1>1, <1>7, <2>1, ChainAgree
<1>12. /\ EntriesOK(es2)
       /\ \A t \in SlotSet : At(es2, t) = IF t[1] = n THEN EmptyDir[t[2]] ELSE At(es, t)
       /\ \A t \in SlotSet : t[1] = n => t[2] \in 1..DirEntries
  <2>1. EmptyDir \in [1..DirEntries -> Entries]
    BY EmptyDirIs
  <2>2. EntriesOK(es) /\ n \in Cluster
    BY <1>1, <1>3
  <2>3. /\ EntriesOK(Zeroed(es, n, EmptyDir))
        /\ \A t \in SlotSet : At(Zeroed(es, n, EmptyDir), t) = IF t[1] = n THEN EmptyDir[t[2]] ELSE At(es, t)
        /\ \A t \in SlotSet : t[1] = n => t[2] \in 1..DirEntries
    BY <2>1, <2>2, ZeroedIs
  <2> QED
    BY <2>3
<1>13. \A t \in SlotSet : t[1] = n => At(es2, t).name \notin Names
  <2>1. \A i \in 1..DirEntries : EmptyDir[i].name = END
    BY DEF EmptyDir, NoEntry
  <2> QED
    BY <1>12, <2>1, NamesAssumption
<1>25. ASSUME NEW c \in D PROVE BlockSet(g, c) \subseteq BlockSet(f, c) \cup {n}
  <2>1. CASE c = Root
    BY <2>1 DEF BlockSet
  <2>2. CASE c = d
    BY <1>9, <2>2 DEF BlockSet
  <2>3. CASE c # Root /\ c # d
    <3>1. c \in Heads(f, es, D)
      BY <2>3 DEF Heads
    <3> QED
      BY <1>11, <2>3, <3>1 DEF BlockSet
  <2> QED
    BY <2>1, <2>2, <2>3
<1>14. ASSUME NEW t \in Used(g, es2, D) PROVE t \in Used(f, es, D) /\ At(es2, t) = At(es, t)
  <2>1. t \in SlotSet /\ At(es2, t).name \in Names
    BY DEF Used
  <2>2. PICK c \in D : t[1] \in BlockSet(g, c)
    BY DEF Used
  <2>3. t[1] # n /\ At(es2, t) = At(es, t)
    BY <1>12, <1>13, <2>1
  <2>4. t[1] \in BlockSet(f, c)
    BY <1>25, <2>2, <2>3
  <2> QED
    BY <2>1, <2>3, <2>4 DEF Used
<1>26. ASSUME NEW t \in SlotSet, NEW c \in D, t[1] \in BlockSet(g, c) PROVE At(es2, t).name # DATA
  <2>1. CASE t[1] = n
    <3>1. \A i \in 1..DirEntries : EmptyDir[i].name # DATA
      BY DEF EmptyDir, NoEntry, END, DATA
    <3> QED
      BY <1>12, <2>1, <3>1
  <2>2. CASE t[1] # n
    <3>1. t[1] \in BlockSet(f, c) /\ At(es2, t) = At(es, t)
      BY <1>12, <1>25, <1>26, <2>2
    <3> QED
      BY <3>1, GoodFacts DEF NoData
  <2> QED
    BY <2>1, <2>2
<1>27. NoData(g, es2, D)
  BY <1>26 DEF NoData
<1>15. Heads(g, es2, D) \subseteq Heads(f, es, D)
  BY <1>14 DEF Heads
<1>16. Covers(g, es2, D)
  BY <1>1, <1>14 DEF Covers
<1>17. ASSUME NEW t \in Used(g, es2, D), ~At(es2, t).dir PROVE Fits(g, At(es2, t), fit)
  <2>1. t \in Used(f, es, D) /\ At(es2, t) = At(es, t)
    BY <1>14
  <2>2. At(es, t).first # d
    BY <1>1, <1>17, <2>1
  <2>3. At(es, t).first \in Heads(f, es, D)
    BY <2>1 DEF Heads
  <2>4. Chain(g, At(es, t).first) = Chain(f, At(es, t).first)
    BY <1>11, <2>2, <2>3
  <2>5. Fits(f, At(es, t), fit)
    BY <1>1, <1>17, <2>1
  <2> QED
    BY <2>1, <2>4, <2>5 DEF Fits
<1>18. \A h \in Heads(g, es2, D) : Proper(g, h)
  BY <1>9, <1>11, <1>15
<1>19. ASSUME NEW h \in Heads(g, es2, D), NEW k \in Heads(g, es2, D), h # k
       PROVE  Chain(g, h) \cap Chain(g, k) = {}
  <2>1. h \in Heads(f, es, D) /\ k \in Heads(f, es, D) /\ Chain(f, h) \cap Chain(f, k) = {}
    BY <1>1, <1>15, <1>19
  <2>2. CASE h # d /\ k # d
    BY <1>11, <2>1, <2>2
  <2>3. CASE h = d
    BY <1>9, <1>10, <1>11, <1>19, <2>1, <2>3
  <2>4. CASE k = d
    BY <1>9, <1>10, <1>11, <1>19, <2>1, <2>4
  <2> QED
    BY <2>2, <2>3, <2>4
<1>20. \A r, t \in Used(g, es2, D) : r # t /\ At(es2, r).first = At(es2, t).first => At(es2, r).first = 0
  BY <1>1, <1>14
<1>21. Good(g, es2, D, fit)
  BY <1>7, <1>12, <1>16, <1>17, <1>18, <1>19, <1>20, <1>27 DEF Good
<1>22. <<n, 1>> \in SlotSet /\ <<n, 1>>[1] = n
  BY <1>3, Sizes DEF SlotSet, InBlock
<1>23. g[n] # FAT12_FREE
  BY <1>3, <1>8, EndsIs
<1>24. Good(f, es2, D, fit)
  <2>1. \A t \in SlotSet : At(es2, t) = At(es, t) \/ t[1] \in Unused(f)
    BY <1>3, <1>12 DEF Unused
  <2>2. \A c \in Cluster : f[c] = f[c] \/ f[c] = FAT12_FREE
    OBVIOUS
  <2> QED
    BY <1>1, <1>12, <2>1, <2>2, Untouched
<1> DEFINE s == <<n, 1>>
<1>28. n \in BlockSet(g, d)
  BY <1>9 DEF BlockSet
<1>29. ASSUME NEW t \in Used(f, es, D) PROVE t[1] # n
  <2>1. PICK c \in D : t[1] \in BlockSet(f, c)
    BY DEF Used
  <2>2. CASE c = Root
    BY <1>3, <2>1, <2>2 DEF BlockSet, Root, Cluster
  <2>3. CASE c # Root
    BY <1>10, <2>1, <2>3 DEF BlockSet, Heads
  <2> QED
    BY <2>2, <2>3
<1>30. ASSUME NEW h \in Heads(f, es, D) PROVE Chain(f, h) \subseteq Chain(g, h)
  BY <1>9, <1>11
<1>31. Keeps(f, es, D, g, es2, D, s)
  <2>1. \A c \in D : BlockSet(f, c) \subseteq BlockSet(g, c)
    BY <1>30 DEF BlockSet, Heads
  <2>2. \A t \in Used(f, es, D) : At(es2, t) = At(es, t)
    BY <1>12, <1>29 DEF Used
  <2>3. \A t \in Used(f, es, D) : Chain(f, At(es, t).first) \subseteq Chain(g, At(es, t).first)
    BY <1>30 DEF Heads
  <2> QED
    BY <2>1, <2>2, <2>3 DEF Keeps
<1>32. s \notin Used(f, es, D)
  BY <1>22, <1>29
<1>33. Drops(f, es, D, g, D, s)
  BY <1>32 DEF Drops
<1>34. Gains(f, es, D, g, es2, D, s)
  <2>1. d \in Heads(g, es2, D) /\ n \in Chain(g, d)
    BY <1>9 DEF Heads
  <2>2. ASSUME NEW c \in Cluster, g[c] # FAT12_FREE PROVE f[c] # FAT12_FREE \/ c = n
    <3>1. CASE c = x
      BY <1>1, <1>5, <3>1, EndsIs
    <3>2. CASE c # x /\ c # n
      BY <1>8, <2>2, <3>2
    <3> QED
      BY <3>1, <3>2
  <2>3. \A c \in Cluster : g[c] # FAT12_FREE => f[c] # FAT12_FREE \/ \E h \in Heads(g, es2, D) : c \in Chain(g, h)
    BY <2>1, <2>2
  <2> HIDE DEF s
  <2> QED
    BY <1>32, <2>3 DEF Gains
<1> HIDE DEF s
<1>35. Whole(f, es, D) => Whole(g, es2, D)
  BY <1>1, <1>31, <1>33, <1>34, WholeIsKept
<1> QED
  BY <1>3, <1>5, <1>8, <1>13, <1>21, <1>22, <1>23, <1>24, <1>28, <1>35 DEF Regrown
---------------------------------------------------------------------------
(* What the writes of an operation make of the directories and of the first*)
(* copy of the table, from which a restart goes on.                        *)

EntriesAfter(es, it) ==
    IF it.write.kind = "entry" THEN Put(es, it.write.at, it.write.val)
    ELSE IF it.write.kind = "dir" THEN Zeroed(es, it.write.at, it.write.val)
    ELSE IF it.write.kind = "bytes" THEN Zeroed(es, it.write.at, DataBlock)
    ELSE es

CopyAfter(f, it) == [c \in Cluster |-> IF Flushes(it, 1, SectorOf(c)) THEN it.fat[c] ELSE f[c]]

OnDisk(f, es) == [copy |-> f, entries |-> es]
AfterWrite(u, it) == OnDisk(CopyAfter(u.copy, it), EntriesAfter(u.entries, it))

\* A table that fits the directories.
Fine(f, es) == \E D : Good(f, es, D, "loose")

\* The moments before a write at which a power cut may do harm, and those at
\* which an error may.
CutHarms(name, it) ==
    /\ it.write.kind \in {"fat", "entry"}
    /\ it.write.kind = "fat" => <<it.write.at, it.write.val>> # <<1, 1>>
    /\ name \in {"truncate", "rmdir"} \/ (it.write.kind = "fat" /\ it.write.at = 1)

ErrorHarms(name, it) == name \in {"unlink", "truncate", "rmdir"} \/ Zeroing(it)

\* Whatever stops operation name before this write leaves a table that fits.
Secure(name, u, it) ==
    /\ CutHarms(name, it) \/ Fine(u.copy, u.entries)
    /\ ErrorHarms(name, it) \/ Fine(it.fat, u.entries)

Goes(name, u, it, v) == v = AfterWrite(u, it) /\ Secure(name, u, it)

\* From u the items X of operation name lead to v, always secure.
Leads(name, u, X, v) ==
    /\ X \in Seq(Items)
    /\ \E h : /\ h[0] = u /\ h[Len(X)] = v
              /\ \A k \in 1..Len(X) : Goes(name, h[k - 1], X[k], h[k])

LEMMA LeadsOn ==
    ASSUME NEW name, NEW X, NEW Y, NEW a, NEW b, NEW c,
           Leads(name, a, X, b), Leads(name, b, Y, c)
    PROVE  Leads(name, a, X \o Y, c)
<1> DEFINE n == Len(X)
           m == Len(Y)
<1>0. X \in Seq(Items) /\ Y \in Seq(Items)
  BY DEF Leads
<1>1. PICK h : /\ h[0] = a /\ h[Len(X)] = b
               /\ \A k \in 1..Len(X) : Goes(name, h[k - 1], X[k], h[k])
  BY DEF Leads
<1>2. PICK i : /\ i[0] = b /\ i[Len(Y)] = c
               /\ \A k \in 1..Len(Y) : Goes(name, i[k - 1], Y[k], i[k])
  BY DEF Leads
<1>3. /\ X \o Y \in Seq(Items) /\ n \in Nat /\ m \in Nat /\ Len(X \o Y) = n + m
      /\ \A k \in 1..n : (X \o Y)[k] = X[k]
      /\ \A k \in 1..(n + m) : k > n => (X \o Y)[k] = Y[k - n] /\ k - n \in 1..m
  BY <1>0, ItemsConcat
<1> DEFINE j == [k \in 0..(n + m) |-> IF k <= n THEN h[k] ELSE i[k - n]]
<1>6. /\ h[0] = a /\ h[n] = b /\ i[0] = b /\ i[m] = c
      /\ \A k \in 1..n : Goes(name, h[k - 1], X[k], h[k])
      /\ \A k \in 1..m : Goes(name, i[k - 1], Y[k], i[k])
  BY <1>1, <1>2
<1> HIDE DEF n, m
<1>4. j[0] = a /\ j[n + m] = c
  <2>1. j[0] = h[0]
    BY <1>3
  <2>2. CASE m = 0
    <3>1. j[n + m] = h[n]
      BY <1>3, <2>2
    <3> QED
      BY <1>6, <2>1, <2>2, <3>1
  <2>3. CASE m # 0
    <3>1. ~(n + m <= n) /\ (n + m) - n = m /\ n + m \in 0..(n + m)
      BY <1>3, <2>3
    <3>2. j[n + m] = i[m]
      BY <3>1
    <3> QED
      BY <1>6, <2>1, <3>2
  <2> QED
    BY <2>2, <2>3
<1>5. \A k \in 1..(n + m) : Goes(name, j[k - 1], (X \o Y)[k], j[k])
  <2> TAKE k \in 1..(n + m)
  <2>0. k \in 0..(n + m) /\ k - 1 \in 0..(n + m)
    BY <1>3
  <2>1. CASE k <= n
    <3>1. k \in 1..n /\ k - 1 <= n
      BY <1>3, <2>1
    <3>2. j[k] = h[k] /\ j[k - 1] = h[k - 1]
      BY <2>0, <2>1, <3>1
    <3> HIDE DEF j
    <3> QED
      BY <1>3, <1>6, <3>1, <3>2
  <2>2. CASE k > n
    <3>1. k - n \in 1..m /\ (X \o Y)[k] = Y[k - n]
      BY <1>3, <2>2
    <3>2. j[k] = i[k - n]
      BY <1>3, <2>0, <2>2
    <3>3. j[k - 1] = i[(k - n) - 1]
      <4>1. CASE k = n + 1
        <5>1. k - 1 = n /\ (k - n) - 1 = 0
          BY <1>3, <4>1
        <5>2. j[k - 1] = h[n]
          BY <1>3, <2>0, <5>1
        <5> HIDE DEF j
        <5> QED
          BY <1>6, <5>1, <5>2
      <4>2. CASE k # n + 1
        <5>1. ~(k - 1 <= n) /\ (k - 1) - n = (k - n) - 1
          BY <1>3, <2>2, <4>2
        <5> QED
          BY <2>0, <5>1
      <4> QED
        BY <4>1, <4>2
    <3> HIDE DEF j
    <3> QED
      BY <1>6, <3>1, <3>2, <3>3
  <2> QED
    BY <1>3, <2>1, <2>2
<1> HIDE DEF j
<1> QED
  BY <1>3, <1>4, <1>5 DEF Leads

LEMMA LeadsNone == \A name, u : Leads(name, u, <<>>, u)
<1> TAKE name, u
<1> DEFINE h == [k \in 0..0 |-> u]
<1>1. <<>> \in Seq(Items) /\ Len(<<>>) = 0
  BY EmptySeq
<1>2. h[0] = u
  OBVIOUS
<1> HIDE DEF h
<1> QED
  BY <1>1, <1>2 DEF Leads

LEMMA LeadsByOne ==
    ASSUME NEW f \in Tables, NEW w \in Writes, NEW name, NEW u, Secure(name, u, [fat |-> f, write |-> w])
    PROVE  Leads(name, u, Item(f, w), AfterWrite(u, [fat |-> f, write |-> w]))
<1> DEFINE it == [fat |-> f, write |-> w]
           h == [k \in 0..1 |-> IF k = 0 THEN u ELSE AfterWrite(u, it)]
           X == Item(f, w)
<1>1. X \in Seq(Items) /\ Len(X) = 1 /\ X[1] = it
  BY ItemIs
<1>2. h[0] = u /\ h[1] = AfterWrite(u, it)
  OBVIOUS
<1>4. Secure(name, u, it)
  OBVIOUS
<1> HIDE DEF X, h, it
<1>3. \A k \in 1..Len(X) : Goes(name, h[k - 1], X[k], h[k])
  BY <1>1, <1>2, <1>4 DEF Goes
<1> QED
  BY <1>1, <1>2, <1>3 DEF Leads, X, it

\* A write that does not go to the table leaves its copy.
LEMMA OtherCopy ==
    ASSUME NEW f \in Tables, NEW it, it.write.kind # "fat"
    PROVE  CopyAfter(f, it) = f
BY DEF CopyAfter, Flushes, Tables

LEMMA LeadsEntry ==
    ASSUME NEW f \in Tables, NEW g \in Tables, NEW es, NEW s \in SlotSet, NEW e \in Entries, NEW name,
           name \in {"truncate", "rmdir"} \/ Fine(f, es),
           name \in {"unlink", "truncate", "rmdir"} \/ Fine(g, es)
    PROVE  Leads(name, OnDisk(f, es), WriteEntry(g, s, e), OnDisk(f, Put(es, s, e)))
<1> DEFINE w == [kind |-> "entry", at |-> s, val |-> e]
           it == [fat |-> g, write |-> w]
           u == OnDisk(f, es)
<1>1. w \in Writes
  BY DEF Writes
<1>2. it.fat = g /\ it.write.kind = "entry" /\ it.write.at = s /\ it.write.val = e
  OBVIOUS
<1>3. u.copy = f /\ u.entries = es
  BY DEF OnDisk
<1>7. WriteEntry(g, s, e) = Item(g, w) /\ it = [fat |-> g, write |-> w]
  BY DEF WriteEntry
<1> HIDE DEF it, u, w
<1>4. Secure(name, u, it)
  BY <1>2, <1>3 DEF Secure, CutHarms, ErrorHarms
<1>5. AfterWrite(u, it) = OnDisk(f, Put(es, s, e))
  BY <1>2, <1>3, OtherCopy DEF AfterWrite, EntriesAfter
<1>6. Leads(name, u, Item(g, w), AfterWrite(u, it))
  BY <1>1, <1>4, <1>7, LeadsByOne
<1> QED
  BY <1>5, <1>6, <1>7 DEF u

LEMMA LeadsDir ==
    ASSUME NEW f \in Tables, NEW g \in Tables, NEW es, NEW c \in Cluster,
           NEW b \in [1..DirEntries -> Entries], NEW name, Fine(f, es),
           Fine(g, es) \/ \E x \in Cluster : g[x] = c
    PROVE  Leads(name, OnDisk(f, es), WriteDir(g, c, b), OnDisk(f, Zeroed(es, c, b)))
<1> DEFINE w == [kind |-> "dir", at |-> c, val |-> b]
           it == [fat |-> g, write |-> w]
           u == OnDisk(f, es)
<1>1. w \in Writes
  BY DEF Writes
<1>2. it.fat = g /\ it.write.kind = "dir" /\ it.write.at = c /\ it.write.val = b
  OBVIOUS
<1>3. u.copy = f /\ u.entries = es
  BY DEF OnDisk
<1>7. WriteDir(g, c, b) = Item(g, w) /\ it = [fat |-> g, write |-> w]
  BY DEF WriteDir
<1> HIDE DEF it, u, w
<1>4. Secure(name, u, it)
  BY <1>2, <1>3 DEF Secure, ErrorHarms, Zeroing
<1>5. AfterWrite(u, it) = OnDisk(f, Zeroed(es, c, b))
  BY <1>2, <1>3, OtherCopy DEF AfterWrite, EntriesAfter
<1>6. Leads(name, u, Item(g, w), AfterWrite(u, it))
  BY <1>1, <1>4, <1>7, LeadsByOne
<1> QED
  BY <1>5, <1>6, <1>7 DEF u

\* fat_flush, of which a power cut in the middle of the first copy is the
\* window that a restart is not safe in.
LEMMA LeadsFlush ==
    ASSUME NEW f \in Tables, NEW g \in Tables, NEW es, NEW name, Fine(f, es),
           name \in {"truncate", "rmdir"} \/ Fine(g, es)
    PROVE  Leads(name, OnDisk(f, es), fat_flush(g), OnDisk(g, es))
<1> DEFINE n == sectors_per_fat
           N == fat_count * sectors_per_fat
           t(k) == [c \in Cluster |-> IF SectorOf(c) <= k THEN g[c] ELSE f[c]]
           h == [k \in 0..N |-> OnDisk(t(k), es)]
           X == fat_flush(g)
<1>1. /\ X \in Seq(Items) /\ Len(X) = N
      /\ \A k \in 1..N : X[k] = [fat |-> g, write |-> [kind |-> "fat", at |-> 1 + (k - 1) \div n,
                                                       val |-> 1 + ((k - 1) % n)]]
  BY FlushIs
<1>2. /\ n \in Nat \ {0} /\ N \in Nat /\ n <= N
      /\ \A c \in Cluster : SectorOf(c) \in 1..n
  <2>1. n \in Nat \ {0} /\ fat_count \in Nat \ {0}
    BY SectorIs, Sizes
  <2>2. n * 1 <= n * fat_count /\ n * fat_count \in Nat /\ n * fat_count = N
    <3> HIDE DEF n
    <3>1. n * 1 <= n * fat_count /\ n * fat_count \in Nat /\ n * fat_count = fat_count * n
      BY <2>1
    <3> QED
      BY <3>1 DEF n
  <2> QED
    BY <2>1, <2>2, SectorIs
<1>3. \A k \in 1..N : /\ k <= n => 1 + (k - 1) \div n = 1 /\ 1 + ((k - 1) % n) = k
                      /\ k > n => 1 + (k - 1) \div n # 1
  <2> HIDE DEF n, N
  <2> TAKE k \in 1..N
  <2> DEFINE q == (k - 1) \div n
             r == (k - 1) % n
  <2>1. q \in Nat /\ r \in 0..(n - 1) /\ k - 1 = n * q + r
    BY <1>2
  <2> HIDE DEF q, r
  <2>2. CASE q = 0
    <3>1. n * q = 0
      BY <1>2, <2>2
    <3> QED
      BY <1>2, <2>1, <2>2, <3>1 DEF q, r
  <2>3. CASE q # 0
    <3>1. n * q >= n
      <4>1. n * 1 <= n * q
        BY <1>2, <2>1, <2>3
      <4> QED
        BY <1>2, <4>1
    <3>2. n * q \in Nat
      BY <1>2, <2>1
    <3>3. k > n
      BY <1>2, <2>1, <3>1, <3>2
    <3> QED
      BY <1>2, <2>1, <2>3, <3>3 DEF q
  <2> QED
    BY <2>2, <2>3
<1>4. t(0) = f
  BY <1>2 DEF Tables
<1>5. \A k \in 1..N : k > n => t(k - 1) = g
  BY <1>2 DEF Tables
<1>6. t(N) = g
  BY <1>2 DEF Tables
<1> HIDE DEF n, N, X
<1>7. ASSUME NEW k \in 1..N PROVE Goes(name, OnDisk(t(k - 1), es), X[k], OnDisk(t(k), es))
  <2> DEFINE it == X[k]
             u == OnDisk(t(k - 1), es)
             i == 1 + (k - 1) \div n
             j == 1 + ((k - 1) % n)
  <2>1. it = [fat |-> g, write |-> [kind |-> "fat", at |-> i, val |-> j]]
    BY <1>1
  <2>2. /\ k <= n => i = 1 /\ j = k
        /\ k > n => i # 1
    BY <1>3
  <2> HIDE DEF i, j, it
  <2>3. it.fat = g /\ it.write.kind = "fat" /\ it.write.at = i /\ it.write.val = j
    BY <2>1
  <2>4. CopyAfter(t(k - 1), it) = t(k)
    <3>1. \A c \in Cluster : Flushes(it, 1, SectorOf(c)) <=> k <= n /\ SectorOf(c) = k
      BY <1>2, <2>2, <2>3 DEF Flushes
    <3>2. \A c \in Cluster : (IF Flushes(it, 1, SectorOf(c)) THEN it.fat[c] ELSE t(k - 1)[c]) = t(k)[c]
      <4> TAKE c \in Cluster
      <4>1. t(k - 1)[c] = (IF SectorOf(c) <= k - 1 THEN g[c] ELSE f[c]) /\ t(k)[c] = (IF SectorOf(c) <= k THEN g[c] ELSE f[c])
        OBVIOUS
      <4>2. SectorOf(c) \in 1..n
        BY <1>2
      <4> HIDE DEF t
      <4>3. CASE k <= n /\ SectorOf(c) = k
        BY <1>2, <2>3, <3>1, <4>1, <4>2, <4>3
      <4>4. CASE ~(k <= n /\ SectorOf(c) = k)
        <5>1. SectorOf(c) <= k - 1 <=> SectorOf(c) <= k
          BY <1>2, <4>2, <4>4
        <5> QED
          BY <3>1, <4>1, <4>4, <5>1
      <4> QED
        BY <4>3, <4>4
    <3> HIDE DEF it
    <3> QED
      BY <3>2 DEF CopyAfter
  <2> HIDE DEF t
  <2>5. u.copy = t(k - 1) /\ u.entries = es
    BY DEF OnDisk
  <2>6. CutHarms(name, it) \/ Fine(t(k - 1), es)
    <3>1. CASE k = 1
      BY <1>4, <3>1
    <3>2. CASE k # 1 /\ k <= n
      <4>1. it.write.kind = "fat" /\ it.write.at = 1 /\ it.write.val # 1
        BY <2>2, <2>3, <3>2
      <4> QED
        BY <4>1 DEF CutHarms
    <3>3. CASE k > n
      <4>1. t(k - 1) = g
        BY <1>5, <3>3
      <4>2. CASE name \in {"truncate", "rmdir"}
        <5>1. it.write.kind = "fat" /\ it.write.at # 1
          BY <2>2, <2>3, <3>3
        <5> QED
          BY <4>2, <5>1 DEF CutHarms
      <4> QED
        BY <4>1, <4>2
    <3> QED
      BY <1>2, <3>1, <3>2, <3>3
  <2>7. ErrorHarms(name, it) \/ Fine(it.fat, es)
    BY <2>3 DEF ErrorHarms
  <2> HIDE DEF u
  <2>8. Secure(name, u, it)
    BY <2>5, <2>6, <2>7 DEF Secure
  <2>9. EntriesAfter(es, it) = es
    BY <2>3 DEF EntriesAfter
  <2>10. AfterWrite(u, it) = OnDisk(t(k), es)
    BY <2>4, <2>5, <2>9 DEF AfterWrite
  <2> QED
    BY <2>8, <2>10 DEF Goes, u, it
<1> HIDE DEF t
<1>8. h[0] = OnDisk(f, es) /\ h[N] = OnDisk(g, es)
  BY <1>2, <1>4, <1>6
<1>9. \A k \in 1..N : Goes(name, h[k - 1], X[k], h[k])
  <2> TAKE k \in 1..N
  <2>1. h[k - 1] = OnDisk(t(k - 1), es) /\ h[k] = OnDisk(t(k), es)
    BY <1>2
  <2> HIDE DEF h
  <2> QED
    BY <1>7, <2>1
<1> HIDE DEF h
<1> QED
  BY <1>1, <1>8, <1>9 DEF Leads, X

\* One write less.
LEMMA LeadsFrom ==
    ASSUME NEW name, NEW u, NEW X, NEW v, Leads(name, u, X, v)
    PROVE  /\ X = <<>> => v = u
           /\ X # <<>> => Leads(name, AfterWrite(u, X[1]), Tail(X), v) /\ Secure(name, u, X[1])
<1>0. X \in Seq(Items)
  BY DEF Leads
<1>1. PICK h : /\ h[0] = u /\ h[Len(X)] = v
               /\ \A k \in 1..Len(X) : Goes(name, h[k - 1], X[k], h[k])
  BY DEF Leads
<1>2. CASE X = <<>>
  <2>1. Len(X) = 0
    BY <1>2
  <2> QED
    BY <1>1, <1>2, <2>1
<1>3. CASE X # <<>>
  <2>1. /\ Tail(X) \in Seq(Items) /\ Len(X) \in Nat \ {0} /\ Len(Tail(X)) = Len(X) - 1
        /\ \A k \in 1..Len(Tail(X)) : Tail(X)[k] = X[k + 1]
    <3>1. <<>> \in Seq(Items)
      BY EmptySeq
    <3> QED
      BY <1>0, <1>3, <3>1, FirstItem
  <2> DEFINE i == [k \in 0..Len(Tail(X)) |-> h[k + 1]]
             Z == Tail(X)
  <2>2. i[0] = AfterWrite(u, X[1]) /\ Secure(name, u, X[1])
    <3>1. 1 \in 1..Len(X) /\ 1 - 1 = 0 /\ i[0] = h[1]
      BY <2>1
    <3> HIDE DEF i
    <3> QED
      BY <1>1, <3>1 DEF Goes
  <2>3. i[Len(Z)] = v
    <3>1. Len(Z) \in 0..Len(Z) /\ Len(Z) + 1 = Len(X)
      BY <2>1
    <3> QED
      BY <1>1, <3>1
  <2>4. \A k \in 1..Len(Z) : Goes(name, i[k - 1], Z[k], i[k])
    <3> TAKE k \in 1..Len(Z)
    <3>1. k \in 0..Len(Z) /\ k - 1 \in 0..Len(Z) /\ (k - 1) + 1 = k /\ k + 1 \in 1..Len(X) /\ (k + 1) - 1 = k
      BY <2>1
    <3>2. i[k] = h[k + 1] /\ i[k - 1] = h[k]
      BY <3>1
    <3>3. Goes(name, h[k], X[k + 1], h[k + 1])
      BY <1>1, <3>1
    <3> HIDE DEF i
    <3> QED
      BY <2>1, <3>2, <3>3
  <2> HIDE DEF i, Z
  <2>5. Len(Z) = Len(Tail(X)) /\ Z \in Seq(Items)
    BY <2>1 DEF Z
  <2>6. Leads(name, AfterWrite(u, X[1]), Z, v) /\ Secure(name, u, X[1])
    BY <2>2, <2>3, <2>4, <2>5 DEF Leads
  <2> QED
    BY <1>3, <2>6 DEF Z
<1> QED
  BY <1>2, <1>3

\* The entries on the disk after a write.
LEMMA EffectOnEntries ==
    ASSUME NEW d \in Disks, NEW it \in Items
    PROVE  Effect(d, it).entries = EntriesAfter(d.entries, it)
<1> DEFINE w == it.write
           E == Effect(d, it)
<1>0. w \in Writes /\ d = [fats |-> d.fats, entries |-> d.entries, bytes |-> d.bytes]
  BY DEF Items, Disks
<1>1. CASE w.kind = "entry"
  <2>1. E = [d EXCEPT !.entries[w.at[1]][w.at[2]] = w.val]
    BY <1>1 DEF Effect
  <2> HIDE DEF E
  <2>2. E.entries = [d.entries EXCEPT ![w.at[1]][w.at[2]] = w.val]
    BY <1>0, <2>1
  <2> QED
    BY <1>1, <2>2 DEF EntriesAfter, Put, E
<1>2. CASE w.kind = "dir"
  <2>1. E = [d EXCEPT !.entries[w.at] = w.val]
    BY <1>2 DEF Effect
  <2> HIDE DEF E
  <2>2. E.entries = [d.entries EXCEPT ![w.at] = w.val]
    BY <1>0, <2>1
  <2> QED
    BY <1>2, <2>2 DEF EntriesAfter, Zeroed, E
<1>3. CASE w.kind = "fat"
  BY <1>3, EffectIs DEF EntriesAfter
<1>4. CASE w.kind = "bytes"
  <2>1. E = [d EXCEPT !.bytes[w.at] = w.val, !.entries[w.at] = DataBlock]
    BY <1>4 DEF Effect
  <2> HIDE DEF E
  <2>2. E.entries = [d.entries EXCEPT ![w.at] = DataBlock]
    BY <1>0, <2>1
  <2> QED
    BY <1>4, <2>2 DEF EntriesAfter, Zeroed, E
<1>5. CASE w.kind = "return"
  BY <1>5 DEF Effect, EntriesAfter
<1>6. w.kind \in {"fat", "entry", "dir", "bytes", "return"}
  BY <1>0 DEF Writes
<1> QED
  BY <1>1, <1>2, <1>3, <1>4, <1>5, <1>6
---------------------------------------------------------------------------
(* Lookups in a good cover.                                                *)

LEMMA GoodIsLoose ==
    ASSUME NEW f, NEW es, NEW D, NEW fit, Good(f, es, D, fit)
    PROVE  Good(f, es, D, "loose") /\ Fine(f, es)
<1>1. \A e : Fits(f, e, fit) => Fits(f, e, "loose")
  BY DEF Fits
<1> QED
  BY <1>1 DEF Good, Fine

\* What a lookup finds is in use.
LEMMA FoundIsUsed ==
    ASSUME NEW f \in Tables, NEW es, NEW D \in SUBSET (Cluster \cup {Root}), NEW dir \in D,
           NEW name \in Names, NEW create \in BOOLEAN,
           NEW l, l = dir_lookup(f, es, dir, name, create), l.exists
    PROVE  l.slot \in Used(f, es, D)
<1> DEFINE S == Named(f, es, dir, name)
           k == First(S)
<1>0. dir \in Cluster \cup {Root}
  OBVIOUS
<1>1. S # {}
  <2> SUFFICES ASSUME S = {} PROVE FALSE
    OBVIOUS
  <2>1. \/ l = Found(f, dir, Usable(f, es, dir), FALSE)
        \/ l = Failure(2, f) \/ l = Failure(3, f) \/ l = Grown(f, dir)
    BY DEF dir_lookup
  <2>2. l.exists = FALSE
    BY <2>1 DEF Found, Failure, Grown
  <2> QED
    BY <2>2
<1>2. l = Found(f, dir, S, TRUE)
  BY <1>1 DEF dir_lookup
<1>3. l.slot = Slots(f, dir)[k]
  BY <1>2 DEF Found
<1>4. S = Having(f, es, dir, {name})
  BY DEF Named
<1>5. k \in Having(f, es, dir, {name}) /\ k \in DOMAIN Slots(f, dir)
  BY <1>0, <1>1, <1>4, HavingIs
<1> HIDE DEF k
<1>6. At(es, Slots(f, dir)[k]).name = name
  BY <1>5 DEF Having
<1>7. Slots(f, dir)[k] \in SlotSet /\ Slots(f, dir)[k][1] \in BlockSet(f, dir)
  BY <1>0, <1>5, SlotIn
<1> QED
  BY <1>3, <1>6, <1>7 DEF Used

\* A path leads to a directory of the cover or nowhere.
LEMMA ResolvesInCover ==
    ASSUME NEW f, NEW es, NEW D, NEW fit, Good(f, es, D, fit), NEW p \in Paths
    PROVE  resolve_path(f, es, p) \in D \cup {NULL}
<1>1. /\ f \in Tables /\ EntriesOK(es) /\ Root \in D /\ D \subseteq Cluster \cup {Root}
      /\ \A s \in Used(f, es, D) : At(es, s).first \in D \ {Root} <=> At(es, s).dir
  BY GoodFacts
<1> DEFINE n == Len(p) - 1
<1>2. PICK g : /\ IsHistory(g, Len(p) - 1, Root, StepInto(f, es, p))
               /\ \A k \in 0..(Len(p) - 1) : g[k] \in Cluster \cup {Root, NULL}
               /\ resolve_path(f, es, p) = g[Len(p) - 1]
  BY <1>1, ResolveIs
<1>3. n \in Nat
  BY <1>1, ResolveIs
<1>4. g = [k \in 0..n |-> IF k = 0 THEN Root ELSE StepInto(f, es, p)[k][g[k - 1]]]
  BY <1>2 DEF IsHistory
<1>5. ASSUME NEW k \in 1..n, NEW c \in D \cup {NULL}
      PROVE  StepInto(f, es, p)[k][c] \in D \cup {NULL}
  <2>1. StepInto(f, es, p)[k][c] = IF c = NULL THEN NULL ELSE DirectoryAt(es, dir_lookup(f, es, c, p[k], FALSE))
    BY <1>1 DEF StepInto
  <2>2. CASE c = NULL
    BY <2>1, <2>2
  <2>3. CASE c # NULL
    <3> DEFINE l == dir_lookup(f, es, c, p[k], FALSE)
    <3>1. p[k] \in Names /\ c \in D
      <4>1. p \in Seq(Names) /\ k \in 1..Len(p)
        BY <1>3, PathAssumption
      <4> QED
        BY <4>1, <2>3, ElementOfSeq
    <3>2. ASSUME l.exists, At(es, l.slot).dir PROVE At(es, l.slot).first \in D
      <4>1. l.slot \in Used(f, es, D)
        BY <1>1, <3>1, <3>2, FoundIsUsed
      <4> QED
        BY <1>1, <3>2, <4>1
    <3>3. DirectoryAt(es, l) \in D \cup {NULL}
      BY <3>2 DEF DirectoryAt
    <3> QED
      BY <2>1, <2>3, <3>3
  <2> QED
    BY <2>2, <2>3
<1>6. \A k \in 0..n : g[k] = IF k = 0 THEN Root ELSE StepInto(f, es, p)[k][g[k - 1]]
  BY <1>4
<1> DEFINE S == {k \in Nat : k <= n => g[k] \in D \cup {NULL}}
<1> HIDE DEF n
<1>7. 0 \in S
  BY <1>1, <1>3, <1>6
<1>8. \A k \in Nat : k \in S => k + 1 \in S
  <2> SUFFICES ASSUME NEW k \in Nat, k \in S, k + 1 <= n PROVE g[k + 1] \in D \cup {NULL}
    OBVIOUS
  <2>1. k + 1 \in 0..n /\ k + 1 \in 1..n /\ k + 1 # 0 /\ (k + 1) - 1 = k /\ g[k] \in D \cup {NULL}
    BY <1>3
  <2>2. g[k + 1] = StepInto(f, es, p)[k + 1][g[k]]
    BY <1>6, <2>1
  <2> QED
    BY <1>5, <2>1, <2>2
<1> HIDE DEF S
<1>9. Nat \subseteq S
  BY <1>7, <1>8, NatSetInduction
<1> QED
  BY <1>2, <1>3, <1>9 DEF S, n

\* What a lookup that finds no entry prepares: a slot for one.
Prepared(act, l, f, es, D, fit) ==
    \E es2 : /\ Leads(act, OnDisk(f, es), l.items, OnDisk(l.fat, es2))
             /\ Good(l.fat, es2, D, fit)
             /\ l.slot \in SlotSet /\ At(es2, l.slot).name \notin Names
             /\ l.slot[1] \notin Unused(l.fat) /\ \E d \in D : l.slot[1] \in BlockSet(l.fat, d)
             /\ Whole(f, es, D) => Whole(l.fat, es2, D)

LEMMA LookupPrepares ==
    ASSUME NEW f, NEW es, NEW D, NEW fit, Good(f, es, D, fit), NEW dir \in D,
           NEW name \in Names, NEW create \in BOOLEAN,
           NEW l, l = dir_lookup(f, es, dir, name, create), ~l.exists, l.r = 0
    PROVE  \A act : Prepared(act, l, f, es, D, fit)
<1>1. /\ f \in Tables /\ EntriesOK(es) /\ Root \in D /\ D \subseteq Cluster \cup {Root}
      /\ \A h \in Heads(f, es, D) : Proper(f, h)
  BY GoodFacts
<1>2. \A b \in BlockSet(f, dir) : b \notin Unused(f)
  <2>1. CASE dir = Root
    BY <2>1 DEF BlockSet, Unused, Root, Cluster
  <2>2. CASE dir # Root
    <3>1. dir \in Heads(f, es, D)
      BY <2>2 DEF Heads
    <3> QED
      BY <1>1, <2>2, <3>1 DEF BlockSet, Proper, Unused
  <2> QED
    BY <2>1, <2>2
<1>3. Named(f, es, dir, name) = {}
  <2> SUFFICES ASSUME Named(f, es, dir, name) # {} PROVE FALSE
    OBVIOUS
  <2>1. l = Found(f, dir, Named(f, es, dir, name), TRUE)
    BY DEF dir_lookup
  <2>2. l.exists = TRUE
    BY <2>1 DEF Found
  <2> QED
    BY <2>2
<1>4. CASE Usable(f, es, dir) # {}
  <2> DEFINE S == Usable(f, es, dir)
             k == First(S)
  <2>1. l = Found(f, dir, S, FALSE)
    BY <1>3, <1>4 DEF dir_lookup
  <2>2. l.slot = Slots(f, dir)[k] /\ l.fat = f /\ l.items = <<>>
    BY <2>1 DEF Found
  <2>3. S = Having(f, es, dir, {END, DELETED})
    BY DEF Usable
  <2>4. k \in Having(f, es, dir, {END, DELETED}) /\ k \in DOMAIN Slots(f, dir)
    BY <1>1, <1>4, <2>3, HavingIs
  <2> HIDE DEF k
  <2>5. At(es, Slots(f, dir)[k]).name \in {END, DELETED}
    BY <2>4 DEF Having
  <2>6. At(es, l.slot).name \notin Names
    BY <2>2, <2>5, NamesAssumption
  <2>7. l.slot \in SlotSet /\ l.slot[1] \in BlockSet(f, dir)
    BY <1>1, <2>2, <2>4, SlotIn
  <2>8. \A act : Leads(act, OnDisk(f, es), l.items, OnDisk(l.fat, es))
    BY <2>2, LeadsNone
  <2> QED
    BY <1>2, <2>2, <2>6, <2>7, <2>8 DEF Prepared
<1>5. CASE Usable(f, es, dir) = {}
  <2>1. l # Failure(2, f) /\ l # Failure(3, f)
    BY DEF Failure
  <2>2. dir # Root /\ create /\ Unused(f) # {} /\ l = Grown(f, dir)
    BY <1>3, <1>5, <2>1 DEF dir_lookup
  <2> DEFINE n == NewCluster(f)
             es2 == Zeroed(es, n, EmptyDir)
  <2>3. dir \in D \ {Root} /\ dir \in Cluster
    BY <1>1, <2>2
  <2>4. /\ Good(Grown(f, dir).fat, es2, D, fit)
        /\ n \in Cluster /\ <<n, 1>> \in SlotSet /\ At(es2, <<n, 1>>).name \notin Names
        /\ Grown(f, dir).fat[n] # FAT12_FREE
        /\ \E x \in Cluster : Grown(f, dir).fat[x] = n
        /\ Good(f, es2, D, fit)
        /\ n \in BlockSet(Grown(f, dir).fat, dir)
        /\ Whole(f, es, D) => Whole(Grown(f, dir).fat, es2, D)
    <3> DEFINE g == Grown(f, dir).fat
    <3>1. n = NewCluster(f) /\ g = Grown(f, dir).fat /\ es2 = Zeroed(es, n, EmptyDir)
      OBVIOUS
    <3> HIDE DEF n, g, es2
    <3>2. Good(f, es, D, fit) /\ dir \in D \ {Root} /\ Unused(f) # {}
      BY <1>1, <2>2, <2>3
    <3>3. Regrown(f, es, D, fit, dir, n, g, es2)
      BY <3>1, <3>2, GrownIsGood
    <3> QED
      BY <3>3 DEF Regrown, g
  <2>5. /\ l.slot = <<n, 1>> /\ l.fat \in Tables /\ l.fat = Grown(f, dir).fat
        /\ l.items = WriteDir(l.fat, n, EmptyDir) \o fat_flush(l.fat)
    BY <1>1, <2>2, <2>3, GrownIs
  <2> HIDE DEF n
  <2>6. ASSUME NEW act PROVE Leads(act, OnDisk(f, es), l.items, OnDisk(l.fat, es2))
    <3>1. EmptyDir \in [1..DirEntries -> Entries]
      BY EmptyDirIs
    <3>2. Fine(f, es) /\ Fine(f, es2) /\ Fine(l.fat, es2)
      <4> HIDE DEF es2
      <4> QED
        BY <2>4, <2>5, GoodIsLoose
    <3>3. Leads(act, OnDisk(f, es), WriteDir(l.fat, n, EmptyDir), OnDisk(f, es2))
      BY <1>1, <2>4, <2>5, <3>1, <3>2, LeadsDir
    <3> HIDE DEF es2
    <3>4. Leads(act, OnDisk(f, es2), fat_flush(l.fat), OnDisk(l.fat, es2))
      BY <1>1, <2>5, <3>2, LeadsFlush
    <3> QED
      BY <2>5, <3>3, <3>4, LeadsOn
  <2> HIDE DEF es2
  <2>7. l.slot[1] \notin Unused(l.fat)
    BY <2>4, <2>5 DEF Unused
  <2> QED
    BY <2>4, <2>5, <2>6, <2>7 DEF Prepared
<1> QED
  BY <1>4, <1>5
---------------------------------------------------------------------------
(* What the operations come to in a good cover.                            *)

LEMMA PutTwice ==
    ASSUME NEW es, EntriesOK(es), NEW s \in SlotSet, NEW e, NEW e2
    PROVE  /\ Put(Put(es, s, e2), s, e) = Put(es, s, e)
           /\ Put(es, s, At(es, s)) = es
<1> DEFINE c == s[1]
           i == s[2]
<1>1. c \in Cluster \cup {Root} /\ i \in 1..InBlock(c)
  BY DEF SlotSet
<1>2. es \in [Cluster \cup {Root} -> Blocks] /\ es[c] \in [1..InBlock(c) -> Entries]
  BY <1>1 DEF EntriesOK
<1>3. \A x : Put(es, s, x) = [es EXCEPT ![c] = [es[c] EXCEPT ![i] = x]]
  BY DEF Put
<1>4. Put(Put(es, s, e2), s, e) = [Put(es, s, e2) EXCEPT ![c] = [Put(es, s, e2)[c] EXCEPT ![i] = e]]
  BY DEF Put
<1>5. Put(es, s, e2)[c] = [es[c] EXCEPT ![i] = e2]
  BY <1>1, <1>2, <1>3
<1>6. [[es[c] EXCEPT ![i] = e2] EXCEPT ![i] = e] = [es[c] EXCEPT ![i] = e]
  BY <1>1, <1>2
<1>7. Put(Put(es, s, e2), s, e) = Put(es, s, e)
  <2> DEFINE a == [es[c] EXCEPT ![i] = e2]
             b == [es[c] EXCEPT ![i] = e]
  <2>1. Put(Put(es, s, e2), s, e) = [[es EXCEPT ![c] = a] EXCEPT ![c] = b]
    BY <1>3, <1>4, <1>5, <1>6
  <2> HIDE DEF a, b
  <2>2. [[es EXCEPT ![c] = a] EXCEPT ![c] = b] = [es EXCEPT ![c] = b]
    BY <1>1, <1>2
  <2> QED
    BY <1>3, <2>1, <2>2 DEF b
<1>8. [es[c] EXCEPT ![i] = es[c][i]] = es[c]
  BY <1>1, <1>2
<1>9. Put(es, s, At(es, s)) = es
  BY <1>1, <1>2, <1>3, <1>8 DEF At
<1> QED
  BY <1>7, <1>9

\* A file's entry in place of one in use: its chain is what the old chain or
\* free clusters have become.
Replaces(f, s, es, g, e, fit) ==
    /\ g \in Tables /\ e \in Entries /\ ~e.dir /\ e.name \in Names
    /\ \A c \in Cluster : g[c] = f[c] \/ c \in Chain(f, At(es, s).first) \/ f[c] = FAT12_FREE
    /\ Proper(g, e.first) /\ Fits(g, e, fit)
    /\ Chain(g, e.first) \subseteq Chain(f, At(es, s).first) \cup Unused(f)

LEMMA Replaced ==
    ASSUME NEW f, NEW es, NEW D, NEW fit, Good(f, es, D, fit), NEW s \in Used(f, es, D),
           NEW g, NEW e, Replaces(f, s, es, g, e, fit)
    PROVE  \E D2 : /\ Good(g, Put(es, s, e), D2, fit)
                   /\ Whole(f, es, D) /\ ~At(es, s).dir /\ Leaves(f, Chain(f, At(es, s).first), g, e)
                         => Whole(g, Put(es, s, e), D2)
<1> DEFINE K == Chain(f, At(es, s).first)
           es1 == Put(es, s, Gone)
           D1 == IF At(es, s).dir THEN D \ {At(es, s).first} ELSE D
<1>1. /\ f \in Tables /\ EntriesOK(es)
      /\ s \in SlotSet /\ Gone \in Entries /\ Gone.name \notin Names
  BY GoodFacts, EmptyDirIs, NamesAssumption DEF Used, Gone, NoEntry
<1>2. /\ g \in Tables /\ e \in Entries /\ ~e.dir /\ e.name # DATA
      /\ \A c \in Cluster : g[c] = f[c] \/ c \in K \/ f[c] = FAT12_FREE
      /\ Proper(g, e.first) /\ Fits(g, e, fit)
      /\ Chain(g, e.first) \subseteq K \cup Unused(f)
  BY NamesAssumption DEF Replaces
<1>3. At(es1, s) = Gone
  BY <1>1, PutIs
<1>4. /\ Good(g, es1, D1, fit)
      /\ \A h \in Heads(g, es1, D1) : Chain(g, h) \cap (K \cup Unused(f)) = {}
  <2>1. K = Chain(f, At(es, s).first) /\ D1 = IF At(es, s).dir THEN D \ {At(es, s).first} ELSE D
    OBVIOUS
  <2> HIDE DEF K, D1
  <2> QED
    BY <1>2, <2>1, Cleared
<1>8. D1 = IF At(es, s).dir THEN D \ {At(es, s).first} ELSE D
  OBVIOUS
<1>9. K = IF s \in Used(f, es, D) THEN Chain(f, At(es, s).first) ELSE {}
  OBVIOUS
<1> HIDE DEF K, D1
<1>5. Put(es1, s, e) = Put(es, s, e)
  BY <1>1, PutTwice
<1> HIDE DEF es1
<1>6. Linkable(g, es1, D1, fit, s, e)
  BY <1>1, <1>2, <1>3, <1>4 DEF Linkable
<1>7. Good(g, Put(es1, s, e), IF e.dir THEN D1 \cup {e.first} ELSE D1, fit)
  <2> DEFINE D2 == IF e.dir THEN D1 \cup {e.first} ELSE D1
  <2>1. D2 = IF e.dir THEN D1 \cup {e.first} ELSE D1
    OBVIOUS
  <2> HIDE DEF D2
  <2>2. Good(g, Put(es1, s, e), D2, fit)
    BY <1>4, <1>6, <2>1, Linked
  <2> QED
    BY <2>1, <2>2
<1>10. ASSUME Whole(f, es, D), ~At(es, s).dir, Leaves(f, K, g, e) PROVE Whole(g, Put(es, s, e), D)
  <2> DEFINE es2 == Put(es, s, e)
  <2>1. At(es2, s) = e /\ \A t \in Used(f, es, D) : t # s => At(es2, t) = At(es, t)
    BY <1>1, <1>2, PutIs DEF Used
  <2>2. D = IF e.dir THEN D \cup {e.first} ELSE D
    BY <1>2
  <2>3. e.name \in Names /\ \E d \in D : s[1] \in BlockSet(f, d)
    BY DEF Replaces, Used
  <2> HIDE DEF es2
  <2>4. Whole(g, es2, D)
    BY <1>1, <1>2, <1>9, <1>10, <2>1, <2>2, <2>3, WholeWithEntry
  <2> QED
    BY <2>4 DEF es2
<1>11. Good(g, Put(es, s, e), D1, fit)
  BY <1>2, <1>5, <1>7
<1> QED
  BY <1>8, <1>10, <1>11 DEF K

\* A file's entry in a slot that is not in use, with a chain that was free.
Adds(f, es, s, g, e, fit) ==
    /\ g \in Tables /\ e \in Entries /\ ~e.dir /\ e.name \in Names
    /\ s \in SlotSet /\ At(es, s).name \notin Names
    /\ \A c \in Cluster : g[c] = f[c] \/ f[c] = FAT12_FREE
    /\ Proper(g, e.first) /\ Fits(g, e, fit)
    /\ Chain(g, e.first) \subseteq Unused(f)

LEMMA Added ==
    ASSUME NEW f, NEW es, NEW D, NEW fit, Good(f, es, D, fit), NEW s,
           NEW g, NEW e, Adds(f, es, s, g, e, fit)
    PROVE  \E D2 : /\ Good(g, Put(es, s, e), D2, fit)
                   /\ Whole(f, es, D) /\ (\E d \in D : s[1] \in BlockSet(f, d)) /\ Leaves(f, {}, g, e)
                         => Whole(g, Put(es, s, e), D2)
<1>1. EntriesOK(es)
  BY GoodFacts
<1>2. /\ g \in Tables /\ e \in Entries /\ ~e.dir /\ e.name # DATA
      /\ s \in SlotSet /\ At(es, s).name \notin Names
      /\ \A c \in Cluster : g[c] = f[c] \/ f[c] = FAT12_FREE
      /\ Proper(g, e.first) /\ Fits(g, e, fit)
      /\ Chain(g, e.first) \subseteq Unused(f)
  BY NamesAssumption DEF Adds
<1>3. /\ Good(g, es, D, fit)
      /\ \A h \in Heads(g, es, D) : Chain(g, h) \cap Unused(f) = {}
  BY <1>1, <1>2, Untouched
<1>4. Linkable(g, es, D, fit, s, e)
  BY <1>2, <1>3 DEF Linkable
<1> DEFINE D2 == IF e.dir THEN D \cup {e.first} ELSE D
<1>5. D2 = IF e.dir THEN D \cup {e.first} ELSE D
  OBVIOUS
<1> HIDE DEF D2
<1>6. Good(g, Put(es, s, e), D2, fit)
  BY <1>3, <1>4, <1>5, Linked
<1>7. ASSUME Whole(f, es, D), \E d \in D : s[1] \in BlockSet(f, d), Leaves(f, {}, g, e)
      PROVE  Whole(g, Put(es, s, e), D2)
  <2> DEFINE es2 == Put(es, s, e)
             K == {}
  <2>1. At(es2, s) = e /\ \A t \in Used(f, es, D) : t # s => At(es2, t) = At(es, t)
    BY <1>1, <1>2, PutIs DEF Used
  <2>2. s \notin Used(f, es, D)
    BY <1>2 DEF Used
  <2>3. K = IF s \in Used(f, es, D) THEN Chain(f, At(es, s).first) ELSE {}
    BY <2>2
  <2>4. e.name \in Names /\ Leaves(f, K, g, e) /\ \A c \in Cluster : g[c] = f[c] \/ c \in K \/ f[c] = FAT12_FREE
    BY <1>2, <1>7 DEF Adds
  <2> HIDE DEF es2, K
  <2>5. Whole(g, es2, D2)
    BY <1>2, <1>5, <1>7, <2>1, <2>2, <2>3, <2>4, WholeWithEntry
  <2> QED
    BY <2>5 DEF es2
<1> QED
  BY <1>6, <1>7

\* The operation writes X, which makes the entries es2 of es, and returns with
\* a table that is good for them, as good as before if it succeeds, and then
\* without a lost cluster if there was none before and no directory was emptied;
\* what a restart finds is good for them, too.
Comes(o, act, f, es, D, fit) ==
    o.code # "wild" =>
    \E X, F, g, es2, D2, fit2 :
       /\ o.items = X \o Return(F, o.code) /\ o.code \in {"ok", "full"}
       /\ Leads(act, OnDisk(f, es), X, OnDisk(g, es2)) /\ Fine(g, es2)
       /\ Good(F, es2, D2, fit2)
       /\ o.code = "ok" => fit2 = fit
       /\ o.code = "ok" /\ ~o.emptied /\ Whole(f, es, D) => Whole(F, es2, D2)

LEMMA OutcomeComes ==
    ASSUME NEW act, NEW f, NEW es, NEW X, NEW g, NEW es2, Leads(act, OnDisk(f, es), X, OnDisk(g, es2)),
           Fine(g, es2), NEW F, NEW D, NEW D2, NEW fit2, Good(F, es2, D2, fit2),
           NEW code \in {"ok", "full"}, NEW fit, code = "ok" => fit2 = fit
    PROVE  /\ Comes([Outcome(X, F, code) EXCEPT !.emptied = TRUE], act, f, es, D, fit)
           /\ (code = "ok" /\ Whole(f, es, D) => Whole(F, es2, D2)) =>
                 /\ Comes(Outcome(X, F, code), act, f, es, D, fit)
                 /\ Comes([Outcome(X, F, code) EXCEPT !.emptied = FALSE], act, f, es, D, fit)
<1> DEFINE Kept == code = "ok" /\ Whole(f, es, D) => Whole(F, es2, D2)
<1>1. ASSUME NEW o, o.items = X \o Return(F, code), o.code = code, o.emptied \/ Kept
      PROVE  Comes(o, act, f, es, D, fit)
  BY <1>1 DEF Comes
<1> DEFINE o == Outcome(X, F, code)
<1>2. o = [items |-> X \o Return(F, code), code |-> code, emptied |-> FALSE]
  BY DEF Outcome
<1>3. o.items = X \o Return(F, code) /\ o.code = code
  BY <1>2
<1>4. ASSUME NEW z \in BOOLEAN
      PROVE  LET o2 == [o EXCEPT !.emptied = z] IN
             o2.items = X \o Return(F, code) /\ o2.code = code /\ o2.emptied = z
  BY <1>2
<1> HIDE DEF o, Kept
<1>5. Kept => Comes(o, act, f, es, D, fit)
  BY <1>1, <1>3
<1>6. Comes([o EXCEPT !.emptied = TRUE], act, f, es, D, fit)
  BY <1>1, <1>4
<1>7. Kept => Comes([o EXCEPT !.emptied = FALSE], act, f, es, D, fit)
  BY <1>1, <1>4
<1> QED
  BY <1>5, <1>6, <1>7 DEF o, Kept

LEMMA DerailedComes == \A act, f, es, D, fit : Comes(Derailed, act, f, es, D, fit)
BY DEF Comes, Derailed

\* The lookup of an operation, in a cover.
LEMMA LookupInCover ==
    ASSUME fat \in Tables, disk \in Disks, NEW D, NEW fit, Good(fat, disk.entries, D, fit),
           NEW p \in Paths, NEW create \in BOOLEAN, NEW l \in Lookup(p, create)
    PROVE  /\ NameOf(p) \in Names /\ l.slot \in SlotSet /\ l.fat \in Tables
           /\ resolve_path(fat, disk.entries, p) \in D
           /\ l.exists => /\ l.slot \in Used(fat, disk.entries, D)
                          /\ l.fat = fat /\ l.items = <<>>
           /\ ~l.exists /\ l.r = 0 => \A act : Prepared(act, l, fat, disk.entries, D, fit)
<1> DEFINE dir == resolve_path(fat, disk.entries, p)
           es == disk.entries
           name == NameOf(p)
<1>1. /\ l \in Lookups /\ dir \in Cluster \cup {Root} /\ l = dir_lookup(fat, es, dir, name, create)
      /\ l.exists => l.fat = fat /\ l.items = <<>>
  BY LookupsAre
<1>2. name \in Names
  BY LookupsAre, ResolveIs
<1>3. dir \in D \cup {NULL}
  BY ResolvesInCover
<1>4. dir \in D
  <2>1. NULL \notin Cluster \cup {Root}
    BY DEF NULL, Cluster, Root
  <2> HIDE DEF dir
  <2> QED
    BY <1>1, <1>3, <2>1
<1>5. D \in SUBSET (Cluster \cup {Root}) /\ l.slot \in SlotSet /\ l.fat \in Tables
  BY <1>1, GoodFacts DEF Lookups
<1> HIDE DEF dir, es, name
<1>6. l.exists => l.slot \in Used(fat, es, D)
  BY <1>1, <1>2, <1>4, <1>5, FoundIsUsed
<1>7. ~l.exists /\ l.r = 0 => \A act : Prepared(act, l, fat, es, D, fit)
  <2>1. Good(fat, es, D, fit)
    BY DEF es
  <2> QED
    BY <1>1, <1>2, <1>4, <2>1, LookupPrepares
<1> QED
  BY <1>1, <1>2, <1>4, <1>5, <1>6, <1>7 DEF dir, es, name

\* An empty file.
LEMMA EmptyFile ==
    ASSUME NEW f \in Tables, NEW name \in Names, NEW fit
    PROVE  LET e == Entry(name, FALSE, 0, 0) IN
           /\ e \in Entries /\ e.name \in Names /\ ~e.dir
           /\ Proper(f, e.first) /\ Chain(f, e.first) = {}
           /\ Fits(f, e, fit)
<1> DEFINE e == Entry(name, FALSE, 0, 0)
<1>1. e.first = 0 /\ e.size = 0 /\ ~e.dir /\ e \in Entries /\ e.name \in Names
  BY DEF Entry, Entries
<1>2. 0 \notin Cluster
  BY DEF Cluster
<1> HIDE DEF e
<1>3. Chain(f, e.first) = {} /\ Proper(f, e.first) /\ Cardinality(Chain(f, e.first)) = 0
  BY <1>1, <1>2, NoChain
<1>4. Fits(f, e, fit)
  BY <1>1, <1>3, Sizes DEF Fits
<1> QED
  BY <1>1, <1>3, <1>4 DEF e

LEMMA WriteFileComes ==
    ASSUME fat \in Tables, disk \in Disks, NEW D, NEW fit, Good(fat, disk.entries, D, fit),
           NEW p \in Paths, NEW o \in fat_write_file(p)
    PROVE  Comes(o, "truncate", fat, disk.entries, D, fit)
<1>1. PICK l \in Lookup(p, TRUE) :
         /\ l.r # 2
         /\ LET old == At(disk.entries, l.slot)
                f == IF l.exists THEN fat_free_chain(fat, old.first) ELSE l.fat
            IN  o = IF l.r = 3 THEN Derailed
                    ELSE [Outcome(l.items \o fat_flush(f)
                                  \o WriteEntry(f, l.slot, Entry(NameOf(p), FALSE, 0, 0)), f, "ok")
                          EXCEPT !.emptied = l.exists /\ old.dir]
  BY DEF fat_write_file
<1> DEFINE es == disk.entries
           old == At(disk.entries, l.slot)
           s == l.slot
           f == IF l.exists THEN fat_free_chain(fat, old.first) ELSE l.fat
           e == Entry(NameOf(p), FALSE, 0, 0)
           X == l.items \o fat_flush(f) \o WriteEntry(f, l.slot, e)
<1>2. /\ NameOf(p) \in Names /\ s \in SlotSet /\ l.fat \in Tables /\ l \in Lookups
      /\ l.exists => s \in Used(fat, es, D) /\ l.fat = fat /\ l.items = <<>>
      /\ ~l.exists /\ l.r = 0 => \A act : Prepared(act, l, fat, es, D, fit)
  BY LookupInCover, LookupsAre
<1>3. CASE l.r = 3
  BY <1>1, <1>3, DerailedComes
<1>4. CASE l.r # 3
  <2>1. l.r = 0
    BY <1>1, <1>2, <1>4 DEF Lookups
  <2>2. o = [Outcome(X, f, "ok") EXCEPT !.emptied = l.exists /\ old.dir]
    BY <1>1, <1>4
  <2>3. f \in Tables
    BY <1>2, FreeChainIs
  <2>4. /\ e \in Entries /\ e.name \in Names /\ ~e.dir
        /\ Proper(f, e.first) /\ Chain(f, e.first) = {} /\ Fits(f, e, fit)
    BY <1>2, <2>3, EmptyFile
  <2>5. \E es2 : /\ Leads("truncate", OnDisk(fat, es), l.items, OnDisk(l.fat, es2)) /\ Fine(l.fat, es2)
                 /\ \E D2 : /\ Good(f, Put(es2, s, e), D2, fit)
                            /\ Whole(fat, es, D) /\ ~(l.exists /\ old.dir) => Whole(f, Put(es2, s, e), D2)
    <3>1. CASE l.exists
      <4>1. \A c \in Cluster : f[c] = fat[c] \/ c \in Chain(fat, At(es, s).first) \/ fat[c] = FAT12_FREE
        BY <3>1, FreeChainIs
      <4>6. Leaves(fat, Chain(fat, At(es, s).first), f, e)
        BY <3>1 DEF Leaves, fat_free_chain
      <4>7. ~(l.exists /\ old.dir) => ~At(es, s).dir
        BY <3>1
      <4> HIDE DEF f, e, old
      <4>2. Replaces(fat, s, es, f, e, fit)
        BY <2>3, <2>4, <4>1 DEF Replaces
      <4>3. s \in Used(fat, es, D) /\ l.items = <<>>
        BY <1>2, <3>1
      <4> HIDE DEF s, es
      <4>4. Good(fat, es, D, fit)
        BY DEF es
      <4>5. \E D2 : /\ Good(f, Put(es, s, e), D2, fit)
                    /\ Whole(fat, es, D) /\ ~(l.exists /\ old.dir) => Whole(f, Put(es, s, e), D2)
        BY <4>2, <4>3, <4>4, <4>6, <4>7, Replaced
      <4> QED
        BY <1>2, <3>1, <4>3, <4>4, <4>5, LeadsNone, GoodIsLoose
    <3>2. CASE ~l.exists
      <4>0. Prepared("truncate", l, fat, es, D, fit)
        BY <1>2, <2>1, <3>2
      <4>1. PICK es2 : /\ Leads("truncate", OnDisk(fat, es), l.items, OnDisk(l.fat, es2))
                       /\ Good(l.fat, es2, D, fit) /\ At(es2, s).name \notin Names
                       /\ \E d \in D : s[1] \in BlockSet(l.fat, d)
                       /\ Whole(fat, es, D) => Whole(l.fat, es2, D)
        BY <4>0 DEF Prepared
      <4>2. f = l.fat
        BY <3>2
      <4>5. Leaves(l.fat, {}, f, e)
        BY <4>2 DEF Leaves
      <4> HIDE DEF f, e
      <4>3. Adds(l.fat, es2, s, f, e, fit)
        BY <1>2, <2>3, <2>4, <4>1, <4>2 DEF Adds
      <4> HIDE DEF s
      <4>4. \E D2 : /\ Good(f, Put(es2, s, e), D2, fit)
                    /\ Whole(fat, es, D) => Whole(f, Put(es2, s, e), D2)
        BY <4>1, <4>3, <4>5, Added
      <4> QED
        BY <4>1, <4>4, GoodIsLoose
    <3> QED
      BY <3>1, <3>2
  <2>6. PICK es2, D2 : /\ Leads("truncate", OnDisk(fat, es), l.items, OnDisk(l.fat, es2)) /\ Fine(l.fat, es2)
                       /\ Good(f, Put(es2, s, e), D2, fit)
                       /\ Whole(fat, es, D) /\ ~(l.exists /\ old.dir) => Whole(f, Put(es2, s, e), D2)
    BY <2>5
  <2>7. Leads("truncate", OnDisk(fat, es), X, OnDisk(f, Put(es2, s, e)))
    <3> HIDE DEF f, e, s
    <3>1. Leads("truncate", OnDisk(l.fat, es2), fat_flush(f), OnDisk(f, es2))
      BY <1>2, <2>3, <2>6, LeadsFlush
    <3>2. Leads("truncate", OnDisk(f, es2), WriteEntry(f, s, e), OnDisk(f, Put(es2, s, e)))
      BY <1>2, <2>3, <2>4, LeadsEntry
    <3>3. Leads("truncate", OnDisk(fat, es), l.items \o fat_flush(f), OnDisk(f, es2))
      BY <2>6, <3>1, LeadsOn
    <3>4. Leads("truncate", OnDisk(fat, es), (l.items \o fat_flush(f)) \o WriteEntry(f, s, e), OnDisk(f, Put(es2, s, e)))
      BY <3>2, <3>3, LeadsOn
    <3> QED
      BY <3>4 DEF s
  <2> DEFINE z == l.exists /\ old.dir
  <2>9. z \in BOOLEAN
    OBVIOUS
  <2>10. o = [Outcome(X, f, "ok") EXCEPT !.emptied = z]
    BY <2>2
  <2>13. Whole(fat, es, D) /\ ~z => Whole(f, Put(es2, s, e), D2)
    BY <2>6
  <2> HIDE DEF X, f, e, z
  <2>8. /\ Comes([Outcome(X, f, "ok") EXCEPT !.emptied = TRUE], "truncate", fat, es, D, fit)
        /\ ~z => Comes([Outcome(X, f, "ok") EXCEPT !.emptied = FALSE], "truncate", fat, es, D, fit)
    BY <2>6, <2>7, <2>13, OutcomeComes, GoodIsLoose
  <2>11. CASE z = TRUE
    BY <2>8, <2>10, <2>11, Zenon
  <2>12. CASE z = FALSE
    BY <2>8, <2>10, <2>12, Zenon
  <2> QED
    BY <2>9, <2>11, <2>12
<1> QED
  BY <1>3, <1>4

LEMMA DeleteComes ==
    ASSUME fat \in Tables, disk \in Disks, NEW D, NEW fit, Good(fat, disk.entries, D, fit),
           NEW p \in Paths, NEW o \in fat_delete_file(p) \cup fat_rmdir(p)
    PROVE  /\ o \in fat_delete_file(p) => Comes(o, "unlink", fat, disk.entries, D, fit)
           /\ o \in fat_rmdir(p) => Comes(o, "rmdir", fat, disk.entries, D, fit)
<1> DEFINE F(l) == fat_free_chain(fat, At(disk.entries, l.slot).first)
           es == disk.entries
<1>0. SUFFICES ASSUME NEW act, \/ act = "unlink" /\ o \in fat_delete_file(p)
                               \/ act = "rmdir" /\ o \in fat_rmdir(p)
               PROVE  Comes(o, act, fat, disk.entries, D, fit)
  OBVIOUS
<1>1. PICK l \in Lookup(p, FALSE) :
         /\ l.exists
         /\ At(disk.entries, l.slot).dir => Removable(At(disk.entries, l.slot))
         /\ \/ act = "unlink" /\ o = Outcome(fat_delete_items(F(l), l.slot), F(l), "ok")
            \/ act = "rmdir" /\ o = Outcome(fat_flush(F(l)) \o WriteEntry(F(l), l.slot, Gone), F(l), "ok")
  BY <1>0 DEF fat_delete_file, fat_rmdir
<1> DEFINE s == l.slot
           f == F(l)
           K == Chain(fat, At(es, s).first)
           es2 == Put(es, s, Gone)
           D2 == IF At(es, s).dir THEN D \ {At(es, s).first} ELSE D
<1>2. s \in Used(fat, es, D) /\ s \in SlotSet
  BY <1>1, LookupInCover
<1>3. f \in Tables /\ \A c \in Cluster : f[c] = fat[c] \/ c \in K
  BY FreeChainIs
<1>13. \A c \in Cluster : f[c] # FAT12_FREE => c \notin K
  BY DEF fat_free_chain
<1>14. ASSUME At(es, s).dir, NEW t \in Used(fat, es, D) PROVE t[1] \notin BlockSet(fat, At(es, s).first)
  <2> DEFINE d == At(es, s).first
  <2>1. d \in Cluster /\ dir_is_empty(fat, es, d)
    BY <1>1, <1>14 DEF Removable
  <2>2. d \in Heads(fat, es, D) /\ d \in Cluster \cup {Root}
    BY <1>2, <2>1 DEF Heads
  <2>3. Proper(fat, d)
    BY <2>2, GoodFacts
  <2>4. t \in SlotSet /\ At(es, t).name \in Names
    BY DEF Used
  <2> HIDE DEF d, s, es
  <2>5. ASSUME t[1] \in BlockSet(fat, d) PROVE FALSE
    <3>1. PICK k \in DOMAIN Slots(fat, d) : t = Slots(fat, d)[k]
      BY <2>2, <2>3, <2>4, <2>5, SlotHasPlace
    <3> QED
      BY <2>1, <2>4, <3>1 DEF dir_is_empty
  <2> QED
    BY <2>5 DEF d
<1> HIDE DEF F
<1>4. Good(f, es2, D2, fit) /\ Good(fat, es2, D2, fit)
  <2>1. K = Chain(fat, At(es, s).first) /\ D2 = IF At(es, s).dir THEN D \ {At(es, s).first} ELSE D
    OBVIOUS
  <2>2. /\ Good(fat, es, D, fit) /\ \A c \in Cluster : f[c] = fat[c] \/ c \in K \/ fat[c] = FAT12_FREE
        /\ \A c \in Cluster : fat[c] = fat[c] \/ c \in K \/ fat[c] = FAT12_FREE
    BY <1>3
  <2> HIDE DEF K, D2, f, es, s
  <2> QED
    BY <1>2, <1>3, <2>1, <2>2, Cleared
<1>5. Good(fat, es, D, fit)
  OBVIOUS
<1>15. Whole(fat, es, D) => Whole(f, es2, D2)
  <2>1. K = Chain(fat, At(es, s).first) /\ D2 = IF At(es, s).dir THEN D \ {At(es, s).first} ELSE D
    OBVIOUS
  <2>2. \A t \in Used(fat, es, D) : t # s => At(es2, t) = At(es, t)
    <3>1. EntriesOK(es) /\ Gone \in Entries
      BY GoodFacts, EmptyDirIs
    <3> QED
      BY <1>2, <3>1, PutIs DEF Used
  <2> HIDE DEF K, D2, f, es, es2, s
  <2> QED
    BY <1>2, <1>3, <1>5, <1>13, <1>14, <2>1, <2>2, WholeWithout
<1> DEFINE Y == WriteEntry(f, s, Gone)
<1>7. fat_delete_items(F(l), l.slot) = Y \o fat_flush(f)
  BY DEF fat_delete_items
<1>8. fat_flush(F(l)) \o WriteEntry(F(l), l.slot, Gone) = fat_flush(f) \o Y
  OBVIOUS
<1>11. es2 = Put(es, s, Gone) /\ Gone \in Entries
  BY EmptyDirIs
<1> HIDE DEF f, s, D2, es2, es
<1>9. Fine(fat, es) /\ Fine(fat, es2) /\ Fine(f, es2)
  BY <1>4, <1>5, GoodIsLoose
<1>10. CASE act = "unlink"
  <2>1. Leads("unlink", OnDisk(fat, es), Y, OnDisk(fat, es2))
    BY <1>2, <1>3, <1>9, <1>11, LeadsEntry
  <2>2. Leads("unlink", OnDisk(fat, es2), fat_flush(f), OnDisk(f, es2))
    BY <1>3, <1>9, LeadsFlush
  <2> HIDE DEF Y
  <2>3. Leads("unlink", OnDisk(fat, es), Y \o fat_flush(f), OnDisk(f, es2))
    BY <2>1, <2>2, LeadsOn
  <2>4. Comes(Outcome(Y \o fat_flush(f), f, "ok"), "unlink", fat, es, D, fit)
    BY <1>4, <1>9, <1>15, <2>3, OutcomeComes
  <2> QED
    BY <1>1, <1>7, <1>10, <2>4 DEF es, f
<1>12. CASE act = "rmdir"
  <2>1. Leads("rmdir", OnDisk(fat, es), fat_flush(f), OnDisk(f, es))
    BY <1>3, <1>9, LeadsFlush
  <2>2. Leads("rmdir", OnDisk(f, es), Y, OnDisk(f, es2))
    BY <1>2, <1>3, <1>11, LeadsEntry
  <2> HIDE DEF Y
  <2>3. Leads("rmdir", OnDisk(fat, es), fat_flush(f) \o Y, OnDisk(f, es2))
    BY <2>1, <2>2, LeadsOn
  <2>4. Comes(Outcome(fat_flush(f) \o Y, f, "ok"), "rmdir", fat, es, D, fit)
    BY <1>4, <1>9, <1>15, <2>3, OutcomeComes
  <2> QED
    BY <1>1, <1>8, <1>12, <2>4 DEF es, f
<1> QED
  BY <1>0, <1>10, <1>12

LEMMA MkdirComes ==
    ASSUME fat \in Tables, disk \in Disks, NEW D, NEW fit, Good(fat, disk.entries, D, fit),
           NEW p \in Paths, NEW o \in fat_mkdir(p)
    PROVE  Comes(o, "mkdir", fat, disk.entries, D, fit)
<1> DEFINE parent == resolve_path(fat, disk.entries, p)
           C(l) == NewCluster(l.fat)
           F(l) == Allocate(l.fat)
           es == disk.entries
<1>1. PICK l \in Lookup(p, TRUE) :
         /\ l.r = 0 /\ ~l.exists
         /\ \/ /\ Unused(l.fat) # {}
               /\ o = Outcome(l.items \o WriteDir(F(l), C(l), FirstBlock(C(l), parent)) \o fat_flush(F(l))
                              \o WriteEntry(F(l), l.slot, Entry(NameOf(p), TRUE, C(l), 0)), F(l), "ok")
            \/ o = Outcome(l.items, l.fat, "full")
  BY DEF fat_mkdir
<1> DEFINE s == l.slot
           f == F(l)
           c == C(l)
           block == FirstBlock(c, parent)
           e == Entry(NameOf(p), TRUE, c, 0)
<1>2. /\ NameOf(p) \in Names /\ s \in SlotSet /\ l.fat \in Tables /\ parent \in D
      /\ Prepared("mkdir", l, fat, es, D, fit) /\ D \subseteq Cluster \cup {Root}
  BY <1>1, LookupInCover, GoodFacts
<1> HIDE DEF parent
<1>3. PICK es2 : /\ Leads("mkdir", OnDisk(fat, es), l.items, OnDisk(l.fat, es2)) /\ Good(l.fat, es2, D, fit)
                 /\ At(es2, s).name \notin Names /\ s[1] \notin Unused(l.fat)
                 /\ \E d \in D : s[1] \in BlockSet(l.fat, d)
                 /\ Whole(fat, es, D) => Whole(l.fat, es2, D)
  BY <1>2 DEF Prepared
<1>4. CASE o = Outcome(l.items, l.fat, "full")
  <2>1. Good(l.fat, es2, D, "loose") /\ Fine(l.fat, es2)
    BY <1>3, GoodIsLoose
  <2> QED
    BY <1>3, <1>4, <2>1, OutcomeComes
<1>5. CASE /\ Unused(l.fat) # {}
           /\ o = Outcome(l.items \o WriteDir(F(l), C(l), FirstBlock(C(l), parent)) \o fat_flush(F(l))
                          \o WriteEntry(F(l), l.slot, Entry(NameOf(p), TRUE, C(l), 0)), F(l), "ok")
  <2> DEFINE es3 == Zeroed(es2, c, block)
  <2>1. /\ f \in Tables /\ c \in Cluster /\ l.fat[c] = FAT12_FREE
        /\ \A x \in Cluster : f[x] = IF x = c THEN FAT12_EOC ELSE l.fat[x]
    BY <1>2, <1>5, AllocateIs
  <2>2. o = Outcome(l.items \o WriteDir(f, c, block) \o fat_flush(f) \o WriteEntry(f, s, e), f, "ok")
    BY <1>5
  <2> HIDE DEF F, C
  <2>3. block \in [1..DirEntries -> Entries] /\ e \in Entries
    BY <1>2, <2>1, FirstBlockIs, EntryIs
  <2>4. e.dir /\ e.first = c /\ e.name # DATA /\ e.name \in Names
    BY <1>2, NamesAssumption DEF Entry
  <2>5. \A i \in 1..DirEntries : block[i].name \notin Names \cup {DATA}
    <3>1. \A i \in 1..DirEntries : EmptyDir[i].name = END /\ EmptyDir \in [1..DirEntries -> Entries]
      BY EmptyDirIs DEF EmptyDir, NoEntry
    <3>2. \A i \in 1..DirEntries : block[i] = Entry(".", TRUE, c, 0) \/ block[i] = Entry("..", TRUE, parent, 0) \/ block[i] = EmptyDir[i]
      BY <3>1 DEF FirstBlock
    <3>3. Entry(".", TRUE, c, 0).name = "." /\ Entry("..", TRUE, parent, 0).name = ".."
      BY DEF Entry
    <3> HIDE DEF block
    <3>4. \A i \in 1..DirEntries : block[i].name \in {END, ".", ".."}
      BY <3>1, <3>2, <3>3
    <3> QED
      BY <3>4, NamesAssumption, MarksDiffer
  <2> HIDE DEF block, e
  <2>6. /\ EntriesOK(es3)
        /\ \A t \in SlotSet : At(es3, t) = IF t[1] = c THEN block[t[2]] ELSE At(es2, t)
        /\ \A t \in SlotSet : t[1] = c => t[2] \in 1..DirEntries
    <3>1. EntriesOK(es2)
      BY <1>3, GoodFacts
    <3> QED
      BY <2>1, <2>3, <3>1, ZeroedIs
  <2>7. /\ Good(f, es2, D, fit) /\ Good(l.fat, es3, D, fit) /\ Good(f, es3, D, fit)
        /\ \A h \in Heads(f, es3, D) : Chain(f, h) \cap Unused(l.fat) = {}
    <3>1. \A x \in Cluster : f[x] = l.fat[x] \/ l.fat[x] = FAT12_FREE
      BY <2>1
    <3>2. c \in Unused(l.fat)
      BY <2>1 DEF Unused
    <3>3. \A t \in SlotSet : At(es3, t) = At(es2, t) \/ t[1] \in Unused(l.fat)
      BY <2>6, <3>2
    <3>4. /\ \A x \in Cluster : l.fat[x] = l.fat[x] \/ l.fat[x] = FAT12_FREE
          /\ \A t \in SlotSet : At(es2, t) = At(es2, t) \/ t[1] \in Unused(l.fat)
          /\ EntriesOK(es2)
      BY <1>3, GoodFacts
    <3> HIDE DEF es3, f, c
    <3>5. Good(f, es2, D, fit)
      BY <1>3, <2>1, <3>1, <3>4, Untouched
    <3>6. Good(l.fat, es3, D, fit)
      BY <1>2, <1>3, <2>6, <3>3, <3>4, Untouched
    <3>7. /\ Good(f, es3, D, fit)
          /\ \A h \in Heads(f, es3, D) : Chain(f, h) \cap Unused(l.fat) = {}
      BY <1>3, <2>1, <2>6, <3>1, <3>3, Untouched
    <3> QED
      BY <3>5, <3>6, <3>7
  <2>8. Chain(f, c) = {c} /\ Proper(f, c)
    <3>1. f[c] = FAT12_EOC
      BY <2>1
    <3> HIDE DEF f, c
    <3> QED
      BY <2>1, <3>1, OneCluster
  <2>9. c \in Unused(l.fat)
    BY <2>1 DEF Unused
  <2>10. At(es3, s).name \notin Names
    <3>1. s[1] # c
      BY <1>3, <2>9
    <3> QED
      BY <1>2, <1>3, <2>6, <3>1
  <2>11. \A t \in SlotSet : t[1] = c => t # s /\ At(es3, t).name \notin Names \cup {DATA}
    BY <1>3, <2>5, <2>6, <2>9
  <2>13. Leads("mkdir", OnDisk(fat, es), l.items \o WriteDir(f, c, block) \o fat_flush(f) \o WriteEntry(f, s, e),
               OnDisk(f, Put(es3, s, e)))
    <3>0. Fine(l.fat, es2) /\ Fine(f, es2) /\ Fine(l.fat, es3) /\ Fine(f, es3)
      <4> HIDE DEF es3, f
      <4> QED
        BY <1>3, <2>7, GoodIsLoose
    <3>1. Leads("mkdir", OnDisk(l.fat, es2), WriteDir(f, c, block), OnDisk(l.fat, es3))
      <4> HIDE DEF f, c
      <4> QED
        BY <1>2, <2>1, <2>3, <3>0, LeadsDir
    <3> HIDE DEF es3, f, c, es
    <3>2. Leads("mkdir", OnDisk(l.fat, es3), fat_flush(f), OnDisk(f, es3))
      BY <1>2, <2>1, <3>0, LeadsFlush
    <3>3. Leads("mkdir", OnDisk(f, es3), WriteEntry(f, s, e), OnDisk(f, Put(es3, s, e)))
      BY <1>2, <2>1, <2>3, <3>0, LeadsEntry
    <3>4. Leads("mkdir", OnDisk(fat, es), l.items \o WriteDir(f, c, block), OnDisk(l.fat, es3))
      BY <1>3, <3>1, LeadsOn
    <3>5. Leads("mkdir", OnDisk(fat, es), l.items \o WriteDir(f, c, block) \o fat_flush(f), OnDisk(f, es3))
      BY <3>2, <3>4, LeadsOn
    <3> QED
      BY <3>3, <3>5, LeadsOn
  <2> HIDE DEF es3
  <2>12. Linkable(f, es3, D, fit, s, e)
    <3>1. \A h \in Heads(f, es3, D) : Chain(f, h) \cap Chain(f, e.first) = {}
      BY <2>4, <2>7, <2>8, <2>9
    <3>2. Chain(f, e.first) = {c} /\ Proper(f, e.first) /\ e.first \in Cluster
      BY <2>1, <2>4, <2>8
    <3>3. \A t \in SlotSet : t[1] \in Chain(f, e.first) => t # s /\ At(es3, t).name \notin Names \cup {DATA}
      BY <2>11, <3>2
    <3> HIDE DEF f, c, s
    <3> QED
      BY <1>2, <2>3, <2>4, <2>10, <3>1, <3>2, <3>3 DEF Linkable, s
  <2> DEFINE D2 == IF e.dir THEN D \cup {e.first} ELSE D
  <2>14. D2 = IF e.dir THEN D \cup {e.first} ELSE D
    OBVIOUS
  <2> HIDE DEF D2, f, c, s
  <2>15. Good(f, Put(es3, s, e), D2, fit)
    BY <2>7, <2>12, <2>14, Linked
  <2>16. ASSUME Whole(l.fat, es2, D) PROVE Whole(f, Put(es3, s, e), D2)
    <3> DEFINE es4 == Put(es3, s, e)
               K == {}
    <3>1. At(es4, s) = e /\ \A t \in SlotSet : t # s => At(es4, t) = At(es3, t)
      BY <1>2, <2>3, <2>6, PutIs
    <3>2. ASSUME NEW t \in Used(l.fat, es2, D), t # s PROVE At(es4, t) = At(es2, t)
      <4>1. PICK d \in D : t \in SlotSet /\ t[1] \in BlockSet(l.fat, d)
        BY DEF Used
      <4>2. t[1] # c
        <5>1. CASE d = Root
          BY <2>1, <4>1, <5>1 DEF BlockSet, Root, Cluster
        <5>2. CASE d # Root
          <6>1. d \in Heads(l.fat, es2, D)
            BY <5>2 DEF Heads
          <6>2. Proper(l.fat, d)
            BY <1>3, <6>1, GoodFacts
          <6> QED
            BY <2>1, <4>1, <5>2, <6>2 DEF BlockSet, Proper
        <5> QED
          BY <5>1, <5>2
      <4> QED
        BY <2>6, <3>1, <3>2, <4>1, <4>2
    <3>3. s \notin Used(l.fat, es2, D)
      BY <1>3 DEF Used
    <3>4. K = IF s \in Used(l.fat, es2, D) THEN Chain(l.fat, At(es2, s).first) ELSE {}
      BY <3>3
    <3>5. Leaves(l.fat, K, f, e)
      BY <2>1, <2>4, <2>8 DEF Leaves
    <3>6. \A x \in Cluster : f[x] = l.fat[x] \/ x \in K \/ l.fat[x] = FAT12_FREE
      BY <2>1
    <3>7. s \in SlotSet
      BY <1>2 DEF s
    <3> HIDE DEF es4, K
    <3>8. Whole(f, es4, D2)
      BY <1>3, <2>1, <2>4, <2>14, <2>16, <3>1, <3>2, <3>3, <3>4, <3>5, <3>6, <3>7, WholeWithEntry
    <3> QED
      BY <3>8 DEF es4
  <2>17. Whole(fat, es, D) => Whole(f, Put(es3, s, e), D2)
    BY <1>3, <2>16
  <2> HIDE DEF es
  <2>18. Fine(f, Put(es3, s, e))
    BY <2>15, GoodIsLoose
  <2> QED
    BY <2>2, <2>13, <2>15, <2>17, <2>18, OutcomeComes DEF es
<1> QED
  BY <1>1, <1>4, <1>5
---------------------------------------------------------------------------
(* The loops of fat_write_at extend the chain as far as is needed.         *)

\* The chain that h has extended from that of first in f.
Extends(f, first, h) ==
    /\ h \in Stores
    /\ Proper(h.fat, h.first)
    /\ first \in Cluster => h.first = first
    /\ Chain(f, first) \subseteq Chain(h.fat, h.first)
    /\ Chain(h.fat, h.first) \subseteq Chain(f, first) \cup Unused(f)
    /\ \A c \in Cluster : h.fat[c] = f[c] \/ c \in Chain(f, first) \/ f[c] = FAT12_FREE
    /\ \A c \in Cluster : h.fat[c] # FAT12_FREE => f[c] # FAT12_FREE \/ c \in Chain(h.fat, h.first)

\* It is extended only where the next cluster, number i, is needed.
Reaches(f, first, h, i) ==
    LET n == Cardinality(Chain(h.fat, h.first))
        m == Cardinality(Chain(f, first))
    IN  /\ m <= n /\ i <= n /\ (n = m \/ n = i)
        /\ h.at = IF i = 0 THEN 0 ELSE ChainWalk(h.fat, h.first)[i - 1]

LEMMA StartExtends ==
    ASSUME NEW f \in Tables, NEW first \in Cluster \cup {0}, Proper(f, first)
    PROVE  Extends(f, first, Unstored(f, first)) /\ Reaches(f, first, Unstored(f, first), 0)
<1> DEFINE h == Unstored(f, first)
<1>1. h \in Stores /\ h.at = 0 /\ h.first = first /\ h.fat = f
  BY EmptySeq DEF Unstored, Stores
<1>2. Cardinality(Chain(f, first)) \in Nat
  BY ChainIsFinite
<1> HIDE DEF h
<1> QED
  BY <1>1, <1>2 DEF Extends, Reaches, h

\* A chain that got another cluster at its end begins as it did.
LEMMA LongerWalk ==
    ASSUME NEW f \in Tables, NEW g \in Tables, NEW d \in Cluster, Proper(f, d),
           NEW x, x = ChainWalk(f, d)[Cardinality(Chain(f, d)) - 1],
           \A y \in Chain(f, d) : y # x => g[y] = f[y]
    PROVE  \A k \in 0..(Cardinality(Chain(f, d)) - 1) : ChainWalk(g, d)[k] = ChainWalk(f, d)[k]
<1> DEFINE m == Cardinality(Chain(f, d))
           v == ChainWalk(f, d)
           w == ChainWalk(g, d)
<1>1. /\ m \in 1..(MaxCluster - 1) /\ \A k \in 0..(m - 1) : v[k] \in Chain(f, d)
  BY LastHasMark
<1>2. \A k \in 0..MaxCluster :
         /\ v[k] = IF k = 0 THEN d ELSE IF v[k - 1] = NULL THEN NULL ELSE ToEnd(f)[v[k - 1]]
         /\ w[k] = IF k = 0 THEN d ELSE IF w[k - 1] = NULL THEN NULL ELSE ToEnd(g)[w[k - 1]]
  BY WalkOfChain
<1>3. \A k \in 0..MaxCluster :
         \A j \in 0..MaxCluster : (j < k /\ v[k] # NULL) => v[j] # v[k]
  BY ProperWalk
<1>4. MaxCluster \in Nat /\ Chain(f, d) \subseteq Cluster /\ NULL \notin Cluster
  BY Sizes, ChainIsFinite, EndsIs
<1> HIDE DEF m, v, w
<1> DEFINE S == {k \in Nat : k <= m - 1 => w[k] = v[k]}
<1>5. 0 \in S
  BY <1>2, <1>4
<1>6. \A k \in Nat : k \in S => k + 1 \in S
  <2> SUFFICES ASSUME NEW k \in Nat, k \in S, k + 1 <= m - 1 PROVE w[k + 1] = v[k + 1]
    OBVIOUS
  <2>1. /\ k + 1 \in 0..MaxCluster /\ k + 1 # 0 /\ (k + 1) - 1 = k /\ w[k] = v[k]
        /\ k \in 0..(m - 1) /\ m - 1 \in 0..MaxCluster /\ k \in 0..MaxCluster /\ k < m - 1 /\ m - 1 \in 0..(m - 1)
    BY <1>1, <1>4
  <2>2. v[k] \in Chain(f, d) /\ v[m - 1] \in Chain(f, d) /\ v[k] \in Cluster /\ v[k] # NULL
    BY <1>1, <1>4, <2>1
  <2>3. v[k] # v[m - 1]
    BY <1>3, <1>4, <2>1, <2>2
  <2>4. g[v[k]] = f[v[k]]
    BY <2>2, <2>3 DEF v, m
  <2>5. ToEnd(g)[v[k]] = ToEnd(f)[v[k]]
    BY <2>2, <2>4 DEF ToEnd
  <2> QED
    BY <1>2, <2>1, <2>2, <2>5
<1> HIDE DEF S
<1>7. Nat \subseteq S
  BY <1>5, <1>6, NatSetInduction
<1>8. \A k \in 0..(m - 1) : w[k] = v[k]
  BY <1>1, <1>7 DEF S
<1> QED
  BY <1>8 DEF m, v, w

\* A chain that got longer begins as it did.
Prolongs(h, n) ==
    \A j \in 0..(Cardinality(Chain(h.fat, h.first)) - 1) :
        ChainWalk(n.fat, n.first)[j] = ChainWalk(h.fat, h.first)[j]

\* The new chain that a cluster begins.
LEMMA OnwardExtends ==
    ASSUME NEW f \in Tables, NEW first \in Cluster \cup {0}, NEW i \in Nat,
           NEW h, Extends(f, first, h), Reaches(f, first, h, i),
           NEW n, n = Onward(h, first), ~h.full, ~n.full
    PROVE  Extends(f, first, n) /\ Reaches(f, first, n, i + 1) /\ Prolongs(h, n)
<1> DEFINE K == Chain(f, first)
           L == Chain(h.fat, h.first)
           k == Cardinality(L)
           m == Cardinality(K)
           w == ChainWalk(h.fat, h.first)
           new == NewCluster(h.fat)
<1>1. /\ h \in Stores /\ Proper(h.fat, h.first) /\ (first \in Cluster => h.first = first)
      /\ K \subseteq L /\ L \subseteq K \cup Unused(f)
      /\ \A c \in Cluster : h.fat[c] = f[c] \/ c \in K \/ f[c] = FAT12_FREE
      /\ \A c \in Cluster : h.fat[c] # FAT12_FREE => f[c] # FAT12_FREE \/ c \in L
  BY DEF Extends
<1>2. m <= k /\ i <= k /\ (k = m \/ k = i) /\ h.at = IF i = 0 THEN 0 ELSE w[i - 1]
  BY DEF Reaches
<1>3. /\ h.fat \in Tables /\ h.first \in Cluster \cup {0} /\ h.at \in Cluster \cup {0}
      /\ k \in 0..(MaxCluster - 1) /\ m \in Nat
      /\ L \subseteq Cluster
  BY <1>1, ChainIsFinite DEF Stores
<1>4. n \in Stores
  BY <1>1, OnwardIs
<1>5. \A j \in 0..MaxCluster : w[j] = NULL <=> k <= j
  BY <1>1, <1>3, ProperWalk
<1>6. 0 \notin Cluster /\ NULL \notin Cluster
  BY EndsIs DEF Cluster
<1>7. i # 0 => h.at \in L /\ h.at \in Cluster
  <2> SUFFICES ASSUME i # 0 PROVE h.at \in L
    BY <1>3
  <2>1. i - 1 \in 0..MaxCluster /\ ~(k <= i - 1) /\ h.at = w[i - 1]
    BY <1>2, <1>3, Sizes
  <2>2. w[i - 1] # NULL
    BY <1>5, <2>1
  <2> QED
    BY <2>1, <2>2 DEF Chain
<1>8. i # 0 => w[i] = IF h.fat[h.at] \in Cluster THEN h.fat[h.at] ELSE NULL
  <2> SUFFICES ASSUME i # 0 PROVE w[i] = IF h.fat[h.at] \in Cluster THEN h.fat[h.at] ELSE NULL
    OBVIOUS
  <2>1. i \in 0..MaxCluster /\ i # 0 /\ h.at = w[i - 1] /\ w[i - 1] # NULL
    BY <1>2, <1>3, <1>6, <1>7, Sizes
  <2>2. w[i] = IF w[i - 1] = NULL THEN NULL ELSE ToEnd(h.fat)[w[i - 1]]
    BY <1>3, <2>1, WalkOfChain
  <2> QED
    BY <1>7, <2>1, <2>2 DEF ToEnd
<1> DEFINE next == IF h.at = 0 THEN first ELSE h.fat[h.at]
<1>9. h.at = 0 <=> i = 0
  BY <1>2, <1>6, <1>7
<1> HIDE DEF K, L, k, m, w, new
<1>10. CASE next \in Cluster
  <2>1. n = [h EXCEPT !.at = next]
    BY <1>1, <1>10, OnwardIs
  <2>2. n.fat = h.fat /\ n.first = h.first /\ n.at = next
    BY <1>1, <2>1 DEF Stores
  <2>3. w[i] = next
    <3>1. CASE i = 0
      <4>1. next = first /\ h.first = first /\ 0 \in 0..MaxCluster
        BY <1>1, <1>3, <1>9, <1>10, <3>1, Sizes
      <4> QED
        BY <1>3, <1>10, <3>1, <4>1, WalkOfChain DEF w
    <3>2. CASE i # 0
      BY <1>8, <1>9, <1>10, <3>2
    <3> QED
      BY <3>1, <3>2
  <2>4. ~(k <= i)
    <3>1. i \in 0..MaxCluster /\ w[i] # NULL
      BY <1>2, <1>3, <1>6, <1>10, <2>3, Sizes
    <3> QED
      BY <1>5, <3>1
  <2>5. i + 1 <= k /\ k = m /\ i + 1 # 0 /\ (i + 1) - 1 = i
    BY <1>2, <1>3, <2>4
  <2>6. Extends(f, first, n)
    BY <1>1, <1>4, <2>2 DEF Extends, K, L
  <2>7. Reaches(f, first, n, i + 1)
    BY <1>2, <2>2, <2>3, <2>5 DEF Reaches, K, L, k, m, w
  <2>8. Prolongs(h, n)
    BY <2>2 DEF Prolongs
  <2> QED
    BY <2>6, <2>7, <2>8
<1>11. CASE next \notin Cluster
  <2>1. Unused(h.fat) # {}
    <3> SUFFICES ASSUME Unused(h.fat) = {} PROVE FALSE
      OBVIOUS
    <3>1. n = [h EXCEPT !.full = TRUE]
      BY <1>1, <1>11, OnwardIs
    <3> QED
      BY <1>1, <3>1 DEF Stores
  <2>2. /\ new \in Cluster /\ h.fat[new] = FAT12_FREE /\ Allocate(h.fat) \in Tables
        /\ \A c \in Cluster : Allocate(h.fat)[c] = IF c = new THEN FAT12_EOC ELSE h.fat[c]
    BY <1>3, <2>1, AllocateIs DEF new
  <2>3. new \notin L
    BY <1>1, <2>2 DEF Proper, L
  <2>4. f[new] = FAT12_FREE /\ new \in Unused(f)
    BY <1>1, <2>2, <2>3 DEF Unused
  <2>5. CASE i = 0
    <3>1. first = 0 /\ first \notin Cluster
      BY <1>9, <1>11, <2>5
    <3>2. K = {} /\ m = 0
      BY <3>1, NoChain DEF K, m
    <3>9. L = {}
      <4>1. k = 0 /\ IsFiniteSet(L)
        BY <1>2, <1>3, <2>5, <3>2, ChainIsFinite DEF L
      <4> QED
        BY <4>1, FS_EmptySet DEF k
    <3>3. n = [h EXCEPT !.at = new, !.first = new, !.fat = Allocate(h.fat)]
      BY <1>1, <1>9, <1>11, <2>1, <2>5, OnwardIs DEF new
    <3>4. n.at = new /\ n.first = new /\ n.fat = Allocate(h.fat)
      BY <1>1, <3>3 DEF Stores
    <3>5. /\ Chain(n.fat, n.first) = {new} /\ Proper(n.fat, n.first)
          /\ Cardinality(Chain(n.fat, n.first)) = 1 /\ ChainWalk(n.fat, n.first)[0] = new
      <4>1. Allocate(h.fat)[new] = FAT12_EOC
        BY <2>2
      <4>2. /\ Chain(Allocate(h.fat), new) = {new} /\ Proper(Allocate(h.fat), new)
            /\ Cardinality(Chain(Allocate(h.fat), new)) = 1 /\ ChainWalk(Allocate(h.fat), new)[0] = new
        BY <2>2, <4>1, OneCluster
      <4> QED
        BY <3>4, <4>2
    <3>6. \A c \in Cluster : n.fat[c] = f[c] \/ c \in K \/ f[c] = FAT12_FREE
      BY <1>1, <2>2, <2>4, <3>4
    <3>10. \A c \in Cluster : n.fat[c] # FAT12_FREE => f[c] # FAT12_FREE \/ c \in Chain(n.fat, n.first)
      BY <1>1, <2>2, <3>4, <3>5, <3>9
    <3>7. Extends(f, first, n)
      BY <1>4, <2>4, <3>1, <3>2, <3>5, <3>6, <3>10 DEF Extends, K
    <3>8. Reaches(f, first, n, i + 1)
      <4>1. i + 1 = 1 /\ i + 1 # 0 /\ (i + 1) - 1 = 0 /\ 0 <= 1
        BY <2>5
      <4> QED
        BY <3>2, <3>4, <3>5, <4>1 DEF Reaches, K, m
    <3>11. Prolongs(h, n)
      <4>1. k = 0 /\ \A j \in 0..(k - 1) : FALSE
        BY <1>2, <1>3, <2>5, <3>2
      <4> QED
        BY <4>1 DEF Prolongs, k, L
    <3> QED
      BY <3>7, <3>8, <3>11
  <2>6. CASE i # 0
    <3> DEFINE g == [Allocate(h.fat) EXCEPT ![h.at] = new]
    <3>1. n = [h EXCEPT !.at = new, !.fat = g] /\ g \in Tables
      BY <1>1, <1>9, <1>11, <2>1, <2>6, OnwardIs DEF new
    <3>2. n.at = new /\ n.first = h.first /\ n.fat = g
      BY <1>1, <3>1 DEF Stores
    <3>3. h.at \in L /\ h.at \in Cluster /\ h.at # new
      BY <1>7, <2>3, <2>6
    <3>4. k <= i
      <4>1. w[i] = NULL /\ i \in 0..MaxCluster
        BY <1>2, <1>3, <1>8, <1>9, <1>11, <2>6, Sizes
      <4> QED
        BY <1>5, <4>1
    <3>5. k = i /\ h.at = w[k - 1]
      BY <1>2, <1>3, <2>6, <3>4
    <3>6. /\ g[h.at] = new /\ g[new] = FAT12_EOC
          /\ \A y \in Cluster : y # h.at /\ y # new => g[y] = h.fat[y]
      BY <2>2, <3>3 DEF Tables
    <3> HIDE DEF g
    <3>7. h.first \in Cluster
      <4>1. h.first \notin Cluster => L = {}
        BY <1>3, NoChain DEF L
      <4> QED
        BY <3>3, <4>1
    <3>8. \A y \in L : y # h.at => g[y] = h.fat[y]
      BY <1>3, <2>3, <3>6
    <3>9. /\ Chain(g, h.first) = L \cup {new} /\ Proper(g, h.first)
          /\ Cardinality(Chain(g, h.first)) = k + 1
          /\ ChainWalk(g, h.first)[k] = new
      <4>1. h.at = ChainWalk(h.fat, h.first)[Cardinality(Chain(h.fat, h.first)) - 1]
        BY <3>5 DEF k, w, L
      <4>2. \A y \in Chain(h.fat, h.first) : y # h.at => g[y] = h.fat[y]
        BY <3>8 DEF L
      <4>3. h.fat \in Tables /\ g \in Tables /\ Proper(h.fat, h.first)
        BY <1>1, <1>3, <3>1
      <4>4. g[h.at] = new /\ g[new] = FAT12_EOC
        BY <3>6
      <4> QED
        BY <2>2, <3>7, <4>1, <4>2, <4>3, <4>4, Extended DEF L, k
    <3>10. \A c \in Cluster : g[c] = f[c] \/ c \in K \/ f[c] = FAT12_FREE
      <4> TAKE c \in Cluster
      <4>1. CASE c = new
        BY <2>4, <4>1
      <4>2. CASE c = h.at
        BY <1>1, <3>3, <4>2 DEF Unused
      <4>3. CASE c # new /\ c # h.at
        BY <1>1, <3>6, <4>3
      <4> QED
        BY <4>1, <4>2, <4>3
    <3>13. \A c \in Cluster : g[c] # FAT12_FREE => f[c] # FAT12_FREE \/ c \in Chain(g, h.first)
      <4> TAKE c \in Cluster
      <4>1. CASE c = new
        BY <3>9, <4>1
      <4>2. CASE c = h.at
        BY <3>3, <3>9, <4>2
      <4>3. CASE c # new /\ c # h.at
        BY <1>1, <3>6, <3>9, <4>3
      <4> QED
        BY <4>1, <4>2, <4>3
    <3>11. Extends(f, first, n)
      BY <1>1, <1>4, <2>4, <3>2, <3>9, <3>10, <3>13 DEF Extends, K
    <3>12. Reaches(f, first, n, i + 1)
      <4>1. i + 1 = k + 1 /\ i + 1 # 0 /\ (i + 1) - 1 = k /\ m <= k + 1
        BY <1>2, <1>3, <3>5
      <4> QED
        BY <3>2, <3>9, <4>1 DEF Reaches, K, m
    <3>14. Prolongs(h, n)
      <4>1. h.at = ChainWalk(h.fat, h.first)[Cardinality(Chain(h.fat, h.first)) - 1]
        BY <3>5 DEF k, w, L
      <4>2. \A y \in Chain(h.fat, h.first) : y # h.at => g[y] = h.fat[y]
        BY <3>8 DEF L
      <4>3. h.fat \in Tables /\ g \in Tables /\ Proper(h.fat, h.first)
        BY <1>1, <1>3, <3>1
      <4>4. \A j \in 0..(Cardinality(Chain(h.fat, h.first)) - 1) :
               ChainWalk(g, h.first)[j] = ChainWalk(h.fat, h.first)[j]
        BY <3>7, <4>1, <4>2, <4>3, LongerWalk
      <4> QED
        BY <3>2, <4>4 DEF Prolongs
    <3> QED
      BY <3>11, <3>12, <3>14
  <2> QED
    BY <2>5, <2>6
<1> QED
  BY <1>10, <1>11

\* The writes go to clusters of the chain, some of them new, with a table in
\* which the chain is extended as far.
Fills(f, first, X) ==
    /\ OnlyBytes(X)
    /\ \A k \in 1..Len(X) :
          /\ X[k].write.at \in Chain(f, first) \cup Unused(f)
          /\ \E x : Extends(f, first, x) /\ X[k].fat = x.fat

LEMMA FillsMore ==
    ASSUME NEW f \in Tables, NEW first, NEW X, Fills(f, first, X), NEW bs \in Contents,
           NEW n, Extends(f, first, n), NEW i \in Nat, Reaches(f, first, n, i + 1), n.at \in Cluster
    PROVE  Fills(f, first, X \o WriteBytes(n.fat, n.at, bs))
<1> DEFINE w == [kind |-> "bytes", at |-> n.at, val |-> bs]
           Y == WriteBytes(n.fat, n.at, bs)
           it == [fat |-> n.fat, write |-> w]
<1>1. /\ OnlyBytes(X) /\ X \in Seq(Items)
      /\ \A k \in 1..Len(X) : /\ X[k].write.at \in Chain(f, first) \cup Unused(f)
                               /\ \E x : Extends(f, first, x) /\ X[k].fat = x.fat
  BY DEF Fills, OnlyBytes
<1>2. n.fat \in Tables /\ Proper(n.fat, n.first) /\ Chain(n.fat, n.first) \subseteq Chain(f, first) \cup Unused(f)
  BY DEF Extends, Stores
<1>3. n.at \in Chain(f, first) \cup Unused(f)
  <2> DEFINE m == Cardinality(Chain(n.fat, n.first))
  <2>1. m \in 0..(MaxCluster - 1) /\ i + 1 <= m
    BY <1>2, ChainIsFinite DEF Reaches
  <2>2. n.at = ChainWalk(n.fat, n.first)[i]
    <3>1. i + 1 # 0 /\ (i + 1) - 1 = i
      OBVIOUS
    <3> QED
      BY <3>1 DEF Reaches
  <2>3. i \in 0..MaxCluster /\ ~(m <= i)
    BY <2>1, Sizes
  <2>4. ChainWalk(n.fat, n.first)[i] # NULL
    BY <1>2, <2>3, ProperWalk
  <2> HIDE DEF m
  <2>5. n.at \in Chain(n.fat, n.first)
    BY <2>2, <2>3, <2>4 DEF Chain
  <2> QED
    BY <1>2, <2>5
<1>4. w \in Writes /\ Y = Item(n.fat, w)
  BY DEF Writes, WriteBytes
<1>5. w.at = n.at /\ it.fat = n.fat /\ it.write.at = n.at
  OBVIOUS
<1> HIDE DEF w, Y
<1>6. Y \in Seq(Items) /\ Len(Y) = 1 /\ Y[1] = it
  BY <1>2, <1>4, ItemIs
<1>7. OnlyBytes(X \o Y)
  BY <1>1, <1>2, MoreBytes DEF Y
<1> HIDE DEF it
<1>8. ASSUME NEW k \in 1..(Len(X) + Len(Y))
      PROVE  /\ (X \o Y)[k].write.at \in Chain(f, first) \cup Unused(f)
             /\ \E x : Extends(f, first, x) /\ (X \o Y)[k].fat = x.fat
  <2>1. Len(X) \in Nat
    BY <1>1, LenProperties
  <2>2. CASE k <= Len(X)
    <3>1. k \in 1..Len(X)
      BY <2>1, <2>2
    <3>2. (X \o Y)[k] = X[k]
      BY <1>1, <1>6, <3>1, ItemsConcat
    <3> QED
      BY <1>1, <3>1, <3>2
  <2>3. CASE k > Len(X)
    <3>1. k - Len(X) = 1
      BY <1>6, <2>1, <2>3
    <3>2. (X \o Y)[k] = Y[k - Len(X)]
      BY <1>1, <1>6, <2>1, <2>3, ItemsConcat
    <3>3. (X \o Y)[k] = it
      BY <1>6, <3>1, <3>2
    <3> QED
      BY <1>3, <1>5, <3>3
  <2> QED
    BY <1>6, <2>1, <2>2, <2>3
<1>9. Len(X \o Y) = Len(X) + Len(Y)
  BY <1>1, <1>6, ItemsConcat
<1> QED
  BY <1>7, <1>8, <1>9 DEF Fills, Y

LEMMA StoredExtends ==
    ASSUME disk \in Disks, NEW f \in Tables, NEW first \in Cluster \cup {0}, NEW b \in Bytes,
           NEW e, e.offset \in Nat, e.len \in Nat \ {0}, Proper(f, first),
           NEW h, h = Stored(f, first, e, b)
    PROVE  /\ Extends(f, first, h) /\ Fills(f, first, h.items)
           /\ ~h.full => Reaches(f, first, h, Rounds(e) + 1)
<1> DEFINE H(i) == {x \in Stores : /\ Extends(f, first, x) /\ Fills(f, first, x.items)
                                   /\ ~x.full => Reaches(f, first, x, i)}
           N == Rounds(e)
           A == [i \in 0..(N + 1) |-> H(i)]
<1>1. N \in Nat
  BY RoundsIs
<1>2. Unstored(f, first) \in H(0)
  <2>1. Unstored(f, first).items = <<>>
    BY DEF Unstored
  <2>2. Fills(f, first, <<>>)
    BY EmptySeq DEF Fills, OnlyBytes
  <2>3. Extends(f, first, Unstored(f, first)) /\ Reaches(f, first, Unstored(f, first), 0)
    BY StartExtends
  <2>4. Unstored(f, first) \in Stores
    BY <2>3 DEF Extends
  <2> QED
    BY <2>1, <2>2, <2>3, <2>4
<1>3. \A i \in 0..N : \A x \in H(i) : StoreRound(first, e, b, i, x) \in H(i + 1)
  <2> TAKE i \in 0..N
  <2> TAKE x \in H(i)
  <2> DEFINE n == Onward(x, first)
             bs == Patched(n.at, i, e, b)
             w == WriteBytes(n.fat, n.at, bs)
             y == StoreRound(first, e, b, i, x)
  <2>0. x \in Stores /\ Extends(f, first, x) /\ Fills(f, first, x.items) /\ (~x.full => Reaches(f, first, x, i))
    OBVIOUS
  <2>1. n \in Stores /\ n.items = x.items /\ (n.full \/ n.at \in Cluster) /\ n.fat \in Tables /\ i \in Nat
    <3>1. n \in Stores /\ n.items = x.items /\ (n.full \/ n.at \in Cluster)
      BY <2>0, OnwardIs
    <3> HIDE DEF n
    <3> QED
      BY <1>1, <3>1 DEF Stores
  <2>2. CASE x.full \/ n.full
    <3>1. y = [x EXCEPT !.full = TRUE]
      BY <2>2 DEF StoreRound
    <3>2. y \in Stores /\ y.fat = x.fat /\ y.first = x.first /\ y.items = x.items /\ y.full
      BY <2>0, <3>1 DEF Stores
    <3> HIDE DEF y, n
    <3>3. Extends(f, first, y)
      BY <2>0, <3>2 DEF Extends
    <3> QED
      BY <2>0, <3>2, <3>3 DEF y
  <2>3. CASE ~(x.full \/ n.full)
    <3>1. Extends(f, first, n) /\ Reaches(f, first, n, i + 1)
      <4>1. n = Onward(x, first)
        OBVIOUS
      <4> HIDE DEF n
      <4> QED
        BY <2>0, <2>1, <2>3, <4>1, OnwardExtends
    <3>2. CASE i < e.offset \div cluster_size
      <4>1. y = n
        BY <2>3, <3>2 DEF StoreRound
      <4> HIDE DEF y, n
      <4>2. y \in H(i + 1)
        BY <2>0, <2>1, <3>1, <4>1
      <4> QED
        BY <4>2 DEF y
    <3>3. CASE ~(i < e.offset \div cluster_size)
      <4>1. y = [n EXCEPT !.items = @ \o w]
        BY <2>3, <3>3 DEF StoreRound
      <4> HIDE DEF n
      <4>2. bs \in Contents
        BY <2>1, <2>3, PatchedIs
      <4> HIDE DEF bs
      <4>3. Fills(f, first, n.items \o w)
        BY <2>0, <2>1, <2>3, <3>1, <4>2, FillsMore
      <4> HIDE DEF w, y
      <4>4. n.items \o w \in Seq(Items)
        BY <4>3 DEF Fills, OnlyBytes
      <4>5. y \in Stores /\ y.fat = n.fat /\ y.first = n.first /\ y.at = n.at /\ y.items = n.items \o w /\ y.full = n.full
        BY <2>1, <4>1, <4>4 DEF Stores
      <4>6. Extends(f, first, y)
        BY <3>1, <4>5 DEF Extends
      <4>7. Reaches(f, first, y, i + 1)
        BY <3>1, <4>5 DEF Reaches
      <4>8. y \in H(i + 1)
        BY <4>3, <4>5, <4>6, <4>7
      <4> QED
        BY <4>8 DEF y
    <3> QED
      BY <3>2, <3>3
  <2> QED
    BY <2>2, <2>3
<1> HIDE DEF N, H
<1>4. Unstored(f, first) \in A[0]
  BY <1>1, <1>2
<1>5. \A i \in 0..N : \A x \in A[i] : StoreRound(first, e, b, i, x) \in A[i + 1]
  <2> TAKE i \in 0..N
  <2> TAKE x \in A[i]
  <2>1. i \in 0..(N + 1) /\ i + 1 \in 0..(N + 1)
    BY <1>1
  <2> QED
    BY <2>1, <1>3
<1> HIDE DEF A
<1>6. Stored(f, first, e, b) \in A[N + 1]
  BY <1>1, <1>4, <1>5, StoredInduction DEF N
<1>7. N + 1 \in 0..(N + 1)
  BY <1>1
<1>8. h \in H(N + 1)
  BY <1>6, <1>7 DEF A
<1> QED
  BY <1>8 DEF H, N

\* What is long enough for the clusters reached and no longer.
LEMMA SizeFits ==
    ASSUME NEW e, e.offset \in Nat, e.len \in Nat \ {0}, NEW size \in Nat,
           NEW m \in Nat, NEW n \in Nat, m <= n, Rounds(e) + 1 <= n, n = m \/ n = Rounds(e) + 1,
           size <= cluster_size * m
    PROVE  /\ NewSize(e, size) \in Nat
           /\ NewSize(e, size) <= cluster_size * n
           /\ cluster_size * m < size + cluster_size => cluster_size * n < NewSize(e, size) + cluster_size
<1> DEFINE a == cluster_size
           x == e.offset + e.len - 1
           q == x \div a
           N == Rounds(e)
           ns == NewSize(e, size)
<1>1. a \in Nat \ {0} /\ x \in Nat
  BY Sizes
<1>2. ns = IF x + 1 < size THEN size ELSE x + 1
  BY DEF NewSize
<1>3. N = q
  BY DEF Rounds
<1> HIDE DEF a, x
<1>4. q \in Nat /\ x = a * q + (x % a) /\ x % a \in 0..(a - 1)
  BY <1>1
<1> HIDE DEF q, N, ns
<1> DEFINE aq == a * q
           an == a * n
           am == a * m
<1>5. aq \in Nat /\ an \in Nat /\ am \in Nat
  BY <1>1, <1>4
<1>6. am <= an
  BY <1>1
<1>7. a * (q + 1) = aq + a
  BY <1>1, <1>4
<1>8. a * (q + 1) <= an
  <2> DEFINE r == q + 1
  <2>1. r \in Nat /\ r <= n
    BY <1>3, <1>4 DEF N
  <2> HIDE DEF r
  <2>2. a * r <= a * n
    BY <1>1, <2>1
  <2> QED
    BY <2>2 DEF r
<1>9. n = m => an = am
  OBVIOUS
<1>10. n = q + 1 => an = aq + a
  BY <1>7
<1>11. x < aq + a /\ aq <= x
  BY <1>1, <1>4, <1>5
<1>12. size <= am /\ (n = m \/ n = q + 1)
  BY <1>3 DEF a, N
<1> HIDE DEF aq, an, am
<1>13. ns \in Nat /\ ns <= an
  BY <1>1, <1>2, <1>5, <1>6, <1>7, <1>8, <1>11, <1>12
<1>14. am < size + a => an < ns + a
  BY <1>1, <1>2, <1>5, <1>9, <1>10, <1>11, <1>12
<1> QED
  BY <1>13, <1>14 DEF ns, an, am, a

\* The entry that fat_write_at leaves.
Lengthens(f, ent, fit, e, h, new) ==
    /\ f \in Tables /\ ent \in Entries /\ ~ent.dir /\ ent.name \in Names /\ Fits(f, ent, fit)
    /\ e.offset \in Nat /\ e.len \in Nat \ {0}
    /\ Extends(f, ent.first, h) /\ Reaches(f, ent.first, h, Rounds(e) + 1)
    /\ new = [ent EXCEPT !.first = h.first, !.size = NewSize(e, ent.size)]

LEMMA NewFits ==
    ASSUME NEW f, NEW ent, NEW fit, NEW e, NEW h, NEW new, Lengthens(f, ent, fit, e, h, new)
    PROVE  new \in Entries /\ new.name \in Names /\ ~new.dir /\ new.first = h.first /\ Fits(h.fat, new, fit)
<1>0. /\ f \in Tables /\ ent \in Entries /\ ~ent.dir /\ ent.name \in Names /\ Fits(f, ent, fit)
      /\ e.offset \in Nat /\ e.len \in Nat \ {0}
      /\ Extends(f, ent.first, h) /\ Reaches(f, ent.first, h, Rounds(e) + 1)
      /\ new = [ent EXCEPT !.first = h.first, !.size = NewSize(e, ent.size)]
  BY DEF Lengthens
<1> USE <1>0
<1> DEFINE n == Cardinality(Chain(h.fat, h.first))
           m == Cardinality(Chain(f, ent.first))
           size == NewSize(e, ent.size)
<1>1. h \in Stores /\ h.fat \in Tables /\ h.first \in Cluster \cup {0} /\ ent.size \in Nat
  BY DEF Extends, Stores, Entries
<1>2. n \in Nat /\ m \in Nat
  BY <1>1, ChainIsFinite
<1>3. /\ ent.size <= cluster_size * m
      /\ fit = "exact" => cluster_size * m < ent.size + cluster_size
  BY DEF Fits
<1>4. m <= n /\ Rounds(e) + 1 <= n /\ (n = m \/ n = Rounds(e) + 1)
  BY DEF Reaches
<1> HIDE DEF n, m, size
<1>5. /\ size \in Nat /\ size <= cluster_size * n
      /\ cluster_size * m < ent.size + cluster_size => cluster_size * n < size + cluster_size
  BY <1>1, <1>2, <1>3, <1>4, SizeFits DEF size
<1>6. new = [ent EXCEPT !.first = h.first, !.size = size]
  BY DEF size
<1>7. new \in Entries /\ new.name \in Names /\ ~new.dir /\ new.first = h.first /\ new.size = size
  BY <1>1, <1>5, <1>6 DEF Entries
<1>8. Fits(h.fat, new, fit)
  BY <1>3, <1>5, <1>7 DEF Fits, n
<1> QED
  BY <1>7, <1>8

\* The entry that is left where the disk is full.
LEMMA OldFits ==
    ASSUME NEW f \in Tables, NEW ent \in Entries, NEW fit, Fits(f, ent, fit), Proper(f, ent.first),
           NEW h, Extends(f, ent.first, h)
    PROVE  /\ Fits(h.fat, ent, "loose") /\ Proper(h.fat, ent.first)
           /\ Chain(h.fat, ent.first) \subseteq Chain(f, ent.first) \cup Unused(f)
<1>1. /\ h.fat \in Tables /\ Proper(h.fat, h.first) /\ (ent.first \in Cluster => h.first = ent.first)
      /\ Chain(f, ent.first) \subseteq Chain(h.fat, h.first)
      /\ Chain(h.fat, h.first) \subseteq Chain(f, ent.first) \cup Unused(f)
      /\ ent.first \in Cluster \cup {0} /\ ent.size \in Nat
  BY DEF Extends, Stores, Entries
<1>2. ent.size <= cluster_size * Cardinality(Chain(f, ent.first))
  BY DEF Fits
<1>3. CASE ent.first \in Cluster
  <2> DEFINE n == Cardinality(Chain(h.fat, ent.first))
             m == Cardinality(Chain(f, ent.first))
             a == cluster_size
  <2>1. m <= n /\ n \in Nat /\ m \in Nat
    <3>1. IsFiniteSet(Chain(h.fat, ent.first)) /\ Chain(f, ent.first) \subseteq Chain(h.fat, ent.first)
      BY <1>1, <1>3, ChainIsFinite
    <3> QED
      BY <1>1, <3>1, ChainIsFinite, FS_Subset
  <2>2. a \in Nat /\ ent.size <= a * m
    BY <1>2, Sizes
  <2> HIDE DEF n, m, a
  <2>3. a * m <= a * n /\ a * m \in Nat /\ a * n \in Nat
    BY <2>1, <2>2
  <2>4. ent.size <= a * n
    BY <1>1, <2>2, <2>3
  <2> QED
    BY <1>1, <1>3, <2>4 DEF Fits, n, a
<1>4. CASE ent.first \notin Cluster
  <2>1. /\ Chain(h.fat, ent.first) = {} /\ Proper(h.fat, ent.first) /\ Cardinality(Chain(h.fat, ent.first)) = 0
        /\ Cardinality(Chain(f, ent.first)) = 0
    BY <1>1, <1>4, NoChain
  <2> QED
    BY <1>2, <2>1 DEF Fits
<1> QED
  BY <1>3, <1>4

\* Clusters that hold data, whatever they held.
Filled(es, C) == [c \in Cluster \cup {Root} |-> IF c \in C THEN DataBlock ELSE es[c]]

LEMMA FilledIs ==
    ASSUME NEW es, EntriesOK(es), NEW C \in SUBSET Cluster
    PROVE  /\ EntriesOK(Filled(es, C))
           /\ \A s \in SlotSet : s[1] \notin C => At(Filled(es, C), s) = At(es, s)
           /\ Filled(es, {}) = es
<1> DEFINE p == Filled(es, C)
<1>1. /\ es \in [Cluster \cup {Root} -> Blocks]
      /\ \A c \in Cluster \cup {Root} : es[c] \in [1..InBlock(c) -> Entries]
  BY DEF EntriesOK
<1>2. DataBlock \in [1..DirEntries -> Entries]
  BY EmptyDirIs
<1>3. \A c \in Cluster : InBlock(c) = DirEntries
  BY DEF InBlock, Root, Cluster
<1>4. \A c \in Cluster \cup {Root} : p[c] \in [1..InBlock(c) -> Entries] /\ p[c] \in Blocks
  <2> TAKE c \in Cluster \cup {Root}
  <2>1. CASE c \in C
    BY <1>2, <1>3, <2>1 DEF Filled, Blocks
  <2>2. CASE c \notin C
    BY <1>1, <2>2 DEF Filled
  <2> QED
    BY <2>1, <2>2
<1>5. p \in [Cluster \cup {Root} -> Blocks]
  BY <1>4 DEF Filled
<1>6. Filled(es, {}) = es
  BY <1>1 DEF Filled
<1>7. \A s \in SlotSet : s[1] \notin C => At(Filled(es, C), s) = At(es, s)
  BY DEF Filled, At, SlotSet
<1> QED
  BY <1>4, <1>5, <1>6, <1>7 DEF EntriesOK

\* Clusters that are no directory's may be filled.
LEMMA FilledIsGood ==
    ASSUME NEW f, NEW es, NEW D, NEW fit, Good(f, es, D, fit), NEW C \in SUBSET Cluster,
           \A d \in D : BlockSet(f, d) \cap C = {}
    PROVE  /\ Good(f, Filled(es, C), D, fit)
           /\ \A s \in Used(f, es, D) : s \in Used(f, Filled(es, C), D) /\ At(Filled(es, C), s) = At(es, s)
           /\ Whole(f, es, D) => Whole(f, Filled(es, C), D)
<1> DEFINE es2 == Filled(es, C)
           H == Heads(f, es, D)
<1>1. /\ f \in Tables /\ EntriesOK(es) /\ Root \in D
      /\ \A s \in Used(f, es, D) : At(es, s).first \in D \ {Root} <=> At(es, s).dir
  BY GoodFacts
<1>2. EntriesOK(es2) /\ \A s \in SlotSet : s[1] \notin C => At(es2, s) = At(es, s)
  BY <1>1, FilledIs
<1> HIDE DEF es2
<1>3. ASSUME NEW s \in SlotSet, NEW d \in D, s[1] \in BlockSet(f, d) PROVE At(es2, s) = At(es, s)
  BY <1>2, <1>3
<1>4. Used(f, es2, D) = Used(f, es, D)
  BY <1>3 DEF Used
<1>5. \A s \in Used(f, es, D) : At(es2, s) = At(es, s)
  BY <1>3 DEF Used
<1>6. Heads(f, es2, D) = H
  BY <1>4, <1>5 DEF Heads
<1>7. FewerEntries(f, es, es2, D)
  <2> SUFFICES ASSUME NEW s \in SlotSet, NEW d \in D, s[1] \in BlockSet(f, d)
               PROVE  /\ At(es2, s).name \in Names =>
                           /\ At(es2, s) = At(es, s)
                           /\ At(es, s).dir => At(es, s).first \in D
                      /\ At(es2, s).name = DATA => At(es, s).name = DATA
    BY DEF FewerEntries
  <2>1. At(es2, s) = At(es, s)
    BY <1>3
  <2>2. At(es, s).name \in Names => s \in Used(f, es, D)
    BY DEF Used
  <2> QED
    BY <1>1, <2>1, <2>2
<1>8. \A h \in H : \A c \in Chain(f, h) : f[c] = f[c]
  OBVIOUS
<1> HIDE DEF H
<1>9. Narrows(f, es, D, f, es2, D, H)
  BY <1>1, <1>2, <1>6, <1>7, <1>8 DEF Narrows
<1>10. Good(f, es2, D, fit)
  BY <1>9, Restricted
<1> DEFINE s == <<Root, 0>>
<1>11. s \notin Used(f, es, D)
  BY DEF Used, SlotSet
<1> HIDE DEF s
<1>12. Keeps(f, es, D, f, es2, D, s) /\ Drops(f, es, D, f, D, s) /\ Gains(f, es, D, f, es2, D, s)
  BY <1>5, <1>11 DEF Keeps, Drops, Gains
<1>13. Whole(f, es, D) => Whole(f, es2, D)
  BY <1>1, <1>12, WholeIsKept
<1> QED
  BY <1>4, <1>5, <1>10, <1>13 DEF es2

\* A path that is a good for the entries es whatever clusters of C are filled.
LEMMA FillsLead ==
    ASSUME NEW f \in Tables, NEW es, EntriesOK(es), NEW act, NEW X, OnlyBytes(X),
           NEW Z, Z = {X[j].write.at : j \in 1..Len(X)},
           \A C \in SUBSET Z : Fine(f, Filled(es, C)) /\ \A k \in 1..Len(X) : Fine(X[k].fat, Filled(es, C))
    PROVE  Z \subseteq Cluster /\ Leads(act, OnDisk(f, es), X, OnDisk(f, Filled(es, Z)))
<1> DEFINE Upto(k) == {X[j].write.at : j \in 1..k}
           h == [k \in 0..Len(X) |-> OnDisk(f, Filled(es, Upto(k)))]
<1>1. X \in Seq(Items) /\ Len(X) \in Nat
  BY LenProperties DEF OnlyBytes
<1>2. ASSUME NEW k \in 1..Len(X) PROVE X[k].write.kind = "bytes" /\ X[k].write.at \in Cluster
  <2>1. X[k] \in Items /\ X[k].write.kind = "bytes"
    BY <1>1, ElementOfSeq DEF OnlyBytes
  <2>2. X[k].write \in Writes
    BY <2>1 DEF Items
  <2> QED
    BY <2>1, <2>2 DEF Writes
<1>3. Z \subseteq Cluster
  BY <1>2
<1>4. h[0] = OnDisk(f, es) /\ h[Len(X)] = OnDisk(f, Filled(es, Z))
  <2>1. Upto(0) = {} /\ Upto(Len(X)) = Z
    OBVIOUS
  <2>2. 0 \in 0..Len(X) /\ Len(X) \in 0..Len(X)
    BY <1>1
  <2>3. Filled(es, {}) = es
    BY FilledIs
  <2> HIDE DEF Upto
  <2>4. h[0] = OnDisk(f, Filled(es, Upto(0))) /\ h[Len(X)] = OnDisk(f, Filled(es, Upto(Len(X))))
    BY <2>2
  <2> QED
    BY <2>1, <2>3, <2>4
<1>5. ASSUME NEW k \in 1..Len(X) PROVE Goes(act, h[k - 1], X[k], h[k])
  <2> DEFINE it == X[k]
             A == Upto(k - 1)
             B == Upto(k)
  <2>1. it.write.kind = "bytes" /\ it.write.at \in Cluster
    BY <1>2
  <2>2. A \in SUBSET Z /\ B = A \cup {it.write.at}
    BY <1>1
  <2>3. h[k - 1] = OnDisk(f, Filled(es, A)) /\ h[k] = OnDisk(f, Filled(es, B))
    <3>1. k - 1 \in 0..Len(X) /\ k \in 0..Len(X)
      BY <1>1
    <3> HIDE DEF Upto
    <3> QED
      BY <3>1
  <2>4. Fine(f, Filled(es, A)) /\ Fine(it.fat, Filled(es, A))
    BY <2>2
  <2> HIDE DEF h, A, B, it
  <2>5. Zeroed(Filled(es, A), it.write.at, DataBlock) = Filled(es, B)
    BY <2>1, <2>2 DEF Zeroed, Filled
  <2>6. EntriesAfter(Filled(es, A), it) = Filled(es, B)
    BY <2>1, <2>5 DEF EntriesAfter
  <2>7. CopyAfter(f, it) = f
    BY <2>1, OtherCopy
  <2> DEFINE u == OnDisk(f, Filled(es, A))
  <2>8. u.copy = f /\ u.entries = Filled(es, A)
    BY DEF OnDisk
  <2> HIDE DEF u
  <2>9. AfterWrite(u, it) = OnDisk(f, Filled(es, B))
    BY <2>6, <2>7, <2>8 DEF AfterWrite
  <2>10. Secure(act, u, it)
    BY <2>4, <2>8 DEF Secure
  <2>11. Goes(act, u, it, OnDisk(f, Filled(es, B)))
    BY <2>9, <2>10 DEF Goes
  <2> QED
    BY <2>3, <2>11 DEF u, it
<1> HIDE DEF h
<1> QED
  BY <1>1, <1>3, <1>4, <1>5 DEF Leads

\* Where fat_write_at puts the file's entry: where there is one, or in a slot
\* that can be used.
Target(f, es, D, fit, s, ent) ==
    /\ s \in SlotSet
    /\ \/ s \in Used(f, es, D) /\ ent = At(es, s)
       \/ /\ Chain(f, ent.first) = {} /\ At(es, s).name \notin Names /\ s[1] \notin Unused(f)
          /\ \E d \in D : s[1] \in BlockSet(f, d)
    /\ ent \in Entries /\ ~ent.dir /\ ent.name \in Names
    /\ Fits(f, ent, fit) /\ Proper(f, ent.first)

\* The clusters it fills belong to no directory.
LEMMA FileIsApart ==
    ASSUME NEW f, NEW es, NEW D, NEW fit, Good(f, es, D, fit), NEW s, NEW ent, Target(f, es, D, fit, s, ent)
    PROVE  /\ \A d \in D : BlockSet(f, d) \cap (Chain(f, ent.first) \cup Unused(f)) = {}
           /\ s[1] \notin Chain(f, ent.first) \cup Unused(f)
<1>1. /\ f \in Tables /\ Root \in D /\ D \subseteq Cluster \cup {Root}
      /\ \A t \in Used(f, es, D) : At(es, t).first \in D \ {Root} <=> At(es, t).dir
      /\ \A h \in Heads(f, es, D) : Proper(f, h)
      /\ \A h, k \in Heads(f, es, D) : h # k => Chain(f, h) \cap Chain(f, k) = {}
  BY GoodFacts
<1>2. \/ s \in Used(f, es, D) /\ ent = At(es, s) /\ ~ent.dir
      \/ Chain(f, ent.first) = {} /\ s[1] \notin Unused(f)
  BY DEF Target
<1>3. 0 \notin Cluster /\ Root = 0
  BY DEF Cluster, Root
<1>4. ASSUME NEW d \in D PROVE BlockSet(f, d) \cap (Chain(f, ent.first) \cup Unused(f)) = {}
  <2>1. CASE d = Root
    <3>1. Chain(f, ent.first) \cup Unused(f) \subseteq Cluster
      BY <1>1, ChainIsFinite DEF Unused
    <3> QED
      BY <1>3, <2>1, <3>1 DEF BlockSet
  <2>2. CASE d # Root
    <3>1. d \in Heads(f, es, D) /\ BlockSet(f, d) = Chain(f, d)
      BY <2>2 DEF Heads, BlockSet
    <3>2. Chain(f, d) \cap Unused(f) = {}
      BY <1>1, <3>1 DEF Proper, Unused
    <3>3. Chain(f, d) \cap Chain(f, ent.first) = {}
      <4>1. CASE s \in Used(f, es, D) /\ ent = At(es, s) /\ ~ent.dir
        <5>1. ent.first \in Heads(f, es, D) /\ ent.first # d
          BY <1>1, <2>2, <4>1 DEF Heads
        <5> QED
          BY <1>1, <3>1, <5>1
      <4>2. CASE Chain(f, ent.first) = {}
        BY <4>2
      <4> QED
        BY <1>2, <4>1, <4>2
    <3> QED
      BY <3>1, <3>2, <3>3
  <2> QED
    BY <2>1, <2>2
<1>5. s[1] \notin Chain(f, ent.first) \cup Unused(f)
  <2>1. CASE s \in Used(f, es, D)
    <3>1. PICK d \in D : s[1] \in BlockSet(f, d)
      BY <2>1 DEF Used
    <3> QED
      BY <1>4, <3>1
  <2>2. CASE Chain(f, ent.first) = {} /\ s[1] \notin Unused(f)
    BY <2>2
  <2> QED
    BY <1>2, <2>1, <2>2
<1> QED
  BY <1>4, <1>5

\* The same target once some of those clusters are filled.
LEMMA FilledTarget ==
    ASSUME NEW f, NEW es, NEW D, NEW fit, Good(f, es, D, fit), NEW s, NEW ent, Target(f, es, D, fit, s, ent),
           NEW C \in SUBSET Cluster, C \subseteq Chain(f, ent.first) \cup Unused(f)
    PROVE  /\ Good(f, Filled(es, C), D, fit) /\ Target(f, Filled(es, C), D, fit, s, ent)
           /\ Whole(f, es, D) => Whole(f, Filled(es, C), D)
<1> DEFINE es2 == Filled(es, C)
<1>1. /\ s \in SlotSet /\ s[1] \notin C
      /\ \A d \in D : BlockSet(f, d) \cap C = {}
  BY FileIsApart DEF Target
<1>2. /\ Good(f, es2, D, fit)
      /\ \A t \in Used(f, es, D) : t \in Used(f, es2, D) /\ At(es2, t) = At(es, t)
      /\ Whole(f, es, D) => Whole(f, es2, D)
  BY <1>1, FilledIsGood
<1>3. At(es2, s) = At(es, s)
  <2>1. EntriesOK(es)
    BY GoodFacts
  <2> QED
    BY <1>1, <2>1, FilledIs
<1> HIDE DEF es2
<1>4. Target(f, es2, D, fit, s, ent)
  BY <1>2, <1>3 DEF Target
<1> QED
  BY <1>2, <1>4 DEF es2

\* With the chain extended and the entry as it is, only clusters are lost.
LEMMA ExtendedIsFine ==
    ASSUME NEW f, NEW es, NEW D, NEW fit, Good(f, es, D, fit), NEW s, NEW ent, Target(f, es, D, fit, s, ent),
           NEW h, Extends(f, ent.first, h)
    PROVE  Fine(h.fat, es)
<1>1. Good(f, es, D, "loose") /\ EntriesOK(es) /\ f \in Tables
  BY GoodIsLoose, GoodFacts
<1>2. /\ s \in SlotSet /\ ent \in Entries /\ ~ent.dir /\ ent.name \in Names
      /\ Fits(f, ent, fit) /\ Proper(f, ent.first)
      /\ \/ s \in Used(f, es, D) /\ ent = At(es, s)
         \/ Chain(f, ent.first) = {}
  BY DEF Target
<1>3. /\ h.fat \in Tables
      /\ \A c \in Cluster : h.fat[c] = f[c] \/ c \in Chain(f, ent.first) \/ f[c] = FAT12_FREE
  BY DEF Extends, Stores
<1>4. CASE s \in Used(f, es, D) /\ ent = At(es, s)
  <2>1. /\ Fits(h.fat, ent, "loose") /\ Proper(h.fat, ent.first)
        /\ Chain(h.fat, ent.first) \subseteq Chain(f, ent.first) \cup Unused(f)
    BY <1>1, <1>2, OldFits
  <2>2. Replaces(f, s, es, h.fat, ent, "loose")
    BY <1>2, <1>3, <1>4, <2>1 DEF Replaces
  <2>3. \E D2 : Good(h.fat, Put(es, s, ent), D2, "loose")
    BY <1>1, <1>4, <2>2, Replaced
  <2>4. Put(es, s, ent) = es
    BY <1>1, <1>2, <1>4, PutTwice
  <2> QED
    BY <2>3, <2>4 DEF Fine
<1>5. CASE Chain(f, ent.first) = {}
  <2>1. \A c \in Cluster : h.fat[c] = f[c] \/ f[c] = FAT12_FREE
    BY <1>3, <1>5
  <2>2. \A t \in SlotSet : At(es, t) = At(es, t) \/ t[1] \in Unused(f)
    OBVIOUS
  <2>3. Good(h.fat, es, D, "loose")
    BY <1>1, <1>3, <2>1, <2>2, Untouched
  <2> QED
    BY <2>3 DEF Fine
<1> QED
  BY <1>2, <1>4, <1>5

\* The loops of fat_write_at, from a good cover to a good one.
LEMMA StoresLead ==
    ASSUME NEW f, NEW es, NEW D, NEW fit, Good(f, es, D, fit), NEW s, NEW ent, Target(f, es, D, fit, s, ent),
           NEW X, Fills(f, ent.first, X), NEW act
    PROVE  \E es2 : /\ Leads(act, OnDisk(f, es), X, OnDisk(f, es2))
                    /\ Good(f, es2, D, fit) /\ Target(f, es2, D, fit, s, ent)
                    /\ Whole(f, es, D) => Whole(f, es2, D)
<1> DEFINE Z == {X[j].write.at : j \in 1..Len(X)}
<1>1. /\ OnlyBytes(X)
      /\ \A k \in 1..Len(X) : /\ X[k].write.at \in Chain(f, ent.first) \cup Unused(f)
                              /\ \E x : Extends(f, ent.first, x) /\ X[k].fat = x.fat
  BY DEF Fills
<1>2. f \in Tables /\ EntriesOK(es)
  BY GoodFacts
<1>3. Z \subseteq Chain(f, ent.first) \cup Unused(f) /\ Chain(f, ent.first) \cup Unused(f) \subseteq Cluster
  BY <1>1, <1>2, ChainIsFinite DEF Unused
<1>4. ASSUME NEW C \in SUBSET Z
      PROVE  Fine(f, Filled(es, C)) /\ \A k \in 1..Len(X) : Fine(X[k].fat, Filled(es, C))
  <2>1. C \in SUBSET Cluster /\ C \subseteq Chain(f, ent.first) \cup Unused(f)
    BY <1>3
  <2>2. Good(f, Filled(es, C), D, fit) /\ Target(f, Filled(es, C), D, fit, s, ent)
    BY <2>1, FilledTarget
  <2>3. Fine(f, Filled(es, C))
    BY <2>2, GoodIsLoose
  <2>4. ASSUME NEW k \in 1..Len(X) PROVE Fine(X[k].fat, Filled(es, C))
    <3>1. PICK x : Extends(f, ent.first, x) /\ X[k].fat = x.fat
      BY <1>1
    <3>2. Fine(x.fat, Filled(es, C))
      BY <2>2, <3>1, ExtendedIsFine
    <3> QED
      BY <3>1, <3>2
  <2> QED
    BY <2>3, <2>4
<1>5. Leads(act, OnDisk(f, es), X, OnDisk(f, Filled(es, Z)))
  BY <1>1, <1>2, <1>4, FillsLead
<1>6. /\ Good(f, Filled(es, Z), D, fit) /\ Target(f, Filled(es, Z), D, fit, s, ent)
      /\ Whole(f, es, D) => Whole(f, Filled(es, Z), D)
  BY <1>3, FilledTarget
<1> QED
  BY <1>5, <1>6

LEMMA WriteAtComes ==
    ASSUME fat \in Tables, disk \in Disks, NEW D, NEW fit, Good(fat, disk.entries, D, fit),
           NEW p \in Paths, NEW e \in Extent, NEW b \in Bytes, NEW o \in fat_write_at(p, e, b)
    PROVE  Comes(o, "write", fat, disk.entries, D, fit)
<1> DEFINE Ent(l) == IF l.exists THEN At(disk.entries, l.slot) ELSE Entry(NameOf(p), FALSE, 0, 0)
           H(l) == Stored(l.fat, Ent(l).first, e, b)
           New(l) == [Ent(l) EXCEPT !.first = H(l).first, !.size = NewSize(e, Ent(l).size)]
           es == disk.entries
<1>1. PICK l \in Lookup(p, TRUE) :
         /\ l.r # 2
         /\ \/ o = Derailed
            \/ /\ l.r # 3 /\ ~(l.exists /\ Ent(l).dir)
               /\ \/ /\ ~H(l).full
                     /\ o = Outcome(l.items \o fat_write_items(l.fat, H(l), l.slot, New(l)), H(l).fat, "ok")
                  \/ o = Outcome(l.items \o H(l).items, H(l).fat, "full")
  BY Zenon DEF fat_write_at
<1> DEFINE ent == Ent(l)
           h == H(l)
           new == New(l)
           s == l.slot
<1>2. /\ NameOf(p) \in Names /\ s \in SlotSet /\ l.fat \in Tables /\ l \in Lookups
      /\ l.exists => s \in Used(fat, es, D) /\ l.fat = fat /\ l.items = <<>>
      /\ ~l.exists /\ l.r = 0 => \A act : Prepared(act, l, fat, es, D, fit)
      /\ At(es, s) \in Entries /\ e.offset \in Nat /\ e.len \in Nat \ {0}
  BY LookupInCover, LookupsAre DEF Extent
<1>3. CASE o = Derailed
  BY <1>3, DerailedComes
<1>4. CASE o # Derailed
  <2>1. /\ l.r = 0 /\ ~(l.exists /\ ent.dir)
        /\ \/ /\ ~h.full
              /\ o = Outcome(l.items \o fat_write_items(l.fat, h, s, new), h.fat, "ok")
           \/ o = Outcome(l.items \o h.items, h.fat, "full")
    BY <1>1, <1>2, <1>4 DEF Lookups
  <2>2. /\ ent \in Entries /\ ~ent.dir /\ ent.name \in Names
        /\ Fits(l.fat, ent, fit) /\ Proper(l.fat, ent.first)
        /\ ~l.exists => Chain(l.fat, ent.first) = {}
        /\ l.exists => ent = At(es, s)
    <3>1. CASE l.exists
      <4>1. ent = At(es, s) /\ l.fat = fat /\ s \in Used(fat, es, D)
        BY <1>2, <3>1
      <4>2. At(es, s).first \in Heads(fat, es, D) /\ At(es, s).name \in Names
        BY <4>1 DEF Heads, Used
      <4> HIDE DEF Ent, es, s
      <4>3. Good(fat, es, D, fit)
        BY DEF es
      <4> QED
        BY <1>2, <2>1, <3>1, <4>1, <4>2, <4>3, GoodFacts
    <3>2. CASE ~l.exists
      <4>1. ent = Entry(NameOf(p), FALSE, 0, 0)
        BY <3>2
      <4> HIDE DEF Ent
      <4> QED
        BY <1>2, <3>2, <4>1, EmptyFile
    <3> QED
      BY <3>1, <3>2
  <2> HIDE DEF Ent
  <2>4. ent.first \in Cluster \cup {0}
    BY <2>2 DEF Entries
  <2>5. /\ Extends(l.fat, ent.first, h) /\ Fills(l.fat, ent.first, h.items)
        /\ ~h.full => Reaches(l.fat, ent.first, h, Rounds(e) + 1)
    BY <1>2, <2>2, <2>4, StoredExtends
  <2> HIDE DEF H
  <2>6. /\ h \in Stores /\ h.fat \in Tables /\ Proper(h.fat, h.first)
        /\ Chain(h.fat, h.first) \subseteq Chain(l.fat, ent.first) \cup Unused(l.fat)
        /\ \A c \in Cluster : h.fat[c] = l.fat[c] \/ c \in Chain(l.fat, ent.first) \/ l.fat[c] = FAT12_FREE
        /\ Chain(l.fat, ent.first) \subseteq Chain(h.fat, h.first)
        /\ \A c \in Cluster : h.fat[c] # FAT12_FREE => l.fat[c] # FAT12_FREE \/ c \in Chain(h.fat, h.first)
    BY <2>5 DEF Extends, Stores
  <2>7. new = [ent EXCEPT !.first = h.first, !.size = NewSize(e, ent.size)]
    OBVIOUS
  <2> HIDE DEF New, es, s
  <2>g. Good(fat, es, D, fit)
    BY DEF es
  <2>8. \E es2 : /\ Leads("write", OnDisk(fat, es), l.items, OnDisk(l.fat, es2)) /\ Good(l.fat, es2, D, fit)
                 /\ Target(l.fat, es2, D, fit, s, ent)
                 /\ Whole(fat, es, D) => Whole(l.fat, es2, D)
    <3>1. CASE l.exists
      <4>1. l.fat = fat /\ l.items = <<>> /\ s \in Used(fat, es, D) /\ ent = At(es, s)
        BY <1>2, <2>2, <3>1
      <4>2. Leads("write", OnDisk(fat, es), l.items, OnDisk(l.fat, es))
        BY <4>1, LeadsNone
      <4>3. Target(l.fat, es, D, fit, s, ent)
        BY <1>2, <2>2, <4>1 DEF Target
      <4> QED
        BY <2>g, <4>1, <4>2, <4>3
    <3>2. CASE ~l.exists
      <4>1. Prepared("write", l, fat, es, D, fit)
        BY <1>2, <2>1, <3>2
      <4>2. PICK es2 : /\ Leads("write", OnDisk(fat, es), l.items, OnDisk(l.fat, es2)) /\ Good(l.fat, es2, D, fit)
                       /\ At(es2, s).name \notin Names /\ s[1] \notin Unused(l.fat)
                       /\ \E d \in D : s[1] \in BlockSet(l.fat, d)
                       /\ Whole(fat, es, D) => Whole(l.fat, es2, D)
        BY <4>1 DEF Prepared, s
      <4>3. Target(l.fat, es2, D, fit, s, ent)
        BY <1>2, <2>2, <3>2, <4>2 DEF Target
      <4> QED
        BY <4>2, <4>3
    <3> QED
      BY <3>1, <3>2
  <2>9. PICK es2 : /\ Leads("write", OnDisk(fat, es), l.items, OnDisk(l.fat, es2)) /\ Good(l.fat, es2, D, fit)
                   /\ Target(l.fat, es2, D, fit, s, ent)
                   /\ Whole(fat, es, D) => Whole(l.fat, es2, D)
    BY <2>8
  <2>10. PICK es3 : /\ Leads("write", OnDisk(l.fat, es2), h.items, OnDisk(l.fat, es3)) /\ Good(l.fat, es3, D, fit)
                    /\ Target(l.fat, es3, D, fit, s, ent)
                    /\ Whole(l.fat, es2, D) => Whole(l.fat, es3, D)
    BY <2>5, <2>9, StoresLead
  <2>11. Leads("write", OnDisk(fat, es), l.items \o h.items, OnDisk(l.fat, es3))
    BY <2>9, <2>10, LeadsOn
  <2>12. Fine(l.fat, es3) /\ Fine(h.fat, es3)
    BY <2>5, <2>10, GoodIsLoose, ExtendedIsFine
  <2>13. CASE ~h.full /\ o = Outcome(l.items \o fat_write_items(l.fat, h, s, new), h.fat, "ok")
    <3>1. new \in Entries /\ new.name \in Names /\ ~new.dir /\ new.first = h.first /\ Fits(h.fat, new, fit)
      <4>1. Reaches(l.fat, ent.first, h, Rounds(e) + 1) /\ Extends(l.fat, ent.first, h)
        BY <2>5, <2>13
      <4>2. l.fat \in Tables /\ e.offset \in Nat /\ e.len \in Nat \ {0}
        BY <1>2
      <4>3. Lengthens(l.fat, ent, fit, e, h, new)
        BY <2>2, <2>7, <4>1, <4>2 DEF Lengthens
      <4> QED
        BY <4>3, NewFits
    <3>14. \A K : K \subseteq Chain(l.fat, ent.first) => Leaves(l.fat, K, h.fat, new)
      BY <2>6, <3>1 DEF Leaves
    <3>2. \E D2 : /\ Good(h.fat, Put(es3, s, new), D2, fit)
                  /\ Whole(fat, es, D) => Whole(h.fat, Put(es3, s, new), D2)
      <4>1. CASE s \in Used(l.fat, es3, D) /\ ent = At(es3, s)
        <5>1. Replaces(l.fat, s, es3, h.fat, new, fit)
          BY <2>6, <3>1, <4>1 DEF Replaces
        <5>2. Leaves(l.fat, Chain(l.fat, At(es3, s).first), h.fat, new) /\ ~At(es3, s).dir
          BY <2>2, <3>14, <4>1
        <5> QED
          BY <2>9, <2>10, <4>1, <5>1, <5>2, Replaced
      <4>2. CASE /\ Chain(l.fat, ent.first) = {} /\ At(es3, s).name \notin Names
                 /\ \E d \in D : s[1] \in BlockSet(l.fat, d)
        <5>1. Adds(l.fat, es3, s, h.fat, new, fit)
          BY <1>2, <2>6, <3>1, <4>2 DEF Adds
        <5>2. Leaves(l.fat, {}, h.fat, new)
          BY <3>14
        <5> QED
          BY <2>9, <2>10, <4>2, <5>1, <5>2, Added
      <4> QED
        BY <2>10, <4>1, <4>2 DEF Target
    <3>3. PICK D2 : /\ Good(h.fat, Put(es3, s, new), D2, fit)
                    /\ Whole(fat, es, D) => Whole(h.fat, Put(es3, s, new), D2)
      BY <3>2
    <3>4. Leads("write", OnDisk(l.fat, es3), fat_flush(h.fat), OnDisk(h.fat, es3))
      BY <1>2, <2>6, <2>12, LeadsFlush
    <3>5. Leads("write", OnDisk(h.fat, es3), WriteEntry(h.fat, s, new), OnDisk(h.fat, Put(es3, s, new)))
      BY <1>2, <2>6, <2>12, <3>1, LeadsEntry
    <3> DEFINE A == h.items
               B == fat_flush(h.fat)
               Y == WriteEntry(h.fat, s, new)
    <3>6. fat_write_items(l.fat, h, s, new) = A \o B \o Y
      BY DEF fat_write_items
    <3>7. Leads("write", OnDisk(l.fat, es2), A, OnDisk(l.fat, es3))
      BY <2>10
    <3> HIDE DEF A, B, Y
    <3>8. Leads("write", OnDisk(l.fat, es2), A \o B, OnDisk(h.fat, es3))
      BY <3>4, <3>7, LeadsOn DEF B
    <3>9. Leads("write", OnDisk(l.fat, es2), (A \o B) \o Y, OnDisk(h.fat, Put(es3, s, new)))
      BY <3>5, <3>8, LeadsOn DEF Y
    <3> DEFINE X == A \o B \o Y
    <3>10. Leads("write", OnDisk(l.fat, es2), X, OnDisk(h.fat, Put(es3, s, new)))
      BY <3>9
    <3> HIDE DEF X
    <3>11. Leads("write", OnDisk(fat, es), l.items \o X, OnDisk(h.fat, Put(es3, s, new)))
      BY <2>9, <3>10, LeadsOn
    <3>12. Fine(h.fat, Put(es3, s, new))
      BY <3>3, GoodIsLoose
    <3>13. Comes(Outcome(l.items \o X, h.fat, "ok"), "write", fat, es, D, fit)
      BY <3>3, <3>11, <3>12, OutcomeComes
    <3> QED
      BY <2>13, <3>6, <3>13 DEF es, X
  <2>14. CASE o = Outcome(l.items \o h.items, h.fat, "full")
    <3>1. PICK D2 : Good(h.fat, es3, D2, "loose")
      BY <2>12 DEF Fine
    <3> DEFINE X == l.items \o h.items
    <3>2. Leads("write", OnDisk(fat, es), X, OnDisk(l.fat, es3))
      BY <2>11
    <3> HIDE DEF X
    <3>3. Comes(Outcome(X, h.fat, "full"), "write", fat, es, D, fit)
      BY <2>12, <3>1, <3>2, OutcomeComes
    <3> QED
      BY <2>14, <3>3 DEF es, X
  <2> QED
    BY <2>1, <2>13, <2>14
<1> QED
  BY <1>3, <1>4

\* What the operations of a good file system come to.
LEMMA OutcomesCome ==
    ASSUME fat \in Tables, disk \in Disks, NEW D, NEW fit, Good(fat, disk.entries, D, fit),
           NEW p \in Paths, NEW name, NEW o \in Called(name, p)
    PROVE  Comes(o, name, fat, disk.entries, D, fit)
<1>1. CASE name = "truncate" /\ o \in fat_write_file(p)
  BY <1>1, WriteFileComes
<1>2. CASE name = "write" /\ o \in WritesOf(p)
  <2>1. PICK e \in Extent, b \in Bytes : o \in fat_write_at(p, e, b)
    BY <1>2 DEF WritesOf
  <2> QED
    BY <1>2, <2>1, WriteAtComes
<1>3. CASE name = "unlink" /\ o \in fat_delete_file(p)
  BY <1>3, DeleteComes
<1>4. CASE name = "rmdir" /\ o \in fat_rmdir(p)
  BY <1>4, DeleteComes
<1>5. CASE name = "mkdir" /\ o \in fat_mkdir(p)
  BY <1>5, MkdirComes
<1> QED
  BY <1>1, <1>2, <1>3, <1>4, <1>5 DEF Called
---------------------------------------------------------------------------
(* Chains stay disjoint, and none is lost.                                 *)

\* What is written so far is good, or what the operation has yet to write
\* makes it so; and nothing is lost before something has happened.
Rests(D, fit) ==
    /\ todo = <<>> /\ Good(fat, disk.entries, D, fit)
    /\ past = {} => Whole(fat, disk.entries, D)

Heading(X, F, code, es2, D, fit) ==
    /\ todo = X \o Return(F, code) /\ code \in {"ok", "full"} /\ Plain(X)
    /\ \E T, g : Leads(op, OnDisk(T, disk.entries), X, OnDisk(g, es2))
    /\ Good(F, es2, D, fit)
    /\ past = {} /\ code = "ok" => Whole(F, es2, D)

Exact(fit) == past \subseteq {"dir"} => fit = "exact"

SoundInv ==
    /\ TypeInv
    /\ past \cap {"error", "cut"} = {} =>
         \/ \E D, fit : Rests(D, fit) /\ Exact(fit)
         \/ \E X, F, code, es2, D, fit : Heading(X, F, code, es2, D, fit) /\ (code = "ok" => Exact(fit))

LEMMA InitSound == Init => SoundInv
<1> SUFFICES ASSUME Init PROVE SoundInv
  OBVIOUS
<1>1. TypeInv /\ fat \in Tables /\ disk \in Disks
  BY InitTypes DEF TypeInv, TypeOK
<1>2. /\ todo = <<>> /\ past = {}
      /\ disk.entries = [c \in Cluster \cup {Root} |-> [i \in 1..InBlock(c) |-> NoEntry]]
  BY DEF Init
<1> DEFINE es == disk.entries
<1>3. EntriesOK(es)
  BY <1>1 DEF Disks
<1>4. \A s \in SlotSet : At(es, s).name \notin Names
  <2> TAKE s \in SlotSet
  <2>1. s[1] \in Cluster \cup {Root} /\ s[2] \in 1..InBlock(s[1])
    BY DEF SlotSet
  <2>2. At(es, s) = NoEntry
    BY <1>2, <2>1 DEF At
  <2>3. NoEntry.name = END
    BY DEF NoEntry
  <2> QED
    BY <2>2, <2>3, NamesAssumption
<1> HIDE DEF es
<1>5. Used(fat, es, {Root}) = {}
  BY <1>4 DEF Used
<1>6. Heads(fat, es, {Root}) = {}
  BY <1>5 DEF Heads
<1>9. NoData(fat, es, {Root})
  <2>1. \A s \in SlotSet : At(es, s).name # DATA
    <3> TAKE s \in SlotSet
    <3>1. At(es, s) = NoEntry
      BY <1>2 DEF es, At, SlotSet
    <3>2. NoEntry.name = END
      BY DEF NoEntry
    <3> QED
      BY <3>1, <3>2, MarksDiffer
  <2> QED
    BY <2>1 DEF NoData
<1>7. Good(fat, es, {Root}, "exact")
  BY <1>1, <1>3, <1>5, <1>6, <1>9 DEF Good, Covers
<1>10. Whole(fat, es, {Root})
  <2>1. \A c \in Cluster : fat[c] = FAT12_FREE
    BY DEF Init
  <2> QED
    BY <2>1 DEF Whole, Owned, Shut
<1>8. Rests({Root}, "exact") /\ Exact("exact")
  BY <1>2, <1>7, <1>10 DEF Rests, Exact, es
<1> QED
  BY <1>1, <1>8 DEF SoundInv

\* Nothing before the last item is an end.
LEMMA PlainPrefix ==
    ASSUME NEW X \in Seq(Items), NEW Y, Plain(Y), NEW F \in Tables, NEW G \in Tables,
           NEW code \in {"ok", "full"}, X \o Return(F, code) = Y \o Return(G, code)
    PROVE  Plain(X)
<1> DEFINE A == Return(F, code)
           B == Return(G, code)
<1>1. Y \in Seq(Items) /\ \A k \in 1..Len(Y) : Y[k].write.kind # "return"
  BY DEF Plain
<1>2. A \in Seq(Items) /\ B \in Seq(Items) /\ Len(A) = 1 /\ Len(B) = 1
  BY ReturnIs DEF Return, Item
<1>3. X \o A = Y \o B
  OBVIOUS
<1> HIDE DEF A, B
<1>4. /\ Len(X) \in Nat /\ Len(X \o A) = Len(X) + 1 /\ \A k \in 1..Len(X) : (X \o A)[k] = X[k]
      /\ Len(Y) \in Nat /\ Len(Y \o B) = Len(Y) + 1 /\ \A k \in 1..Len(Y) : (Y \o B)[k] = Y[k]
  <2>1. /\ Len(X) \in Nat /\ Len(X \o A) = Len(X) + Len(A)
        /\ \A k \in 1..Len(X) : (X \o A)[k] = X[k]
    BY <1>2, ItemsConcat
  <2>2. /\ Len(Y) \in Nat /\ Len(Y \o B) = Len(Y) + Len(B)
        /\ \A k \in 1..Len(Y) : (Y \o B)[k] = Y[k]
    BY <1>1, <1>2, ItemsConcat
  <2> QED
    BY <1>2, <2>1, <2>2
<1>5. Len(X) = Len(Y)
  BY <1>3, <1>4
<1>6. \A k \in 1..Len(X) : X[k] = Y[k]
  BY <1>3, <1>4, <1>5
<1> QED
  BY <1>1, <1>5, <1>6 DEF Plain

\* An operation that has yet to write or to return is not over.
LEMMA HeadingIs ==
    ASSUME NEW X, NEW F, NEW code, NEW es2, NEW D, NEW fit, Heading(X, F, code, es2, D, fit)
    PROVE  F \in Tables /\ X \in Seq(Items) /\ code \in {"ok", "full"} /\ Return(F, code) \in Seq(Items)
           /\ todo # <<>>
<1>1. F \in Tables /\ X \in Seq(Items) /\ code \in {"ok", "full"} /\ todo = X \o Return(F, code)
  BY GoodFacts DEF Heading, Plain
<1>2. Return(F, code) \in Seq(Items) /\ Return(F, code) # <<>> /\ <<>> \o Return(F, code) = Return(F, code)
  BY <1>1, LastItem
<1>3. CASE X = <<>>
  BY <1>1, <1>2, <1>3
<1>4. CASE X # <<>>
  BY <1>1, <1>2, <1>4, FirstItem
<1> QED
  BY <1>1, <1>2, <1>3, <1>4

LEMMA SoundStep == SoundInv /\ [Next]_vars => SoundInv'
<1> SUFFICES ASSUME SoundInv, [Next]_vars PROVE SoundInv'
  OBVIOUS
<1>0. TypeInv /\ TypeInv'
  BY TypesStep DEF SoundInv
<1>a. fat \in Tables /\ disk \in Disks /\ todo \in Seq(Items)
  BY <1>0 DEF TypeInv, TypeOK
<1> DEFINE Calm == past \cap {"error", "cut"} = {}
<1>b. Calm => \/ \E D, fit : Rests(D, fit) /\ Exact(fit)
              \/ \E X, F, code, es2, D, fit : Heading(X, F, code, es2, D, fit) /\ (code = "ok" => Exact(fit))
  BY DEF SoundInv
<1>c. ASSUME NEW X, NEW F, NEW code, NEW es2, NEW D, NEW fit, Heading(X, F, code, es2, D, fit)
      PROVE  F \in Tables /\ X \in Seq(Items) /\ code \in {"ok", "full"} /\ Return(F, code) \in Seq(Items)
             /\ todo # <<>>
  BY <1>c, HeadingIs
<1>1. ASSUME NEW p \in Paths, Operation(p) PROVE SoundInv'
  <2>1. PICK o \in OutcomesOf(p) :
          /\ todo = <<>> /\ o \in Called(op', p)
          /\ todo' = o.items
          /\ past' = IF o.emptied THEN past \cup {"dir"} ELSE past
          /\ UNCHANGED <<fat, disk, late>>
    BY <1>a, <1>1, OperationBegins DEF Begins
  <2>2. Shape(o)
    BY <1>a, OutcomesShape
  <2> SUFFICES ASSUME Calm'
               PROVE  \/ \E D, fit : Rests(D, fit)' /\ Exact(fit)'
                      \/ \E X, F, code, es2, D, fit : Heading(X, F, code, es2, D, fit)' /\ (code = "ok" => Exact(fit)')
    BY <1>0 DEF SoundInv
  <2>3. Calm
    BY <2>1
  <2>4. PICK D, fit : Rests(D, fit) /\ Exact(fit)
    BY <1>b, <1>c, <2>1, <2>3
  <2>5. Good(fat, disk.entries, D, fit)
    BY <2>4 DEF Rests
  <2>6. past' \subseteq {"dir"} => past \subseteq {"dir"}
    BY <2>1
  <2>9. past' = {} => past = {} /\ ~o.emptied /\ Whole(fat, disk.entries, D)
    BY <2>1, <2>4 DEF Rests
  <2>7. CASE o.code = "wild"
    <3>1. Rests(D, fit)'
      BY <2>1, <2>2, <2>5, <2>7, <2>9 DEF Rests, Shape
    <3>2. Exact(fit)'
      BY <2>4, <2>6 DEF Exact
    <3> QED
      BY <3>1, <3>2
  <2>8. CASE o.code # "wild"
    <3>0. o \in Called(op', p)
      BY <2>1
    <3>1. Comes(o, op', fat, disk.entries, D, fit)
      <4> DEFINE name == op'
      <4>1. o \in Called(name, p)
        BY <3>0
      <4> HIDE DEF name
      <4>2. Comes(o, name, fat, disk.entries, D, fit)
        BY <1>a, <2>5, <4>1, OutcomesCome
      <4> QED
        BY <4>2 DEF name
    <3>2. PICK X, F, g, es2, D2, fit2 :
            /\ o.items = X \o Return(F, o.code) /\ o.code \in {"ok", "full"}
            /\ Leads(op', OnDisk(fat, disk.entries), X, OnDisk(g, es2)) /\ Good(F, es2, D2, fit2)
            /\ o.code = "ok" => fit2 = fit
            /\ o.code = "ok" /\ ~o.emptied /\ Whole(fat, disk.entries, D) => Whole(F, es2, D2)
      BY <2>8, <3>1 DEF Comes
    <3>3. PICK Y, G : Returns(o, Y, G)
      BY <2>2, <2>8 DEF Shape
    <3>4. G \in Tables /\ Plain(Y) /\ o.items = Y \o Return(G, o.code)
      BY <3>3 DEF Returns
    <3>5. F \in Tables /\ X \in Seq(Items)
      BY <3>2, GoodFacts DEF Leads
    <3>6. Plain(X)
      <4>1. X \o Return(F, o.code) = Y \o Return(G, o.code) /\ o.code \in {"ok", "full"}
        BY <3>2, <3>4
      <4> QED
        BY <3>4, <3>5, <4>1, PlainPrefix
    <3>7. Heading(X, F, o.code, es2, D2, fit2)'
      <4>1. Leads(op', OnDisk(fat, disk.entries'), X, OnDisk(g, es2))
        BY <2>1, <3>2
      <4>2. todo' = X \o Return(F, o.code) /\ o.code \in {"ok", "full"} /\ Plain(X) /\ Good(F, es2, D2, fit2)
        BY <2>1, <3>2, <3>6
      <4>3. past' = {} /\ o.code = "ok" => Whole(F, es2, D2)
        BY <2>9, <3>2
      <4> QED
        BY <4>1, <4>2, <4>3 DEF Heading
    <3>8. o.code = "ok" => Exact(fit2)'
      BY <2>4, <2>6, <3>2 DEF Exact
    <3> QED
      BY <3>7, <3>8
  <2> QED
    BY <2>7, <2>8
<1>2. CASE WriteNext
  <2>1. todo # <<>> /\ Head(todo).write.kind # "return" /\ disk' = Effect(disk, Head(todo))
        /\ todo' = Tail(todo) /\ past' = past /\ op' = op
    BY <1>2 DEF WriteNext
  <2> SUFFICES ASSUME Calm'
               PROVE  \E X, F, code, es2, D, fit : Heading(X, F, code, es2, D, fit)' /\ (code = "ok" => Exact(fit)')
    BY <1>0 DEF SoundInv
  <2>2. PICK X, F, code, es2, D, fit : Heading(X, F, code, es2, D, fit) /\ (code = "ok" => Exact(fit))
    BY <1>b, <2>1 DEF Rests
  <2>3. F \in Tables /\ X \in Seq(Items) /\ code \in {"ok", "full"} /\ Return(F, code) \in Seq(Items)
    BY <1>c, <2>2
  <2>4. todo = X \o Return(F, code) /\ Plain(X) /\ Good(F, es2, D, fit)
        /\ (past = {} /\ code = "ok" => Whole(F, es2, D))
    BY <2>2 DEF Heading
  <2>12. PICK T, g : Leads(op, OnDisk(T, disk.entries), X, OnDisk(g, es2))
    BY <2>2 DEF Heading
  <2>5. X # <<>>
    BY <2>1, <2>3, <2>4, LastItem
  <2>6. /\ Head(todo) = X[1] /\ todo' = Tail(X) \o Return(F, code) /\ Tail(X) \in Seq(Items)
        /\ Len(X) \in Nat \ {0} /\ Len(Tail(X)) = Len(X) - 1
        /\ \A k \in 1..Len(Tail(X)) : Tail(X)[k] = X[k + 1]
    BY <2>1, <2>3, <2>4, <2>5, FirstItem
  <2>7. Plain(Tail(X))
    <3>1. \A k \in 1..Len(Tail(X)) : k + 1 \in 1..Len(X)
      BY <2>6
    <3> QED
      BY <2>4, <2>6, <3>1 DEF Plain
  <2>8. \E T2 : Leads(op', OnDisk(T2, disk.entries'), Tail(X), OnDisk(g, es2))
    <3>1. X[1] \in Items /\ disk' = Effect(disk, X[1])
      <4>1. 1 \in 1..Len(X)
        BY <2>6
      <4> QED
        BY <2>1, <2>3, <2>6, <4>1, ElementOfSeq
    <3>2. disk'.entries = EntriesAfter(disk.entries, X[1])
      BY <1>a, <3>1, EffectOnEntries
    <3>3. Leads(op, AfterWrite(OnDisk(T, disk.entries), X[1]), Tail(X), OnDisk(g, es2))
      BY <2>5, <2>12, LeadsFrom
    <3>4. AfterWrite(OnDisk(T, disk.entries), X[1]) = OnDisk(CopyAfter(T, X[1]), disk'.entries)
      BY <3>2 DEF AfterWrite, OnDisk
    <3> QED
      BY <2>1, <3>3, <3>4
  <2>9. Heading(Tail(X), F, code, es2, D, fit)'
    <3>1. past' = {} /\ code = "ok" => Whole(F, es2, D)
      BY <2>1, <2>4
    <3>2. todo' = Tail(X) \o Return(F, code) /\ code \in {"ok", "full"} /\ Good(F, es2, D, fit)
      BY <2>3, <2>4, <2>6
    <3> QED
      BY <2>7, <2>8, <3>1, <3>2 DEF Heading
  <2>10. code = "ok" => Exact(fit)'
    BY <2>1, <2>2 DEF Exact
  <2> QED
    BY <2>9, <2>10
<1>3. CASE Finish
  <2>1. /\ todo # <<>> /\ Head(todo).write.kind = "return" /\ fat' = Head(todo).fat /\ todo' = <<>> /\ disk' = disk
        /\ past' = IF Head(todo).write.val = "full" THEN past \cup {"full"} ELSE past
    BY <1>3 DEF Finish
  <2> SUFFICES ASSUME Calm' PROVE \E D, fit : Rests(D, fit)' /\ Exact(fit)'
    BY <1>0 DEF SoundInv
  <2>2. PICK X, F, code, es2, D, fit : Heading(X, F, code, es2, D, fit) /\ (code = "ok" => Exact(fit))
    BY <1>b, <2>1 DEF Rests
  <2>3. F \in Tables /\ X \in Seq(Items) /\ code \in {"ok", "full"} /\ Return(F, code) \in Seq(Items)
    BY <1>c, <2>2
  <2>4. todo = X \o Return(F, code) /\ Plain(X) /\ Good(F, es2, D, fit)
        /\ (past = {} /\ code = "ok" => Whole(F, es2, D))
    BY <2>2 DEF Heading
  <2>11. PICK T, g : Leads(op, OnDisk(T, disk.entries), X, OnDisk(g, es2))
    BY <2>2 DEF Heading
  <2>5. X = <<>>
    <3> SUFFICES ASSUME X # <<>> PROVE FALSE
      OBVIOUS
    <3>1. Len(X) \in Nat \ {0} /\ Head(X \o Return(F, code)) = X[1]
      BY <2>3, FirstItem
    <3>2. Head(todo) = X[1] /\ 1 \in 1..Len(X)
      BY <2>4, <3>1
    <3> QED
      BY <2>1, <2>4, <3>2 DEF Plain
  <2>6. Head(todo) = [fat |-> F, write |-> [kind |-> "return", at |-> Root, val |-> code]]
    BY <2>3, <2>4, <2>5, LastItem
  <2>7. fat' = F /\ past' = IF code = "full" THEN past \cup {"full"} ELSE past
    BY <2>1, <2>6
  <2>8. es2 = disk.entries
    <3>1. OnDisk(g, es2) = OnDisk(T, disk.entries)
      BY <2>5, <2>11, LeadsFrom
    <3> QED
      BY <3>1 DEF OnDisk
  <2>9. Rests(D, fit)'
    <3>1. fat' = F /\ disk'.entries = es2 /\ todo' = <<>>
      BY <2>1, <2>7, <2>8
    <3>2. past' = {} => past = {} /\ code = "ok"
      BY <2>3, <2>7
    <3>3. Good(fat', disk'.entries, D, fit)
      BY <2>4, <3>1
    <3>4. past' = {} => Whole(fat', disk'.entries, D)
      BY <2>4, <3>1, <3>2
    <3> QED
      BY <3>1, <3>3, <3>4 DEF Rests
  <2>10. Exact(fit)'
    <3>1. CASE code = "ok"
      BY <2>2, <2>7, <3>1 DEF Exact
    <3>2. CASE code = "full"
      BY <2>7, <3>2 DEF Exact
    <3> QED
      BY <2>3, <3>1, <3>2
  <2> QED
    BY <2>9, <2>10
<1>4. CASE DiskError \/ PowerCut
  <2>1. ~Calm'
    BY <1>4 DEF DiskError, PowerCut
  <2> QED
    BY <1>0, <2>1 DEF SoundInv
<1>6. CASE UNCHANGED vars
  <2>1. UNCHANGED <<fat, disk, op, todo, past>>
    BY <1>6 DEF vars
  <2>2. ASSUME NEW D, NEW fit, Rests(D, fit) PROVE Rests(D, fit)'
    BY <2>1, <2>2 DEF Rests
  <2>3. ASSUME NEW fit, Exact(fit) PROVE Exact(fit)'
    BY <2>1, <2>3 DEF Exact
  <2>4. ASSUME NEW X, NEW F, NEW code, NEW es2, NEW D, NEW fit, Heading(X, F, code, es2, D, fit)
        PROVE  Heading(X, F, code, es2, D, fit)'
    BY <2>1, <2>4 DEF Heading
  <2>5. Calm' => Calm
    BY <2>1
  <2> QED
    BY <1>0, <1>b, <2>2, <2>3, <2>4, <2>5 DEF SoundInv
<1> QED
  BY <1>1, <1>2, <1>3, <1>4, <1>6 DEF Next

\* Whatever operations are called in whatever order, a full disk included, no
\* two files or directories share a cluster, every chain ends and none is
\* shorter than its file: what fat_alloc_cluster, fat_free_chain and the order
\* of the writes are for, as long as no write is lost.
THEOREM ChainsAreSound == Spec => []ChainsSound
<1>1. SoundInv => ChainsSound
  <2> SUFFICES ASSUME SoundInv, past \cap {"error", "cut"} = {}, todo = <<>> PROVE Sound(fat, disk.entries)
    BY DEF ChainsSound
  <2>1. ASSUME NEW X, NEW F, NEW code, NEW es2, NEW D, NEW fit, Heading(X, F, code, es2, D, fit) PROVE FALSE
    BY <2>1, HeadingIs
  <2>2. PICK D, fit : Rests(D, fit)
    BY <2>1 DEF SoundInv
  <2> QED
    BY <2>2, GoodIsSound DEF Rests
<1> QED
  BY <1>1, InitSound, SoundStep, PTL DEF Spec

\* The chain of a file is no longer than its size asks for, so what
\* fat_read_file stores fits the buffer of fat_read_alloc_size bytes, until
\* an operation is stopped half way.
THEOREM ChainsFitBuffers == Spec => []ChainFitsBuffer
<1>1. SoundInv => ChainFitsBuffer
  <2> SUFFICES ASSUME SoundInv, todo = <<>>, past \subseteq {"dir"}
               PROVE  \A s \in Live(fat, disk.entries, Dirs(fat, disk.entries)) :
                        LET e == At(disk.entries, s) IN
                        ~e.dir => cluster_size * Cardinality(Chain(fat, e.first)) < e.size + cluster_size
    BY DEF ChainFitsBuffer
  <2>1. ASSUME NEW X, NEW F, NEW code, NEW es2, NEW D, NEW fit, Heading(X, F, code, es2, D, fit) PROVE FALSE
    BY <2>1, HeadingIs
  <2>2. past \cap {"error", "cut"} = {}
    OBVIOUS
  <2>3. PICK D, fit : Rests(D, fit) /\ Exact(fit)
    BY <2>1, <2>2 DEF SoundInv
  <2>4. Good(fat, disk.entries, D, "exact")
    BY <2>3 DEF Rests, Exact
  <2> QED
    BY <2>4, GoodIsExact
<1> QED
  BY <1>1, InitSound, SoundStep, PTL DEF Spec

\* However files and directories are made, written, emptied and removed, each
\* cluster the table holds in use is in the chain of an entry that can be reached
\* from the root: fat_free_chain frees all that the entry goes without, and what
\* dir_lookup and fat_alloc_cluster take is linked before the operation returns.
THEOREM NoClusterIsLost == Spec => []NoLostClusters
<1>1. SoundInv => NoLostClusters
  <2> SUFFICES ASSUME SoundInv, todo = <<>>, past = {}
               PROVE  {c \in Cluster : fat[c] # FAT12_FREE} =
                      UNION {Chain(fat, At(disk.entries, s).first) :
                                s \in Live(fat, disk.entries, Dirs(fat, disk.entries))}
    BY DEF NoLostClusters
  <2>1. ASSUME NEW X, NEW F, NEW code, NEW es2, NEW D, NEW fit, Heading(X, F, code, es2, D, fit) PROVE FALSE
    BY <2>1, HeadingIs
  <2>2. past \cap {"error", "cut"} = {}
    OBVIOUS
  <2>3. PICK D, fit : Rests(D, fit)
    BY <2>1, <2>2 DEF SoundInv
  <2>4. Good(fat, disk.entries, D, fit) /\ Whole(fat, disk.entries, D)
    BY <2>3 DEF Rests
  <2> QED
    BY <2>4, WholeIsExact
<1> QED
  BY <1>1, InitSound, SoundStep, PTL DEF Spec
---------------------------------------------------------------------------
(* What stops an operation: a power cut, a disk error.                     *)

\* Operation op has yet to do X, which begins with T as the first copy of the
\* table and ends with one that fits, as long as the last operation had written
\* the table.
Ahead(X, F, code, T, g, es2) ==
    /\ todo = X \o Return(F, code) /\ code \in {"ok", "full"} /\ Plain(X)
    /\ F \in Tables /\ T \in Tables
    /\ Leads(op, OnDisk(T, disk.entries), X, OnDisk(g, es2)) /\ Fine(g, es2)
    /\ ~late => disk.fats[1] = T

SecureInv ==
    /\ CopiesInv
    /\ todo # <<>> => \E X, F, code, T, g, es2 : Ahead(X, F, code, T, g, es2)

\* The first copy on the disk is the one the writes lead to.
LEMMA FirstCopy ==
    ASSUME NEW d \in Disks, NEW it \in Items
    PROVE  Effect(d, it).fats[1] = CopyAfter(d.fats[1], it)
<1> DEFINE E == Effect(d, it)
           C == CopyAfter(d.fats[1], it)
<1>1. 1 \in 1..fat_count
  BY Sizes
<1>2. E \in Disks
  BY EffectIs
<1>3. E.fats[1] \in Tables /\ d.fats[1] \in Tables
  <2> HIDE DEF E
  <2> QED
    BY <1>1, <1>2 DEF Disks
<1>4. E.fats[1] = [c \in Cluster |-> E.fats[1][c]]
  <2> HIDE DEF E
  <2> QED
    BY <1>3 DEF Tables
<1>5. ASSUME NEW c \in Cluster
      PROVE  E.fats[1][c] = IF Flushes(it, 1, SectorOf(c)) THEN it.fat[c] ELSE d.fats[1][c]
  <2>1. CASE it.write.kind = "fat"
    BY <1>1, <2>1, EffectIs
  <2>2. CASE it.write.kind # "fat"
    BY <2>2, EffectIs DEF Flushes
  <2> QED
    BY <2>1, <2>2
<1> HIDE DEF E
<1> QED
  BY <1>4, <1>5 DEF CopyAfter, E

LEMMA CopyIsTable ==
    ASSUME NEW f \in Tables, NEW it \in Items
    PROVE  CopyAfter(f, it) \in Tables
<1>1. it.fat \in Tables
  BY DEF Items
<1> QED
  BY <1>1 DEF CopyAfter, Tables

LEMMA InitSecure == Init => SecureInv
<1> SUFFICES ASSUME Init PROVE SecureInv
  OBVIOUS
<1>1. CopiesInv /\ todo = <<>>
  BY InitCopies DEF Init
<1> QED
  BY <1>1 DEF SecureInv

LEMMA SecureStep == SecureInv /\ [Next]_vars => SecureInv'
<1> SUFFICES ASSUME SecureInv, [Next]_vars PROVE SecureInv'
  OBVIOUS
<1>0. CopiesInv /\ CopiesInv'
  BY CopiesStep DEF SecureInv
<1>a. fat \in Tables /\ disk \in Disks /\ todo \in Seq(Items) /\ EntriesOK(disk.entries) /\ FirstWritten
  BY <1>0 DEF CopiesInv, TypeInv, TypeOK, Disks
<1>b. todo # <<>> => \E X, F, code, T, g, es2 : Ahead(X, F, code, T, g, es2)
  BY DEF SecureInv
<1>1. ASSUME NEW p \in Paths, Operation(p) PROVE SecureInv'
  <2>1. PICK o \in OutcomesOf(p) :
          /\ todo = <<>> /\ o \in Called(op', p) /\ Sound(fat, disk.entries)
          /\ todo' = o.items
          /\ UNCHANGED <<fat, disk, late>>
    BY <1>a, <1>1, OperationBegins DEF Begins
  <2>2. Shape(o)
    BY <1>a, OutcomesShape
  <2>3. Good(fat, disk.entries, Dirs(fat, disk.entries), "loose")
    BY <1>a, <2>1, SoundIsGood
  <2>7. CASE o.code = "wild"
    <3>1. todo' = <<>>
      BY <2>1, <2>2, <2>7 DEF Shape
    <3> QED
      BY <1>0, <3>1 DEF SecureInv
  <2>8. CASE o.code # "wild"
    <3>0. o \in Called(op', p)
      BY <2>1
    <3>1. Comes(o, op', fat, disk.entries, Dirs(fat, disk.entries), "loose")
      <4> DEFINE name == op'
      <4>1. o \in Called(name, p)
        BY <3>0
      <4> HIDE DEF name
      <4>2. Comes(o, name, fat, disk.entries, Dirs(fat, disk.entries), "loose")
        BY <1>a, <2>3, <4>1, OutcomesCome
      <4> QED
        BY <4>2 DEF name
    <3>2. PICK X, F, g, es2, D2, fit2 :
            /\ o.items = X \o Return(F, o.code) /\ o.code \in {"ok", "full"}
            /\ Leads(op', OnDisk(fat, disk.entries), X, OnDisk(g, es2)) /\ Fine(g, es2)
            /\ Good(F, es2, D2, fit2)
      BY <2>8, <3>1 DEF Comes
    <3>3. PICK Y, G : Returns(o, Y, G)
      BY <2>2, <2>8 DEF Shape
    <3>4. G \in Tables /\ Plain(Y) /\ o.items = Y \o Return(G, o.code)
      BY <3>3 DEF Returns
    <3>5. F \in Tables /\ X \in Seq(Items)
      BY <3>2, GoodFacts DEF Leads
    <3>6. Plain(X)
      <4>1. X \o Return(F, o.code) = Y \o Return(G, o.code) /\ o.code \in {"ok", "full"}
        BY <3>2, <3>4
      <4> QED
        BY <3>4, <3>5, <4>1, PlainPrefix
    <3>7. Ahead(X, F, o.code, fat, g, es2)'
      <4>1. Leads(op', OnDisk(fat, disk.entries'), X, OnDisk(g, es2)) /\ Fine(g, es2)
        BY <2>1, <3>2
      <4>2. todo' = X \o Return(F, o.code) /\ o.code \in {"ok", "full"} /\ Plain(X)
        BY <2>1, <3>2, <3>6
      <4>3. ~late' => disk.fats[1]' = fat'
        BY <1>a, <2>1 DEF FirstWritten
      <4> QED
        BY <1>a, <2>1, <3>5, <4>1, <4>2, <4>3 DEF Ahead
    <3> QED
      BY <1>0, <3>7 DEF SecureInv
  <2> QED
    BY <2>7, <2>8
<1>2. CASE WriteNext
  <2>1. todo # <<>> /\ Head(todo).write.kind # "return" /\ disk' = Effect(disk, Head(todo))
        /\ todo' = Tail(todo) /\ late' = late /\ op' = op
    BY <1>2 DEF WriteNext
  <2>2. PICK X, F, code, T, g, es2 : Ahead(X, F, code, T, g, es2)
    BY <1>b, <2>1
  <2>3. F \in Tables /\ X \in Seq(Items) /\ code \in {"ok", "full"} /\ T \in Tables
        /\ todo = X \o Return(F, code) /\ Plain(X)
    BY <2>2 DEF Ahead, Plain
  <2>4. Return(F, code) \in Seq(Items)
    BY <2>3, LastItem
  <2>5. X # <<>>
    BY <2>1, <2>3, LastItem
  <2>6. /\ Head(todo) = X[1] /\ todo' = Tail(X) \o Return(F, code) /\ Tail(X) \in Seq(Items)
        /\ Len(X) \in Nat \ {0} /\ Len(Tail(X)) = Len(X) - 1
        /\ \A k \in 1..Len(Tail(X)) : Tail(X)[k] = X[k + 1]
    BY <2>1, <2>3, <2>4, <2>5, FirstItem
  <2>7. Plain(Tail(X))
    <3>1. \A k \in 1..Len(Tail(X)) : k + 1 \in 1..Len(X)
      BY <2>6
    <3> QED
      BY <2>3, <2>6, <3>1 DEF Plain
  <2>8. X[1] \in Items /\ disk' = Effect(disk, X[1])
    <3>1. 1 \in 1..Len(X)
      BY <2>6
    <3> QED
      BY <2>1, <2>3, <2>6, <3>1, ElementOfSeq
  <2> DEFINE T2 == CopyAfter(T, X[1])
  <2>9. T2 \in Tables
    BY <2>3, <2>8, CopyIsTable
  <2>10. ~late => disk'.fats[1] = T2
    <3>1. disk'.fats[1] = CopyAfter(disk.fats[1], X[1])
      BY <1>a, <2>8, FirstCopy
    <3>2. ~late => disk.fats[1] = T
      BY <2>2 DEF Ahead
    <3> QED
      BY <3>1, <3>2
  <2>11. Leads(op', OnDisk(T2, disk.entries'), Tail(X), OnDisk(g, es2))
    <3>1. disk'.entries = EntriesAfter(disk.entries, X[1])
      BY <1>a, <2>8, EffectOnEntries
    <3>2. Leads(op, OnDisk(T, disk.entries), X, OnDisk(g, es2))
      BY <2>2 DEF Ahead
    <3>3. Leads(op, AfterWrite(OnDisk(T, disk.entries), X[1]), Tail(X), OnDisk(g, es2))
      BY <2>5, <3>2, LeadsFrom
    <3>4. AfterWrite(OnDisk(T, disk.entries), X[1]) = OnDisk(T2, disk'.entries)
      BY <3>1 DEF AfterWrite, OnDisk
    <3> QED
      BY <2>1, <3>3, <3>4
  <2>12. Fine(g, es2)
    BY <2>2 DEF Ahead
  <2> HIDE DEF T2
  <2>13. Ahead(Tail(X), F, code, T2, g, es2)'
    BY <2>1, <2>3, <2>6, <2>7, <2>9, <2>10, <2>11, <2>12 DEF Ahead
  <2> QED
    BY <1>0, <2>13 DEF SecureInv
<1>3. CASE Finish \/ DiskError \/ PowerCut
  <2>1. todo' = <<>>
    BY <1>3 DEF Finish, DiskError, PowerCut
  <2> QED
    BY <1>0, <2>1 DEF SecureInv
<1>4. CASE UNCHANGED vars
  <2>1. UNCHANGED <<fat, disk, op, todo, late>>
    BY <1>4 DEF vars
  <2>2. ASSUME NEW X, NEW F, NEW code, NEW T, NEW g, NEW es2, Ahead(X, F, code, T, g, es2)
        PROVE  Ahead(X, F, code, T, g, es2)'
    BY <2>1, <2>2 DEF Ahead
  <2> QED
    BY <1>0, <1>b, <2>1, <2>2 DEF SecureInv
<1> QED
  BY <1>1, <1>2, <1>3, <1>4 DEF Next

\* What comes next of an operation: a write, or its end on a table that fits.
LEMMA AheadIs ==
    ASSUME disk \in Disks, NEW X, NEW F, NEW code, NEW T, NEW g, NEW es2, Ahead(X, F, code, T, g, es2)
    PROVE  \/ /\ X # <<>> /\ Head(todo) = X[1] /\ Secure(op, OnDisk(T, disk.entries), X[1])
           \/ /\ X = <<>> /\ Head(todo).write.kind = "return" /\ Fine(T, disk.entries)
<1>1. F \in Tables /\ X \in Seq(Items) /\ code \in {"ok", "full"} /\ todo = X \o Return(F, code)
      /\ Leads(op, OnDisk(T, disk.entries), X, OnDisk(g, es2)) /\ Fine(g, es2)
  BY DEF Ahead, Plain
<1>2. Return(F, code) \in Seq(Items)
  BY <1>1, LastItem
<1>3. CASE X # <<>>
  <2>1. Head(todo) = X[1]
    BY <1>1, <1>2, <1>3, FirstItem
  <2> QED
    BY <1>1, <1>3, <2>1, LeadsFrom
<1>4. CASE X = <<>>
  <2>1. Head(todo) = [fat |-> F, write |-> [kind |-> "return", at |-> Root, val |-> code]]
    BY <1>1, <1>4, LastItem
  <2>2. OnDisk(g, es2) = OnDisk(T, disk.entries)
    BY <1>1, <1>4, LeadsFrom
  <2>3. g = T /\ es2 = disk.entries
    BY <2>2 DEF OnDisk
  <2> QED
    BY <1>1, <1>4, <2>1, <2>3
<1> QED
  BY <1>3, <1>4

LEMMA FineIsSound ==
    ASSUME NEW f, NEW es, Fine(f, es)
    PROVE  Sound(f, es)
BY GoodIsSound DEF Fine

\* Wherever the power goes off, the first copy of the table and the directories
\* on the disk fit together when it is back: no entry names a free cluster or
\* one of another file.  Outside of the window are all of fat_write_at,
\* fat_delete_file and fat_mkdir but the moments between two sectors of the
\* first copy.
THEOREM CutLeavesSound == Spec => []CutIsSafe
<1>1. SecureInv => CutIsSafe
  <2> SUFFICES ASSUME SecureInv, todo # <<>>, ~late PROVE Window \/ Sound(disk.fats[1], disk.entries)
    BY DEF CutIsSafe
  <2>1. PICK X, F, code, T, g, es2 : Ahead(X, F, code, T, g, es2)
    BY DEF SecureInv
  <2>2. disk.fats[1] = T
    BY <2>1 DEF Ahead
  <2>3. disk \in Disks
    BY DEF SecureInv, CopiesInv, TypeInv
  <2>4. CASE Head(todo) = X[1] /\ Secure(op, OnDisk(T, disk.entries), X[1])
    <3>1. CutHarms(op, X[1]) \/ Fine(T, disk.entries)
      BY <2>4 DEF Secure, OnDisk
    <3>2. CutHarms(op, X[1]) => Window
      BY <2>4 DEF CutHarms, Window
    <3> QED
      BY <2>2, <3>1, <3>2, FineIsSound
  <2>5. CASE Fine(T, disk.entries)
    BY <2>2, <2>5, FineIsSound
  <2> QED
    BY <2>1, <2>3, <2>4, <2>5, AheadIs
<1> QED
  BY <1>1, InitSecure, SecureStep, PTL DEF Spec

\* Where a disk error stops fat_write_at or fat_mkdir, the cached table, which
\* the next operation uses, fits the directories on the disk; the exception is
\* the cluster that dir_lookup has linked and not zeroed.
THEOREM ErrorLeavesSound == Spec => ErrorIsSafe
<1> DEFINE A == (DiskError /\ op \notin {"unlink", "truncate", "rmdir"})
                  => Zeroing(Head(todo)) \/ Sound(fat', disk'.entries)
<1>1. SecureInv /\ [Next]_vars => [A]_vars
  <2> SUFFICES ASSUME SecureInv, DiskError, op \notin {"unlink", "truncate", "rmdir"}
               PROVE  Zeroing(Head(todo)) \/ Sound(fat', disk'.entries)
    OBVIOUS
  <2>1. todo # <<>> /\ Head(todo).write.kind # "return" /\ fat' = Head(todo).fat /\ disk' = disk
    BY DEF DiskError
  <2>2. PICK X, F, code, T, g, es2 : Ahead(X, F, code, T, g, es2)
    BY <2>1 DEF SecureInv
  <2>3. disk \in Disks
    BY DEF SecureInv, CopiesInv, TypeInv
  <2>4. Head(todo) = X[1] /\ Secure(op, OnDisk(T, disk.entries), X[1])
    BY <2>1, <2>2, <2>3, AheadIs
  <2>5. ErrorHarms(op, X[1]) \/ Fine(X[1].fat, disk.entries)
    BY <2>4 DEF Secure, OnDisk
  <2>6. ErrorHarms(op, X[1]) => Zeroing(Head(todo))
    BY <2>4 DEF ErrorHarms
  <2> QED
    BY <2>1, <2>4, <2>5, <2>6, FineIsSound
<1>2. Spec => []SecureInv
  BY InitSecure, SecureStep, PTL DEF Spec
<1> QED
  BY <1>1, <1>2, PTL DEF Spec, ErrorIsSafe
=============================================================================
