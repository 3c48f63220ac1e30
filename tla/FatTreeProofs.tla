---------------------------- MODULE FatTreeProofs ----------------------------
(* Proof that Fat implements FileTree: what is at a path follows from its  *)
(* entry and its chain, and an operation, taken as done, changes at most   *)
(* one name of the tree.                                                   *)
EXTENDS FatTree, FatNames

---------------------------------------------------------------------------
(* What is at a path.                                                      *)

\* The number of the cluster of byte i of a file, counted from 0, and the byte.
ClusterNo(i) == (i - 1) \div cluster_size

Byte(f, b, c, i) ==
    IF cluster_size * Cardinality(Chain(f, c)) < i THEN NULL
    ELSE b[ChainWalk(f, c)[ClusterNo(i)]][(i - 1) % cluster_size]

Content(f, b, x) == [i \in 1..x.size |-> Byte(f, b, x.first, i)]

NodeOf(f, b, x) ==
    IF x.dir THEN [kind |-> "dir", data |-> <<>>] ELSE [kind |-> "file", data |-> Content(f, b, x)]

\* Byte i of a file lies in a cluster of its chain.
LEMMA ByteIs ==
    ASSUME NEW f \in Tables, NEW c, NEW i \in Nat \ {0}, i <= cluster_size * Cardinality(Chain(f, c))
    PROVE  /\ ClusterNo(i) \in 0..(Cardinality(Chain(f, c)) - 1) /\ ClusterNo(i) \in 0..MaxCluster
           /\ ChainSeq(f, c)[1 + ClusterNo(i)] = ChainWalk(f, c)[ClusterNo(i)]
           /\ ChainWalk(f, c)[ClusterNo(i)] \in Chain(f, c)
           /\ (i - 1) % cluster_size \in 0..(cluster_size - 1)
           /\ i - 1 = (cluster_size * ClusterNo(i)) + ((i - 1) % cluster_size)
<1> SUFFICES ASSUME NEW m, m = Cardinality(Chain(f, c)), i <= cluster_size * m, NEW j, j = ClusterNo(i),
                    NEW r, r = (i - 1) % cluster_size
             PROVE  /\ j \in 0..(m - 1) /\ j \in 0..MaxCluster
                    /\ ChainSeq(f, c)[1 + j] = ChainWalk(f, c)[j]
                    /\ ChainWalk(f, c)[j] \in Chain(f, c)
                    /\ r \in 0..(cluster_size - 1)
                    /\ i - 1 = (cluster_size * j) + r
  OBVIOUS
<1>1. m \in Nat /\ m <= MaxCluster - 1 /\ cluster_size \in Nat \ {0} /\ MaxCluster \in Nat
  BY ChainIsFinite, Sizes
<1>2. i \in 1..(cluster_size * m)
  <2>1. cluster_size * m \in Nat
    BY <1>1
  <2> QED
    BY <2>1
<1>3. j = (i - 1) \div cluster_size
  BY DEF ClusterNo
<1>4. /\ j \in 0..(m - 1) /\ 1 + j \in 1..m
      /\ 1 + r \in 1..cluster_size
      /\ i = cluster_size * j + (1 + r)
  <2>1. /\ (i - 1) \div cluster_size \in 0..(m - 1) /\ 1 + (i - 1) \div cluster_size \in 1..m
        /\ 1 + ((i - 1) % cluster_size) \in 1..cluster_size
        /\ i = cluster_size * ((i - 1) \div cluster_size) + (1 + ((i - 1) % cluster_size))
    BY <1>1, <1>2, Places
  <2> QED
    BY <1>3, <2>1
<1>5. r \in Int
  <2>1. \A n \in Nat \ {0}, x \in Int : x % n \in Int
    OBVIOUS
  <2> QED
    BY <1>1, <2>1
<1>6. 1 + j - 1 = j /\ cluster_size * j \in Int
  BY <1>1, <1>4
<1>7. /\ ChainSeq(f, c)[1 + j] = ChainWalk(f, c)[j]
      /\ ChainWalk(f, c)[j] \in Chain(f, c)
  <2> SUFFICES ASSUME NEW k, k = 1 + j
               PROVE  ChainSeq(f, c)[k] = ChainWalk(f, c)[j] /\ ChainWalk(f, c)[j] \in Chain(f, c)
    OBVIOUS
  <2>1. k \in 1..Cardinality(Chain(f, c)) /\ k - 1 = j
    BY <1>4, <1>6
  <2>2. ChainSeq(f, c)[k] = ChainWalk(f, c)[k - 1]
    BY <2>1, ChainSeqIs
  <2>3. ChainWalk(f, c)[k - 1] \in Chain(f, c)
    BY <2>1, WalkOfMembers
  <2> QED
    BY <2>1, <2>2, <2>3
<1>9. j \in 0..MaxCluster
  BY <1>1, <1>4
<1>10. r \in 0..(cluster_size - 1) /\ i - 1 = (cluster_size * j) + r
  <2> SUFFICES ASSUME NEW t \in Int, t = cluster_size * j
               PROVE  r \in 0..(cluster_size - 1) /\ i - 1 = t + r
    BY <1>6
  <2>1. i = t + (1 + r)
    BY <1>4
  <2> QED
    BY <1>1, <1>4, <1>5, <2>1
<1> QED
  BY <1>4, <1>7, <1>9, <1>10

\* As Node reads it.
Read(f, b, c, i) ==
    IF cluster_size * Len(ChainSeq(f, c)) < i THEN NULL
    ELSE b[ChainSeq(f, c)[1 + (i - 1) \div cluster_size]][(i - 1) % cluster_size]

LEMMA ByteRead ==
    ASSUME NEW f \in Tables, NEW b, NEW c, NEW i \in Nat \ {0}
    PROVE  Read(f, b, c, i) = Byte(f, b, c, i)
<1> SUFFICES ASSUME NEW cs, cs = ChainSeq(f, c), NEW m, m = Cardinality(Chain(f, c))
             PROVE  Read(f, b, c, i) = Byte(f, b, c, i)
  OBVIOUS
<1>1. Len(cs) = m /\ m \in Nat /\ cluster_size \in Nat
  BY ChainSeqIs, ChainIsFinite, Sizes
<1>2. CASE cluster_size * m < i
  BY <1>1, <1>2 DEF Read, Byte
<1>3. CASE ~(cluster_size * m < i)
  <2>1. i <= cluster_size * m
    <3>1. cluster_size * m \in Nat
      BY <1>1
    <3> QED
      BY <1>3, <3>1
  <2>2. cs[1 + ClusterNo(i)] = ChainWalk(f, c)[ClusterNo(i)]
    BY <2>1, ByteIs
  <2>3. cs[1 + (i - 1) \div cluster_size] = ChainWalk(f, c)[ClusterNo(i)]
    BY <2>2 DEF ClusterNo
  <2>4. Byte(f, b, c, i) = b[ChainWalk(f, c)[ClusterNo(i)]][(i - 1) % cluster_size]
    BY <1>3 DEF Byte
  <2>5. Read(f, b, c, i) = b[cs[1 + (i - 1) \div cluster_size]][(i - 1) % cluster_size]
    BY <1>1, <1>3 DEF Read
  <2> QED
    BY <2>3, <2>4, <2>5
<1> QED
  BY <1>2, <1>3

\* What a path shows is its entry, and of a file the bytes of its chain.
LEMMA NodeIs ==
    ASSUME NEW f, NEW d, NEW D, Neat(f, d.entries, D), NEW p \in Seq(Names), p # <<>>
    PROVE  /\ Stat(f, d.entries, p) = {} => Node(f, d, p) = [kind |-> "none", data |-> <<>>]
           /\ \A x \in Stat(f, d.entries, p) : Node(f, d, p) = NodeOf(f, d.bytes, x)
<1> DEFINE es == d.entries
           dir == resolve_path(f, d.entries, p)
           no == FALSE
           l == dir_lookup(f, d.entries, dir, NameOf(p), no)
           e == At(d.entries, l.slot)
           name == NameOf(p)
<1>1. f \in Tables /\ Neat(f, es, D)
  BY NeatFacts
<1>2. PICK g : Visits(f, es, p, g, Len(p))
  BY <1>1, WalkExists
<1>3. Visits(f, es, p, g, Len(p) - 1)
  <2>1. Len(p) \in Nat \ {0}
    BY LenProperties, EmptySeq
  <2>2. Len(p) - 1 \in 0..Len(p)
    BY <2>1
  <2> HIDE DEF es
  <2> QED
    BY <1>2, <2>2, VisitsLess
<1>4. name \in Names /\ dir \in D \cup {NULL}
  <2> HIDE DEF name, dir
  <2>1. NameOf(p) \in Names /\ resolve_path(f, es, p) \in D \cup {NULL}
    BY <1>1, <1>3, ResolveVisits
  <2> QED
    BY <2>1 DEF name, dir
<1>5. Stat(f, es, p) = IF dir = NULL THEN {} ELSE Ent(Row(f, es, dir), name)
  BY DEF Stat
<1>6. dir # NULL => /\ l.exists \in BOOLEAN
                    /\ l.exists => Stat(f, es, p) = {e}
                    /\ ~l.exists => Stat(f, es, p) = {}
  <2> SUFFICES ASSUME dir # NULL
               PROVE  /\ l.exists \in BOOLEAN
                      /\ l.exists => Stat(f, es, p) = {e}
                      /\ ~l.exists => Stat(f, es, p) = {}
    OBVIOUS
  <2>1. no \in BOOLEAN /\ l = dir_lookup(f, es, dir, name, no) /\ dir \in D
    BY <1>4
  <2>2. e = At(es, l.slot)
    OBVIOUS
  <2> HIDE DEF no, es, dir, name, l, e
  <2>3. l.exists => Ent(Row(f, es, dir), name) = {At(es, l.slot)}
    BY <1>1, <1>4, <2>1, LookupTells
  <2>4. l.exists \in BOOLEAN /\ (~l.exists => Ent(Row(f, es, dir), name) = {})
    BY <1>1, <1>4, <2>1, LookupFinds
  <2> QED
    BY <1>5, <2>2, <2>3, <2>4
<1>7. dir = NULL => Stat(f, es, p) = {}
  BY <1>5
<1> DEFINE ch == ChainSeq(f, e.first)
           data == [i \in 1..e.size |->
                       IF cluster_size * Len(ch) < i THEN NULL
                       ELSE d.bytes[ch[1 + (i - 1) \div cluster_size]][(i - 1) % cluster_size]]
<1>8. Node(f, d, p) = IF dir = NULL \/ ~l.exists THEN [kind |-> "none", data |-> <<>>]
                      ELSE IF e.dir THEN [kind |-> "dir", data |-> <<>>]
                      ELSE [kind |-> "file", data |-> data]
  BY DEF Node
<1>9. dir # NULL /\ l.exists => data = Content(f, d.bytes, e)
  <2> SUFFICES ASSUME dir # NULL, l.exists PROVE data = Content(f, d.bytes, e)
    OBVIOUS
  <2>1. e.size \in Nat
    <3>1. e \in Stat(f, es, p)
      BY <1>6
    <3>2. dir \in D /\ D \subseteq Cluster \cup {Root} /\ EntriesOK(es)
      BY <1>1, <1>4, NeatFacts
    <3>3. \E k \in DOMAIN Row(f, es, dir) : e = Row(f, es, dir)[k]
      BY <1>5, <3>1 DEF Ent
    <3> HIDE DEF e, dir, es
    <3>4. e \in Entries
      BY <1>1, <3>2, <3>3, RowIs
    <3> QED
      BY <3>4 DEF Entries
  <2>2. \A i \in 1..e.size : Read(f, d.bytes, e.first, i) = Byte(f, d.bytes, e.first, i)
    <3> HIDE DEF e
    <3>1. \A i \in 1..e.size : i \in Nat \ {0}
      BY <2>1
    <3> QED
      BY <1>1, <3>1, ByteRead
  <2>3. data = [i \in 1..e.size |-> Read(f, d.bytes, e.first, i)]
    BY DEF Read
  <2> HIDE DEF e, data, l, dir
  <2> QED
    BY <2>2, <2>3 DEF Content
<1> HIDE DEF data, e, l, dir, name
<1>10. Stat(f, es, p) = {} => Node(f, d, p) = [kind |-> "none", data |-> <<>>]
  BY <1>6, <1>7, <1>8
<1>11. \A x \in Stat(f, es, p) : Node(f, d, p) = NodeOf(f, d.bytes, x)
  <2> SUFFICES ASSUME NEW x \in Stat(f, es, p) PROVE Node(f, d, p) = NodeOf(f, d.bytes, x)
    OBVIOUS
  <2>1. dir # NULL /\ l.exists /\ x = e
    BY <1>6, <1>7
  <2> QED
    BY <1>8, <1>9, <2>1 DEF NodeOf
<1> QED
  BY <1>10, <1>11

---------------------------------------------------------------------------
(* What a change of one name leaves.                                       *)

\* The bytes of a file whose clusters are as they were.
LEMMA SameContent ==
    ASSUME NEW f \in Tables, NEW F \in Tables, NEW b, NEW b2, NEW x, x.size \in Nat,
           \A y \in Chain(f, x.first) : F[y] = f[y] /\ b2[y] = b[y]
    PROVE  Content(F, b2, x) = Content(f, b, x)
<1> SUFFICES ASSUME NEW c, c = x.first PROVE Content(F, b2, x) = Content(f, b, x)
  OBVIOUS
<1>1. /\ \A k \in 0..MaxCluster : ChainWalk(F, c)[k] = ChainWalk(f, c)[k]
      /\ Chain(F, c) = Chain(f, c)
  BY ChainAgree
<1>2. ASSUME NEW i \in 1..x.size PROVE Byte(F, b2, c, i) = Byte(f, b, c, i)
  <2> SUFFICES ASSUME NEW m, m = Cardinality(Chain(f, c)) PROVE Byte(F, b2, c, i) = Byte(f, b, c, i)
    OBVIOUS
  <2>1. i \in Nat \ {0} /\ cluster_size * m \in Nat
    BY ChainIsFinite, Sizes
  <2>2. CASE cluster_size * m < i
    BY <1>1, <2>2 DEF Byte
  <2>3. CASE ~(cluster_size * m < i)
    <3>1. i <= cluster_size * m
      BY <2>1, <2>3
    <3>2. ClusterNo(i) \in 0..MaxCluster /\ ChainWalk(f, c)[ClusterNo(i)] \in Chain(f, c)
      BY <2>1, <3>1, ByteIs
    <3>3. b2[ChainWalk(F, c)[ClusterNo(i)]] = b[ChainWalk(f, c)[ClusterNo(i)]]
      BY <1>1, <3>2
    <3> QED
      BY <1>1, <2>3, <3>3 DEF Byte
  <2> QED
    BY <2>2, <2>3
<1> QED
  BY <1>2 DEF Content

\* The slot of the entry at a path.
LEMMA StatSlot ==
    ASSUME NEW f, NEW es, NEW D, Neat(f, es, D), NEW p \in Seq(Names), p # <<>>, NEW x \in Stat(f, es, p)
    PROVE  /\ resolve_path(f, es, p) \in D /\ x.name = NameOf(p) /\ NameOf(p) \in Names /\ x \in Entries
           /\ \E s \in Used(f, es, D) : At(es, s) = x /\ s[1] \in BlockSet(f, resolve_path(f, es, p))
<1> SUFFICES ASSUME NEW dir, dir = resolve_path(f, es, p)
             PROVE  /\ dir \in D /\ x.name = NameOf(p) /\ NameOf(p) \in Names /\ x \in Entries
                    /\ \E s \in Used(f, es, D) : At(es, s) = x /\ s[1] \in BlockSet(f, dir)
  OBVIOUS
<1>1. dir # NULL /\ x \in Ent(Row(f, es, dir), NameOf(p))
  BY DEF Stat
<1>2. f \in Tables /\ EntriesOK(es) /\ D \subseteq Cluster \cup {Root}
  BY NeatFacts
<1>3. dir \in D
  <2>1. PICK c \in D : resolve_path(f, es, p) = c
    BY ParentThere
  <2> QED
    BY <2>1
<1>4. PICK k \in DOMAIN Row(f, es, dir) : Row(f, es, dir)[k].name = NameOf(p) /\ x = Row(f, es, dir)[k]
  BY <1>1 DEF Ent
<1>5. NameOf(p) \in Names
  BY ParentIs
<1>6. k \in DOMAIN Slots(f, dir) /\ dir \in Cluster \cup {Root}
  BY <1>2, <1>3, <1>4 DEF Row
<1>7. Slots(f, dir)[k] \in Used(f, es, D) /\ Row(f, es, dir)[k] = At(es, Slots(f, dir)[k])
  BY <1>3, <1>4, <1>5, <1>6, RowUsed
<1>8. Slots(f, dir)[k][1] \in BlockSet(f, dir) /\ Row(f, es, dir)[k] \in Entries
  BY <1>2, <1>6, RowIs
<1> QED
  BY <1>3, <1>4, <1>5, <1>7, <1>8

\* Two paths to one directory are the same.
LEMMA OnePath ==
    ASSUME NEW f, NEW es, NEW D, Neat(f, es, D), NEW p \in Seq(Names), p # <<>>, NEW q \in Seq(Names), q # <<>>,
           resolve_path(f, es, p) # NULL, resolve_path(f, es, q) = resolve_path(f, es, p), NameOf(p) = NameOf(q)
    PROVE  Under(p, q)
<1> SUFFICES ASSUME NEW m, m = Len(p) - 1, NEW n, n = Len(q) - 1 PROVE Under(p, q)
  OBVIOUS
<1>1. PICK g : Visits(f, es, p, g, Len(p))
  BY WalkExists
<1>2. PICK h : Visits(f, es, q, h, Len(q))
  BY WalkExists
<1>3. m \in 0..Len(p) /\ n \in 0..Len(q) /\ Len(p) \in Nat \ {0} /\ Len(q) \in Nat \ {0}
  BY ParentIs
<1>4. Visits(f, es, p, g, m) /\ Visits(f, es, q, h, n)
  BY <1>1, <1>2, <1>3, VisitsLess
<1>5. resolve_path(f, es, p) = g[m] /\ resolve_path(f, es, q) = h[n]
  BY <1>4, ResolveVisits
<1>6. m = n /\ \A k \in 1..m : p[k] = q[k]
  BY <1>3, <1>4, <1>5, OneWay
<1>7. Len(p) = Len(q)
  BY <1>3, <1>6
<1>8. ASSUME NEW k \in 1..Len(p) PROVE q[k] = p[k]
  <2>1. k \in 1..m \/ k = Len(p)
    BY <1>3
  <2>2. q[Len(q)] = p[Len(p)]
    BY DEF NameOf
  <2> QED
    BY <1>6, <1>7, <2>1, <2>2
<1> QED
  BY <1>3, <1>7, <1>8 DEF Under

\* The chain of a file has no cluster of another path, of a directory or that is free.
LEMMA FileApart ==
    ASSUME NEW f, NEW es, NEW D, Neat(f, es, D), NEW q \in Seq(Names), q # <<>>, NEW x \in Stat(f, es, q), ~x.dir
    PROVE  /\ x.size \in Nat /\ Proper(f, x.first) /\ x.first \in Cluster \cup {0}
           /\ x.size <= cluster_size * Cardinality(Chain(f, x.first))
           /\ \A c \in Chain(f, x.first) :
                 /\ c \notin Unused(f)
                 /\ \A d \in D \ {Root} : c \notin Chain(f, d)
                 /\ \A p \in Seq(Names) : p # <<>> /\ ~Under(p, q) =>
                       \A y \in Stat(f, es, p) : c \notin Chain(f, y.first)
<1>1. PICK s \in Used(f, es, D) : At(es, s) = x /\ s[1] \in BlockSet(f, resolve_path(f, es, q))
  BY StatSlot
<1>2. resolve_path(f, es, q) \in D /\ x.name = NameOf(q) /\ x \in Entries
  BY StatSlot
<1>3. x.first \in Heads(f, es, D)
  BY <1>1 DEF Heads
<1>4. Good(f, es, D, "loose") /\ f \in Tables /\ EntriesOK(es) /\ D \subseteq Cluster \cup {Root}
  BY NeatFacts
<1>5. Proper(f, x.first) /\ Fits(f, x, "loose")
  BY <1>1, <1>3, <1>4, GoodFacts
<1>6. x.size \in Nat /\ x.first \in Cluster \cup {0}
  BY <1>2 DEF Entries
<1>7. x.size <= cluster_size * Cardinality(Chain(f, x.first))
  BY <1>5 DEF Fits
<1>8. ASSUME NEW c \in Chain(f, x.first) PROVE c \notin Unused(f)
  BY <1>5, <1>8 DEF Proper, Unused
<1>9. ASSUME NEW c \in Chain(f, x.first), NEW d \in D \ {Root} PROVE c \notin Chain(f, d)
  <2>1. d \in Heads(f, es, D) /\ x.first # d
    BY <1>1, NeatFacts
  <2> QED
    BY <1>3, <1>9, <2>1, NeatFacts
<1>10. ASSUME NEW c \in Chain(f, x.first), NEW p \in Seq(Names), p # <<>>, ~Under(p, q), NEW y \in Stat(f, es, p)
       PROVE  c \notin Chain(f, y.first)
  <2>1. PICK t \in Used(f, es, D) : At(es, t) = y /\ t[1] \in BlockSet(f, resolve_path(f, es, p))
    BY <1>10, StatSlot
  <2>2. resolve_path(f, es, p) \in D /\ y.name = NameOf(p)
    BY <1>10, StatSlot
  <2>3. s # t
    <3> SUFFICES ASSUME s = t PROVE FALSE
      OBVIOUS
    <3>1. resolve_path(f, es, p) = resolve_path(f, es, q)
      BY <1>1, <1>2, <2>1, <2>2, OneDirectory
    <3>2. NameOf(p) = NameOf(q)
      BY <1>1, <1>2, <2>1, <2>2
    <3>3. resolve_path(f, es, p) # NULL
      BY <1>4, <2>2, NullIsNoBlock
    <3> QED
      BY <1>10, <3>1, <3>2, <3>3, OnePath
  <2>4. y.first \in Heads(f, es, D)
    BY <2>1 DEF Heads
  <2>5. CASE x.first = y.first
    <3>1. x.first = 0
      BY <1>1, <2>1, <2>3, <2>5, NeatFacts
    <3>2. 0 \notin Cluster
      BY Sizes DEF Cluster
    <3>3. Chain(f, x.first) = {}
      BY <1>4, <3>1, <3>2, NoChain
    <3> QED
      BY <1>10, <3>3
  <2>6. CASE x.first # y.first
    <3>1. Chain(f, x.first) \cap Chain(f, y.first) = {}
      BY <1>3, <2>4, <2>6, NeatFacts
    <3> QED
      BY <1>10, <3>1
  <2> QED
    BY <2>5, <2>6
<1> QED
  BY <1>5, <1>6, <1>7, <1>8, <1>9, <1>10

\* Outside of p, only clusters that are free or a directory's change.
Spares(f, es, b, D, p, F, b2) ==
    \A c \in Cluster :
        \/ F[c] = f[c] /\ b2[c] = b[c]
        \/ c \in Unused(f)
        \/ \E d \in D \ {Root} : c \in Chain(f, d)
        \/ \E x \in Stat(f, es, p) : c \in Chain(f, x.first)

\* The entries of p become E, and no other name changes.
Turns(f, d, D, p, F, d2, D2, E) ==
    /\ Edits(f, d.entries, D, F, d2.entries, D2, resolve_path(f, d.entries, p), NameOf(p), E)
    /\ Spares(f, d.entries, d.bytes, D, p, F, d2.bytes)

\* What is at another path stays.
LEMMA NodeKept ==
    ASSUME NEW f, NEW d, NEW D, NEW p \in Seq(Names), p # <<>>, NEW F, NEW d2, NEW D2, NEW E,
           Turns(f, d, D, p, F, d2, D2, E), NEW q \in Seq(Names), q # <<>>, ~Under(p, q)
    PROVE  Node(F, d2, q) = Node(f, d, q)
<1> SUFFICES ASSUME NEW es, es = d.entries, NEW es2, es2 = d2.entries,
                    NEW dir, dir = resolve_path(f, d.entries, p), NEW name, name = NameOf(p)
             PROVE  Node(F, d2, q) = Node(f, d, q)
  OBVIOUS
<1>1. Edits(f, es, D, F, es2, D2, dir, name, E)
  BY DEF Turns
<1>2. Neat(f, es, D) /\ Neat(F, es2, D2)
  BY <1>1 DEF Edits
<1>3. Stat(F, es2, q) = Stat(f, es, q)
  BY <1>1, StatEdited
<1>4. CASE Stat(f, es, q) = {}
  <2>1. Node(f, d, q) = [kind |-> "none", data |-> <<>>]
    BY <1>2, <1>4, NodeIs
  <2>2. Node(F, d2, q) = [kind |-> "none", data |-> <<>>]
    BY <1>2, <1>3, <1>4, NodeIs
  <2> QED
    BY <2>1, <2>2
<1>5. ASSUME NEW x \in Stat(f, es, q) PROVE Node(F, d2, q) = Node(f, d, q)
  <2>1. Node(f, d, q) = NodeOf(f, d.bytes, x) /\ Node(F, d2, q) = NodeOf(F, d2.bytes, x)
    BY <1>2, <1>3, NodeIs
  <2>2. CASE x.dir
    BY <2>1, <2>2 DEF NodeOf
  <2>3. CASE ~x.dir
    <3>1. f \in Tables /\ F \in Tables
      BY <1>2, NeatFacts
    <3>2. Spares(f, es, d.bytes, D, p, F, d2.bytes)
      BY DEF Turns
    <3>3. /\ x.size \in Nat
          /\ \A c \in Chain(f, x.first) :
                 /\ c \notin Unused(f)
                 /\ \A dd \in D \ {Root} : c \notin Chain(f, dd)
                 /\ \A y \in Stat(f, es, p) : c \notin Chain(f, y.first)
      BY <1>2, <2>3, FileApart
    <3>4. \A c \in Chain(f, x.first) : F[c] = f[c] /\ d2.bytes[c] = d.bytes[c]
      <4>1. Chain(f, x.first) \subseteq Cluster
        BY <3>1, ChainIsFinite
      <4> QED
        BY <3>2, <3>3, <4>1 DEF Spares
    <3>5. Content(F, d2.bytes, x) = Content(f, d.bytes, x)
      BY <3>1, <3>3, <3>4, SameContent
    <3> QED
      BY <2>1, <2>3, <3>5 DEF NodeOf
  <2> QED
    BY <2>2, <2>3
<1> QED
  BY <1>4, <1>5

\* A walk through an empty directory or a file leads nowhere.
LEMMA BelowEmpty ==
    ASSUME NEW f, NEW es, NEW D, Neat(f, es, D), NEW p \in Seq(Names), p # <<>>, NEW q \in Seq(Names),
           Under(p, q), Len(p) # Len(q),
           \A x \in Stat(f, es, p) : x.dir => \A n \in Names : Ent(Row(f, es, x.first), n) = {}
    PROVE  Stat(f, es, q) = {}
<1> SUFFICES ASSUME NEW m, m = Len(p), NEW n, n = Len(q), Stat(f, es, q) # {} PROVE FALSE
  OBVIOUS
<1>1. /\ m \in Nat \ {0} /\ n \in Nat /\ m < n /\ m \in 0..n /\ n - 1 \in 0..n /\ m + 1 \in 1..n
      /\ m \in 0..(n - 1) /\ q # <<>>
  <2>1. Len(p) \in Nat /\ Len(p) # 0 /\ Len(q) \in Nat /\ Len(p) <= Len(q)
    BY DEF Under
  <2> QED
    BY <2>1
<1>2. PICK g : Visits(f, es, q, g, n)
  BY WalkExists
<1>3. Visits(f, es, p, g, m)
  <2>1. Visits(f, es, q, g, m)
    BY <1>1, <1>2, VisitsLess
  <2> QED
    BY <2>1 DEF Visits, Under
<1>4. Visits(f, es, q, g, n - 1)
  BY <1>1, <1>2, VisitsLess
<1>5. NameOf(q) \in Names /\ resolve_path(f, es, q) = g[n - 1]
  BY <1>1, <1>4, ResolveVisits
<1>6. g[n - 1] # NULL /\ Stat(f, es, q) = Ent(Row(f, es, g[n - 1]), NameOf(q))
  BY <1>1, <1>5 DEF Stat
<1>7. ASSUME NEW i \in 0..(n - 1), g[i] = NULL PROVE FALSE
  <2>1. i \in 0..n /\ n - 1 \in i..n
    BY <1>1
  <2>2. g[n - 1] = NULL
    BY <1>2, <1>7, <2>1, NullStays
  <2> QED
    BY <1>6, <2>2
<1>8. g[m] # NULL
  BY <1>1, <1>7
<1>9. g[m] \in Opendir(f, es, p)
  BY <1>3, <1>8, WalkDir
<1>10. \A x \in Names : Ent(Row(f, es, g[m]), x) = {}
  BY <1>9 DEF Opendir
<1>11. CASE n = m + 1
  <2>1. n - 1 = m
    BY <1>1, <1>11
  <2> QED
    BY <1>5, <1>6, <1>10, <2>1
<1>12. CASE n # m + 1
  <2>1. m + 1 \in 0..(n - 1) /\ (m + 1) - 1 = m
    BY <1>1, <1>12
  <2>2. q[m + 1] \in Names
    BY <1>1, ElementOfSeq
  <2>3. g[m + 1] = Sub(Row(f, es, g[m]), q[m + 1])
    BY <1>1, <1>2, <1>8, <2>1 DEF Visits
  <2>4. g[m + 1] = NULL
    BY <1>10, <2>2, <2>3 DEF Sub
  <2> QED
    BY <1>7, <2>1, <2>4
<1> QED
  BY <1>11, <1>12

\* Where the directory of a path is found there is a directory.
LEMMA ParentDir ==
    ASSUME NEW f, NEW es, NEW D, Neat(f, es, D), NEW p \in Seq(Names), p # <<>>, resolve_path(f, es, p) # NULL
    PROVE  \E x \in Stat(f, es, Parent(p)) : x.dir
<1> SUFFICES ASSUME NEW n, n = Len(p) - 1, NEW r, r = Parent(p) PROVE \E x \in Stat(f, es, r) : x.dir
  OBVIOUS
<1>1. r \in Seq(Names) /\ Len(r) = n /\ n \in 0..Len(p) /\ \A k \in 1..n : r[k] = p[k]
  BY ParentIs
<1>2. PICK g : Visits(f, es, p, g, Len(p))
  BY WalkExists
<1>3. Visits(f, es, p, g, n)
  BY <1>1, <1>2, VisitsLess
<1>4. resolve_path(f, es, p) = g[n]
  BY <1>3, ResolveVisits
<1>5. Visits(f, es, r, g, Len(r))
  BY <1>1, <1>3 DEF Visits
<1>6. g[Len(r)] \in Opendir(f, es, r)
  BY <1>1, <1>4, <1>5, WalkDir
<1> QED
  BY <1>6 DEF Opendir

---------------------------------------------------------------------------
(* What a change of one name is to the tree.                               *)

TreeOf(f, d) == [p \in Paths |-> Node(f, d, p)]

Nothing == [kind |-> "none", data |-> <<>>]

\* What the entries E say is no directory or an empty one.
Bare(f, es, E) == \A x \in E : x.dir => \A n \in Names : Ent(Row(f, es, x.first), n) = {}

\* A path below another, as FileTree says it.
LEMMA InsideIs ==
    ASSUME NEW p \in Seq(Names), NEW q \in Seq(Names)
    PROVE  /\ Len(q) > Len(p) /\ SubSeq(q, 1, Len(p)) = p <=> Under(p, q) /\ Len(p) # Len(q)
           /\ Under(p, q) /\ Len(p) = Len(q) => p = q
<1> SUFFICES ASSUME NEW m, m = Len(p), NEW n, n = Len(q)
             PROVE  /\ n > m /\ SubSeq(q, 1, m) = p <=> Under(p, q) /\ m # n
                    /\ Under(p, q) /\ m = n => p = q
  OBVIOUS
<1>1. m \in Nat /\ n \in Nat
  OBVIOUS
<1>2. ASSUME m <= n PROVE /\ SubSeq(q, 1, m) \in Seq(Names) /\ Len(SubSeq(q, 1, m)) = m
                          /\ \A k \in 1..m : SubSeq(q, 1, m)[k] = q[k]
  BY <1>1, <1>2
<1>3. ASSUME n > m, SubSeq(q, 1, m) = p PROVE Under(p, q)
  <2>1. m <= n
    BY <1>1, <1>3
  <2>2. \A k \in 1..m : q[k] = p[k]
    BY <1>2, <1>3, <2>1
  <2> QED
    BY <2>1, <2>2 DEF Under
<1>4. ASSUME Under(p, q), m # n PROVE n > m /\ SubSeq(q, 1, m) = p
  <2>1. m <= n /\ \A k \in 1..m : q[k] = p[k]
    BY <1>4 DEF Under
  <2> DEFINE r == SubSeq(q, 1, m)
  <2>2. r \in Seq(Names) /\ Len(r) = Len(p) /\ \A k \in 1..Len(p) : r[k] = p[k]
    BY <1>2, <2>1
  <2> HIDE DEF r
  <2>3. r = p
    BY <2>2, SeqEqual
  <2> QED
    BY <1>1, <1>4, <2>1, <2>3 DEF r
<1>5. ASSUME Under(p, q), m = n PROVE p = q
  <2>1. \A k \in 1..Len(p) : p[k] = q[k]
    BY <1>5 DEF Under
  <2> QED
    BY <1>5, <2>1, SeqEqual
<1>6. n > m => m # n
  BY <1>1
<1> QED
  BY <1>3, <1>4, <1>5, <1>6

\* The states before and after, and the tree.
Shifts(f, d, D, p, F, d2, D2, E) ==
    /\ p \in Paths /\ p \in Seq(Names) /\ p # <<>>
    /\ Turns(f, d, D, p, F, d2, D2, E)
    /\ tree = TreeOf(f, d) /\ tree' = TreeOf(F, d2)

\* What is at p before and after; all else stays but for what was below a
\* directory.
LEMMA TreeShifts ==
    ASSUME NEW f, NEW d, NEW D, NEW p, NEW F, NEW d2, NEW D2, NEW E, Shifts(f, d, D, p, F, d2, D2, E)
    PROVE  /\ Stat(f, d.entries, p) = {} => tree[p] = Nothing
           /\ \A x \in Stat(f, d.entries, p) : tree[p] = NodeOf(f, d.bytes, x)
           /\ E = {} => tree'[p] = Nothing
           /\ \A x \in E : tree'[p] = NodeOf(F, d2.bytes, x)
           /\ \A q \in Paths : ~Under(p, q) => tree'[q] = tree[q]
           /\ Bare(f, d.entries, Stat(f, d.entries, p)) =>
                 \A q \in Paths : Under(p, q) /\ q # p => tree[q] = Nothing
           /\ Bare(F, d2.entries, E) => \A q \in Paths : Under(p, q) /\ q # p => tree'[q] = Nothing
           /\ Len(p) = 1 \/ tree[Parent(p)] = [kind |-> "dir", data |-> <<>>]
<1> SUFFICES ASSUME NEW es, es = d.entries, NEW es2, es2 = d2.entries
             PROVE  /\ Stat(f, es, p) = {} => tree[p] = Nothing
                    /\ \A x \in Stat(f, es, p) : tree[p] = NodeOf(f, d.bytes, x)
                    /\ E = {} => tree'[p] = Nothing
                    /\ \A x \in E : tree'[p] = NodeOf(F, d2.bytes, x)
                    /\ \A q \in Paths : ~Under(p, q) => tree'[q] = tree[q]
                    /\ Bare(f, es, Stat(f, es, p)) =>
                          \A q \in Paths : Under(p, q) /\ q # p => tree[q] = Nothing
                    /\ Bare(F, es2, E) => \A q \in Paths : Under(p, q) /\ q # p => tree'[q] = Nothing
                    /\ Len(p) = 1 \/ tree[Parent(p)] = [kind |-> "dir", data |-> <<>>]
  OBVIOUS
<1>1. /\ p \in Paths /\ p \in Seq(Names) /\ p # <<>> /\ Turns(f, d, D, p, F, d2, D2, E)
      /\ \A q \in Paths : tree[q] = Node(f, d, q) /\ tree'[q] = Node(F, d2, q)
      /\ \A q \in Paths : q \in Seq(Names) /\ q # <<>>
  BY PathAssumption DEF Shifts, TreeOf
<1>2. Edits(f, es, D, F, es2, D2, resolve_path(f, es, p), NameOf(p), E)
  BY <1>1 DEF Turns
<1>3. Neat(f, es, D) /\ Neat(F, es2, D2) /\ resolve_path(f, es, p) \in D
  BY <1>2 DEF Edits
<1>4. Stat(F, es2, p) = E
  <2> SUFFICES ASSUME NEW dir, dir = resolve_path(f, es, p), NEW name, name = NameOf(p)
               PROVE  Stat(F, es2, p) = E
    OBVIOUS
  <2>1. Edits(f, es, D, F, es2, D2, dir, name, E)
    BY <1>2
  <2> QED
    BY <1>1, <2>1, StatEdited
<1>5. /\ Stat(f, es, p) = {} => tree[p] = Nothing
      /\ \A x \in Stat(f, es, p) : tree[p] = NodeOf(f, d.bytes, x)
  <2>1. /\ Stat(f, es, p) = {} => Node(f, d, p) = [kind |-> "none", data |-> <<>>]
        /\ \A x \in Stat(f, es, p) : Node(f, d, p) = NodeOf(f, d.bytes, x)
    BY <1>1, <1>3, NodeIs
  <2>2. tree[p] = Node(f, d, p)
    BY <1>1
  <2> QED
    BY <2>1, <2>2 DEF Nothing
<1>6. /\ E = {} => tree'[p] = Nothing
      /\ \A x \in E : tree'[p] = NodeOf(F, d2.bytes, x)
  <2>1. /\ Stat(F, es2, p) = {} => Node(F, d2, p) = [kind |-> "none", data |-> <<>>]
        /\ \A x \in Stat(F, es2, p) : Node(F, d2, p) = NodeOf(F, d2.bytes, x)
    BY <1>1, <1>3, NodeIs
  <2>2. tree'[p] = Node(F, d2, p)
    BY <1>1
  <2> QED
    BY <1>4, <2>1, <2>2 DEF Nothing
<1>7. ASSUME NEW q \in Paths, ~Under(p, q) PROVE tree'[q] = tree[q]
  <2>1. Node(F, d2, q) = Node(f, d, q)
    BY <1>1, <1>7, NodeKept
  <2> QED
    BY <1>1, <2>1
<1>8. ASSUME Bare(f, es, Stat(f, es, p)), NEW q \in Paths, Under(p, q), q # p PROVE tree[q] = Nothing
  <2>1. Len(p) # Len(q)
    BY <1>1, <1>8, InsideIs
  <2>2. Stat(f, es, q) = {}
    BY <1>1, <1>3, <1>8, <2>1, BelowEmpty DEF Bare
  <2> QED
    BY <1>1, <1>3, <2>2, NodeIs DEF Nothing
<1>9. ASSUME Bare(F, es2, E), NEW q \in Paths, Under(p, q), q # p PROVE tree'[q] = Nothing
  <2>1. Len(p) # Len(q)
    BY <1>1, <1>9, InsideIs
  <2>2. Stat(F, es2, q) = {}
    BY <1>1, <1>3, <1>4, <1>9, <2>1, BelowEmpty DEF Bare
  <2> QED
    BY <1>1, <1>3, <2>2, NodeIs DEF Nothing
<1>10. ASSUME Len(p) # 1 PROVE tree[Parent(p)] = [kind |-> "dir", data |-> <<>>]
  <2>1. resolve_path(f, es, p) # NULL
    <3>1. D \subseteq Cluster \cup {Root}
      BY <1>3, NeatFacts
    <3> QED
      BY <1>3, <3>1, NullIsNoBlock
  <2>2. PICK x \in Stat(f, es, Parent(p)) : x.dir
    BY <1>1, <1>3, <2>1, ParentDir
  <2>3. Len(p) > 1
    <3>1. Len(p) \in Nat \ {0}
      BY <1>1, ParentIs
    <3>2. \A n \in Nat \ {0} : n # 1 => n > 1
      OBVIOUS
    <3> QED
      BY <1>10, <3>1, <3>2
  <2>4. Parent(p) \in Paths
    BY <1>1, <2>3, PrefixAssumption DEF Parent
  <2>5. Node(f, d, Parent(p)) = NodeOf(f, d.bytes, x)
    <3> DEFINE q == Parent(p)
    <3>1. q \in Seq(Names) /\ q # <<>> /\ x \in Stat(f, es, q)
      BY <1>1, <2>2, <2>4
    <3> HIDE DEF q
    <3>2. Node(f, d, q) = NodeOf(f, d.bytes, x)
      BY <1>3, <3>1, NodeIs
    <3> QED
      BY <3>2 DEF q
  <2> QED
    BY <1>1, <2>2, <2>4, <2>5 DEF NodeOf
<1> QED
  BY <1>5, <1>6, <1>7, <1>8, <1>9, <1>10

LEMMA NodeBefore ==
    ASSUME NEW f, NEW d, NEW D, NEW p, NEW F, NEW d2, NEW D2, NEW E, Shifts(f, d, D, p, F, d2, D2, E),
           NEW x \in Stat(f, d.entries, p)
    PROVE  tree[p] = NodeOf(f, d.bytes, x)
BY TreeShifts

LEMMA NodeAfter ==
    ASSUME NEW f, NEW d, NEW D, NEW p, NEW F, NEW d2, NEW D2, NEW E, Shifts(f, d, D, p, F, d2, D2, E),
           NEW x \in E
    PROVE  tree'[p] = NodeOf(F, d2.bytes, x)
BY TreeShifts

\* The empty data of a file.
LEMMA NoContent ==
    ASSUME NEW f, NEW b, NEW x, x.size = 0
    PROVE  Content(f, b, x) = <<>>
<1>1. 1..x.size = {}
  OBVIOUS
<1>2. Content(f, b, x) \in Seq({}) /\ Len(Content(f, b, x)) = 0
  <2>1. Content(f, b, x) = [i \in 1..0 |-> Byte(f, b, x.first, i)]
    BY DEF Content
  <2>2. \A i \in 1..0 : Byte(f, b, x.first, i) \in {}
    OBVIOUS
  <2> DEFINE B(i) == Byte(f, b, x.first, i)
  <2>3. [i \in 1..0 |-> B(i)] \in Seq({}) /\ Len([i \in 1..0 |-> B(i)]) = 0
    <3>1. \A i \in 1..0 : B(i) \in {}
      BY <2>2
    <3> HIDE DEF B
    <3> QED
      BY <3>1
  <2> QED
    BY <2>1, <2>3
<1> QED
  BY <1>2, EmptySeq

\* The tree is where its paths are.
LEMMA TreeIs ==
    ASSUME NEW f, NEW d, NEW D, NEW p, NEW F, NEW d2, NEW D2, NEW E, Shifts(f, d, D, p, F, d2, D2, E)
    PROVE  /\ p \in Paths /\ tree = [q \in Paths |-> tree[q]] /\ tree' = [q \in Paths |-> tree'[q]]
           /\ \A q \in Paths : /\ q \in Abstract!Inside(p) <=> Under(p, q) /\ q # p
           /\ Abstract!Reachable(p)
<1>1. p \in Paths /\ tree = TreeOf(f, d) /\ tree' = TreeOf(F, d2)
  BY DEF Shifts
<1>2. tree = [q \in Paths |-> tree[q]] /\ tree' = [q \in Paths |-> tree'[q]]
  BY <1>1 DEF TreeOf
<1>3. ASSUME NEW q \in Paths PROVE q \in Abstract!Inside(p) <=> Under(p, q) /\ q # p
  <2>1. p \in Seq(Names) /\ q \in Seq(Names)
    BY <1>1, PathAssumption
  <2>2. /\ Len(q) > Len(p) /\ SubSeq(q, 1, Len(p)) = p <=> Under(p, q) /\ Len(p) # Len(q)
        /\ Under(p, q) /\ Len(p) = Len(q) => p = q
    BY <2>1, InsideIs
  <2> QED
    BY <2>2 DEF Abstract!Inside
<1>4. Abstract!Reachable(p)
  <2>1. Len(p) = 1 \/ tree[Parent(p)] = [kind |-> "dir", data |-> <<>>]
    BY TreeShifts
  <2> QED
    BY <2>1 DEF Abstract!Reachable, Abstract!Parent, Abstract!Dir, Parent
<1> QED
  BY <1>1, <1>2, <1>3, <1>4

\* An empty file in place of what there was.
LEMMA TurnEmpty ==
    ASSUME NEW f, NEW d, NEW D, NEW p, NEW F, NEW d2, NEW D2, NEW x, ~x.dir, x.size = 0,
           Shifts(f, d, D, p, F, d2, D2, {x})
    PROVE  Abstract!Empty(p)
<1> SUFFICES ASSUME NEW E, E = {x}, Shifts(f, d, D, p, F, d2, D2, E) PROVE Abstract!Empty(p)
  OBVIOUS
<1>1. /\ \A y \in E : tree'[p] = NodeOf(F, d2.bytes, y)
      /\ \A q \in Paths : ~Under(p, q) => tree'[q] = tree[q]
      /\ Bare(F, d2.entries, E) => \A q \in Paths : Under(p, q) /\ q # p => tree'[q] = Nothing
  BY TreeShifts
<1>2. /\ p \in Paths /\ tree' = [q \in Paths |-> tree'[q]]
      /\ \A q \in Paths : /\ q \in Abstract!Inside(p) <=> Under(p, q) /\ q # p
      /\ Abstract!Reachable(p)
  BY TreeIs
<1>3. tree'[p] = [kind |-> "file", data |-> <<>>]
  BY <1>1, NoContent DEF NodeOf
<1>4. Bare(F, d2.entries, E)
  BY DEF Bare
<1>5. \A q \in Paths : tree'[q] = IF q = p THEN [kind |-> "file", data |-> <<>>]
                                  ELSE IF q \in Abstract!Inside(p) THEN Nothing ELSE tree[q]
  BY <1>1, <1>2, <1>3, <1>4
<1>6. tree' = [q \in Paths |-> IF q = p THEN [kind |-> "file", data |-> <<>>]
                               ELSE IF q \in Abstract!Inside(p) THEN Nothing ELSE tree[q]]
  BY <1>2, <1>5
<1> QED
  BY <1>2, <1>6 DEF Abstract!Empty, Abstract!File, Abstract!None, Nothing

\* What is at p changes, and nothing is or was below it.
LEMMA TurnAlone ==
    ASSUME NEW f, NEW d, NEW D, NEW p, NEW F, NEW d2, NEW D2, NEW E, Shifts(f, d, D, p, F, d2, D2, E),
           Bare(f, d.entries, Stat(f, d.entries, p)), Bare(F, d2.entries, E)
    PROVE  tree' = [tree EXCEPT ![p] = tree'[p]]
<1>1. /\ \A q \in Paths : ~Under(p, q) => tree'[q] = tree[q]
      /\ \A q \in Paths : Under(p, q) /\ q # p => tree[q] = Nothing
      /\ \A q \in Paths : Under(p, q) /\ q # p => tree'[q] = Nothing
  BY TreeShifts
<1>2. p \in Paths /\ tree = [q \in Paths |-> tree[q]] /\ tree' = [q \in Paths |-> tree'[q]]
  BY TreeIs
<1>3. \A q \in Paths : tree'[q] = IF q = p THEN tree'[p] ELSE tree[q]
  BY <1>1
<1> QED
  BY <1>2, <1>3

LEMMA TurnUnlink ==
    ASSUME NEW f, NEW d, NEW D, NEW p, NEW F, NEW d2, NEW D2, NEW z, ~z.dir,
           Stat(f, d.entries, p) = {z}, Shifts(f, d, D, p, F, d2, D2, {})
    PROVE  Abstract!Unlink(p)
<1> SUFFICES ASSUME NEW E, E = {}, Shifts(f, d, D, p, F, d2, D2, E) PROVE Abstract!Unlink(p)
  OBVIOUS
<1>1. Bare(f, d.entries, Stat(f, d.entries, p)) /\ Bare(F, d2.entries, E)
  BY DEF Bare
<1>2. tree' = [tree EXCEPT ![p] = tree'[p]]
  BY <1>1, TurnAlone
<1>3. tree'[p] = Nothing /\ tree[p] = NodeOf(f, d.bytes, z)
  BY TreeShifts
<1>4. tree[p].kind = "file"
  BY <1>3 DEF NodeOf
<1> QED
  BY <1>2, <1>3, <1>4 DEF Abstract!Unlink, Abstract!None, Nothing

LEMMA TurnMkdir ==
    ASSUME NEW f, NEW d, NEW D, NEW p, NEW F, NEW d2, NEW D2, NEW x, x.dir,
           Stat(f, d.entries, p) = {}, Shifts(f, d, D, p, F, d2, D2, {x}),
           \A n \in Names : Ent(Row(F, d2.entries, x.first), n) = {}
    PROVE  Abstract!Mkdir(p)
<1> SUFFICES ASSUME NEW E, E = {x}, Shifts(f, d, D, p, F, d2, D2, E) PROVE Abstract!Mkdir(p)
  OBVIOUS
<1>1. Bare(f, d.entries, Stat(f, d.entries, p)) /\ Bare(F, d2.entries, E)
  BY DEF Bare
<1>2. tree' = [tree EXCEPT ![p] = tree'[p]]
  BY <1>1, TurnAlone
<1>3. tree[p] = Nothing /\ \A y \in E : tree'[p] = NodeOf(F, d2.bytes, y)
  BY TreeShifts
<1>4. tree'[p] = [kind |-> "dir", data |-> <<>>]
  BY <1>3 DEF NodeOf
<1>5. Abstract!Reachable(p)
  BY TreeIs
<1> QED
  BY <1>2, <1>3, <1>4, <1>5 DEF Abstract!Mkdir, Abstract!None, Abstract!Dir, Nothing

LEMMA TurnRmdir ==
    ASSUME NEW f, NEW d, NEW D, NEW p, NEW F, NEW d2, NEW D2, NEW z, z.dir,
           Stat(f, d.entries, p) = {z}, Shifts(f, d, D, p, F, d2, D2, {}),
           \A n \in Names : Ent(Row(f, d.entries, z.first), n) = {}
    PROVE  Abstract!Rmdir(p)
<1> SUFFICES ASSUME NEW E, E = {}, Shifts(f, d, D, p, F, d2, D2, E) PROVE Abstract!Rmdir(p)
  OBVIOUS
<1>1. Bare(f, d.entries, Stat(f, d.entries, p)) /\ Bare(F, d2.entries, E)
  BY DEF Bare
<1>2. tree' = [tree EXCEPT ![p] = tree'[p]]
  BY <1>1, TurnAlone
<1>3. /\ tree'[p] = Nothing /\ tree[p] = NodeOf(f, d.bytes, z)
      /\ \A q \in Paths : Under(p, q) /\ q # p => tree[q] = Nothing
  <2>1. tree'[p] = Nothing
    BY TreeShifts
  <2>2. \A y \in Stat(f, d.entries, p) : tree[p] = NodeOf(f, d.bytes, y)
    BY TreeShifts
  <2>3. \A q \in Paths : Under(p, q) /\ q # p => tree[q] = Nothing
    BY <1>1, TreeShifts
  <2> QED
    BY <2>1, <2>2, <2>3
<1>4. tree[p] = [kind |-> "dir", data |-> <<>>]
  BY <1>3 DEF NodeOf
<1>5. \A q \in Abstract!Inside(p) : tree[q] = Nothing
  <2>1. \A q \in Paths : q \in Abstract!Inside(p) <=> Under(p, q) /\ q # p
    BY TreeIs
  <2>2. Abstract!Inside(p) \subseteq Paths
    BY DEF Abstract!Inside
  <2> QED
    BY <1>3, <2>1, <2>2
<1> QED
  BY <1>2, <1>3, <1>4, <1>5 DEF Abstract!Rmdir, Abstract!None, Abstract!Dir, Nothing

LEMMA TurnStay ==
    ASSUME NEW f, NEW d, NEW D, NEW p, NEW F, NEW d2, NEW D2,
           Stat(f, d.entries, p) = {}, Shifts(f, d, D, p, F, d2, D2, {})
    PROVE  tree' = tree
<1> SUFFICES ASSUME NEW E, E = {}, Shifts(f, d, D, p, F, d2, D2, E) PROVE tree' = tree
  OBVIOUS
<1>1. Bare(f, d.entries, Stat(f, d.entries, p)) /\ Bare(F, d2.entries, E)
  BY DEF Bare
<1>2. tree' = [tree EXCEPT ![p] = tree'[p]]
  BY <1>1, TurnAlone
<1>3. tree'[p] = Nothing /\ tree[p] = Nothing
  BY TreeShifts
<1>4. tree = [q \in Paths |-> tree[q]]
  BY TreeIs
<1> QED
  BY <1>2, <1>3, <1>4

\* What a file held: the bytes of its entry, or none.
LEMMA OldContent ==
    ASSUME NEW f, NEW d, NEW D, NEW p, NEW F, NEW d2, NEW D2, NEW E, Shifts(f, d, D, p, F, d2, D2, E),
           NEW z, ~z.dir, z.size \in Nat, Stat(f, d.entries, p) = {z} \/ (Stat(f, d.entries, p) = {} /\ z.size = 0)
    PROVE  /\ tree[p].data = Content(f, d.bytes, z) /\ tree[p] # Abstract!Dir
           /\ Len(tree[p].data) = z.size
           /\ \A i \in 1..z.size : tree[p].data[i] = Byte(f, d.bytes, z.first, i)
<1>1. CASE Stat(f, d.entries, p) = {z}
  <2>1. tree[p] = NodeOf(f, d.bytes, z)
    BY <1>1, TreeShifts
  <2>2. tree[p] = [kind |-> "file", data |-> Content(f, d.bytes, z)]
    BY <2>1 DEF NodeOf
  <2> DEFINE B(i) == Byte(f, d.bytes, z.first, i)
             c == Content(f, d.bytes, z)
  <2>3. Len(c) = z.size /\ \A i \in 1..z.size : c[i] = B(i)
    <3>1. c = [i \in 1..z.size |-> B(i)]
      BY DEF Content
    <3> HIDE DEF B, c
    <3> QED
      BY <3>1
  <2> QED
    BY <2>2, <2>3 DEF Abstract!Dir
<1>2. CASE Stat(f, d.entries, p) = {} /\ z.size = 0
  <2>1. tree[p] = Nothing
    BY <1>2, TreeShifts
  <2>2. Content(f, d.bytes, z) = <<>>
    BY <1>2, NoContent
  <2> QED
    BY <1>2, <2>1, <2>2 DEF Nothing, Abstract!Dir
<1> QED
  BY <1>1, <1>2

\* A write: the bytes of e are there, and those before stay.
LEMMA TurnWrite ==
    ASSUME NEW f, NEW d, NEW D, NEW p, NEW F, NEW d2, NEW D2, NEW x, ~x.dir, Shifts(f, d, D, p, F, d2, D2, {x}),
           NEW z, ~z.dir, z.size \in Nat, Stat(f, d.entries, p) = {z} \/ (Stat(f, d.entries, p) = {} /\ z.size = 0),
           NEW e \in Extents, x.size = NewSize(e, z.size), NEW v,
           \A i \in 1..x.size : /\ i \in Abstract!Written(e) => Byte(F, d2.bytes, x.first, i) = v
                                /\ i \notin Abstract!Written(e) /\ i <= z.size =>
                                      Byte(F, d2.bytes, x.first, i) = Byte(f, d.bytes, z.first, i)
    PROVE  Abstract!Write(p, e, v)
<1> SUFFICES ASSUME NEW E, E = {x}, Shifts(f, d, D, p, F, d2, D2, E) PROVE Abstract!Write(p, e, v)
  OBVIOUS
<1>1. Bare(f, d.entries, Stat(f, d.entries, p)) /\ Bare(F, d2.entries, E)
  BY DEF Bare
<1>2. tree' = [tree EXCEPT ![p] = tree'[p]]
  BY <1>1, TurnAlone
<1>3. /\ tree[p] # Abstract!Dir
      /\ Len(tree[p].data) = z.size
      /\ \A i \in 1..z.size : tree[p].data[i] = Byte(f, d.bytes, z.first, i)
  BY OldContent
<1>4. \A y \in E : tree'[p] = NodeOf(F, d2.bytes, y)
  BY TreeShifts
<1>5. tree'[p] = [kind |-> "file", data |-> Content(F, d2.bytes, x)]
  BY <1>4 DEF NodeOf
<1>6. /\ x.size = IF e.offset + e.len > z.size THEN e.offset + e.len ELSE z.size
      /\ x.size \in Nat
  BY ExtentAssumption DEF NewSize
<1> DEFINE new == tree'[p].data
<1>7. Len(new) = x.size /\ \A i \in 1..x.size : new[i] = Byte(F, d2.bytes, x.first, i)
  <2> DEFINE B(i) == Byte(F, d2.bytes, x.first, i)
  <2>1. new = [i \in 1..x.size |-> B(i)]
    BY <1>5 DEF Content
  <2> SUFFICES Len(new) = x.size /\ \A i \in 1..x.size : new[i] = B(i)
    OBVIOUS
  <2> HIDE DEF B, new
  <2> QED
    BY <1>6, <2>1
<1>8. tree' = [tree EXCEPT ![p] = Abstract!File(new)]
  BY <1>2, <1>5 DEF Abstract!File
<1>9. Abstract!Reachable(p)
  BY TreeIs
<1>10. Len(new) = IF e.offset + e.len > Len(tree[p].data) THEN e.offset + e.len ELSE Len(tree[p].data)
  BY <1>3, <1>6, <1>7
<1>11. \A i \in 1..Len(new) : IF i \in Abstract!Written(e) THEN new[i] = v
                              ELSE i <= Len(tree[p].data) => new[i] = tree[p].data[i]
  <2> SUFFICES ASSUME NEW i \in 1..Len(new)
               PROVE  IF i \in Abstract!Written(e) THEN new[i] = v
                      ELSE i <= Len(tree[p].data) => new[i] = tree[p].data[i]
    OBVIOUS
  <2>1. i \in 1..x.size /\ new[i] = Byte(F, d2.bytes, x.first, i)
    BY <1>7
  <2>2. i <= Len(tree[p].data) => i \in 1..z.size
    BY <1>3, <1>6, <2>1
  <2> QED
    BY <1>3, <2>1, <2>2
<1> HIDE DEF new
<1> QED
  BY <1>3, <1>8, <1>9, <1>10, <1>11 DEF Abstract!Write, new

\* A write that found no room: the first n bytes of e are there.
LEMMA TurnPart ==
    ASSUME NEW f, NEW d, NEW D, NEW p, NEW F, NEW d2, NEW D2, NEW z, ~z.dir, z.size \in Nat,
           Stat(f, d.entries, p) = {z}, Shifts(f, d, D, p, F, d2, D2, {z}),
           NEW e \in Extents, NEW v, NEW n \in 0..e.len,
           \A i \in 1..z.size : Byte(F, d2.bytes, z.first, i) =
              IF i \in e.offset + 1 .. e.offset + n THEN v ELSE Byte(f, d.bytes, z.first, i)
    PROVE  Abstract!PartOfWrite(p, e, v)
<1> SUFFICES ASSUME NEW E, E = {z}, Shifts(f, d, D, p, F, d2, D2, E) PROVE Abstract!PartOfWrite(p, e, v)
  OBVIOUS
<1>1. Bare(f, d.entries, Stat(f, d.entries, p)) /\ Bare(F, d2.entries, E)
  BY DEF Bare
<1>2. tree' = [tree EXCEPT ![p] = tree'[p]]
  BY <1>1, TurnAlone
<1>3. /\ Len(tree[p].data) = z.size
      /\ \A i \in 1..z.size : tree[p].data[i] = Byte(f, d.bytes, z.first, i)
  <2>1. Stat(f, d.entries, p) = {z} \/ (Stat(f, d.entries, p) = {} /\ z.size = 0)
    OBVIOUS
  <2> QED
    BY <2>1, OldContent
<1>4. tree[p] = [kind |-> "file", data |-> Content(f, d.bytes, z)]
  <2>1. tree[p] = NodeOf(f, d.bytes, z)
    BY NodeBefore
  <2> QED
    BY <2>1 DEF NodeOf
<1>5. tree'[p] = [kind |-> "file", data |-> Content(F, d2.bytes, z)]
  <2>1. tree'[p] = NodeOf(F, d2.bytes, z)
    BY NodeAfter
  <2> QED
    BY <2>1 DEF NodeOf
<1> DEFINE old == tree[p].data
           new == [i \in 1..Len(old) |-> IF i \in e.offset + 1 .. e.offset + n THEN v ELSE old[i]]
<1>6. Content(F, d2.bytes, z) = new
  <2>1. \A i \in 1..z.size : Byte(F, d2.bytes, z.first, i) = IF i \in e.offset + 1 .. e.offset + n THEN v ELSE old[i]
    BY <1>3
  <2>2. Len(old) = z.size
    BY <1>3
  <2> HIDE DEF old
  <2> QED
    BY <2>1, <2>2 DEF Content
<1>7. tree'[p] = [tree[p] EXCEPT !.data = new]
  <2> HIDE DEF new
  <2> QED
    BY <1>4, <1>5, <1>6
<1>8. tree' = [tree EXCEPT ![p] = [@ EXCEPT !.data = new]]
  <2> HIDE DEF new
  <2> QED
    BY <1>2, <1>7
<1>9. tree' = [tree EXCEPT ![p].data = [i \in 1..Len(@) |-> IF i \in e.offset + 1 .. e.offset + n THEN v ELSE @[i]]]
  BY <1>8
<1>10. \E m \in 0..e.len :
          tree' = [tree EXCEPT ![p].data =
                      [i \in 1..Len(@) |-> IF i \in e.offset + 1 .. e.offset + m THEN v ELSE @[i]]]
  BY <1>9
<1>11. tree[p].kind = "file"
  BY <1>4
<1> HIDE DEF old, new
<1> QED
  BY <1>10, <1>11 DEF Abstract!PartOfWrite

---------------------------------------------------------------------------
(* The bytes an operation leaves.                                          *)

\* The item writes the bytes of c.
Hits(it, c) == it.write.kind = "bytes" /\ it.write.at = c

LEMMA EffectOnBytes ==
    ASSUME NEW d \in Disks, NEW it \in Items, NEW c \in Cluster
    PROVE  Effect(d, it).bytes[c] = IF Hits(it, c) THEN it.write.val ELSE d.bytes[c]
<1> DEFINE w == it.write
<1>1. d.bytes \in [Cluster -> Contents] /\ d = [fats |-> d.fats, entries |-> d.entries, bytes |-> d.bytes]
  BY DEF Disks
<1>2. w.kind \in {"fat", "entry", "dir", "bytes", "return"} /\ (w.kind = "bytes" => w.at \in Cluster)
  BY DEF Items, Writes
<1>3. CASE w.kind = "bytes"
  <2>1. Effect(d, it) = [d EXCEPT !.bytes[w.at] = w.val, !.entries[w.at] = DataBlock]
    BY <1>3 DEF Effect
  <2>2. Effect(d, it).bytes = [d.bytes EXCEPT ![w.at] = w.val]
    BY <1>1, <2>1
  <2> QED
    BY <1>1, <1>2, <1>3, <2>2 DEF Hits
<1>4. CASE w.kind = "fat"
  BY <1>1, <1>4 DEF Effect, Hits
<1>5. CASE w.kind = "entry"
  BY <1>1, <1>5 DEF Effect, Hits
<1>6. CASE w.kind = "dir"
  BY <1>1, <1>6 DEF Effect, Hits
<1>7. CASE w.kind = "return"
  BY <1>1, <1>7 DEF Effect, Hits
<1> QED
  BY <1>2, <1>3, <1>4, <1>5, <1>6, <1>7

\* What comes after the last item that writes c leaves it.
LEMMA BytesKept ==
    ASSUME NEW X \in Seq(Items), NEW d, NEW h, Between(d, X, h), NEW c \in Cluster, NEW i \in 0..Len(X),
           \A k \in 1..Len(X) : i < k => ~Hits(X[k], c)
    PROVE  h[Len(X)].bytes[c] = h[i].bytes[c]
<1> SUFFICES ASSUME NEW n, n = Len(X) PROVE h[n].bytes[c] = h[i].bytes[c]
  OBVIOUS
<1>1. n \in Nat /\ i \in 0..n /\ \A k \in 1..n : X[k] \in Items /\ (i < k => ~Hits(X[k], c))
  BY LenProperties, ElementOfSeq
<1>2. (\A k \in 0..n : h[k] \in Disks) /\ \A k \in 1..n : h[k] = Effect(h[k - 1], X[k])
  BY DEF Between
<1> DEFINE S == {k \in Nat : i <= k /\ k <= n => h[k].bytes[c] = h[i].bytes[c]}
<1>3. 0 \in S
  <2>1. i <= 0 => i = 0
    BY <1>1
  <2> QED
    BY <2>1
<1>4. \A k \in Nat : k \in S => k + 1 \in S
  <2> SUFFICES ASSUME NEW k \in Nat, k \in S, i <= k + 1, k + 1 <= n PROVE h[k + 1].bytes[c] = h[i].bytes[c]
    OBVIOUS
  <2>1. CASE i = k + 1
    BY <2>1
  <2>2. CASE i # k + 1
    <3>1. i <= k /\ k <= n /\ k + 1 \in 1..n /\ (k + 1) - 1 = k /\ k \in 0..n /\ i < k + 1
      BY <1>1, <2>2
    <3>2. h[k].bytes[c] = h[i].bytes[c] /\ ~Hits(X[k + 1], c) /\ h[k] \in Disks /\ X[k + 1] \in Items
      BY <1>1, <1>2, <3>1
    <3>3. h[k + 1] = Effect(h[k], X[k + 1])
      BY <1>2, <3>1
    <3>4. Effect(h[k], X[k + 1]).bytes[c] = h[k].bytes[c]
      BY <3>2, EffectOnBytes
    <3> QED
      BY <3>2, <3>3, <3>4
  <2> QED
    BY <2>1, <2>2
<1> HIDE DEF S
<1>5. Nat \subseteq S
  BY <1>3, <1>4, NatSetInduction
<1>6. n \in S /\ i <= n
  BY <1>1, <1>5
<1> QED
  BY <1>1, <1>6 DEF S

\* Each cluster has what was written there last.
LEMMA DoneBytes ==
    ASSUME NEW f \in Tables, NEW d \in Disks, NEW X \in Seq(Items), NEW c \in Cluster,
           NEW z, z = Done(f, d, X).disk.bytes
    PROVE  /\ (\A k \in 1..Len(X) : ~Hits(X[k], c)) => z[c] = d.bytes[c]
           /\ \A k \in 1..Len(X) : Hits(X[k], c) /\ (\A j \in 1..Len(X) : k < j => ~Hits(X[j], c))
                                      => z[c] = X[k].write.val
<1> SUFFICES ASSUME NEW n, n = Len(X)
             PROVE  /\ (\A k \in 1..n : ~Hits(X[k], c)) => z[c] = d.bytes[c]
                    /\ \A k \in 1..n : Hits(X[k], c) /\ (\A j \in 1..n : k < j => ~Hits(X[j], c))
                                          => z[c] = X[k].write.val
  OBVIOUS
<1>1. n \in Nat /\ \A k \in 1..n : X[k] \in Items
  BY LenProperties, ElementOfSeq
<1>2. PICK h : Between(d, X, h) /\ Done(f, d, X).disk = h[n]
  BY DoneIs
<1>3. (\A k \in 0..n : h[k] \in Disks) /\ (\A k \in 1..n : h[k] = Effect(h[k - 1], X[k])) /\ h[0] = d
  BY <1>2 DEF Between
<1>4. ASSUME \A k \in 1..n : ~Hits(X[k], c) PROVE z[c] = d.bytes[c]
  <2>1. 0 \in 0..Len(X)
    BY <1>1
  <2>2. h[Len(X)].bytes[c] = h[0].bytes[c]
    BY <1>2, <1>4, <2>1, BytesKept
  <2> QED
    BY <1>2, <1>3, <2>2
<1>5. ASSUME NEW k \in 1..n, Hits(X[k], c), \A j \in 1..n : k < j => ~Hits(X[j], c) PROVE z[c] = X[k].write.val
  <2>1. k \in 0..Len(X) /\ k - 1 \in 0..n
    BY <1>1
  <2>2. h[Len(X)].bytes[c] = h[k].bytes[c]
    BY <1>2, <1>5, <2>1, BytesKept
  <2>3. h[k - 1] \in Disks /\ X[k] \in Items /\ h[k] = Effect(h[k - 1], X[k])
    BY <1>1, <1>3, <2>1
  <2>4. Effect(h[k - 1], X[k]).bytes[c] = X[k].write.val
    BY <1>5, <2>3, EffectOnBytes
  <2> QED
    BY <1>2, <2>2, <2>3, <2>4
<1> QED
  BY <1>4, <1>5

\* No item of X writes bytes.
Bytefree(X) == X \in Seq(Items) /\ \A k \in 1..Len(X), c \in Cluster : ~Hits(X[k], c)

LEMMA BytefreeConcat ==
    ASSUME NEW X, Bytefree(X), NEW Y, Bytefree(Y)
    PROVE  Bytefree(X \o Y)
<1>1. X \in Seq(Items) /\ Y \in Seq(Items)
  BY DEF Bytefree
<1> DEFINE Z == X \o Y
<1>2. /\ Z \in Seq(Items) /\ Len(Z) = Len(X) + Len(Y) /\ Len(X) \in Nat /\ Len(Y) \in Nat
      /\ \A k \in 1..Len(X) : Z[k] = X[k]
      /\ \A k \in 1..(Len(X) + Len(Y)) : k > Len(X) => Z[k] = Y[k - Len(X)] /\ k - Len(X) \in 1..Len(Y)
  BY <1>1, ItemsConcat
<1> HIDE DEF Z
<1>3. ASSUME NEW k \in 1..Len(Z), NEW c \in Cluster PROVE ~Hits(Z[k], c)
  <2>1. CASE k <= Len(X)
    <3>1. k \in 1..Len(X)
      BY <1>2, <2>1
    <3> QED
      BY <1>2, <3>1 DEF Bytefree
  <2>2. CASE ~(k <= Len(X))
    <3>1. k \in 1..(Len(X) + Len(Y)) /\ k > Len(X)
      BY <1>2, <2>2
    <3>2. Z[k] = Y[k - Len(X)] /\ k - Len(X) \in 1..Len(Y)
      BY <1>2, <3>1
    <3> QED
      BY <3>2 DEF Bytefree
  <2> QED
    BY <2>1, <2>2
<1> QED
  BY <1>2, <1>3 DEF Bytefree, Z

LEMMA BytefreeItem ==
    ASSUME NEW f \in Tables, NEW w \in Writes, w.kind # "bytes"
    PROVE  Bytefree(Item(f, w))
<1> DEFINE X == Item(f, w)
<1>1. X \in Seq(Items) /\ Len(X) = 1 /\ X[1] = [fat |-> f, write |-> w]
  BY ItemIs
<1> HIDE DEF X
<1>2. \A k \in 1..Len(X), c \in Cluster : ~Hits(X[k], c)
  <2>1. \A k \in 1..Len(X) : k = 1
    BY <1>1
  <2>2. X[1].write.kind # "bytes"
    BY <1>1
  <2> QED
    BY <2>1, <2>2 DEF Hits
<1> QED
  BY <1>1, <1>2 DEF Bytefree, X

\* None but WriteBytes.
LEMMA BytefreeAre ==
    ASSUME NEW f \in Tables
    PROVE  /\ Bytefree(<<>>) /\ Bytefree(fat_flush(f))
           /\ \A code \in {"ok", "full"} : Bytefree(Return(f, code))
           /\ \A s \in SlotSet, e \in Entries : Bytefree(WriteEntry(f, s, e))
           /\ \A c \in Cluster, b \in [1..DirEntries -> Entries] : Bytefree(WriteDir(f, c, b))
<1>1. Bytefree(<<>>)
  BY DEF Bytefree
<1>2. Bytefree(fat_flush(f))
  <2> DEFINE n == fat_count * sectors_per_fat
             X == fat_flush(f)
  <2>1. /\ X \in Seq(Items) /\ Len(X) = n
        /\ \A k \in 1..n :
              X[k] = [fat |-> f, write |-> [kind |-> "fat", at |-> 1 + (k - 1) \div sectors_per_fat,
                                            val |-> 1 + ((k - 1) % sectors_per_fat)]]
    BY FlushIs
  <2> HIDE DEF n, X
  <2>2. \A k \in 1..n : X[k].write.kind = "fat"
    BY <2>1
  <2>3. Bytefree(X)
    BY <2>1, <2>2 DEF Bytefree, Hits
  <2> QED
    BY <2>3 DEF X
<1>3. ASSUME NEW code \in {"ok", "full"} PROVE Bytefree(Return(f, code))
  <2> DEFINE w == [kind |-> "return", at |-> Root, val |-> code]
  <2>1. w \in Writes /\ w.kind # "bytes"
    BY DEF Writes
  <2> HIDE DEF w
  <2>2. Bytefree(Item(f, w))
    BY <2>1, BytefreeItem
  <2> QED
    BY <2>2 DEF Return, w
<1>4. ASSUME NEW s \in SlotSet, NEW e \in Entries PROVE Bytefree(WriteEntry(f, s, e))
  <2> DEFINE w == [kind |-> "entry", at |-> s, val |-> e]
  <2>1. w \in Writes /\ w.kind # "bytes"
    BY DEF Writes
  <2> HIDE DEF w
  <2>2. Bytefree(Item(f, w))
    BY <2>1, BytefreeItem
  <2> QED
    BY <2>2 DEF WriteEntry, w
<1>5. ASSUME NEW c \in Cluster, NEW b \in [1..DirEntries -> Entries] PROVE Bytefree(WriteDir(f, c, b))
  <2> DEFINE w == [kind |-> "dir", at |-> c, val |-> b]
  <2>1. w \in Writes /\ w.kind # "bytes"
    BY DEF Writes
  <2> HIDE DEF w
  <2>2. Bytefree(Item(f, w))
    BY <2>1, BytefreeItem
  <2> QED
    BY <2>2 DEF WriteDir, w
<1> QED
  BY <1>1, <1>2, <1>3, <1>4, <1>5

\* The bytes after an operation that writes no bytes.
LEMMA BytefreeDone ==
    ASSUME NEW f \in Tables, NEW d \in Disks, NEW X, Bytefree(X)
    PROVE  \A c \in Cluster : Done(f, d, X).disk.bytes[c] = d.bytes[c]
<1> TAKE c \in Cluster
<1>1. X \in Seq(Items) /\ \A k \in 1..Len(X) : ~Hits(X[k], c)
  BY DEF Bytefree
<1> QED
  BY <1>1, DoneBytes

\* Each item of X writes the bytes of a cluster of its own.
Strewn(X) == OnlyBytes(X) /\ \A j, k \in 1..Len(X) : X[j].write.at = X[k].write.at => j = k

\* The last of n items that hits a cluster decides what it holds.
LastHits(Z, n, z, d, c) ==
    /\ (\A k \in 1..n : ~Hits(Z[k], c)) => z[c] = d.bytes[c]
    /\ \A k \in 1..n : (Hits(Z[k], c) /\ (\A j \in 1..n : k < j => ~Hits(Z[j], c))) => z[c] = Z[k].write.val

\* The bytes after an operation that writes those of X.
LEMMA StrewnDone ==
    ASSUME NEW f \in Tables, NEW d \in Disks, NEW A, Bytefree(A), NEW X, Strewn(X), NEW B, Bytefree(B),
           NEW z, z = Done(f, d, (A \o X) \o B).disk.bytes
    PROVE  /\ \A c \in Cluster : (\A k \in 1..Len(X) : X[k].write.at # c) => z[c] = d.bytes[c]
           /\ \A k \in 1..Len(X) : z[X[k].write.at] = X[k].write.val
<1>0. ASSUME NEW W \in Seq(Items), z = Done(f, d, W).disk.bytes, NEW c \in Cluster
      PROVE  /\ (\A k \in 1..Len(W) : ~Hits(W[k], c)) => z[c] = d.bytes[c]
             /\ \A k \in 1..Len(W) : Hits(W[k], c) /\ (\A j \in 1..Len(W) : k < j => ~Hits(W[j], c))
                                        => z[c] = W[k].write.val
  BY <1>0, DoneBytes
<1>1. A \in Seq(Items) /\ B \in Seq(Items) /\ X \in Seq(Items) /\ \A k \in 1..Len(X) : X[k].write.kind = "bytes"
  BY DEF Bytefree, Strewn, OnlyBytes
<1> SUFFICES ASSUME NEW Y, Y = A \o X, NEW Z, Z = Y \o B
             PROVE  /\ \A c \in Cluster : (\A k \in 1..Len(X) : X[k].write.at # c) => z[c] = d.bytes[c]
                    /\ \A k \in 1..Len(X) : z[X[k].write.at] = X[k].write.val
  OBVIOUS
<1>2. /\ Y \in Seq(Items) /\ Len(Y) = Len(A) + Len(X) /\ Len(A) \in Nat /\ Len(X) \in Nat
      /\ \A k \in 1..Len(A) : Y[k] = A[k]
      /\ \A k \in 1..Len(X) : Y[Len(A) + k] = X[k]
      /\ \A k \in 1..(Len(A) + Len(X)) : k > Len(A) => Y[k] = X[k - Len(A)] /\ k - Len(A) \in 1..Len(X)
  BY <1>1, ItemsConcat
<1>3. /\ Z \in Seq(Items) /\ Len(Z) = Len(Y) + Len(B) /\ Len(B) \in Nat
      /\ \A k \in 1..Len(Y) : Z[k] = Y[k]
      /\ \A k \in 1..(Len(Y) + Len(B)) : k > Len(Y) => Z[k] = B[k - Len(Y)] /\ k - Len(Y) \in 1..Len(B)
  BY <1>1, <1>2, ItemsConcat
<1>8. Len(A) + Len(X) <= Len(Z) /\ Len(Z) \in Nat
  BY <1>2, <1>3
<1>9. z = Done(f, d, Z).disk.bytes
  OBVIOUS
<1> SUFFICES ASSUME NEW a, a = Len(A), NEW m, m = Len(X), NEW n, n = Len(Z), a + m <= n, a \in Nat, m \in Nat, n \in Nat
             PROVE  /\ \A c \in Cluster : (\A k \in 1..m : X[k].write.at # c) => z[c] = d.bytes[c]
                    /\ \A k \in 1..m : z[X[k].write.at] = X[k].write.val
  BY <1>2, <1>8
<1>4. \A j \in 1..m : a + j \in 1..n /\ Z[a + j] = X[j]
  <2> TAKE j \in 1..m
  <2>1. a + j \in 1..n /\ a + j \in 1..Len(Y)
    BY <1>2
  <2> QED
    BY <1>2, <1>3, <2>1
<1>5. \A j \in 1..n, c \in Cluster : Hits(Z[j], c) => \E k \in 1..m : j = a + k /\ X[k].write.at = c
  <2> SUFFICES ASSUME NEW j \in 1..n, NEW c \in Cluster, Hits(Z[j], c)
               PROVE  \E k \in 1..m : j = a + k /\ X[k].write.at = c
    OBVIOUS
  <2>1. CASE j <= a
    <3>1. j \in 1..Len(A) /\ j \in 1..Len(Y)
      BY <1>2, <2>1
    <3>2. Z[j] = A[j]
      BY <1>2, <1>3, <3>1
    <3> QED
      BY <3>1, <3>2 DEF Bytefree
  <2>2. CASE j > a + m
    <3>1. j \in 1..(Len(Y) + Len(B)) /\ j > Len(Y)
      BY <1>2, <1>3, <2>2
    <3>2. Z[j] = B[j - Len(Y)] /\ j - Len(Y) \in 1..Len(B)
      BY <1>3, <3>1
    <3> QED
      BY <3>2 DEF Bytefree
  <2>3. CASE j > a /\ j <= a + m
    <3>1. j - a \in 1..m /\ j = a + (j - a)
      BY <2>3
    <3>2. Z[j] = X[j - a]
      BY <1>4, <3>1
    <3>3. X[j - a].write.at = c
      BY <3>2 DEF Hits
    <3> QED
      BY <3>1, <3>3
  <2> QED
    BY <2>1, <2>2, <2>3
<1>10. \A c \in Cluster :
          /\ (\A k \in 1..n : ~Hits(Z[k], c)) => z[c] = d.bytes[c]
          /\ \A k \in 1..n : Hits(Z[k], c) /\ (\A j \in 1..n : k < j => ~Hits(Z[j], c))
                                => z[c] = Z[k].write.val
  <2> TAKE c \in Cluster
  <2>1. /\ (\A k \in 1..Len(Z) : ~Hits(Z[k], c)) => z[c] = d.bytes[c]
        /\ \A k \in 1..Len(Z) : Hits(Z[k], c) /\ (\A j \in 1..Len(Z) : k < j => ~Hits(Z[j], c))
                                => z[c] = Z[k].write.val
    BY <1>0, <1>3, <1>9, Zenon
  <2>2. LastHits(Z, Len(Z), z, d, c)
    BY <2>1, Zenon DEF LastHits
  <2>3. LastHits(Z, n, z, d, c)
    BY <2>2
  <2> QED
    BY <2>3, Zenon DEF LastHits
<1>6. ASSUME NEW c \in Cluster, \A k \in 1..m : X[k].write.at # c PROVE z[c] = d.bytes[c]
  <2>1. ASSUME NEW j \in 1..n, Hits(Z[j], c) PROVE FALSE
    <3>1. PICK k \in 1..m : j = a + k /\ X[k].write.at = c
      BY <1>5, <2>1, Zenon
    <3> QED
      BY <1>6, <3>1, Zenon
  <2>2. \A k \in 1..n : ~Hits(Z[k], c)
    BY <2>1, Zenon
  <2> QED
    BY <1>10, <2>2, Zenon
<1>7. ASSUME NEW k \in 1..m PROVE z[X[k].write.at] = X[k].write.val
  <2> SUFFICES ASSUME NEW c, c = X[k].write.at, NEW i, i = a + k PROVE z[c] = X[k].write.val
    OBVIOUS
  <2>1. X[k] \in Items /\ X[k].write.kind = "bytes"
    BY <1>1, ElementOfSeq
  <2>2. c \in Cluster
    BY <2>1 DEF Items, Writes
  <2>3. i \in 1..n /\ Z[i] = X[k] /\ Hits(Z[i], c)
    BY <1>4, <2>1 DEF Hits
  <2>4. \A j \in 1..n : i < j => ~Hits(Z[j], c)
    <3> SUFFICES ASSUME NEW j \in 1..n, i < j, Hits(Z[j], c) PROVE FALSE
      OBVIOUS
    <3>1. PICK l \in 1..m : j = a + l /\ X[l].write.at = c
      BY <1>5, <2>2
    <3>2. l = k
      BY <3>1 DEF Strewn
    <3> QED
      BY <3>1, <3>2
  <2>5. z[c] = Z[i].write.val
    <3>1. Hits(Z[i], c) /\ (\A j \in 1..n : i < j => ~Hits(Z[j], c)) => z[c] = Z[i].write.val
      BY <1>10, <2>2, <2>3, Zenon
    <3> QED
      BY <2>3, <2>4, <3>1
  <2> QED
    BY <2>3, <2>5
<1> QED
  BY <1>6, <1>7

---------------------------------------------------------------------------
(* What each operation spares.                                             *)

\* A lookup leaves the table, or adds a cluster to the directory.
LEMMA LookupForms ==
    ASSUME NEW f, NEW es, NEW dir, NEW name, NEW create, NEW l, l = dir_lookup(f, es, dir, name, create)
    PROVE  \/ l.fat = f /\ l.items = <<>>
           \/ l = Grown(f, dir) /\ dir # Root /\ Unused(f) # {}
<1>1. \A S, x : Found(f, dir, S, x).fat = f /\ Found(f, dir, S, x).items = <<>>
  BY DEF Found
<1>2. \A r : Failure(r, f).fat = f /\ Failure(r, f).items = <<>>
  BY DEF Failure
<1> QED
  BY <1>1, <1>2, Zenon DEF dir_lookup

\* What a lookup finds, and the clusters it changes.
LEMMA LookupSpares ==
    ASSUME fat \in Tables, disk \in Disks, NEW D, Neat(fat, disk.entries, D), NEW p \in Paths,
           NEW create \in BOOLEAN, NEW l \in Lookup(p, create)
    PROVE  /\ l.exists => Stat(fat, disk.entries, p) = {At(disk.entries, l.slot)}
           /\ ~l.exists => Stat(fat, disk.entries, p) = {}
           /\ Bytefree(l.items) /\ l.fat \in Tables /\ l.items \in Seq(Items)
           /\ \A c \in Cluster : \/ l.fat[c] = fat[c]
                                 \/ c \in Unused(fat)
                                 \/ \E d \in D \ {Root} : c \in Chain(fat, d)
           /\ Unused(l.fat) \subseteq Unused(fat)
<1> SUFFICES ASSUME NEW es, es = disk.entries, NEW dir, dir = resolve_path(fat, disk.entries, p),
                    NEW name, name = NameOf(p)
             PROVE  /\ l.exists => Stat(fat, es, p) = {At(es, l.slot)}
                    /\ ~l.exists => Stat(fat, es, p) = {}
                    /\ Bytefree(l.items) /\ l.fat \in Tables /\ l.items \in Seq(Items)
                    /\ \A c \in Cluster : \/ l.fat[c] = fat[c]
                                          \/ c \in Unused(fat)
                                          \/ \E d \in D \ {Root} : c \in Chain(fat, d)
                    /\ Unused(l.fat) \subseteq Unused(fat)
  OBVIOUS
<1>1. Good(fat, disk.entries, D, "loose") /\ Neat(fat, es, D)
  BY DEF Neat
<1>2. /\ name \in Names /\ l.fat \in Tables /\ dir \in D /\ l \in Lookups
      /\ dir \in Cluster \cup {Root}
      /\ l = dir_lookup(fat, es, dir, name, create)
  BY <1>1, LookupInCover, LookupsAre
<1>3. dir # NULL
  BY <1>2, NullIsNoBlock
<1>4. p # <<>> /\ p \in Seq(Names)
  BY PathAssumption
<1>5. Stat(fat, es, p) = Ent(Row(fat, es, dir), name)
  BY <1>3, <1>4 DEF Stat
<1>6. l.exists => Ent(Row(fat, es, dir), name) = {At(es, l.slot)}
  BY <1>1, <1>2, LookupTells
<1>7. ~l.exists => Ent(Row(fat, es, dir), name) = {}
  BY <1>1, <1>2, LookupFinds
<1>8. \/ l.fat = fat /\ l.items = <<>>
      \/ l = Grown(fat, dir) /\ dir # Root /\ Unused(fat) # {}
  BY <1>2, LookupForms
<1>9. CASE l.fat = fat /\ l.items = <<>>
  <2>1. Bytefree(l.items)
    BY <1>9, BytefreeAre
  <2> QED
    BY <1>2, <1>5, <1>6, <1>7, <1>9, <2>1 DEF Lookups
<1>10. CASE l = Grown(fat, dir) /\ dir # Root /\ Unused(fat) # {}
  <2>1. dir \in Cluster /\ dir \in D \ {Root}
    BY <1>2, <1>10
  <2> SUFFICES ASSUME NEW n, n = NewCluster(fat), NEW m, m = Cardinality(Chain(fat, dir)),
                      NEW x, x = ChainSeq(fat, dir)[m]
               PROVE  /\ Bytefree(l.items)
                      /\ \A c \in Cluster : \/ l.fat[c] = fat[c]
                                            \/ c \in Unused(fat)
                                            \/ \E d \in D \ {Root} : c \in Chain(fat, d)
                      /\ Unused(l.fat) \subseteq Unused(fat)
    BY <1>2, <1>5, <1>6, <1>7 DEF Lookups
  <2>2. /\ l.fat = [Allocate(fat) EXCEPT ![x] = n]
        /\ l.items = WriteDir(l.fat, n, EmptyDir) \o fat_flush(l.fat)
    BY <1>10, <2>1, GrownIs
  <2>3. /\ n \in Cluster /\ fat[n] = FAT12_FREE /\ Allocate(fat) \in Tables
        /\ \A c \in Cluster : Allocate(fat)[c] = IF c = n THEN FAT12_EOC ELSE fat[c]
    BY <1>10, AllocateIs
  <2>4. Bytefree(l.items)
    <3>1. Bytefree(WriteDir(l.fat, n, EmptyDir)) /\ Bytefree(fat_flush(l.fat))
      BY <1>2, <2>3, BytefreeAre, EmptyDirIs
    <3> QED
      BY <2>2, <3>1, BytefreeConcat
  <2>5. x \in Chain(fat, dir) /\ x \in Cluster
    <3>1. Proper(fat, dir)
      BY <1>1, <2>1, NeatFacts
    <3>2. m \in 1..(MaxCluster - 1)
      BY <2>1, <3>1, LastHasMark
    <3>3. m \in 1..Cardinality(Chain(fat, dir))
      BY <3>2, Sizes
    <3>4. ChainWalk(fat, dir)[m - 1] \in Chain(fat, dir)
      BY <3>3, WalkOfMembers
    <3>5. x = ChainWalk(fat, dir)[m - 1]
      BY <3>3, ChainSeqIs
    <3> QED
      BY <3>4, <3>5, ChainIsFinite
  <2>6. \A c \in Cluster : l.fat[c] = IF c = x THEN n ELSE IF c = n THEN FAT12_EOC ELSE fat[c]
    BY <2>2, <2>3, <2>5 DEF Tables
  <2>7. \A c \in Cluster : l.fat[c] = fat[c] \/ c \in Unused(fat) \/ \E d \in D \ {Root} : c \in Chain(fat, d)
    BY <2>1, <2>3, <2>5, <2>6 DEF Unused
  <2>8. Unused(l.fat) \subseteq Unused(fat)
    <3>1. FAT12_FREE \notin Cluster /\ FAT12_EOC # FAT12_FREE
      BY Sizes DEF Cluster, FAT12_FREE, FAT12_EOC
    <3> QED
      BY <2>3, <2>6, <3>1 DEF Unused
  <2> QED
    BY <2>4, <2>7, <2>8
<1> QED
  BY <1>8, <1>9, <1>10

\* What the operation does to the tree, with the entry p that is found.
Turned(o, p, D, E) ==
    LET d == Done(fat, disk, o.items) IN
    Turns(fat, disk, D, p, d.fat, d.disk, Dirs(d.fat, d.disk.entries), E)

LEMMA TurnedIs ==
    ASSUME NEW o, NEW p, NEW D, NEW E, Brings(o, p, D, E), NEW d, d = Done(fat, disk, o.items),
           Spares(fat, disk.entries, disk.bytes, D, p, d.fat, d.disk.bytes)
    PROVE  Turned(o, p, D, E)
BY DEF Brings, Turned, Turns

\* Of the table F.
SparesTable(F, p, D) ==
    \A c \in Cluster : \/ F[c] = fat[c]
                       \/ c \in Unused(fat)
                       \/ \E d \in D \ {Root} : c \in Chain(fat, d)
                       \/ \E x \in Stat(fat, disk.entries, p) : c \in Chain(fat, x.first)

\* An operation that writes no bytes.
LEMMA FreeTurns ==
    ASSUME fat \in Tables, disk \in Disks, NEW X, Bytefree(X), NEW F \in Tables, NEW code \in {"ok", "full"},
           NEW o, o.items = X \o Return(F, code), NEW p, NEW D, NEW E, Brings(o, p, D, E),
           SparesTable(F, p, D)
    PROVE  Turned(o, p, D, E)
<1>1. X \in Seq(Items)
  BY DEF Bytefree
<1>2. Done(fat, disk, o.items).fat = F
  BY <1>1, DoneReturns
<1>3. Bytefree(o.items)
  <2>1. Bytefree(Return(F, code))
    BY BytefreeAre
  <2> QED
    BY <2>1, BytefreeConcat
<1>4. \A c \in Cluster : Done(fat, disk, o.items).disk.bytes[c] = disk.bytes[c]
  BY <1>3, BytefreeDone
<1> SUFFICES ASSUME NEW d, d = Done(fat, disk, o.items) PROVE Turned(o, p, D, E)
  OBVIOUS
<1>5. Spares(fat, disk.entries, disk.bytes, D, p, d.fat, d.disk.bytes)
  BY <1>2, <1>4 DEF Spares, SparesTable
<1> QED
  BY <1>5, TurnedIs

LEMMA TruncateTurns ==
    ASSUME fat \in Tables, disk \in Disks, NEW D, Neat(fat, disk.entries, D),
           NEW p \in Paths, NEW o \in Called("truncate", p), o.code # "wild"
    PROVE  Turned(o, p, D, {Entry(NameOf(p), FALSE, 0, 0)})
<1>0. o \in fat_write_file(p)
  BY DEF Called
<1>1. PICK l \in Lookup(p, TRUE) :
         /\ l.r # 2
         /\ LET old == At(disk.entries, l.slot)
                f == IF l.exists THEN fat_free_chain(fat, old.first) ELSE l.fat
            IN  o = IF l.r = 3 THEN Derailed
                    ELSE [Outcome(l.items \o fat_flush(f)
                                  \o WriteEntry(f, l.slot, Entry(NameOf(p), FALSE, 0, 0)), f, "ok")
                          EXCEPT !.emptied = l.exists /\ old.dir]
  BY <1>0 DEF fat_write_file
<1> DEFINE old == At(disk.entries, l.slot)
           s == l.slot
           F == IF l.exists THEN fat_free_chain(fat, old.first) ELSE l.fat
           e == Entry(NameOf(p), FALSE, 0, 0)
           Z == l.items \o fat_flush(F)
           X == Z \o WriteEntry(F, s, e)
<1>2. Good(fat, disk.entries, D, "loose")
  BY DEF Neat
<1>3. NameOf(p) \in Names /\ s \in SlotSet /\ l.fat \in Tables
  BY <1>2, LookupInCover
<1>4. l.r # 3
  BY <1>1 DEF Derailed
<1>5. o.items = X \o Return(F, "ok")
  BY <1>1, <1>4 DEF Outcome
<1>6. F \in Tables
  BY <1>3, FreeChainIs
<1>7. e \in Entries
  BY <1>3, EntryIs, Sizes DEF Entry
<1> DEFINE yes == TRUE
<1>8. l \in Lookup(p, yes) /\ yes \in BOOLEAN
  OBVIOUS
<1> HIDE DEF yes
<1>9. /\ l.exists => Stat(fat, disk.entries, p) = {old}
      /\ Bytefree(l.items)
      /\ \A c \in Cluster : \/ l.fat[c] = fat[c]
                            \/ c \in Unused(fat)
                            \/ \E d \in D \ {Root} : c \in Chain(fat, d)
  BY <1>8, LookupSpares
<1>10. \A c \in Cluster : \/ F[c] = fat[c]
                          \/ c \in Unused(fat)
                          \/ \E d \in D \ {Root} : c \in Chain(fat, d)
                          \/ \E x \in Stat(fat, disk.entries, p) : c \in Chain(fat, x.first)
  <2>1. CASE l.exists
    <3>1. \A c \in Cluster : F[c] = fat[c] \/ c \in Chain(fat, old.first)
      BY <2>1, FreeChainIs
    <3> HIDE DEF old
    <3> QED
      BY <1>9, <2>1, <3>1
  <2>2. CASE ~l.exists
    BY <1>9, <2>2
  <2> QED
    BY <2>1, <2>2
<1> HIDE DEF F, e
<1>11. Bytefree(X)
  <2>1. Bytefree(fat_flush(F)) /\ Bytefree(WriteEntry(F, s, e))
    BY <1>3, <1>6, <1>7, BytefreeAre
  <2>2. Bytefree(Z)
    BY <1>9, <2>1, BytefreeConcat
  <2> HIDE DEF Z
  <2> QED
    BY <2>1, <2>2, BytefreeConcat
<1> HIDE DEF X
<1> DEFINE E == {e}
<1>12. Brings(o, p, D, E)
  BY TruncateBrings DEF e
<1> HIDE DEF E
<1>13. Turned(o, p, D, E)
  <2>1. SparesTable(F, p, D)
    BY <1>10 DEF SparesTable
  <2> QED
    BY <1>5, <1>6, <1>11, <1>12, <2>1, FreeTurns
<1> QED
  BY <1>13 DEF E, e

\* What a removal finds: a file, or a directory without names.
Removed(act, p, z) ==
    /\ Stat(fat, disk.entries, p) = {z}
    /\ act = "unlink" => ~z.dir
    /\ act = "rmdir" => z.dir /\ \A n \in Names : Ent(Row(fat, disk.entries, z.first), n) = {}

LEMMA RemovalTurns ==
    ASSUME fat \in Tables, disk \in Disks, NEW D, Neat(fat, disk.entries, D), NEW p \in Paths,
           NEW act \in {"unlink", "rmdir"}, NEW o \in Called(act, p), o.code # "wild"
    PROVE  Turned(o, p, D, {}) /\ \E z : Removed(act, p, z)
<1> DEFINE F(l) == fat_free_chain(fat, At(disk.entries, l.slot).first)
           e == Gone
<1>0. (act = "unlink" /\ o \in fat_delete_file(p)) \/ (act = "rmdir" /\ o \in fat_rmdir(p))
  BY DEF Called
<1>1. PICK l \in Lookup(p, FALSE) :
         /\ l.exists
         /\ \/ /\ act = "unlink" /\ ~At(disk.entries, l.slot).dir
               /\ o = Outcome(fat_delete_items(F(l), l.slot), F(l), "ok")
            \/ /\ act = "rmdir" /\ Removable(At(disk.entries, l.slot))
               /\ o = Outcome(fat_flush(F(l)) \o WriteEntry(F(l), l.slot, Gone), F(l), "ok")
  BY <1>0 DEF fat_delete_file, fat_rmdir
<1> DEFINE s == l.slot
           f == F(l)
           z == At(disk.entries, s)
<1>2. Good(fat, disk.entries, D, "loose")
  BY DEF Neat
<1>3. NameOf(p) \in Names /\ s \in SlotSet
  BY <1>2, LookupInCover
<1> DEFINE no == FALSE
<1>4. l \in Lookup(p, no) /\ no \in BOOLEAN
  OBVIOUS
<1> HIDE DEF no
<1>5. Stat(fat, disk.entries, p) = {z}
  BY <1>1, <1>4, LookupSpares
<1>6. f \in Tables /\ \A c \in Cluster : f[c] = fat[c] \/ c \in Chain(fat, z.first)
  BY FreeChainIs
<1>7. e \in Entries
  BY EmptyDirIs
<1>8. Removed(act, p, z)
  <2>1. act = "unlink" => ~z.dir
    BY <1>1
  <2>2. act = "rmdir" => Removable(z)
    BY <1>1
  <2>3. Removable(z) => z.dir /\ \A n \in Names : Ent(Row(fat, disk.entries, z.first), n) = {}
    <3> HIDE DEF z
    <3> SUFFICES ASSUME Removable(z), NEW n \in Names PROVE Ent(Row(fat, disk.entries, z.first), n) = {}
      BY DEF Removable
    <3>1. \A k \in DOMAIN Slots(fat, z.first) : At(disk.entries, Slots(fat, z.first)[k]).name \notin Names
      BY DEF Removable, dir_is_empty
    <3>2. \A k \in DOMAIN Row(fat, disk.entries, z.first) : Row(fat, disk.entries, z.first)[k].name \notin Names
      BY <3>1 DEF Row
    <3> QED
      BY <3>2 DEF Ent
  <2> HIDE DEF z
  <2> QED
    BY <1>5, <2>1, <2>2, <2>3 DEF Removed
<1> DEFINE A == WriteEntry(f, s, e)
           B == fat_flush(f)
<1>9. o.items = (A \o B) \o Return(f, "ok") \/ o.items = (B \o A) \o Return(f, "ok")
  <2>1. \A Y : Outcome(Y, f, "ok").items = Y \o Return(f, "ok")
    BY DEF Outcome
  <2>2. fat_delete_items(F(l), l.slot) = A \o B
    BY DEF fat_delete_items
  <2>3. o = Outcome(A \o B, f, "ok") \/ o = Outcome(B \o A, f, "ok")
    BY <1>1, <2>2
  <2> HIDE DEF f, s, e, A, B
  <2> QED
    BY <2>1, <2>3
<1> HIDE DEF f, F, e, s
<1>10. Bytefree(A \o B) /\ Bytefree(B \o A)
  <2>1. Bytefree(A) /\ Bytefree(B)
    BY <1>3, <1>6, <1>7, BytefreeAre
  <2> HIDE DEF A, B
  <2> QED
    BY <2>1, BytefreeConcat
<1> HIDE DEF A, B
<1> DEFINE E == {}
<1>11. Brings(o, p, D, E)
  BY RemovalBrings
<1> HIDE DEF E
<1>12. \A c \in Cluster : \/ f[c] = fat[c]
                          \/ c \in Unused(fat)
                          \/ \E d \in D \ {Root} : c \in Chain(fat, d)
                          \/ \E x \in Stat(fat, disk.entries, p) : c \in Chain(fat, x.first)
  <2> HIDE DEF z
  <2> QED
    BY <1>5, <1>6
<1>14. SparesTable(f, p, D)
  BY <1>12 DEF SparesTable
<1>13. Turned(o, p, D, E)
  <2> DEFINE X == A \o B
             Y == B \o A
  <2>1. Bytefree(X) /\ Bytefree(Y) /\ (o.items = X \o Return(f, "ok") \/ o.items = Y \o Return(f, "ok"))
    BY <1>9, <1>10
  <2> HIDE DEF X, Y
  <2>2. CASE o.items = X \o Return(f, "ok")
    BY <1>6, <1>11, <1>14, <2>1, <2>2, FreeTurns
  <2>3. CASE o.items = Y \o Return(f, "ok")
    BY <1>6, <1>11, <1>14, <2>1, <2>3, FreeTurns
  <2> QED
    BY <2>1, <2>2, <2>3
<1> QED
  BY <1>8, <1>13 DEF E

\* What fat_mkdir finds and leaves: no entry, and then a new directory or none.
LEMMA MkdirTurns ==
    ASSUME fat \in Tables, disk \in Disks, NEW D, Neat(fat, disk.entries, D), NEW p \in Paths,
           NEW o \in Called("mkdir", p), o.code # "wild"
    PROVE  /\ Stat(fat, disk.entries, p) = {}
           /\ \E E : Turned(o, p, D, E) /\ Opens(o, p, D, E) /\ \A x \in E : x.dir
<1> DEFINE dir == resolve_path(fat, disk.entries, p)
           C(l) == NewCluster(l.fat)
           F(l) == Allocate(l.fat)
<1>0. o \in fat_mkdir(p)
  BY DEF Called
<1>1. PICK l \in Lookup(p, TRUE) :
         /\ l.r = 0 /\ ~l.exists
         /\ \/ /\ Unused(l.fat) # {}
               /\ o = Outcome(l.items \o WriteDir(F(l), C(l), FirstBlock(C(l), dir)) \o fat_flush(F(l))
                              \o WriteEntry(F(l), l.slot, Entry(NameOf(p), TRUE, C(l), 0)), F(l), "ok")
            \/ o = Outcome(l.items, l.fat, "full")
  BY <1>0 DEF fat_mkdir
<1>2. Good(fat, disk.entries, D, "loose")
  BY DEF Neat
<1>3. /\ NameOf(p) \in Names /\ l.slot \in SlotSet /\ l.fat \in Tables /\ dir \in Cluster \cup {Root}
  BY <1>2, LookupInCover, LookupsAre
<1> DEFINE yes == TRUE
<1>4. l \in Lookup(p, yes) /\ yes \in BOOLEAN
  OBVIOUS
<1> HIDE DEF yes
<1>5. /\ Stat(fat, disk.entries, p) = {}
      /\ Bytefree(l.items)
      /\ \A c \in Cluster : \/ l.fat[c] = fat[c]
                            \/ c \in Unused(fat)
                            \/ \E d \in D \ {Root} : c \in Chain(fat, d)
      /\ Unused(l.fat) \subseteq Unused(fat)
  BY <1>1, <1>4, LookupSpares
<1>6. PICK E : Brings(o, p, D, E) /\ Opens(o, p, D, E) /\ \A x \in E : x.dir
  BY MkdirBrings
<1>20. \A Y, g, code : Outcome(Y, g, code).items = Y \o Return(g, code)
  BY DEF Outcome
<1>7. CASE o = Outcome(l.items, l.fat, "full")
  <2>1. o.items = l.items \o Return(l.fat, "full")
    <3>1. Outcome(l.items, l.fat, "full").items = l.items \o Return(l.fat, "full")
      BY DEF Outcome
    <3> HIDE DEF C, F, dir
    <3> QED
      BY <1>7, <3>1, Zenon
  <2> DEFINE X == l.items
             g == l.fat
             code == "full"
  <2>2. o.items = X \o Return(g, code) /\ code \in {"ok", "full"}
    BY <2>1
  <2>3. /\ Bytefree(X) /\ g \in Tables
        /\ \A c \in Cluster : g[c] = fat[c] \/ c \in Unused(fat) \/ \E d \in D \ {Root} : c \in Chain(fat, d)
    BY <1>3, <1>5
  <2> HIDE DEF X, g, code
  <2>5. SparesTable(g, p, D)
    BY <2>3 DEF SparesTable
  <2>4. Turned(o, p, D, E)
    BY <1>6, <2>2, <2>3, <2>5, FreeTurns
  <2> QED
    BY <1>5, <1>6, <2>4
<1>8. CASE /\ Unused(l.fat) # {}
           /\ o = Outcome(l.items \o WriteDir(F(l), C(l), FirstBlock(C(l), dir)) \o fat_flush(F(l))
                          \o WriteEntry(F(l), l.slot, Entry(NameOf(p), TRUE, C(l), 0)), F(l), "ok")
  <2> DEFINE c == C(l)
             f == F(l)
             b == FirstBlock(c, dir)
             e == Entry(NameOf(p), TRUE, c, 0)
             V == l.items \o WriteDir(f, c, b)
             W == V \o fat_flush(f)
             X == W \o WriteEntry(f, l.slot, e)
             code == "ok"
  <2>1. o.items = X \o Return(f, code) /\ code \in {"ok", "full"}
    BY <1>8, <1>20
  <2>2. /\ f \in Tables /\ c \in Cluster /\ l.fat[c] = FAT12_FREE
        /\ \A x \in Cluster : f[x] = IF x = c THEN FAT12_EOC ELSE l.fat[x]
    BY <1>3, <1>8, AllocateIs
  <2>3. b \in [1..DirEntries -> Entries]
    BY <1>3, <2>2, FirstBlockIs
  <2>4. e \in Entries
    BY <1>3, <2>2, EntryIs, Sizes DEF Entry
  <2>5. \A x \in Cluster : f[x] = fat[x] \/ x \in Unused(fat) \/ \E d \in D \ {Root} : x \in Chain(fat, d)
    <3>1. c \in Unused(fat)
      BY <1>5, <2>2 DEF Unused
    <3> HIDE DEF c, f, C, F
    <3> QED
      BY <1>5, <2>2, <3>1
  <2> HIDE DEF C, F, b, e, f, c
  <2>6. Bytefree(X)
    <3>1. Bytefree(WriteDir(f, c, b)) /\ Bytefree(fat_flush(f)) /\ Bytefree(WriteEntry(f, l.slot, e))
      BY <1>3, <2>2, <2>3, <2>4, BytefreeAre
    <3>2. Bytefree(V)
      BY <1>5, <3>1, BytefreeConcat
    <3> HIDE DEF V
    <3>3. Bytefree(W)
      BY <3>1, <3>2, BytefreeConcat
    <3> HIDE DEF W
    <3> QED
      BY <3>1, <3>3, BytefreeConcat
  <2> HIDE DEF X, code
  <2>8. SparesTable(f, p, D)
    BY <2>5 DEF SparesTable
  <2>7. Turned(o, p, D, E)
    BY <1>6, <2>1, <2>2, <2>6, <2>8, FreeTurns
  <2> QED
    BY <1>5, <1>6, <2>7
<1> QED
  BY <1>1, <1>7, <1>8

---------------------------------------------------------------------------
(* What fat_write_at stores.                                               *)

\* The number of the first cluster that e is written to.
From(e) == e.offset \div cluster_size

LEMMA FromIs ==
    ASSUME NEW e, e.offset \in Nat, e.len \in Nat \ {0}
    PROVE  From(e) \in Nat /\ From(e) <= Rounds(e)
<1> SUFFICES ASSUME NEW a \in Nat \ {0}, a = cluster_size, NEW x \in Nat, x = e.offset, NEW n \in Nat \ {0}, n = e.len
             PROVE  x \div a \in Nat /\ x \div a <= (x + n - 1) \div a
  BY Sizes DEF From, Rounds
<1> DEFINE q == x \div a
           y == x + n - 1
           r == y \div a
<1>1. q \in Nat /\ x = a * q + (x % a) /\ x % a \in 0..(a - 1)
  OBVIOUS
<1>2. y \in Nat /\ x <= y
  OBVIOUS
<1> HIDE DEF y
<1>3. r \in Nat /\ y = a * r + (y % a) /\ y % a \in 0..(a - 1)
  BY <1>2
<1> HIDE DEF q, r
<1>4. ASSUME ~(q <= r) PROVE FALSE
  <2> DEFINE d == q - r
             ad == a * (q - r - 1)
  <2>1. q = (r + 1) + (q - r - 1) /\ q - r - 1 \in Nat
    BY <1>1, <1>3, <1>4
  <2>2. a * q = a * r + a + a * (q - r - 1)
    BY <1>1, <1>3
  <2>3. ad \in Nat
    BY <2>1
  <2> DEFINE aq == a * q
             ar == a * r
  <2>4. aq = ar + a + ad /\ aq \in Nat /\ ar \in Nat
    BY <1>1, <1>3, <2>2
  <2>5. x = aq + (x % a) /\ y = ar + (y % a)
    BY <1>1, <1>3
  <2> HIDE DEF aq, ar, ad
  <2> QED
    BY <1>1, <1>2, <1>3, <2>3, <2>4, <2>5
<1> QED
  BY <1>1, <1>4 DEF q, r, y

\* The writes are to the clusters of the chain, one after the other, from the
\* first on.
Fed(h, e, b) ==
    /\ OnlyBytes(h.items)
    /\ Len(h.items) # 0 => From(e) + Len(h.items) <= Cardinality(Chain(h.fat, h.first))
    /\ \A k \in 1..Len(h.items) :
          /\ h.items[k].write.at = ChainWalk(h.fat, h.first)[From(e) + k - 1]
          /\ h.items[k].write.val = Patched(h.items[k].write.at, From(e) + k - 1, e, b)

LEMMA FedKept ==
    ASSUME NEW e, From(e) \in Nat, NEW b, NEW h \in Stores, NEW n \in Stores, n.items = h.items,
           Prolongs(h, n), Cardinality(Chain(h.fat, h.first)) <= Cardinality(Chain(n.fat, n.first)), Fed(h, e, b)
    PROVE  Fed(n, e, b)
<1> SUFFICES ASSUME NEW X, X = h.items, NEW a, a = From(e),
                    NEW c, c = Cardinality(Chain(h.fat, h.first)), NEW c2, c2 = Cardinality(Chain(n.fat, n.first))
             PROVE  Fed(n, e, b)
  OBVIOUS
<1>1. c \in Nat /\ c2 \in Nat /\ c <= c2
  BY ChainIsFinite DEF Stores
<1>2. OnlyBytes(X) /\ Len(X) \in Nat
  BY ItemsConcat DEF Fed, OnlyBytes
<1>3. Len(X) # 0 => a + Len(X) <= c
  BY DEF Fed
<1>4. \A k \in 1..Len(X) : /\ X[k].write.at = ChainWalk(h.fat, h.first)[a + k - 1]
                           /\ X[k].write.val = Patched(X[k].write.at, a + k - 1, e, b)
  BY DEF Fed
<1>5. \A k \in 1..Len(X) : a + k - 1 \in 0..(c - 1)
  BY <1>1, <1>2, <1>3
<1>6. \A j \in 0..(c - 1) : ChainWalk(n.fat, n.first)[j] = ChainWalk(h.fat, h.first)[j]
  BY DEF Prolongs
<1>7. Len(X) # 0 => a + Len(X) <= c2
  BY <1>1, <1>2, <1>3
<1>8. \A k \in 1..Len(X) : X[k].write.at = ChainWalk(n.fat, n.first)[a + k - 1]
  BY <1>4, <1>5, <1>6
<1> QED
  BY <1>2, <1>4, <1>7, <1>8 DEF Fed

LEMMA FedMore ==
    ASSUME disk \in Disks, NEW e, From(e) \in Nat, NEW b \in Bytes, NEW n \in Stores, Fed(n, e, b),
           NEW i \in Nat, From(e) <= i, Len(n.items) = i - From(e), n.at \in Cluster,
           n.at = ChainWalk(n.fat, n.first)[i], i + 1 <= Cardinality(Chain(n.fat, n.first)),
           NEW y \in Stores, y.fat = n.fat, y.first = n.first,
           y.items = n.items \o WriteBytes(n.fat, n.at, Patched(n.at, i, e, b))
    PROVE  Fed(y, e, b) /\ Len(y.items) = (i + 1) - From(e)
<1> SUFFICES ASSUME NEW X, X = n.items, NEW a, a = From(e), NEW bs, bs = Patched(n.at, i, e, b),
                    NEW c, c = Cardinality(Chain(n.fat, n.first)), NEW Z, Z = y.items
             PROVE  Fed(y, e, b) /\ Len(Z) = (i + 1) - a
  OBVIOUS
<1>1. bs \in Contents /\ n.fat \in Tables
  BY PatchedIs DEF Stores
<1>2. OnlyBytes(X) /\ X \in Seq(Items) /\ Len(X) \in Nat
  BY ItemsConcat DEF Fed, OnlyBytes
<1> DEFINE w == [kind |-> "bytes", at |-> n.at, val |-> bs]
           Y == WriteBytes(n.fat, n.at, bs)
<1>3. Y = Item(n.fat, w) /\ w \in Writes /\ w.at = n.at /\ w.val = bs
  BY <1>1 DEF Writes, WriteBytes
<1>4. OnlyBytes(Z)
  <2>1. Z = X \o WriteBytes(n.fat, n.at, bs)
    OBVIOUS
  <2> QED
    BY <1>1, <1>2, <2>1, MoreBytes
<1>5. Z = X \o Y
  OBVIOUS
<1> HIDE DEF w, Y
<1>6. Y \in Seq(Items) /\ Len(Y) = 1 /\ Y[1] = [fat |-> n.fat, write |-> w]
  BY <1>1, <1>3, ItemIs
<1>7. /\ Len(Z) = Len(X) + 1
      /\ \A k \in 1..Len(X) : Z[k] = X[k]
      /\ \A k \in 1..Len(Y) : Z[Len(X) + k] = Y[k]
  <2>1. /\ Len(X \o Y) = Len(X) + Len(Y)
        /\ \A k \in 1..Len(X) : (X \o Y)[k] = X[k]
        /\ \A k \in 1..Len(Y) : (X \o Y)[Len(X) + k] = Y[k]
    BY <1>2, <1>6, ItemsConcat
  <2> QED
    BY <1>5, <1>6, <2>1, Zenon
<1>8. Len(X) + 1 = (i + 1) - a /\ a + (Len(X) + 1) = i + 1 /\ a + (Len(X) + 1) - 1 = i
  <2>1. \A l, m \in Nat : l = i - m => l + 1 = (i + 1) - m /\ m + (l + 1) = i + 1 /\ m + (l + 1) - 1 = i
    OBVIOUS
  <2>2. Len(X) = i - a /\ a \in Nat
    OBVIOUS
  <2> QED
    BY <1>2, <2>1, <2>2, Zenon
<1>9. Z[Len(X) + 1].write = w
  <2>1. 1 \in 1..Len(Y)
    BY <1>6
  <2>2. Z[Len(X) + 1] = Y[1]
    BY <1>7, <2>1
  <2>3. [fat |-> n.fat, write |-> w].write = w
    OBVIOUS
  <2> QED
    BY <1>6, <2>2, <2>3, Zenon
<1>10. \A k \in 1..Len(X) : /\ X[k].write.at = ChainWalk(n.fat, n.first)[a + k - 1]
                            /\ X[k].write.val = Patched(X[k].write.at, a + k - 1, e, b)
  BY DEF Fed
<1>11. ASSUME NEW k \in 1..Len(Z)
       PROVE  /\ Z[k].write.at = ChainWalk(y.fat, y.first)[a + k - 1]
              /\ Z[k].write.val = Patched(Z[k].write.at, a + k - 1, e, b)
  <2>1. CASE k \in 1..Len(X)
    BY <1>7, <1>10, <2>1
  <2>2. CASE k = Len(X) + 1
    <3>1. Z[k].write = w /\ a + k - 1 = i
      BY <1>8, <1>9, <2>2
    <3> QED
      BY <1>3, <3>1
  <2>3. k \in 1..Len(X) \/ k = Len(X) + 1
    <3>1. \A l \in Nat : \A j \in 1..(l + 1) : j \in 1..l \/ j = l + 1
      OBVIOUS
    <3> QED
      BY <1>2, <1>7, <3>1
  <2> QED
    BY <2>1, <2>2, <2>3
<1>12. a + Len(Z) <= Cardinality(Chain(y.fat, y.first)) /\ Len(Z) = (i + 1) - a
  BY <1>7, <1>8
<1> QED
  BY <1>4, <1>11, <1>12 DEF Fed

\* The loop's state before cluster number i.
Feeds(f, first, e, b, i, x) ==
    /\ Extends(f, first, x) /\ Fed(x, e, b) /\ Prolongs(Unstored(f, first), x)
    /\ ~x.full => /\ Reaches(f, first, x, i)
                  /\ Len(x.items) = IF i <= From(e) THEN 0 ELSE i - From(e)

LEMMA FeedsStart ==
    ASSUME NEW f \in Tables, NEW first \in Cluster \cup {0}, Proper(f, first),
           NEW e, From(e) \in Nat, NEW b
    PROVE  Feeds(f, first, e, b, 0, Unstored(f, first))
<1> DEFINE h == Unstored(f, first)
<1>1. Extends(f, first, h) /\ Reaches(f, first, h, 0)
  BY StartExtends
<1>2. h.items = <<>>
  BY DEF Unstored
<1>3. Prolongs(h, h)
  BY DEF Prolongs
<1> HIDE DEF h
<1>4. OnlyBytes(h.items) /\ Len(h.items) = 0
  BY <1>2, EmptySeq DEF OnlyBytes
<1>5. Fed(h, e, b)
  BY <1>4 DEF Fed
<1> QED
  BY <1>1, <1>3, <1>4, <1>5 DEF Feeds, h

LEMMA FeedsOn ==
    ASSUME disk \in Disks, NEW f \in Tables, NEW first \in Cluster \cup {0}, NEW b \in Bytes,
           NEW e, From(e) \in Nat, NEW i \in Nat, NEW x, Feeds(f, first, e, b, i, x)
    PROVE  Feeds(f, first, e, b, i + 1, StoreRound(first, e, b, i, x))
<1> DEFINE n == Onward(x, first)
           w == WriteBytes(n.fat, n.at, Patched(n.at, i, e, b))
           y == StoreRound(first, e, b, i, x)
           start == Unstored(f, first)
<1>1. /\ Extends(f, first, x) /\ Fed(x, e, b) /\ Prolongs(start, x) /\ x \in Stores
      /\ ~x.full => /\ Reaches(f, first, x, i)
                    /\ Len(x.items) = IF i <= From(e) THEN 0 ELSE i - From(e)
  BY DEF Feeds, Extends
<1>2. n \in Stores /\ n.items = x.items /\ (n.full \/ n.at \in Cluster)
  BY <1>1, OnwardIs
<1>3. CASE x.full \/ n.full
  <2>1. y = [x EXCEPT !.full = TRUE]
    BY <1>3 DEF StoreRound
  <2>2. y \in Stores /\ y.fat = x.fat /\ y.first = x.first /\ y.items = x.items /\ y.full
    BY <1>1, <2>1 DEF Stores
  <2> HIDE DEF y, n, start
  <2>3. Extends(f, first, y) /\ Prolongs(start, y) /\ Fed(y, e, b)
    <3>1. Extends(f, first, y)
      BY <1>1, <2>2 DEF Extends
    <3>2. Prolongs(start, y)
      BY <1>1, <2>2 DEF Prolongs
    <3>3. Fed(y, e, b)
      BY <1>1, <2>2 DEF Fed
    <3> QED
      BY <3>1, <3>2, <3>3
  <2> QED
    BY <2>2, <2>3 DEF Feeds, y, start
<1>4. CASE ~(x.full \/ n.full)
  <2>1. Extends(f, first, n) /\ Reaches(f, first, n, i + 1) /\ Prolongs(x, n)
    <3>1. n = Onward(x, first)
      OBVIOUS
    <3> HIDE DEF n
    <3> QED
      BY <1>1, <1>4, <3>1, OnwardExtends
  <2> DEFINE k == Cardinality(Chain(x.fat, x.first))
             k2 == Cardinality(Chain(n.fat, n.first))
             m == Cardinality(Chain(f, first))
  <2>2. k \in Nat /\ k2 \in Nat /\ m \in Nat
    BY <1>1, <1>2, ChainIsFinite DEF Stores
  <2>3. /\ m <= k /\ i <= k /\ (k = m \/ k = i)
        /\ m <= k2 /\ i + 1 <= k2
        /\ i + 1 # 0 => n.at = ChainWalk(n.fat, n.first)[(i + 1) - 1]
    BY <1>1, <1>4, <2>1 DEF Reaches
  <2>4. k <= k2 /\ n.at = ChainWalk(n.fat, n.first)[i]
    <3>1. i + 1 # 0 /\ (i + 1) - 1 = i
      OBVIOUS
    <3> QED
      BY <2>2, <2>3, <3>1
  <2>5. Prolongs(start, n)
    <3>1. start.fat = f /\ start.first = first
      BY DEF Unstored
    <3>2. \A j \in 0..(m - 1) : j \in 0..(k - 1)
      BY <2>2, <2>3
    <3>3. \A j \in 0..(m - 1) : ChainWalk(x.fat, x.first)[j] = ChainWalk(f, first)[j]
      BY <1>1, <3>1 DEF Prolongs
    <3>4. \A j \in 0..(k - 1) : ChainWalk(n.fat, n.first)[j] = ChainWalk(x.fat, x.first)[j]
      BY <2>1 DEF Prolongs
    <3> HIDE DEF n, start, k, m
    <3>5. \A j \in 0..(m - 1) : ChainWalk(n.fat, n.first)[j] = ChainWalk(f, first)[j]
      BY <3>2, <3>3, <3>4
    <3> QED
      BY <3>1, <3>5 DEF Prolongs, m
  <2>6. Fed(n, e, b)
    <3> HIDE DEF n
    <3> QED
      BY <1>1, <1>2, <2>1, <2>4, FedKept DEF k, k2
  <2>7. ~n.full /\ n.at \in Cluster /\ Len(n.items) = IF i <= From(e) THEN 0 ELSE i - From(e)
    BY <1>1, <1>2, <1>4
  <2> HIDE DEF n, start, k, k2, m
  <2>8. CASE i < From(e)
    <3>1. y = n
      BY <1>4, <2>8 DEF StoreRound, From, n
    <3>2. Len(n.items) = 0 /\ i + 1 <= From(e)
      BY <2>7, <2>8
    <3> HIDE DEF y
    <3> QED
      BY <2>1, <2>5, <2>6, <2>7, <3>1, <3>2 DEF Feeds, y, start
  <2>9. CASE ~(i < From(e))
    <3>1. y = [n EXCEPT !.items = @ \o w]
      BY <1>4, <2>9 DEF StoreRound, From, n
    <3>2. From(e) <= i /\ Len(n.items) = i - From(e) /\ ~(i + 1 <= From(e))
      BY <2>7, <2>9
    <3>3. n.items \o w \in Seq(Items)
      <4>1. Patched(n.at, i, e, b) \in Contents
        BY <2>7, PatchedIs
      <4>2. OnlyBytes(n.items) /\ n.fat \in Tables
        BY <1>2, <2>6 DEF Fed, Stores
      <4>3. OnlyBytes(n.items \o w)
        BY <2>7, <4>1, <4>2, MoreBytes
      <4> QED
        BY <4>3 DEF OnlyBytes
    <3> HIDE DEF y
    <3>4. y \in Stores /\ y.fat = n.fat /\ y.first = n.first /\ y.at = n.at /\ y.items = n.items \o w /\ y.full = n.full
      <4> HIDE DEF w
      <4> QED
        BY <1>2, <3>1, <3>3 DEF Stores
    <3>5. Fed(y, e, b) /\ Len(y.items) = (i + 1) - From(e)
      BY <1>2, <2>2, <2>3, <2>4, <2>6, <2>7, <3>2, <3>4, FedMore DEF k2
    <3>6. Extends(f, first, y) /\ Reaches(f, first, y, i + 1) /\ Prolongs(start, y)
      <4>1. Extends(f, first, y)
        BY <2>1, <3>4 DEF Extends
      <4>2. Reaches(f, first, y, i + 1)
        BY <2>1, <3>4 DEF Reaches
      <4>3. Prolongs(start, y)
        BY <2>5, <3>4 DEF Prolongs
      <4> QED
        BY <4>1, <4>2, <4>3
    <3> QED
      BY <3>2, <3>5, <3>6 DEF Feeds, y, start
  <2> QED
    BY <2>8, <2>9
<1> QED
  BY <1>3, <1>4

\* The loop as a whole.
LEMMA StoredFeeds ==
    ASSUME disk \in Disks, NEW f \in Tables, NEW first \in Cluster \cup {0}, NEW b \in Bytes,
           NEW e, e.offset \in Nat, e.len \in Nat \ {0}, Proper(f, first)
    PROVE  Feeds(f, first, e, b, Rounds(e) + 1, Stored(f, first, e, b))
<1> DEFINE N == Rounds(e)
           G(i) == {x \in Stores : Feeds(f, first, e, b, i, x)}
           A == [i \in 0..(N + 1) |-> G(i)]
<1>1. N \in Nat /\ From(e) \in Nat
  BY RoundsIs, FromIs
<1>2. \A i, x : Feeds(f, first, e, b, i, x) => x \in Stores
  BY DEF Feeds, Extends
<1>3. Unstored(f, first) \in G(0)
  BY <1>1, <1>2, FeedsStart
<1>4. \A i \in Nat : \A x \in G(i) : StoreRound(first, e, b, i, x) \in G(i + 1)
  BY <1>1, <1>2, FeedsOn
<1> HIDE DEF N, G
<1>5. Unstored(f, first) \in A[0]
  BY <1>1, <1>3
<1>6. \A i \in 0..N : \A x \in A[i] : StoreRound(first, e, b, i, x) \in A[i + 1]
  <2> TAKE i \in 0..N
  <2> TAKE x \in A[i]
  <2>1. i \in 0..(N + 1) /\ i + 1 \in 0..(N + 1) /\ i \in Nat
    BY <1>1
  <2> QED
    BY <1>4, <2>1
<1> HIDE DEF A
<1>7. Stored(f, first, e, b) \in A[N + 1]
  BY <1>1, <1>5, <1>6, StoredInduction DEF N
<1>8. N + 1 \in 0..(N + 1)
  BY <1>1
<1>9. Stored(f, first, e, b) \in G(N + 1)
  BY <1>7, <1>8 DEF A
<1> QED
  BY <1>9 DEF G, N

\* Where a byte's cluster is among those that are written.
LEMMA DivLess ==
    ASSUME NEW x \in Nat, NEW a \in Nat \ {0}, NEW m \in Nat
    PROVE  x \div a < m <=> x < a * m
<1> DEFINE q == x \div a
           aq == a * q
           am == a * m
<1>1. q \in Nat /\ x = aq + (x % a) /\ x % a \in 0..(a - 1)
  OBVIOUS
<1> HIDE DEF q
<1>2. aq \in Nat /\ am \in Nat
  BY <1>1
<1>3. CASE q < m
  <2> SUFFICES ASSUME NEW d \in Nat, m = q + 1 + d PROVE x < am
    <3>1. m - (q + 1) \in Nat /\ m = q + 1 + (m - (q + 1))
      BY <1>1, <1>3
    <3> QED
      BY <1>3, <3>1 DEF q
  <2> DEFINE ad == a * d
  <2>1. am = aq + a + ad /\ ad \in Nat
    BY <1>1
  <2> HIDE DEF aq, am, ad
  <2> QED
    BY <1>1, <1>2, <2>1
<1>4. CASE ~(q < m)
  <2> SUFFICES ASSUME NEW d \in Nat, q = m + d PROVE ~(x < am)
    <3>1. q - m \in Nat /\ q = m + (q - m)
      BY <1>1, <1>4
    <3> QED
      BY <1>4, <3>1 DEF q
  <2> DEFINE ad == a * d
  <2>1. aq = am + ad /\ ad \in Nat
    OBVIOUS
  <2> HIDE DEF aq, am, ad
  <2> QED
    BY <1>1, <1>2, <2>1
<1> QED
  BY <1>3, <1>4

\* The bytes that k clusters from number f on hold of those from byte s on.
Held(s, len, a, k) ==
    IF k = 0 THEN 0 ELSE IF a * ((s \div a) + k) - s < len THEN a * ((s \div a) + k) - s ELSE len

\* The bytes of len from s on in k clusters are the first n.
Spread(s, len, a, k, n) ==
    /\ n \in 0..len
    /\ \A x \in Nat : (x \div a \in (s \div a)..((s \div a) + k - 1) /\ x \in s..(s + len - 1)) <=> x \in s..(s + n - 1)
    /\ k = ((s + len - 1) \div a) + 1 - (s \div a) => n = len

LEMMA HeldIs ==
    ASSUME NEW s \in Nat, NEW len \in Nat \ {0}, NEW a \in Nat \ {0}, NEW k \in Nat,
           NEW n, n = Held(s, len, a, k)
    PROVE  Spread(s, len, a, k, n)
<1> DEFINE f == s \div a
           t == a * (f + k)
           af == a * f
<1>1. f \in Nat /\ s = af + (s % a) /\ s % a \in 0..(a - 1)
  OBVIOUS
<1>2. t \in Nat /\ af \in Nat
  BY <1>1
<1>3. n = IF k = 0 THEN 0 ELSE IF t - s < len THEN t - s ELSE len
  BY DEF Held
<1> HIDE DEF f
<1>4. af <= s
  <2> HIDE DEF af
  <2> QED
    BY <1>1, <1>2
<1>5. k # 0 => s < t
  <2> SUFFICES ASSUME NEW d \in Nat, k = d + 1 PROVE s < t
    <3>1. k # 0 => k - 1 \in Nat /\ k = (k - 1) + 1
      OBVIOUS
    <3> QED
      BY <3>1
  <2> DEFINE ad == a * d
  <2>1. t = af + a + ad /\ ad \in Nat
    BY <1>1
  <2> HIDE DEF t, af, ad
  <2> QED
    BY <1>1, <1>2, <2>1
<1> HIDE DEF t, af
<1>6. n \in 0..len
  BY <1>2, <1>3, <1>5
<1>7. ASSUME NEW x \in Nat
      PROVE  (x \div a \in f..(f + k - 1) /\ x \in s..(s + len - 1)) <=> x \in s..(s + n - 1)
  <2>1. x \div a \in Nat
    OBVIOUS
  <2>2. x \div a < f + k <=> x < t
    <3>1. f + k \in Nat
      BY <1>1
    <3> QED
      BY <3>1, DivLess DEF t
  <2>3. x \div a < f <=> x < af
    BY <1>1, DivLess DEF af
  <2> SUFFICES ASSUME NEW q \in Nat, q = x \div a
               PROVE  (q \in f..(f + k - 1) /\ x \in s..(s + len - 1)) <=> x \in s..(s + n - 1)
    BY <2>1
  <2>4. q \in f..(f + k - 1) <=> ~(q < f) /\ q < f + k
    BY <1>1
  <2>5. (q < f <=> x < af) /\ (q < f + k <=> x < t)
    BY <2>2, <2>3
  <2>6. CASE k = 0
    BY <1>1, <1>3, <2>4, <2>6
  <2>7. CASE k # 0
    <3>1. n = IF t - s < len THEN t - s ELSE len
      BY <1>3, <2>7
    <3>2. x \in s..(s + n - 1) <=> s <= x /\ x < s + len /\ x < t
      BY <1>2, <1>5, <2>7, <3>1
    <3> QED
      BY <1>2, <1>4, <2>4, <2>5, <3>2
  <2> QED
    BY <2>6, <2>7
<1>8. ASSUME k = ((s + len - 1) \div a) + 1 - f PROVE n = len
  <2> DEFINE x == s + len - 1
             r == x \div a
  <2>1. x \in Nat
    OBVIOUS
  <2> HIDE DEF x
  <2>2. r \in Nat /\ r < f + k /\ f + k \in Nat
    <3>1. r \in Nat
      BY <2>1
    <3>2. k = r + 1 - f
      BY <1>8 DEF x
    <3> HIDE DEF r
    <3> QED
      BY <1>1, <3>1, <3>2
  <2>3. x < t
    BY <2>1, <2>2, DivLess DEF t
  <2>4. k # 0
    <3>1. r < f <=> x < af
      BY <1>1, <2>1, DivLess DEF af
    <3>2. ~(x < af)
      BY <1>2, <1>4 DEF x
    <3>3. ~(r < f)
      BY <3>1, <3>2
    <3> HIDE DEF r
    <3> QED
      BY <1>1, <2>2, <3>3
  <2> QED
    BY <1>2, <1>3, <2>3, <2>4 DEF x
<1>9. f = s \div a
  BY DEF f
<1> QED
  BY <1>6, <1>7, <1>8, <1>9, Zenon DEF Spread

\* No cluster is written twice.
LEMMA FedStrewn ==
    ASSUME NEW h \in Stores, Proper(h.fat, h.first), NEW e, From(e) \in Nat, NEW b, Fed(h, e, b)
    PROVE  /\ Strewn(h.items)
           /\ \A q \in 0..(Cardinality(Chain(h.fat, h.first)) - 1) : \A k \in 1..Len(h.items) :
                 (h.items[k].write.at = ChainWalk(h.fat, h.first)[q] <=> q = From(e) + k - 1)
<1> DEFINE X == h.items
           a == From(e)
           w == ChainWalk(h.fat, h.first)
           c == Cardinality(Chain(h.fat, h.first))
<1>0. a \in Nat
  OBVIOUS
<1>1. h.fat \in Tables /\ h.first \in Cluster \cup {0}
  BY DEF Stores
<1>2. c \in 0..(MaxCluster - 1) /\ MaxCluster \in Nat
  BY <1>1, ChainIsFinite, Sizes
<1>3. OnlyBytes(X) /\ Len(X) \in Nat
  <2>1. OnlyBytes(X)
    BY DEF Fed
  <2>2. X \in Seq(Items)
    BY <2>1 DEF OnlyBytes
  <2> QED
    BY <2>1, <2>2, LenProperties
<1>4. Len(X) # 0 => a + Len(X) <= c
  BY DEF Fed
<1>5. \A k \in 1..Len(X) : X[k].write.at = w[a + k - 1]
  BY DEF Fed
<1>6. \A j \in 0..MaxCluster : w[j] = NULL <=> c <= j
  BY <1>1, ProperWalk
<1>12. \A k, j \in 0..MaxCluster : (j < k /\ w[k] # NULL) => w[j] # w[k]
  BY <1>1, ProperWalk
<1> HIDE DEF X, a, w, c
<1>7. \A i, j \in 0..(c - 1) : w[i] = w[j] => i = j
  <2>1. ASSUME NEW i \in 0..(c - 1), NEW j \in 0..(c - 1), i < j PROVE w[i] # w[j]
    <3>1. i \in 0..MaxCluster /\ j \in 0..MaxCluster /\ ~(c <= j)
      BY <1>2, <2>1
    <3>2. w[j] # NULL
      BY <1>6, <3>1
    <3> QED
      BY <1>12, <2>1, <3>1, <3>2
  <2> SUFFICES ASSUME NEW i \in 0..(c - 1), NEW j \in 0..(c - 1), i # j PROVE w[i] # w[j]
    OBVIOUS
  <2>2. i < j \/ j < i
    BY <1>2
  <2> QED
    BY <2>1, <2>2
<1>8. \A k \in 1..Len(X) : a + k - 1 \in 0..(c - 1)
  BY <1>0, <1>2, <1>3, <1>4
<1>9. ASSUME NEW q \in 0..(c - 1), NEW k \in 1..Len(X)
      PROVE  X[k].write.at = w[q] <=> q = a + k - 1
  <2>1. a + k - 1 \in 0..(c - 1) /\ X[k].write.at = w[a + k - 1]
    BY <1>5, <1>8
  <2> QED
    BY <1>7, <2>1, Zenon
<1>10. ASSUME NEW i \in 1..Len(X), NEW j \in 1..Len(X), X[i].write.at = X[j].write.at
       PROVE  i = j
  <2>2. a + j - 1 \in 0..(c - 1) /\ X[j].write.at = w[a + j - 1]
    BY <1>5, <1>8
  <2>3. a + j - 1 = a + i - 1
    <3>1. X[i].write.at = w[a + j - 1]
      BY <1>10, <2>2
    <3> SUFFICES ASSUME NEW q \in 0..(c - 1), q = a + j - 1 PROVE q = a + i - 1
      BY <2>2
    <3>2. X[i].write.at = w[q]
      BY <3>1
    <3> QED
      BY <1>9, <3>2
  <2>1. a + i - 1 = a + j - 1
    BY <2>3
  <2> QED
    BY <1>0, <1>3, <2>1
<1>11. Strewn(X)
  BY <1>3, <1>10 DEF Strewn
<1> QED
  BY <1>9, <1>11 DEF X, a, w, c

\* The clusters hold z once the items of X are written over what they held in y.
Poured(X, y, z) ==
    /\ \A c \in Cluster : (\A k \in 1..Len(X) : X[k].write.at # c) => z[c] = y[c]
    /\ \A k \in 1..Len(X) : z[X[k].write.at] = X[k].write.val

\* The file of h reads as b where n bytes were written, and as before elsewhere.
ReadsBack(h, e, b, n, z) ==
    \A i \in 1..(cluster_size * Cardinality(Chain(h.fat, h.first))) :
        Byte(h.fat, z, h.first, i) = IF i \in e.offset + 1 .. e.offset + n THEN b
                                     ELSE Byte(h.fat, disk.bytes, h.first, i)

\* The bytes of the file once they are written, where z is what the clusters hold.
LEMMA FedBytes ==
    ASSUME NEW h \in Stores, Proper(h.fat, h.first), NEW e, e.offset \in Nat, e.len \in Nat \ {0}, NEW b, Fed(h, e, b),
           NEW z, Poured(h.items, disk.bytes, z),
           NEW n, n = Held(e.offset, e.len, cluster_size, Len(h.items))
    PROVE  ReadsBack(h, e, b, n, z)
<1> DEFINE a0 == e.offset \div cluster_size
           X0 == h.items
<1>20. X0 \in Seq(Items) /\ Len(X0) \in Nat
  <2>1. X0 \in Seq(Items)
    BY DEF Fed, OnlyBytes
  <2> QED
    BY <2>1, LenProperties
<1>21. /\ n \in 0..e.len
       /\ \A x \in Nat : (x \div cluster_size \in a0..(a0 + Len(X0) - 1) /\ x \in e.offset..(e.offset + e.len - 1))
                        <=> x \in e.offset..(e.offset + n - 1)
  <2>1. Len(X0) \in Nat /\ cluster_size \in Nat \ {0} /\ n = Held(e.offset, e.len, cluster_size, Len(X0))
    BY <1>20, Sizes
  <2> HIDE DEF X0
  <2>3. Spread(e.offset, e.len, cluster_size, Len(X0), n)
    BY <2>1, HeldIs
  <2> QED
    BY <2>3, Zenon DEF Spread
<1> HIDE DEF a0
<1> SUFFICES ASSUME NEW m, m = Cardinality(Chain(h.fat, h.first)), NEW i \in 1..(cluster_size * m),
                    NEW X, X = h.items, NEW w, w = ChainWalk(h.fat, h.first), NEW a, a = From(e),
                    NEW q, q = ClusterNo(i), NEW r, r = (i - 1) % cluster_size, NEW c, c = w[q], NEW old, old = disk.bytes
             PROVE  Byte(h.fat, z, h.first, i) = IF i \in e.offset + 1 .. e.offset + n THEN b
                                                 ELSE Byte(h.fat, disk.bytes, h.first, i)
  BY DEF ReadsBack
<1>1. h.fat \in Tables /\ h.first \in Cluster \cup {0} /\ a \in Nat
  BY FromIs DEF Stores
<1>2. m \in Nat /\ cluster_size \in Nat \ {0} /\ i \in Nat \ {0} /\ i - 1 \in Nat
  BY <1>1, ChainIsFinite, Sizes
<1>3. i <= cluster_size * m /\ ~(cluster_size * m < i)
  <2>1. cluster_size * m \in Nat
    BY <1>2
  <2> QED
    BY <1>2, <2>1
<1>4. /\ q \in 0..(m - 1) /\ c \in Chain(h.fat, h.first) /\ r \in 0..(cluster_size - 1)
      /\ i - 1 = (cluster_size * q) + r
  <2>1. i <= cluster_size * Cardinality(Chain(h.fat, h.first))
    BY <1>3
  <2> QED
    BY <1>1, <1>2, <2>1, ByteIs
<1>5. c \in Cluster
  BY <1>1, <1>4, ChainIsFinite
<1>6. Byte(h.fat, z, h.first, i) = z[c][r] /\ Byte(h.fat, old, h.first, i) = old[c][r]
  BY <1>3 DEF Byte
<1>7. /\ Strewn(X)
      /\ \A k \in 1..Len(X) : (X[k].write.at = c <=> q = a + k - 1)
  BY <1>1, <1>4, FedStrewn
<1>8. Len(X) \in Nat
  BY <1>20
<1>9. q = (i - 1) \div cluster_size /\ a = a0
  BY DEF ClusterNo, From, a0
<1>10. (q \in a..(a + Len(X) - 1) /\ i - 1 \in e.offset..(e.offset + e.len - 1)) <=> i - 1 \in e.offset..(e.offset + n - 1)
  <2>1. ((i - 1) \div cluster_size \in a0..(a0 + Len(X0) - 1) /\ i - 1 \in e.offset..(e.offset + e.len - 1))
        <=> i - 1 \in e.offset..(e.offset + n - 1)
    BY <1>2, <1>21, Zenon
  <2>2. X = X0
    OBVIOUS
  <2> QED
    BY <1>9, <2>1, <2>2, Zenon
<1>11. n \in 0..e.len
  BY <1>21
<1>12. i - 1 \in e.offset..(e.offset + n - 1) <=> i \in e.offset + 1 .. e.offset + n
  BY <1>2, <1>11
<1>13. CASE q \in a..(a + Len(X) - 1)
  <2> DEFINE k == q - a + 1
  <2>1. k \in 1..Len(X) /\ a + k - 1 = q
    BY <1>1, <1>8, <1>13
  <2> HIDE DEF k
  <2>2. X[k].write.at = c
    BY <1>7, <2>1
  <2>3. X[k].write.val = Patched(X[k].write.at, a + k - 1, e, b)
    BY <2>1 DEF Fed
  <2>4. X[k].write.val = Patched(c, q, e, b)
    BY <2>1, <2>2, <2>3
  <2>5. z[c] = Patched(c, q, e, b)
    BY <2>1, <2>2, <2>4 DEF Poured
  <2>6. Patched(c, q, e, b)[r] = IF q * cluster_size + r \in e.offset..(e.offset + e.len - 1) THEN b ELSE old[c][r]
    BY <1>4 DEF Patched
  <2>7. q * cluster_size + r = i - 1
    <3>1. q * cluster_size = cluster_size * q
      BY <1>2, <1>4
    <3> QED
      BY <1>4, <3>1
  <2>8. z[c][r] = IF i - 1 \in e.offset..(e.offset + e.len - 1) THEN b ELSE old[c][r]
    BY <2>5, <2>6, <2>7, Zenon
  <2> QED
    BY <1>6, <1>10, <1>12, <1>13, <2>8, Zenon
<1>14. CASE ~(q \in a..(a + Len(X) - 1))
  <2>1. \A k \in 1..Len(X) : q # a + k - 1
    BY <1>1, <1>8, <1>14
  <2>2. \A k \in 1..Len(X) : X[k].write.at # c
    BY <1>7, <2>1
  <2>3. z[c] = old[c]
    BY <1>5, <2>2 DEF Poured
  <2> QED
    BY <1>6, <1>10, <1>12, <1>14, <2>3, Zenon
<1> QED
  BY <1>13, <1>14

\* The writes of an operation, those of bytes in the middle.
Associates(X, Y, Z) == (X \o Y) \o Z = X \o (Y \o Z)

LEMMA ItemsAssociative ==
    ASSUME NEW X \in Seq(Items), NEW Y \in Seq(Items), NEW Z \in Seq(Items)
    PROVE  Associates(X, Y, Z)
BY ConcatAssociative DEF Associates

Regroups(A, X, B, C, R) == (A \o ((X \o B) \o C)) \o R = (A \o X) \o ((B \o C) \o R)

LEMMA Regrouped ==
    ASSUME NEW A \in Seq(Items), NEW X \in Seq(Items), NEW B \in Seq(Items), NEW C \in Seq(Items),
           NEW R \in Seq(Items)
    PROVE  Regroups(A, X, B, C, R)
<1>1. B \o C \in Seq(Items) /\ A \o X \in Seq(Items)
  BY ItemsConcat
<1>2. Associates(X, B, C)
  BY ItemsAssociative
<1>3. Associates(A, X, B \o C)
  BY <1>1, ItemsAssociative
<1>4. Associates(A \o X, B \o C, R)
  BY <1>1, ItemsAssociative
<1>5. A \o ((X \o B) \o C) = (A \o X) \o (B \o C)
  <2>1. (X \o B) \o C = X \o (B \o C)
    BY <1>2, Zenon DEF Associates
  <2>2. (A \o X) \o (B \o C) = A \o (X \o (B \o C))
    BY <1>3, Zenon DEF Associates
  <2> QED
    BY <2>1, <2>2, Zenon
<1>6. (A \o ((X \o B) \o C)) \o R = (A \o X) \o ((B \o C) \o R)
  <2>1. ((A \o X) \o (B \o C)) \o R = (A \o X) \o ((B \o C) \o R)
    BY <1>4, Zenon DEF Associates
  <2> QED
    BY <1>5, <2>1, Zenon
<1> QED
  BY <1>6, Zenon DEF Regroups

InMiddle(A, X, W) == \E B : Bytefree(B) /\ W = (A \o X) \o B

LEMMA WriteItems ==
    ASSUME NEW A \in Seq(Items), NEW f, NEW h, h.items \in Seq(Items), h.fat \in Tables,
           NEW s \in SlotSet, NEW n \in Entries, NEW Y, Y = A \o fat_write_items(f, h, s, n)
    PROVE  Y \in Seq(Items) /\ InMiddle(A, h.items, Outcome(Y, h.fat, "ok").items)
<1> DEFINE X == h.items
           fl == fat_flush(h.fat)
           we == WriteEntry(h.fat, s, n)
           re == Return(h.fat, "ok")
           V == (fl \o we) \o re
<1>1. Bytefree(fl) /\ Bytefree(we) /\ Bytefree(re) /\ X \in Seq(Items)
  BY BytefreeAre
<1>2. Y = A \o ((X \o fl) \o we)
  BY DEF fat_write_items
<1>3. Outcome(Y, h.fat, "ok").items = Y \o re
  BY DEF Outcome
<1> HIDE DEF X, fl, we, re
<1>4. fl \in Seq(Items) /\ we \in Seq(Items) /\ re \in Seq(Items)
  BY <1>1 DEF Bytefree
<1>5. Y \in Seq(Items)
  <2>1. X \o fl \in Seq(Items)
    BY <1>1, <1>4, ItemsConcat
  <2>2. (X \o fl) \o we \in Seq(Items)
    BY <1>4, <2>1, ItemsConcat
  <2>3. A \o ((X \o fl) \o we) \in Seq(Items)
    BY <2>2, ItemsConcat
  <2> QED
    BY <1>2, <2>3
<1>6. Bytefree(V)
  <2>1. Bytefree(fl \o we)
    BY <1>1, BytefreeConcat
  <2> QED
    BY <1>1, <2>1, BytefreeConcat
<1>7. (A \o ((X \o fl) \o we)) \o re = (A \o X) \o V
  <2>1. Regroups(A, X, fl, we, re)
    BY <1>1, <1>4, Regrouped
  <2> QED
    BY <2>1, Zenon DEF Regroups
<1> HIDE DEF V
<1>8. Y \o re = (A \o X) \o V
  BY <1>2, <1>7, Zenon
<1>9. Bytefree(V) /\ Y \o re = (A \o X) \o V
  BY <1>6, <1>8
<1>10. \E B : Bytefree(B) /\ Y \o re = (A \o X) \o B
  BY <1>9, Zenon
<1>11. \E B : Bytefree(B) /\ Outcome(Y, h.fat, "ok").items = (A \o X) \o B
  BY <1>3, <1>10, Zenon
<1> QED
  BY <1>5, <1>11, Zenon DEF InMiddle, X

\* A write as it is done: the loop, and what the clusters hold then.
LEMMA PutsDone ==
    ASSUME fat \in Tables, disk \in Disks, NEW D, Neat(fat, disk.entries, D), NEW p \in Paths,
           NEW e \in Extent, NEW b \in Bytes, NEW o, NEW l, NEW z, Puts(o, p, D, e, b, l, z),
           NEW h, h = Stored(l.fat, z.first, e, b), NEW d, d = Done(fat, disk, o.items)
    PROVE  /\ d.fat = h.fat /\ h \in Stores /\ Feeds(l.fat, z.first, e, b, Rounds(e) + 1, h)
           /\ Strewn(h.items)
           /\ \A c \in Cluster : (\A k \in 1..Len(h.items) : h.items[k].write.at # c) =>
                 d.disk.bytes[c] = disk.bytes[c]
           /\ \A k \in 1..Len(h.items) : d.disk.bytes[h.items[k].write.at] = h.items[k].write.val
<1> DEFINE new == [z EXCEPT !.first = h.first, !.size = NewSize(e, z.size)]
           yes == TRUE
<1>1. /\ l \in Lookup(p, yes) /\ yes \in BOOLEAN /\ l.slot \in SlotSet
      /\ z \in Entries /\ Proper(l.fat, z.first)
  BY DEF Puts
<1>2. \/ o = Outcome(l.items \o fat_write_items(l.fat, h, l.slot, new), h.fat, "ok") /\ new \in Entries
      \/ o = Outcome(l.items \o h.items, h.fat, "full")
  BY DEF Puts
<1> HIDE DEF yes, new
<1>3. Bytefree(l.items) /\ l.fat \in Tables /\ l.items \in Seq(Items)
  BY <1>1, LookupSpares
<1>4. z.first \in Cluster \cup {0} /\ e.offset \in Nat /\ e.len \in Nat \ {0}
  BY <1>1 DEF Entries, Extent
<1>5. Feeds(l.fat, z.first, e, b, Rounds(e) + 1, h)
  BY <1>1, <1>3, <1>4, StoredFeeds
<1>6. h \in Stores /\ Proper(h.fat, h.first) /\ Fed(h, e, b)
  BY <1>5 DEF Feeds, Extends
<1>7. h.fat \in Tables /\ h.items \in Seq(Items)
  BY <1>6 DEF Stores
<1>8. Strewn(h.items)
  BY <1>4, <1>6, FedStrewn, FromIs
<1>9. ASSUME NEW B, Bytefree(B), o.items = (l.items \o h.items) \o B
      PROVE  /\ \A c \in Cluster : (\A k \in 1..Len(h.items) : h.items[k].write.at # c) =>
                   d.disk.bytes[c] = disk.bytes[c]
             /\ \A k \in 1..Len(h.items) : d.disk.bytes[h.items[k].write.at] = h.items[k].write.val
  <2> DEFINE X == h.items
             y == d.disk.bytes
  <2>1. y = Done(fat, disk, (l.items \o X) \o B).disk.bytes /\ Strewn(X)
    BY <1>8, <1>9
  <2> HIDE DEF X, y
  <2>2. /\ \A c \in Cluster : (\A k \in 1..Len(X) : X[k].write.at # c) => y[c] = disk.bytes[c]
        /\ \A k \in 1..Len(X) : y[X[k].write.at] = X[k].write.val
    BY <1>3, <1>9, <2>1, StrewnDone
  <2> QED
    BY <2>2 DEF X, y
<1>10. CASE o = Outcome(l.items \o fat_write_items(l.fat, h, l.slot, new), h.fat, "ok") /\ new \in Entries
  <2> DEFINE Y == l.items \o fat_write_items(l.fat, h, l.slot, new)
  <2>1. Y \in Seq(Items) /\ InMiddle(l.items, h.items, Outcome(Y, h.fat, "ok").items)
    <3>1. Y = l.items \o fat_write_items(l.fat, h, l.slot, new) /\ new \in Entries
      BY <1>10
    <3> HIDE DEF Y
    <3> QED
      BY <1>1, <1>3, <1>7, <3>1, WriteItems
  <2>3. o = Outcome(Y, h.fat, "ok")
    BY <1>10
  <2>4. o.items = Y \o Return(h.fat, "ok")
    <3> HIDE DEF Y
    <3> QED
      BY <2>3 DEF Outcome
  <2> HIDE DEF Y
  <2>2. PICK B : Bytefree(B) /\ o.items = (l.items \o h.items) \o B
    BY <2>1, <2>3, Zenon DEF InMiddle
  <2>7. d.fat = h.fat
    <3>1. Done(fat, disk, Y \o Return(h.fat, "ok")).fat = h.fat
      BY <1>7, <2>1, DoneReturns
    <3> QED
      BY <2>4, <3>1
  <2> QED
    BY <1>5, <1>6, <1>8, <1>9, <2>2, <2>7
<1>11. CASE o = Outcome(l.items \o h.items, h.fat, "full")
  <2> DEFINE Y == l.items \o h.items
             re == Return(h.fat, "full")
  <2>1. Bytefree(re)
    BY <1>7, BytefreeAre
  <2>2. o.items = Y \o re /\ Y \in Seq(Items)
    <3>1. o.items = Y \o re
      BY <1>11 DEF Outcome
    <3> QED
      BY <1>3, <1>7, <3>1, ItemsConcat
  <2>3. d.fat = h.fat
    <3> HIDE DEF Y
    <3>1. Done(fat, disk, Y \o Return(h.fat, "full")).fat = h.fat
      BY <1>7, <2>2, DoneReturns
    <3> QED
      BY <2>2, <3>1 DEF re
  <2> HIDE DEF re
  <2> QED
    BY <1>5, <1>6, <1>8, <1>9, <2>1, <2>2, <2>3
<1> QED
  BY <1>2, <1>10, <1>11

\* Only clusters of the file and free ones change.
LEMMA PutsSpares ==
    ASSUME fat \in Tables, disk \in Disks, NEW D, Neat(fat, disk.entries, D), NEW p \in Paths,
           NEW e \in Extent, NEW b \in Bytes, NEW o, NEW l, NEW z, Puts(o, p, D, e, b, l, z),
           NEW d, d = Done(fat, disk, o.items)
    PROVE  /\ Spares(fat, disk.entries, disk.bytes, D, p, d.fat, d.disk.bytes)
           /\ l.exists => Stat(fat, disk.entries, p) = {z} /\ l.fat = fat
           /\ ~l.exists => Stat(fat, disk.entries, p) = {} /\ z.size = 0 /\ z.first = 0
<1> DEFINE S == Stat(fat, disk.entries, p)
           E == Ent(Row(fat, disk.entries, resolve_path(fat, disk.entries, p)), NameOf(p))
           yes == TRUE
<1>1. /\ l \in Lookup(p, yes) /\ yes \in BOOLEAN
      /\ z \in Entries /\ Proper(l.fat, z.first)
      /\ l.exists => l.fat = fat /\ E = {z}
      /\ ~l.exists => E = {} /\ z = Entry(NameOf(p), FALSE, 0, 0)
  BY DEF Puts
<1> HIDE DEF yes, E
<1>2. /\ l.fat \in Tables /\ Unused(l.fat) \subseteq Unused(fat)
      /\ l.exists => S = {At(disk.entries, l.slot)}
      /\ ~l.exists => S = {}
      /\ \A c \in Cluster : \/ l.fat[c] = fat[c]
                            \/ c \in Unused(fat)
                            \/ \E x \in D \ {Root} : c \in Chain(fat, x)
  BY <1>1, LookupSpares
<1>3. S # {} => S = E
  <2>1. p # <<>>
    BY PathAssumption
  <2> QED
    BY <2>1 DEF Stat, E
<1>4. /\ l.exists => S = {z} /\ l.fat = fat
      /\ ~l.exists => S = {} /\ z.size = 0 /\ z.first = 0
  <2>1. l.exists => S = {z} /\ l.fat = fat
    BY <1>1, <1>2, <1>3
  <2>2. ~l.exists => z.size = 0 /\ z.first = 0
    BY <1>1 DEF Entry
  <2> QED
    BY <1>2, <2>1, <2>2
<1> HIDE DEF S
<1>5. z.first \in Cluster \cup {0} /\ e.offset \in Nat /\ e.len \in Nat \ {0}
  BY <1>1 DEF Entries, Extent
<1> DEFINE h == Stored(l.fat, z.first, e, b)
           K == Chain(l.fat, z.first)
<1>6. /\ d.fat = h.fat /\ h \in Stores
      /\ \A c \in Cluster : (\A k \in 1..Len(h.items) : h.items[k].write.at # c) => d.disk.bytes[c] = disk.bytes[c]
  BY PutsDone
<1>7. Extends(l.fat, z.first, h) /\ Fills(l.fat, z.first, h.items)
  BY <1>1, <1>2, <1>5, StoredExtends
<1> HIDE DEF h
<1>8. \A c \in Cluster : h.fat[c] = l.fat[c] \/ c \in K \/ c \in Unused(l.fat)
  BY <1>7 DEF Extends, Unused
<1>9. \A c \in Cluster : c \in K \/ c \in Unused(l.fat) \/ d.disk.bytes[c] = disk.bytes[c]
  BY <1>6, <1>7 DEF Fills
<1>10. \A c \in K : c \in Chain(fat, z.first) /\ S = {z}
  <2>1. ~l.exists => K = {}
    <3>1. 0 \notin Cluster
      BY DEF Cluster
    <3> QED
      BY <1>2, <1>4, <3>1, NoChain
  <2> QED
    BY <1>4, <2>1
<1> HIDE DEF K
<1>11. ASSUME NEW c \in Cluster
       PROVE  \/ d.fat[c] = fat[c] /\ d.disk.bytes[c] = disk.bytes[c]
              \/ c \in Unused(fat)
              \/ \E x \in D \ {Root} : c \in Chain(fat, x)
              \/ \E x \in S : c \in Chain(fat, x.first)
  <2>1. CASE c \in K
    BY <1>10, <2>1
  <2>2. CASE c \in Unused(l.fat)
    BY <1>2, <2>2
  <2>3. CASE c \notin K /\ c \notin Unused(l.fat)
    BY <1>2, <1>6, <1>8, <1>9, <2>3
  <2> QED
    BY <2>1, <2>2, <2>3
<1>12. Spares(fat, disk.entries, disk.bytes, D, p, d.fat, d.disk.bytes)
  BY <1>11, Zenon DEF Spares, S
<1> QED
  BY <1>4, <1>12 DEF S

\* Where the write ends, its first n bytes are there and all the file's others
\* are as they were.
Overwrites(e, b, z, c, d, n, size) ==
    /\ n \in 0..e.len
    /\ \A i \in 1..size :
          /\ i \in e.offset + 1 .. e.offset + n => Byte(d.fat, d.disk.bytes, c, i) = b
          /\ (i \notin e.offset + 1 .. e.offset + n /\ i <= z.size) =>
                Byte(d.fat, d.disk.bytes, c, i) = Byte(fat, disk.bytes, z.first, i)

LEMMA PutsBytes ==
    ASSUME fat \in Tables, disk \in Disks, NEW D, Neat(fat, disk.entries, D), NEW p \in Paths,
           NEW e \in Extent, NEW b \in Bytes, NEW o, NEW l, NEW z, Puts(o, p, D, e, b, l, z),
           NEW h, h = Stored(l.fat, z.first, e, b), NEW d, d = Done(fat, disk, o.items)
    PROVE  /\ ~h.full => Overwrites(e, b, z, h.first, d, e.len, NewSize(e, z.size))
           /\ \E n \in 0..e.len : Overwrites(e, b, z, h.first, d, n, z.size)
<1>1. /\ z \in Entries /\ Proper(l.fat, z.first)
      /\ z.size <= cluster_size * Cardinality(Chain(l.fat, z.first))
  BY DEF Puts
<1>2. /\ d.fat = h.fat /\ h \in Stores /\ Feeds(l.fat, z.first, e, b, Rounds(e) + 1, h)
      /\ \A c \in Cluster : (\A k \in 1..Len(h.items) : h.items[k].write.at # c) => d.disk.bytes[c] = disk.bytes[c]
      /\ \A k \in 1..Len(h.items) : d.disk.bytes[h.items[k].write.at] = h.items[k].write.val
  BY PutsDone
<1>3. z.first \in Cluster \cup {0} /\ z.size \in Nat /\ e.offset \in Nat /\ e.len \in Nat \ {0}
  BY <1>1 DEF Entries, Extent
<1> DEFINE yes == TRUE
<1>4. l \in Lookup(p, yes) /\ yes \in BOOLEAN
  BY DEF Puts
<1> HIDE DEF yes
<1>5. l.fat \in Tables
  BY <1>4, LookupSpares
<1>6. /\ Extends(l.fat, z.first, h) /\ Fed(h, e, b) /\ Prolongs(Unstored(l.fat, z.first), h)
      /\ ~h.full => Reaches(l.fat, z.first, h, Rounds(e) + 1)
      /\ ~h.full => Len(h.items) = IF Rounds(e) + 1 <= From(e) THEN 0 ELSE (Rounds(e) + 1) - From(e)
  BY <1>2 DEF Feeds
<1>7. Proper(h.fat, h.first) /\ h.fat \in Tables /\ h.first \in Cluster \cup {0}
  BY <1>2, <1>6 DEF Extends, Stores
<1> DEFINE N == Cardinality(Chain(h.fat, h.first))
           M == Cardinality(Chain(l.fat, z.first))
           n == Held(e.offset, e.len, cluster_size, Len(h.items))
           Latest(i) == Byte(d.fat, d.disk.bytes, h.first, i)
           Old(i) == Byte(fat, disk.bytes, z.first, i)
           In(i, m) == i \in e.offset + 1 .. e.offset + m
<1>8. M <= N /\ M \in Nat /\ N \in Nat
  <2>1. Chain(l.fat, z.first) \subseteq Chain(h.fat, h.first)
    BY <1>6 DEF Extends
  <2> QED
    BY <1>5, <1>7, <2>1, ChainIsFinite, FS_Subset
<1>9. \A i \in 1..(cluster_size * N) : Latest(i) = IF In(i, n) THEN b ELSE Byte(h.fat, disk.bytes, h.first, i)
  <2> DEFINE y == d.disk.bytes
  <2>1. Poured(h.items, disk.bytes, y)
    BY <1>2, Zenon DEF Poured
  <2>2. d.fat = h.fat
    BY <1>2
  <2>3. n = Held(e.offset, e.len, cluster_size, Len(h.items))
    OBVIOUS
  <2> HIDE DEF y, n
  <2>4. ReadsBack(h, e, b, n, y)
    <3>1. h \in Stores /\ Proper(h.fat, h.first) /\ Fed(h, e, b)
      BY <1>2, <1>6, <1>7, Zenon
    <3> QED
      BY <1>3, <2>1, <2>3, <3>1, FedBytes, Zenon
  <2> QED
    BY <2>2, <2>4, Zenon DEF y, ReadsBack
<1>10. Len(h.items) \in Nat
  BY <1>2, ItemsConcat DEF Stores
<1>11. Spread(e.offset, e.len, cluster_size, Len(h.items), n)
  BY <1>3, <1>10, Sizes, HeldIs
<1>12. n \in 0..e.len
  BY <1>11 DEF Spread
<1>13. ~h.full => n = e.len
  <2> SUFFICES ASSUME ~h.full PROVE n = e.len
    OBVIOUS
  <2>1. Rounds(e) \in Nat /\ From(e) \in Nat /\ From(e) <= Rounds(e)
    BY <1>3, RoundsIs, FromIs
  <2>2. Len(h.items) = (Rounds(e) + 1) - From(e)
    BY <1>6, <2>1
  <2>3. Len(h.items) = ((e.offset + e.len - 1) \div cluster_size) + 1 - (e.offset \div cluster_size)
    <3> DEFINE R == Rounds(e)
               G == From(e)
    <3>1. R = (e.offset + e.len - 1) \div cluster_size /\ G = e.offset \div cluster_size
      BY DEF Rounds, From
    <3>2. R \in Nat /\ G \in Nat /\ Len(h.items) = (R + 1) - G
      BY <2>1, <2>2
    <3>3. Len(h.items) = R + 1 - G
      <4> HIDE DEF R, G
      <4> QED
        BY <3>2
    <3> HIDE DEF R, G
    <3> QED
      BY <3>1, <3>3, Zenon
  <2> HIDE DEF n
  <2> QED
    BY <1>11, <2>3, Zenon DEF Spread
<1> HIDE DEF n
<1>14. \A i \in 1..z.size : Byte(h.fat, disk.bytes, h.first, i) = Old(i) /\ i \in 1..(cluster_size * N)
  <2> TAKE i \in 1..z.size
  <2>1. /\ l.exists => l.fat = fat
        /\ ~l.exists => z.size = 0
    BY PutsSpares
  <2>2. l.fat = fat
    BY <1>3, <2>1
  <2> DEFINE cM == cluster_size * M
             cN == cluster_size * N
  <2>3. cM \in Nat /\ cN \in Nat /\ cM <= cN
    <3>1. cluster_size \in Nat
      BY Sizes
    <3> HIDE DEF M, N
    <3> QED
      BY <1>8, <3>1
  <2>4. z.size <= cM /\ i \in Nat \ {0} /\ i <= z.size
    BY <1>1, <1>3
  <2> HIDE DEF cM, cN
  <2>5. i <= cM /\ i <= cN /\ i \in 1..cN /\ ~(cM < i) /\ ~(cN < i)
    BY <1>3, <2>3, <2>4
  <2>6. ClusterNo(i) \in 0..(M - 1)
    <3>1. i <= cluster_size * Cardinality(Chain(l.fat, z.first))
      BY <2>5 DEF cM
    <3> QED
      BY <1>5, <2>4, <3>1, ByteIs
  <2>7. ChainWalk(h.fat, h.first)[ClusterNo(i)] = ChainWalk(l.fat, z.first)[ClusterNo(i)]
    <3>1. Unstored(l.fat, z.first).fat = l.fat /\ Unstored(l.fat, z.first).first = z.first
      BY DEF Unstored
    <3> QED
      BY <1>6, <2>6, <3>1 DEF Prolongs
  <2>8. Byte(h.fat, disk.bytes, h.first, i) = disk.bytes[ChainWalk(h.fat, h.first)[ClusterNo(i)]][(i - 1) % cluster_size]
    BY <2>5 DEF Byte, cN
  <2>9. Byte(l.fat, disk.bytes, z.first, i) = disk.bytes[ChainWalk(l.fat, z.first)[ClusterNo(i)]][(i - 1) % cluster_size]
    BY <2>5 DEF Byte, cM
  <2>10. Byte(h.fat, disk.bytes, h.first, i) = Byte(l.fat, disk.bytes, z.first, i)
    BY <2>7, <2>8, <2>9, Zenon
  <2> QED
    BY <2>2, <2>5, <2>10 DEF cN
<1>15. ~h.full => NewSize(e, z.size) \in Nat /\ NewSize(e, z.size) <= cluster_size * N
  <2> SUFFICES ASSUME ~h.full PROVE NewSize(e, z.size) \in Nat /\ NewSize(e, z.size) <= cluster_size * N
    OBVIOUS
  <2>1. M <= N /\ Rounds(e) + 1 <= N /\ (N = M \/ N = Rounds(e) + 1)
    BY <1>6 DEF Reaches
  <2> HIDE DEF M, N
  <2> QED
    BY <1>1, <1>3, <1>8, <2>1, SizeFits DEF M
<1>16. ASSUME NEW size \in Nat, size <= cluster_size * N PROVE Overwrites(e, b, z, h.first, d, n, size)
  <2> SUFFICES ASSUME NEW i \in 1..size
               PROVE  /\ In(i, n) => Latest(i) = b
                      /\ (~In(i, n) /\ i <= z.size) => Latest(i) = Old(i)
    BY <1>12 DEF Overwrites
  <2> HIDE DEF N, Latest, Old, In
  <2>1. i \in 1..(cluster_size * N)
    <3>1. cluster_size * N \in Nat
      BY <1>8, Sizes
    <3> QED
      BY <1>16, <3>1
  <2>2. Latest(i) = IF In(i, n) THEN b ELSE Byte(h.fat, disk.bytes, h.first, i)
    BY <1>9, <2>1
  <2>3. i <= z.size => Byte(h.fat, disk.bytes, h.first, i) = Old(i)
    <3>1. i <= z.size => i \in 1..z.size
      BY <1>3
    <3> QED
      BY <1>14, <3>1
  <2> QED
    BY <2>2, <2>3
<1>17. z.size <= cluster_size * N
  <2> DEFINE cM == cluster_size * M
             cN == cluster_size * N
  <2>3. cM \in Nat /\ cN \in Nat /\ cM <= cN
    <3>1. cluster_size \in Nat
      BY Sizes
    <3> HIDE DEF M, N
    <3> QED
      BY <1>8, <3>1
  <2>4. z.size <= cM
    BY <1>1
  <2> HIDE DEF cM, cN
  <2>5. z.size <= cN
    BY <1>3, <2>3, <2>4
  <2> QED
    BY <2>5 DEF cN
<1> HIDE DEF N
<1>18. Overwrites(e, b, z, h.first, d, n, z.size)
  BY <1>3, <1>16, <1>17
<1>19. ~h.full => Overwrites(e, b, z, h.first, d, e.len, NewSize(e, z.size))
  BY <1>13, <1>15, <1>16
<1> QED
  BY <1>12, <1>18, <1>19

\* A file at p, or none yet.
FileAt(p, z) ==
    /\ ~z.dir /\ z.size \in Nat
    /\ \/ Stat(fat, disk.entries, p) = {z}
       \/ Stat(fat, disk.entries, p) = {} /\ z.size = 0

\* A whole write, one that stops half-way, and one that stops before a file is
\* made.
WrittenWhole(o, p, D, e, b, d, z, x) ==
    /\ Turned(o, p, D, {x}) /\ ~x.dir /\ x.size = NewSize(e, z.size) /\ FileAt(p, z)
    /\ Overwrites(e, b, z, x.first, d, e.len, x.size)

WrittenPart(o, p, D, e, b, d, z) ==
    /\ Turned(o, p, D, {z}) /\ FileAt(p, z) /\ Stat(fat, disk.entries, p) = {z}
    /\ \E n \in 0..e.len : Overwrites(e, b, z, z.first, d, n, z.size)

NotWritten(o, p, D) == Turned(o, p, D, {}) /\ Stat(fat, disk.entries, p) = {}

LEMMA WriteTurns ==
    ASSUME fat \in Tables, disk \in Disks, NEW D, Neat(fat, disk.entries, D), NEW p \in Paths,
           NEW e \in Extent, NEW b \in Bytes, NEW o \in fat_write_at(p, e, b), o \in Called("write", p),
           o.code # "wild", NEW d, d = Done(fat, disk, o.items)
    PROVE  \/ \E z, x : WrittenWhole(o, p, D, e, b, d, z, x)
           \/ \E z : WrittenPart(o, p, D, e, b, d, z)
           \/ NotWritten(o, p, D)
<1>1. PICK l, z : Puts(o, p, D, e, b, l, z)
  BY WritePuts
<1> DEFINE E == Ent(Row(fat, disk.entries, resolve_path(fat, disk.entries, p)), NameOf(p))
           h == Stored(l.fat, z.first, e, b)
           x == [z EXCEPT !.first = h.first, !.size = NewSize(e, z.size)]
<1>2. /\ z \in Entries /\ ~z.dir /\ Proper(l.fat, z.first)
      /\ z.size <= cluster_size * Cardinality(Chain(l.fat, z.first))
      /\ l.exists => E = {z}
      /\ ~l.exists => E = {}
      /\ \/ ~h.full /\ Brings(o, p, D, {x}) /\ x \in Entries /\ ~x.dir
         \/ Brings(o, p, D, E)
  BY <1>1 DEF Puts
<1>3. /\ Spares(fat, disk.entries, disk.bytes, D, p, d.fat, d.disk.bytes)
      /\ l.exists => Stat(fat, disk.entries, p) = {z} /\ l.fat = fat
      /\ ~l.exists => Stat(fat, disk.entries, p) = {} /\ z.size = 0 /\ z.first = 0
  BY <1>1, PutsSpares
<1>4. /\ ~h.full => Overwrites(e, b, z, h.first, d, e.len, NewSize(e, z.size))
      /\ \E n \in 0..e.len : Overwrites(e, b, z, h.first, d, n, z.size)
  BY <1>1, PutsBytes
<1>5. z.first \in Cluster \cup {0} /\ z.size \in Nat /\ e.offset \in Nat /\ e.len \in Nat \ {0}
  BY <1>2 DEF Entries, Extent
<1>6. FileAt(p, z)
  BY <1>2, <1>3, <1>5 DEF FileAt
<1>7. h.first = z.first \/ z.size = 0
  <2>1. CASE ~l.exists
    BY <1>3, <2>1
  <2>2. CASE l.exists
    <3>1. l.fat \in Tables
      BY <1>3, <2>2
    <3>2. CASE z.first \in Cluster
      <4>1. Extends(l.fat, z.first, h)
        BY <1>2, <1>5, <3>1, StoredExtends
      <4> HIDE DEF h
      <4> QED
        BY <3>2, <4>1 DEF Extends
    <3>3. CASE z.first = 0
      <4>1. 0 \notin Cluster
        BY DEF Cluster
      <4>2. Chain(l.fat, 0) = {}
        BY <3>1, <4>1, NoChain
      <4>3. Cardinality(Chain(l.fat, z.first)) = 0
        BY <3>3, <4>2, FS_EmptySet
      <4>4. z.size <= cluster_size * 0
        BY <1>2, <4>3
      <4> QED
        BY <1>5, <4>4, Sizes
    <3> QED
      BY <1>5, <3>2, <3>3
  <2> QED
    BY <2>1, <2>2
<1> HIDE DEF h
<1>8. CASE ~h.full /\ Brings(o, p, D, {x}) /\ x \in Entries /\ ~x.dir
  <2>1. Turned(o, p, D, {x})
    BY <1>3, <1>8, TurnedIs
  <2>2. x.first = h.first /\ x.size = NewSize(e, z.size)
    BY <1>2 DEF Entries
  <2>3. Overwrites(e, b, z, x.first, d, e.len, x.size)
    <3> HIDE DEF x
    <3> QED
      BY <1>4, <1>8, <2>2
  <2> HIDE DEF x
  <2>4. WrittenWhole(o, p, D, e, b, d, z, x)
    BY <1>6, <1>8, <2>1, <2>2, <2>3 DEF WrittenWhole
  <2> QED
    BY <2>4
<1> HIDE DEF x, E
<1>9. CASE Brings(o, p, D, E)
  <2>1. Turned(o, p, D, E)
    BY <1>3, <1>9, TurnedIs
  <2>2. CASE l.exists
    <3>1. PICK n \in 0..e.len : Overwrites(e, b, z, h.first, d, n, z.size)
      BY <1>4
    <3>2. Overwrites(e, b, z, z.first, d, n, z.size)
      <4>1. CASE h.first = z.first
        BY <3>1, <4>1
      <4>2. CASE z.size = 0
        BY <3>1, <4>2 DEF Overwrites
      <4> QED
        BY <1>7, <4>1, <4>2
    <3>3. WrittenPart(o, p, D, e, b, d, z)
      BY <1>2, <1>3, <1>6, <2>1, <2>2, <3>2 DEF WrittenPart
    <3> QED
      BY <3>3
  <2>3. CASE ~l.exists
    <3>1. NotWritten(o, p, D)
      BY <1>2, <1>3, <2>1, <2>3 DEF NotWritten
    <3> QED
      BY <3>1
  <2> QED
    BY <2>2, <2>3
<1> QED
  BY <1>2, <1>8, <1>9

---------------------------------------------------------------------------
(* The invariant.                                                          *)

\* A completed call, whichever of its items are left.
LEMMA DoneRecord ==
    ASSUME NEW f, NEW d, NEW X
    PROVE  Done(f, d, X) = [fat |-> Done(f, d, X).fat, disk |-> Done(f, d, X).disk]
BY DEF Done

LEMMA DoneNone ==
    ASSUME NEW f \in Tables, NEW d \in Disks
    PROVE  Done(f, d, <<>>) = [fat |-> f, disk |-> d]
<1> DEFINE X == <<>>
<1>1. Done(f, d, X).fat = f
  BY DEF Done
<1>2. X \in Seq(Items) /\ Len(X) = 0
  BY EmptySeq
<1> HIDE DEF X
<1>3. PICK h : Between(d, X, h) /\ Done(f, d, X).disk = h[Len(X)]
  BY <1>2, DoneIs
<1>4. Done(f, d, X).disk = d
  BY <1>2, <1>3 DEF Between
<1>5. Done(f, d, X) = [fat |-> f, disk |-> d]
  BY <1>1, <1>4, DoneRecord
<1> QED
  BY <1>5 DEF X

LEMMA DoneOn ==
    ASSUME NEW f \in Tables, NEW d \in Disks, NEW X \in Seq(Items), X # <<>>
    PROVE  Done(Head(X).fat, Effect(d, Head(X)), Tail(X)) = Done(f, d, X)
<1> DEFINE n == Len(X)
           Y == Tail(X)
           g == Head(X).fat
           e == Effect(d, Head(X))
<1>1. n \in Nat \ {0} /\ \A k \in 1..n : X[k] \in Items
  BY EmptySeq, LenProperties, ElementOfSeq
<1>2. Y \in Seq(Items) /\ Len(Y) = n - 1 /\ \A k \in 1..Len(Y) : Y[k] = X[k + 1]
  BY HeadTailProperties
<1>3. Head(X) = X[1] /\ Head(X) \in Items
  BY <1>1, HeadTailProperties
<1>4. g \in Tables
  BY <1>3 DEF Items
<1>5. e \in Disks
  BY <1>3, EffectIs
<1>6. PICK h : Between(d, X, h) /\ Done(f, d, X).disk = h[n]
  BY DoneIs
<1> HIDE DEF Y, e, g
<1>7. PICK r : Between(e, Y, r) /\ Done(g, e, Y).disk = r[Len(Y)]
  BY <1>2, <1>4, <1>5, DoneIs
<1>8. /\ h[0] = d /\ \A k \in 1..n : h[k] = Effect(h[k - 1], X[k])
      /\ r[0] = e /\ \A k \in 1..Len(Y) : r[k] = Effect(r[k - 1], Y[k])
  BY <1>6, <1>7 DEF Between
<1> HIDE DEF n
<1>9. r[n - 1] = h[n]
  <2> DEFINE S == {k \in Nat : k <= n - 1 => r[k] = h[k + 1]}
  <2>1. 0 \in S
    <3>1. 1 \in 1..n /\ 1 - 1 = 0
      BY <1>1
    <3>2. h[1] = Effect(d, X[1])
      BY <1>8, <3>1
    <3> QED
      BY <1>3, <1>8, <3>2 DEF e
  <2>2. \A k \in Nat : k \in S => k + 1 \in S
    <3> SUFFICES ASSUME NEW k \in Nat, k \in S, k + 1 <= n - 1 PROVE r[k + 1] = h[(k + 1) + 1]
      OBVIOUS
    <3>1. k + 1 \in 1..Len(Y) /\ (k + 1) - 1 = k /\ (k + 1) + 1 \in 1..n /\ ((k + 1) + 1) - 1 = k + 1
      BY <1>1, <1>2
    <3>2. r[k] = h[k + 1]
      BY <1>1
    <3>3. r[k + 1] = Effect(r[k], X[(k + 1) + 1])
      <4>1. r[k + 1] = Effect(r[(k + 1) - 1], Y[k + 1])
        BY <1>8, <3>1
      <4> QED
        BY <1>2, <3>1, <4>1
    <3>4. h[(k + 1) + 1] = Effect(h[k + 1], X[(k + 1) + 1])
      <4>1. h[(k + 1) + 1] = Effect(h[((k + 1) + 1) - 1], X[(k + 1) + 1])
        BY <1>8, <3>1
      <4> QED
        BY <3>1, <4>1
    <3> QED
      BY <3>2, <3>3, <3>4
  <2> HIDE DEF S
  <2>3. Nat \subseteq S
    BY <2>1, <2>2, NatSetInduction
  <2>4. n - 1 \in Nat /\ (n - 1) + 1 = n
    BY <1>1
  <2>5. n - 1 \in S
    BY <2>3, <2>4
  <2> QED
    BY <2>4, <2>5 DEF S
<1>10. Done(g, e, Y).fat = Done(f, d, X).fat
  <2>1. Done(g, e, Y).fat = IF Y = <<>> THEN g ELSE Y[Len(Y)].fat
    BY DEF Done
  <2>2. Done(f, d, X).fat = X[n].fat
    BY DEF Done, n
  <2>3. CASE Y = <<>>
    <3>1. n = 1
      BY <1>1, <1>2, <2>3, EmptySeq
    <3> QED
      BY <1>3, <2>1, <2>2, <2>3, <3>1 DEF g
  <2>4. CASE Y # <<>>
    <3>1. Len(Y) \in 1..Len(Y) /\ Len(Y) + 1 = n
      BY <1>1, <1>2, <2>4, EmptySeq
    <3> QED
      BY <1>2, <2>1, <2>2, <2>4, <3>1
  <2> QED
    BY <2>3, <2>4
<1>11. Done(g, e, Y).disk = Done(f, d, X).disk
  BY <1>2, <1>6, <1>7, <1>9 DEF n
<1>12. Done(g, e, Y) = Done(f, d, X)
  BY <1>10, <1>11, DoneRecord, Zenon
<1> QED
  BY <1>12 DEF Y, e, g

\* What is left of an operation ends with its return.
Pending(X) ==
    \/ X = <<>>
    \/ \E Y \in Seq(Items), F \in Tables, code \in {"ok", "full"} : Plain(Y) /\ X = Y \o Return(F, code)

LEMMA PendingOn ==
    ASSUME NEW X, Pending(X), X # <<>>
    PROVE  /\ X \in Seq(Items)
           /\ Head(X).write.kind # "return" => Pending(Tail(X))
           /\ Head(X).write.kind = "return" => Tail(X) = <<>>
<1>1. PICK Y \in Seq(Items), F \in Tables, code \in {"ok", "full"} : Plain(Y) /\ X = Y \o Return(F, code)
  BY DEF Pending
<1> DEFINE R == Return(F, code)
<1>2. R \in Seq(Items) /\ R # <<>> /\ Head(R).write.kind = "return" /\ Tail(R) = <<>> /\ <<>> \o R = R
  <2>1. R \in Seq(Items) /\ R # <<>> /\ <<>> \o R = R
        /\ Head(R) = [fat |-> F, write |-> [kind |-> "return", at |-> Root, val |-> code]]
    BY LastItem
  <2>2. Tail(R) = <<>>
    BY DEF Return, Item
  <2> HIDE DEF R
  <2> QED
    BY <2>1, <2>2
<1> HIDE DEF R
<1>3. X \in Seq(Items)
  BY <1>1, <1>2, ItemsConcat DEF R
<1>4. CASE Y = <<>>
  <2>1. X = R
    BY <1>1, <1>2, <1>4 DEF R
  <2> QED
    BY <1>2, <1>3, <2>1
<1>5. CASE Y # <<>>
  <2>1. /\ Head(X) = Y[1] /\ Tail(X) = Tail(Y) \o R /\ Tail(Y) \in Seq(Items) /\ Len(Y) \in Nat \ {0}
        /\ Len(Tail(Y)) = Len(Y) - 1 /\ \A k \in 1..Len(Tail(Y)) : Tail(Y)[k] = Y[k + 1]
    <3>1. X = Y \o R
      BY <1>1 DEF R
    <3> QED
      BY <1>2, <1>5, <3>1, FirstItem
  <2>2. Head(X).write.kind # "return"
    BY <1>1, <2>1 DEF Plain
  <2>3. Plain(Tail(Y))
    <3>1. \A k \in 1..Len(Tail(Y)) : k + 1 \in 1..Len(Y)
      BY <2>1
    <3> QED
      BY <1>1, <2>1, <3>1 DEF Plain
  <2>4. Pending(Tail(X))
    BY <2>1, <2>3 DEF Pending, R
  <2> QED
    BY <1>3, <2>2, <2>4
<1> QED
  BY <1>4, <1>5

---------------------------------------------------------------------------
(* Each operation is one on the tree.                                      *)

LEMMA SeenIs ==
    ASSUME NEW f, NEW d, NEW X, NEW r, r = Done(f, d, X)
    PROVE  Seen(f, d, X) = TreeOf(r.fat, r.disk)
BY DEF Seen, TreeOf

\* The operation begins that comes to o.
Starts(o) ==
    /\ fat \in Tables /\ disk \in Disks /\ todo = <<>> /\ tree = Seen(fat, disk, todo)
    /\ fat' = fat /\ disk' = disk /\ todo' = o.items /\ tree' = Seen(fat', disk', todo')

\* The states before and after, as values.
Views(f, d, r, o) == f = fat /\ d = disk /\ r = Done(fat, disk, o.items)

LEMMA ViewsExist == ASSUME NEW o PROVE \E f, d, r : Views(f, d, r, o)
BY DEF Views

LEMMA StartShifts ==
    ASSUME NEW o, Starts(o), NEW p \in Paths, NEW D, NEW E, Turned(o, p, D, E),
           NEW f, NEW d, NEW r, Views(f, d, r, o)
    PROVE  Shifts(f, d, D, p, r.fat, r.disk, Dirs(r.fat, r.disk.entries), E)
<1>1. p \in Seq(Names) /\ p # <<>>
  BY PathAssumption
<1>2. Turns(f, d, D, p, r.fat, r.disk, Dirs(r.fat, r.disk.entries), E)
  BY DEF Turned, Views
<1>3. tree = TreeOf(f, d)
  <2>1. Done(fat, disk, todo) = [fat |-> fat, disk |-> disk]
    BY DoneNone DEF Starts
  <2>2. Seen(fat, disk, todo) = TreeOf(Done(fat, disk, todo).fat, Done(fat, disk, todo).disk)
    BY SeenIs
  <2>3. Seen(fat, disk, todo) = TreeOf(fat, disk)
    BY <2>1, <2>2
  <2> QED
    BY <2>3 DEF Starts, Views
<1>4. tree' = TreeOf(r.fat, r.disk)
  <2>1. Seen(fat, disk, o.items) = TreeOf(r.fat, r.disk)
    BY SeenIs DEF Views
  <2>2. Seen(fat', disk', todo') = Seen(fat, disk, o.items)
    BY DEF Starts
  <2>3. tree' = Seen(fat', disk', todo')
    BY DEF Starts
  <2> QED
    BY <2>1, <2>2, <2>3
<1> QED
  BY <1>1, <1>2, <1>3, <1>4 DEF Shifts

LEMMA TruncateStep ==
    ASSUME NEW o, Starts(o), NEW p \in Paths, NEW D, Neat(fat, disk.entries, D),
           o \in Called("truncate", p), o.code # "wild"
    PROVE  Abstract!Empty(p)
<1> DEFINE x == Entry(NameOf(p), FALSE, 0, 0)
<1>1. Turned(o, p, D, {x})
  BY TruncateTurns DEF Starts
<1>2. ~x.dir /\ x.size = 0
  BY DEF Entry
<1> HIDE DEF x
<1>3. PICK f, d, r : Views(f, d, r, o)
  BY ViewsExist
<1> DEFINE B == Dirs(r.fat, r.disk.entries)
           F == r.fat
           s == r.disk
<1>4. Shifts(f, d, D, p, F, s, B, {x})
  BY <1>1, <1>3, StartShifts
<1> HIDE DEF B, F, s
<1> QED
  BY <1>2, <1>4, TurnEmpty

LEMMA RemovalStep ==
    ASSUME NEW o, Starts(o), NEW p \in Paths, NEW D, Neat(fat, disk.entries, D),
           NEW act \in {"unlink", "rmdir"}, o \in Called(act, p), o.code # "wild"
    PROVE  IF act = "unlink" THEN Abstract!Unlink(p) ELSE Abstract!Rmdir(p)
<1> DEFINE E == {}
<1>1. PICK z : Turned(o, p, D, {}) /\ Removed(act, p, z)
  BY RemovalTurns DEF Starts
<1>2. PICK f, d, r : Views(f, d, r, o)
  BY ViewsExist
<1> DEFINE B == Dirs(r.fat, r.disk.entries)
           F == r.fat
           s == r.disk
<1>3. Shifts(f, d, D, p, F, s, B, E)
  BY <1>1, <1>2, StartShifts
<1>4. /\ Stat(f, d.entries, p) = {z}
      /\ act = "unlink" => ~z.dir
      /\ act = "rmdir" => z.dir /\ \A n \in Names : Ent(Row(f, d.entries, z.first), n) = {}
  BY <1>1, <1>2 DEF Removed, Views
<1> HIDE DEF B, F, s
<1>5. CASE act = "unlink"
  BY <1>3, <1>4, <1>5, TurnUnlink
<1>6. CASE act = "rmdir"
  BY <1>3, <1>4, <1>6, TurnRmdir
<1> QED
  BY <1>5, <1>6

LEMMA MkdirStep ==
    ASSUME NEW o, Starts(o), NEW p \in Paths, NEW D, Neat(fat, disk.entries, D),
           o \in Called("mkdir", p), o.code # "wild"
    PROVE  Abstract!Mkdir(p) \/ tree' = tree
<1>1. PICK E : Turned(o, p, D, E) /\ Opens(o, p, D, E) /\ Stat(fat, disk.entries, p) = {} /\ \A x \in E : x.dir
  BY MkdirTurns DEF Starts
<1>2. PICK f, d, r : Views(f, d, r, o)
  BY ViewsExist
<1> DEFINE B == Dirs(r.fat, r.disk.entries)
           F == r.fat
           s == r.disk
<1>3. Shifts(f, d, D, p, F, s, B, E)
  BY <1>1, <1>2, StartShifts
<1>4. Stat(f, d.entries, p) = {} /\ \A x \in E : x.first \notin D
  BY <1>1, <1>2 DEF Views, Opens
<1> HIDE DEF B, F, s
<1>5. CASE E = {}
  BY <1>3, <1>4, <1>5, TurnStay
<1>6. CASE E # {}
  <2>1. PICK x : x \in E
    BY <1>6
  <2>2. p \in Seq(Names) /\ p # <<>> /\ NameOf(p) \in Names
    BY PathAssumption, ParentIs
  <2> DEFINE dir == resolve_path(f, d.entries, p)
             name == NameOf(p)
  <2>3. Edits(f, d.entries, D, F, s.entries, B, dir, name, E)
    BY <1>3 DEF Shifts, Turns
  <2>4. Stat(F, s.entries, p) = E /\ dir \in B
    <3>1. resolve_path(f, d.entries, p) = dir /\ NameOf(p) = name
      OBVIOUS
    <3> HIDE DEF dir, name
    <3> QED
      BY <2>2, <2>3, <3>1, StatEdited
  <2>5. /\ Neat(F, s.entries, B)
        /\ Ent(Row(F, s.entries, dir), name) = E
        /\ \A c \in B \ D : \A n \in Names : Ent(Row(F, s.entries, c), n) = {}
    BY <2>3, <2>4 DEF Edits
  <2>6. E = {x}
    <3>1. \A y \in E : y = x
      BY <2>1, <2>2, <2>4, <2>5, StatOne
    <3> QED
      BY <2>1, <3>1
  <2>7. x.first \in B \ D /\ x.dir
    <3>1. name \in Names
      BY <2>2
    <3> HIDE DEF name, dir
    <3>2. x.first \in B
      BY <1>1, <2>1, <2>4, <2>5, <3>1, EntFirst
    <3> QED
      BY <1>1, <1>4, <2>1, <3>2
  <2>8. \A n \in Names : Ent(Row(F, s.entries, x.first), n) = {}
    BY <2>5, <2>7
  <2>9. Shifts(f, d, D, p, F, s, B, {x})
    BY <1>3, <2>6
  <2>10. Abstract!Mkdir(p)
    BY <1>4, <2>7, <2>8, <2>9, TurnMkdir
  <2> QED
    BY <2>10
<1> QED
  BY <1>5, <1>6

LEMMA WriteStep ==
    ASSUME NEW o, Starts(o), NEW p \in Paths, NEW D, Neat(fat, disk.entries, D),
           NEW e \in Extents, NEW b \in Bytes, o \in fat_write_at(p, e, b),
           o \in Called("write", p), o.code # "wild"
    PROVE  Abstract!Write(p, e, b) \/ Abstract!PartOfWrite(p, e, b) \/ tree' = tree
<1>0. e \in Extent /\ e.offset \in Nat /\ e.len \in Nat \ {0}
  BY ExtentAssumption DEF Extent
<1>1. PICK f, d, r : Views(f, d, r, o)
  BY ViewsExist
<1> DEFINE B == Dirs(r.fat, r.disk.entries)
           F == r.fat
           s == r.disk
<1>2. \A E : Turned(o, p, D, E) => Shifts(f, d, D, p, F, s, B, E)
  BY <1>1, StartShifts
<1>3. f = fat /\ d = disk
  BY <1>1 DEF Views
<1>4. \/ \E z, x : WrittenWhole(o, p, D, e, b, r, z, x)
      \/ \E z : WrittenPart(o, p, D, e, b, r, z)
      \/ NotWritten(o, p, D)
  <2>1. r = Done(fat, disk, o.items)
    BY <1>1 DEF Views
  <2> QED
    BY <1>0, <2>1, WriteTurns DEF Starts
<1> HIDE DEF B, F, s
<1>5. ASSUME NEW z, NEW x, WrittenWhole(o, p, D, e, b, r, z, x) PROVE Abstract!Write(p, e, b)
  <2>1. /\ Shifts(f, d, D, p, F, s, B, {x}) /\ ~x.dir /\ x.size = NewSize(e, z.size)
        /\ ~z.dir /\ z.size \in Nat
        /\ Stat(f, d.entries, p) = {z} \/ (Stat(f, d.entries, p) = {} /\ z.size = 0)
    BY <1>2, <1>3, <1>5 DEF WrittenWhole, FileAt
  <2>2. \A i \in 1..x.size : /\ i \in e.offset + 1 .. e.offset + e.len => Byte(F, s.bytes, x.first, i) = b
                             /\ (i \notin e.offset + 1 .. e.offset + e.len /\ i <= z.size) =>
                                   Byte(F, s.bytes, x.first, i) = Byte(f, d.bytes, z.first, i)
    BY <1>3, <1>5 DEF WrittenWhole, Overwrites, F, s
  <2>3. \A i \in Int : (i \in Abstract!Written(e) <=> i \in e.offset + 1 .. e.offset + e.len)
    <3> TAKE i \in Int
    <3>1. i \in e.offset + 1 .. e.offset + e.len => i - e.offset \in 1..e.len /\ i = e.offset + (i - e.offset)
      BY <1>0
    <3>2. \A k \in 1..e.len : e.offset + k \in e.offset + 1 .. e.offset + e.len
      BY <1>0
    <3> QED
      BY <3>1, <3>2 DEF Abstract!Written
  <2>4. x.size \in Int
    BY <1>0, <2>1 DEF NewSize
  <2>5. \A i \in 1..x.size : /\ i \in Abstract!Written(e) => Byte(F, s.bytes, x.first, i) = b
                             /\ i \notin Abstract!Written(e) /\ i <= z.size =>
                                   Byte(F, s.bytes, x.first, i) = Byte(f, d.bytes, z.first, i)
    <3> TAKE i \in 1..x.size
    <3>1. i \in Int
      BY <2>4
    <3>2. i \in Abstract!Written(e) <=> i \in e.offset + 1 .. e.offset + e.len
      BY <2>3, <3>1
    <3> QED
      BY <2>2, <3>2
  <2> QED
    BY <2>1, <2>5, TurnWrite
<1>6. ASSUME NEW z, WrittenPart(o, p, D, e, b, r, z) PROVE Abstract!PartOfWrite(p, e, b)
  <2>1. /\ Shifts(f, d, D, p, F, s, B, {z}) /\ ~z.dir /\ z.size \in Nat /\ Stat(f, d.entries, p) = {z}
    BY <1>2, <1>3, <1>6 DEF WrittenPart, FileAt
  <2>2. PICK n \in 0..e.len : Overwrites(e, b, z, z.first, r, n, z.size)
    BY <1>6 DEF WrittenPart
  <2>3. \A i \in 1..z.size : Byte(F, s.bytes, z.first, i) =
           IF i \in e.offset + 1 .. e.offset + n THEN b ELSE Byte(f, d.bytes, z.first, i)
    <3> TAKE i \in 1..z.size
    <3>1. i <= z.size
      BY <2>1
    <3> QED
      BY <1>3, <2>2, <3>1 DEF Overwrites, F, s
  <2> QED
    BY <2>1, <2>3, TurnPart
<1>7. ASSUME NotWritten(o, p, D) PROVE tree' = tree
  <2> DEFINE E == {}
  <2>1. Shifts(f, d, D, p, F, s, B, E) /\ Stat(f, d.entries, p) = {}
    BY <1>2, <1>3, <1>7 DEF NotWritten
  <2> QED
    BY <2>1, TurnStay
<1> QED
  BY <1>4, <1>5, <1>6, <1>7

\* Every operation that does not derail leaves the directories in order.
LEMMA CallTurns ==
    ASSUME fat \in Tables, disk \in Disks, NEW D, Neat(fat, disk.entries, D), NEW p \in Paths,
           NEW name \in {"truncate", "write", "unlink", "mkdir", "rmdir"}, NEW o \in Called(name, p),
           o.code # "wild"
    PROVE  \E E : Turned(o, p, D, E)
<1>1. CASE name = "truncate"
  BY <1>1, TruncateTurns
<1>2. CASE name = "write"
  <2>1. o \in WritesOf(p)
    BY <1>2 DEF Called
  <2>2. PICK e \in Extent, b \in Bytes : o \in fat_write_at(p, e, b)
    BY <2>1 DEF WritesOf
  <2>3. PICK d : d = Done(fat, disk, o.items)
    OBVIOUS
  <2>4. \/ \E z, x : WrittenWhole(o, p, D, e, b, d, z, x)
        \/ \E z : WrittenPart(o, p, D, e, b, d, z)
        \/ NotWritten(o, p, D)
    BY <1>2, <2>2, <2>3, WriteTurns
  <2> QED
    BY <2>4 DEF WrittenWhole, WrittenPart, NotWritten
<1>3. CASE name \in {"unlink", "rmdir"}
  BY <1>3, RemovalTurns
<1>4. CASE name = "mkdir"
  BY <1>4, MkdirTurns
<1> QED
  BY <1>1, <1>2, <1>3, <1>4

---------------------------------------------------------------------------
(* Refinement.                                                             *)

\* The disk is one of Neat's, once the items of the operation are written.
Tidy(f, d, X) == \E D : Neat(Done(f, d, X).fat, Done(f, d, X).disk.entries, D)

TreeInv ==
    /\ TypeInv /\ Pending(todo) /\ (wild => todo = <<>>)
    /\ ~wild => Tidy(fat, disk, todo)
    /\ tree = Seen(fat, disk, todo)

LEMMA SameDone ==
    ASSUME NEW f, NEW d, NEW X, NEW g, NEW e, NEW Y, Done(f, d, X) = Done(g, e, Y)
    PROVE  Seen(f, d, X) = Seen(g, e, Y) /\ (Tidy(f, d, X) <=> Tidy(g, e, Y))
BY DEF Seen, Tidy

LEMMA TreeStarts == TreeInit => TreeInv /\ Abstract!Init
<1> SUFFICES ASSUME TreeInit PROVE TreeInv /\ Abstract!Init
  OBVIOUS
<1>1. /\ Init /\ tree = Seen(fat, disk, todo) /\ todo = <<>> /\ wild = FALSE
      /\ disk.entries = [c \in Cluster \cup {Root} |-> [i \in 1..InBlock(c) |-> NoEntry]]
  BY DEF TreeInit, Init
<1>2. TypeInv /\ fat \in Tables /\ disk \in Disks
  BY <1>1, InitTypes DEF TypeInv, TypeOK
<1>3. Done(fat, disk, todo) = [fat |-> fat, disk |-> disk]
  BY <1>1, <1>2, DoneNone
<1> DEFINE es == disk.entries
           D == Dirs(fat, es)
<1>4. Neat(fat, es, D)
  BY <1>1, InitNeat
<1>5. \A s \in SlotSet : At(es, s).name \notin Names
  <2>1. \A s \in SlotSet : At(es, s) = NoEntry
    BY <1>1 DEF SlotSet, At
  <2> QED
    BY <2>1, NamesAssumption DEF NoEntry
<1> HIDE DEF D
<1>6. ASSUME NEW p \in Paths PROVE Node(fat, disk, p) = Nothing
  <2>1. p \in Seq(Names) /\ p # <<>>
    BY PathAssumption
  <2>2. Stat(fat, es, p) = {}
    <3> SUFFICES ASSUME NEW x \in Stat(fat, es, p) PROVE FALSE
      OBVIOUS
    <3> HIDE DEF es
    <3>1. \E s \in Used(fat, es, D) : At(es, s) = x
      BY <1>4, <2>1, StatSlot
    <3> QED
      BY <1>5, <3>1 DEF Used
  <2> QED
    BY <1>4, <2>1, <2>2, NodeIs DEF Nothing
<1>7. Seen(fat, disk, todo) = TreeOf(fat, disk)
  <2>1. Seen(fat, disk, todo) = TreeOf(Done(fat, disk, todo).fat, Done(fat, disk, todo).disk)
    BY SeenIs
  <2> QED
    BY <1>3, <2>1
<1>8. tree = [p \in Paths |-> Nothing]
  BY <1>1, <1>6, <1>7 DEF TreeOf
<1>9. Abstract!Init
  BY <1>8 DEF Abstract!Init, Abstract!None, Nothing
<1>10. Tidy(fat, disk, todo)
  BY <1>3, <1>4 DEF Tidy
<1> QED
  BY <1>1, <1>2, <1>9, <1>10 DEF TreeInv, Pending

\* An operation that is called: what is changed before it returns is in todo.
LEMMA BeginStep ==
    ASSUME TreeInv, NEW p \in Paths, NEW name \in {"truncate", "write", "unlink", "mkdir", "rmdir"},
           NEW S, S \subseteq Called(name, p), Begin(name, S), tree' = Seen(fat', disk', todo')
    PROVE  /\ Pending(todo') /\ (wild' => todo' = <<>>)
           /\ ~wild' => Tidy(fat', disk', todo')
           /\ \/ tree' = tree
              \/ \E o \in S : \E D : Starts(o) /\ Neat(fat, disk.entries, D) /\ o \in Called(name, p) /\ o.code # "wild"
<1>1. /\ fat \in Tables /\ disk \in Disks /\ todo = <<>> /\ ~wild /\ tree = Seen(fat, disk, todo)
      /\ Tidy(fat, disk, todo)
  BY DEF TreeInv, TypeInv, TypeOK, Begin, Idle
<1>2. PICK o \in S : /\ todo' = o.items /\ wild' = (o.code = "wild")
                     /\ fat' = fat /\ disk' = disk
  BY Zenon DEF Begin
<1>3. Shape(o)
  <2>1. o \in OutcomesOf(p)
    BY <1>2 DEF Called
  <2> QED
    BY <1>1, <2>1, OutcomesShape
<1>4. CASE o.code = "wild"
  <2>1. todo' = <<>> /\ wild'
    BY <1>2, <1>3, <1>4 DEF Shape
  <2>2. tree' = tree
    BY <1>1, <1>2, <2>1
  <2> QED
    BY <2>1, <2>2 DEF Pending
<1>5. CASE o.code # "wild"
  <2>1. ~wild'
    BY <1>2, <1>5
  <2>2. Pending(todo')
    <3>1. PICK X, F : Returns(o, X, F)
      BY <1>3, <1>5 DEF Shape
    <3>2. X \in Seq(Items)
      BY <3>1 DEF Returns, Plain
    <3> QED
      BY <1>2, <3>1, <3>2 DEF Pending, Returns
  <2>3. PICK D : Neat(fat, disk.entries, D)
    <3>1. Done(fat, disk, todo) = [fat |-> fat, disk |-> disk]
      BY <1>1, DoneNone
    <3> QED
      BY <1>1, <3>1 DEF Tidy
  <2>4. Starts(o)
    BY <1>1, <1>2 DEF Starts
  <2>5. o \in Called(name, p)
    BY <1>2
  <2>6. Tidy(fat', disk', todo')
    <3>1. PICK E : Turned(o, p, D, E)
      BY <1>1, <1>5, <2>3, <2>5, CallTurns
    <3>2. Tidy(fat, disk, o.items)
      BY <3>1 DEF Turned, Turns, Edits, Tidy
    <3> QED
      BY <1>2, <3>2
  <2> QED
    BY <1>2, <1>5, <2>1, <2>2, <2>3, <2>4, <2>5, <2>6
<1> QED
  BY <1>4, <1>5

\* A write, or the return, leaves what is done in the end.
LEMMA RestStep ==
    ASSUME TreeInv, WriteNext \/ Finish, tree' = Seen(fat', disk', todo')
    PROVE  /\ Pending(todo') /\ (wild' => todo' = <<>>)
           /\ ~wild' => Tidy(fat', disk', todo')
           /\ tree' = tree
<1>1. /\ fat \in Tables /\ disk \in Disks /\ todo # <<>> /\ ~wild /\ tree = Seen(fat, disk, todo)
      /\ Tidy(fat, disk, todo) /\ Pending(todo)
  BY DEF TreeInv, TypeInv, TypeOK, WriteNext, Finish
<1>2. /\ todo \in Seq(Items)
      /\ Head(todo).write.kind # "return" => Pending(Tail(todo))
      /\ Head(todo).write.kind = "return" => Tail(todo) = <<>>
  BY <1>1, PendingOn
<1>3. /\ fat' = Head(todo).fat /\ disk' = Effect(disk, Head(todo)) /\ todo' = Tail(todo) /\ wild' = wild
      /\ Pending(todo')
  <2>1. CASE WriteNext
    BY <1>2, <2>1 DEF WriteNext
  <2>2. CASE Finish
    <3>1. Head(todo).write.kind = "return" /\ fat' = Head(todo).fat /\ todo' = <<>> /\ disk' = disk /\ wild' = wild
      BY <2>2 DEF Finish
    <3>2. Effect(disk, Head(todo)) = disk
      BY <3>1 DEF Effect
    <3> QED
      BY <1>2, <3>1, <3>2 DEF Pending
  <2> QED
    BY <2>1, <2>2
<1>4. Done(Head(todo).fat, Effect(disk, Head(todo)), Tail(todo)) = Done(fat, disk, todo)
  BY <1>1, <1>2, DoneOn
<1>5. /\ Seen(Head(todo).fat, Effect(disk, Head(todo)), Tail(todo)) = Seen(fat, disk, todo)
      /\ Tidy(Head(todo).fat, Effect(disk, Head(todo)), Tail(todo)) <=> Tidy(fat, disk, todo)
  BY <1>4, SameDone
<1> QED
  BY <1>1, <1>3, <1>5

LEMMA TreeStep ==
    ASSUME Faults = {}, TreeInv, [TreeNext]_<<vars, tree>>
    PROVE  TreeInv' /\ [Abstract!Next]_tree
<1> DEFINE Kept == /\ Pending(todo') /\ (wild' => todo' = <<>>)
                   /\ ~wild' => Tidy(fat', disk', todo')
           Ends == tree' = tree \/ Abstract!Next
<1>1. SUFFICES Kept /\ tree' = Seen(fat', disk', todo') /\ Ends
  <2>1. TypeInv'
    BY TypesStep DEF TreeInv, TreeNext, vars
  <2> QED
    BY <1>1, <2>1 DEF TreeInv
<1>2. CASE UNCHANGED <<vars, tree>>
  BY <1>2 DEF vars, TreeInv
<1>3. CASE TreeNext
  <2>1. Next /\ tree' = Seen(fat', disk', todo')
    BY <1>3 DEF TreeNext
  <2>2. ASSUME WriteNext \/ Finish PROVE Kept /\ Ends
    BY <2>1, <2>2, RestStep
  <2>3. ASSUME NEW p \in Paths, Operation(p) PROVE Kept /\ Ends
    <3>1. /\ fat_write_file(p) \subseteq Called("truncate", p) /\ fat_delete_file(p) \subseteq Called("unlink", p)
          /\ fat_rmdir(p) \subseteq Called("rmdir", p) /\ fat_mkdir(p) \subseteq Called("mkdir", p)
          /\ \A e \in Extents, b \in Bytes : fat_write_at(p, e, b) \subseteq Called("write", p)
      BY OperationsAre DEF TreeInv, TypeInv, TypeOK
    <3>2. CASE Begin("truncate", fat_write_file(p))
      <4>1. /\ Kept
            /\ \/ tree' = tree
               \/ \E o, D : Starts(o) /\ Neat(fat, disk.entries, D) /\ o \in Called("truncate", p) /\ o.code # "wild"
        BY <2>1, <3>1, <3>2, BeginStep
      <4>2. tree' = tree \/ Abstract!Empty(p)
        BY <4>1, TruncateStep
      <4> QED
        BY <4>1, <4>2 DEF Abstract!Next
    <3>3. ASSUME NEW e \in Extents, NEW b \in Bytes, Begin("write", fat_write_at(p, e, b)) PROVE Kept /\ Ends
      <4>1. /\ Kept
            /\ \/ tree' = tree
               \/ \E o \in fat_write_at(p, e, b) : \E D :
                     Starts(o) /\ Neat(fat, disk.entries, D) /\ o \in Called("write", p) /\ o.code # "wild"
        BY <2>1, <3>1, <3>3, BeginStep
      <4>2. tree' = tree \/ Abstract!Write(p, e, b) \/ Abstract!PartOfWrite(p, e, b)
        BY <4>1, WriteStep
      <4> QED
        BY <4>1, <4>2 DEF Abstract!Next
    <3>4. CASE Begin("unlink", fat_delete_file(p))
      <4>1. /\ Kept
            /\ \/ tree' = tree
               \/ \E o, D : Starts(o) /\ Neat(fat, disk.entries, D) /\ o \in Called("unlink", p) /\ o.code # "wild"
        BY <2>1, <3>1, <3>4, BeginStep
      <4>2. tree' = tree \/ Abstract!Unlink(p)
        BY <4>1, RemovalStep
      <4> QED
        BY <4>1, <4>2 DEF Abstract!Next
    <3>5. CASE Begin("mkdir", fat_mkdir(p))
      <4>1. /\ Kept
            /\ \/ tree' = tree
               \/ \E o, D : Starts(o) /\ Neat(fat, disk.entries, D) /\ o \in Called("mkdir", p) /\ o.code # "wild"
        BY <2>1, <3>1, <3>5, BeginStep
      <4>2. tree' = tree \/ Abstract!Mkdir(p)
        BY <4>1, MkdirStep
      <4> QED
        BY <4>1, <4>2 DEF Abstract!Next
    <3>6. CASE Begin("rmdir", fat_rmdir(p))
      <4>1. /\ Kept
            /\ \/ tree' = tree
               \/ \E o, D : Starts(o) /\ Neat(fat, disk.entries, D) /\ o \in Called("rmdir", p) /\ o.code # "wild"
        BY <2>1, <3>1, <3>6, BeginStep
      <4>2. tree' = tree \/ Abstract!Rmdir(p)
        BY <4>1, RemovalStep
      <4> QED
        BY <4>1, <4>2 DEF Abstract!Next
    <3> QED
      BY <2>3, <3>2, <3>3, <3>4, <3>5, <3>6 DEF Operation
  <2>4. ~DiskError /\ ~PowerCut
    BY DEF DiskError, PowerCut
  <2> QED
    BY <2>1, <2>2, <2>3, <2>4 DEF Next
<1> QED
  BY <1>2, <1>3

\* With no faults, the operations of fat.c implement those on a tree of names.
THEOREM OperationsImplementTree == Faults = {} => (TreeSpec => ImplementsTree)
<1> SUFFICES ASSUME Faults = {} PROVE TreeSpec => ImplementsTree
  OBVIOUS
<1>1. TreeInit => TreeInv /\ Abstract!Init
  BY TreeStarts
<1>2. TreeInv /\ [TreeNext]_<<vars, tree>> => TreeInv' /\ [Abstract!Next]_tree
  BY TreeStep
<1> QED
  BY <1>1, <1>2, PTL DEF TreeSpec, ImplementsTree, Abstract!Spec
=============================================================================
