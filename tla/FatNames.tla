------------------------------ MODULE FatNames ------------------------------
(* Proofs about what Fat's names lead to: the entries of a directory as a  *)
(* lookup and a listing find them, the walk along a path, and what each    *)
(* operation leaves of them.                                               *)
EXTENDS FatProofs

---------------------------------------------------------------------------
(* Rows.  What the slots of a directory hold.                              *)

\* The entries of a directory, in order.
Row(f, es, d) == [k \in DOMAIN Slots(f, d) |-> At(es, Slots(f, d)[k])]

\* Behind the entry that ends it, a directory holds no other.
Ended(R) == \A i, j \in DOMAIN R : i < j /\ R[i].name = END => R[j].name = END

\* It has no name twice.
Single(R) == \A i, j \in DOMAIN R : R[i].name \in Names /\ R[i].name = R[j].name => i = j

\* The entries of that name.
Ent(R, n) == {R[k] : k \in {k \in DOMAIN R : R[k].name = n}}

\* The cluster of the directory of that name.
Sub(R, n) ==
    IF \E x \in Ent(R, n) : x.dir THEN (CHOOSE x \in Ent(R, n) : x.dir).first ELSE NULL

\* A disk that is well formed, and whose directories are.
Neat(f, es, D) ==
    Good(f, es, D, "loose") /\ \A d \in D : Ended(Row(f, es, d)) /\ Single(Row(f, es, d))

\* What the well-formedness of the disk gives here.
LEMMA NeatFacts ==
    ASSUME NEW f, NEW es, NEW D, Neat(f, es, D)
    PROVE  /\ f \in Tables /\ EntriesOK(es) /\ Root \in D /\ D \subseteq Cluster \cup {Root}
           /\ \A s \in Used(f, es, D) : At(es, s).first \in D \ {Root} <=> At(es, s).dir
           /\ \A h \in Heads(f, es, D) : Proper(f, h)
           /\ \A h, k \in Heads(f, es, D) : h # k => Chain(f, h) \cap Chain(f, k) = {}
           /\ \A s, t \in Used(f, es, D) : s # t /\ At(es, s).first = At(es, t).first => At(es, s).first = 0
           /\ NoData(f, es, D)
           /\ \A d \in D : d # Root => d \in Cluster /\ d \in Heads(f, es, D) /\ Proper(f, d)
           /\ Good(f, es, D, "loose")
<1>1. Good(f, es, D, "loose")
  BY DEF Neat
<1>2. /\ f \in Tables /\ EntriesOK(es)
      /\ Root \in D /\ D \subseteq Cluster \cup {Root}
      /\ \A s \in Used(f, es, D) : At(es, s).first \in D \ {Root} <=> At(es, s).dir
      /\ \A h \in Heads(f, es, D) : Proper(f, h)
      /\ \A h, k \in Heads(f, es, D) : h # k => Chain(f, h) \cap Chain(f, k) = {}
      /\ \A s, t \in Used(f, es, D) : s # t /\ At(es, s).first = At(es, t).first => At(es, s).first = 0
      /\ NoData(f, es, D)
  BY <1>1, GoodFacts
<1>3. \A d \in D : d # Root => d \in Cluster /\ d \in Heads(f, es, D)
  BY <1>2 DEF Heads
<1> QED
  BY <1>1, <1>2, <1>3

\* The slots of a directory are numbered from 1 and hold entries.
LEMMA RowIs ==
    ASSUME NEW f \in Tables, NEW es, EntriesOK(es), NEW d \in Cluster \cup {Root}
    PROVE  /\ DOMAIN Row(f, es, d) = DOMAIN Slots(f, d)
           /\ \E m \in Nat : DOMAIN Slots(f, d) = 1..m
           /\ \A k \in DOMAIN Slots(f, d) :
                 /\ Row(f, es, d)[k] = At(es, Slots(f, d)[k]) /\ Row(f, es, d)[k] \in Entries
                 /\ Slots(f, d)[k] \in SlotSet /\ Slots(f, d)[k][1] \in BlockSet(f, d)
<1>1. \A k \in DOMAIN Slots(f, d) : Slots(f, d)[k] \in SlotSet /\ Slots(f, d)[k][1] \in BlockSet(f, d)
  BY SlotIn
<1>2. \A k \in DOMAIN Slots(f, d) : At(es, Slots(f, d)[k]) \in Entries
  BY <1>1, AtIs
<1>3. \E m \in Nat : DOMAIN Slots(f, d) = 1..m
  <2>1. InBlock(d) * Len(BlocksOf(f, d)) \in Nat
    BY InBlockIs, BlocksAre
  <2> QED
    BY <2>1, SlotsAre
<1> QED
  BY <1>1, <1>2, <1>3 DEF Row

\* No slot comes twice in a directory.
LEMMA SlotsDiffer ==
    ASSUME NEW f \in Tables, NEW d \in Cluster \cup {Root}, d # Root => Proper(f, d),
           NEW j \in DOMAIN Slots(f, d), NEW k \in DOMAIN Slots(f, d), Slots(f, d)[j] = Slots(f, d)[k]
    PROVE  j = k
<1> DEFINE B == BlocksOf(f, d)
           n == InBlock(d)
           m == Len(B)
           J == (j - 1) \div n
           K == (k - 1) \div n
           x == (j - 1) % n
           y == (k - 1) % n
<1>1. n \in Nat \ {0} /\ m \in Nat
  BY InBlockIs, BlocksAre
<1>2. j \in 1..(n * m) /\ k \in 1..(n * m)
  BY SlotsAre
<1>3. Slots(f, d)[j] = <<B[1 + J], 1 + x>> /\ Slots(f, d)[k] = <<B[1 + K], 1 + y>>
  BY <1>2, SlotsAre
<1>4. B[1 + J] = B[1 + K] /\ 1 + x = 1 + y
  <2> HIDE DEF B, J, K, x, y
  <2>1. <<B[1 + J], 1 + x>> = <<B[1 + K], 1 + y>>
    BY <1>3
  <2>2. \A u, v, a, b : <<u, v>> = <<a, b>> => u = a /\ v = b
    OBVIOUS
  <2> QED
    BY <2>1, <2>2, Zenon
<1>5. /\ J \in 0..(m - 1) /\ 1 + J \in 1..m /\ j = n * J + (1 + x)
      /\ K \in 0..(m - 1) /\ 1 + K \in 1..m /\ k = n * K + (1 + y)
  <2> HIDE DEF n, m
  <2> QED
    BY <1>1, <1>2, Places
<1> HIDE DEF x, y, J, K
<1>6. J = K
  <2>1. CASE d = Root
    <3>1. m = 1
      BY <2>1 DEF BlocksOf
    <3> HIDE DEF m
    <3> QED
      BY <1>5, <3>1
  <2>2. CASE d # Root
    <3> DEFINE c == Cardinality(Chain(f, d))
               w == ChainWalk(f, d)
    <3>1. B = ChainSeq(f, d)
      BY <2>2 DEF BlocksOf
    <3>2. m = c /\ c \in 0..(MaxCluster - 1) /\ \A i \in 1..c : ChainSeq(f, d)[i] = w[i - 1]
      BY <3>1, ChainSeqIs, ChainIsFinite
    <3>3. \A i \in 0..MaxCluster :
             /\ w[i] = NULL <=> c <= i
             /\ \A o \in 0..MaxCluster : (o < i /\ w[i] # NULL) => w[o] # w[i]
      BY <2>2, ProperWalk
    <3> HIDE DEF c, w, m, B
    <3>4. J \in 0..(c - 1) /\ K \in 0..(c - 1) /\ (1 + J) - 1 = J /\ (1 + K) - 1 = K
      BY <1>1, <1>5, <3>2
    <3>5. J \in 0..MaxCluster /\ K \in 0..MaxCluster /\ ~(c <= J) /\ ~(c <= K)
      BY <3>2, <3>4, Sizes
    <3>6. w[J] = w[K] /\ w[J] # NULL
      BY <1>4, <1>5, <3>1, <3>2, <3>3, <3>4, <3>5
    <3>7. ~(J < K) /\ ~(K < J)
      BY <3>3, <3>5, <3>6
    <3> QED
      BY <3>4, <3>7, <3>2
  <2> QED
    BY <2>1, <2>2
<1> HIDE DEF n, m
<1> QED
  BY <1>4, <1>5, <1>6

\* An entry of that name, or the place for one.
Spot(R, k, name) ==
    /\ k \in DOMAIN R /\ R[k].name \in {END, DELETED, name}
    /\ \A j \in DOMAIN R : j < k => R[j].name # END
    /\ \A j \in DOMAIN R : R[j].name = name => j = k

\* A name is neither of the marks an entry can bear instead of one.
LEMMA NameIsNoMark == \A n \in Names : n \notin {END, DELETED, DATA}
BY NamesAssumption

\* In a directory that is neat, a lookup finds what there is of a name.
LEMMA NamedIs ==
    ASSUME NEW f, NEW es, NEW D, Neat(f, es, D), NEW dir \in D, NEW name \in Names
    PROVE  Named(f, es, dir, name) = {k \in DOMAIN Row(f, es, dir) : Row(f, es, dir)[k].name = name}
<1> DEFINE R == Row(f, es, dir)
<1>1. f \in Tables /\ EntriesOK(es) /\ dir \in Cluster \cup {Root}
  BY NeatFacts
<1>2. /\ DOMAIN R = DOMAIN Slots(f, dir)
      /\ \A k \in DOMAIN R : R[k] = At(es, Slots(f, dir)[k])
  BY <1>1, RowIs
<1>3. PICK m \in Nat : DOMAIN R = 1..m
  BY <1>1, RowIs
<1>4. Ended(R)
  BY DEF Neat
<1>5. Named(f, es, dir, name) =
      {k \in {k \in DOMAIN Slots(f, dir) : \A j \in 1..(k - 1) : At(es, Slots(f, dir)[j]).name # END} :
          At(es, Slots(f, dir)[k]).name \in {name}}
  BY DEF Named, Having, Scanned
<1> HIDE DEF R
<1>6. \A k \in DOMAIN R : \A j \in 1..(k - 1) : j \in DOMAIN R /\ j < k
  BY <1>3
<1>7. ASSUME NEW k \in DOMAIN R, R[k].name = name, NEW j \in 1..(k - 1) PROVE R[j].name # END
  <2>1. j \in DOMAIN R /\ j < k
    BY <1>6, <1>7
  <2>2. R[k].name # END
    BY <1>7, NameIsNoMark
  <2> QED
    BY <1>4, <2>1, <2>2 DEF Ended
<1>8. \A k : k \in Named(f, es, dir, name) <=> k \in DOMAIN R /\ R[k].name = name
  BY <1>2, <1>5, <1>6, <1>7
<1> QED
  BY <1>8 DEF R

\* dir_lookup stops at the one entry of the name, or there is none.
LEMMA LookupFinds ==
    ASSUME NEW f, NEW es, NEW D, Neat(f, es, D), NEW dir \in D, NEW name \in Names,
           NEW create \in BOOLEAN, NEW l, l = dir_lookup(f, es, dir, name, create)
    PROVE  /\ l.exists \in BOOLEAN
           /\ l.exists => \E k \in DOMAIN Slots(f, dir) :
                /\ Spot(Row(f, es, dir), k, name) /\ Row(f, es, dir)[k].name = name
                /\ l.slot = Slots(f, dir)[k] /\ At(es, l.slot) = Row(f, es, dir)[k]
                /\ Ent(Row(f, es, dir), name) = {Row(f, es, dir)[k]}
           /\ ~l.exists => Ent(Row(f, es, dir), name) = {}
<1> DEFINE R == Row(f, es, dir)
           S == Named(f, es, dir, name)
           k == First(S)
<1>1. f \in Tables /\ EntriesOK(es) /\ dir \in Cluster \cup {Root}
  BY NeatFacts
<1>2. /\ DOMAIN R = DOMAIN Slots(f, dir)
      /\ \A i \in DOMAIN R : R[i] = At(es, Slots(f, dir)[i])
  BY <1>1, RowIs
<1>3. S = {i \in DOMAIN R : R[i].name = name}
  BY NamedIs
<1>4. Ended(R) /\ Single(R)
  BY DEF Neat
<1>5. CASE S = {}
  <2>1. Ent(R, name) = {}
    BY <1>3, <1>5 DEF Ent
  <2>2. \/ l = Found(f, dir, Usable(f, es, dir), FALSE)
        \/ l = Failure(2, f) \/ l = Failure(3, f) \/ l = Grown(f, dir)
    BY <1>5 DEF dir_lookup
  <2>3. l.exists = FALSE
    BY <2>2 DEF Found, Failure, Grown
  <2> QED
    BY <2>1, <2>3
<1>6. CASE S # {}
  <2>1. l = Found(f, dir, S, TRUE)
    BY <1>6 DEF dir_lookup
  <2>2. l.exists = TRUE /\ l.slot = Slots(f, dir)[k]
    BY <2>1 DEF Found
  <2>3. k \in S
    <3>1. S = Having(f, es, dir, {name})
      BY DEF Named
    <3> QED
      BY <1>1, <1>6, <3>1, HavingIs
  <2> HIDE DEF R, S, k
  <2>4. k \in DOMAIN R /\ R[k].name = name /\ R[k].name \in Names
    BY <1>3, <2>3
  <2>5. \A j \in DOMAIN R : R[j].name = name => j = k
    BY <1>4, <2>4 DEF Single
  <2>6. \A j \in DOMAIN R : j < k => R[j].name # END
    BY <1>4, <2>4, NameIsNoMark DEF Ended
  <2>7. Spot(R, k, name)
    BY <2>4, <2>5, <2>6 DEF Spot
  <2>8. Ent(R, name) = {R[k]}
    BY <2>4, <2>5 DEF Ent
  <2>9. At(es, l.slot) = R[k] /\ k \in DOMAIN Slots(f, dir)
    BY <1>2, <2>2, <2>4
  <2> QED
    BY <2>2, <2>4, <2>7, <2>8, <2>9 DEF R
<1> QED
  BY <1>5, <1>6

\* So what it finds is what the directory has of that name.
LEMMA LookupTells ==
    ASSUME NEW f, NEW es, NEW D, Neat(f, es, D), NEW dir \in D, NEW name \in Names,
           NEW create \in BOOLEAN, NEW l, l = dir_lookup(f, es, dir, name, create)
    PROVE  l.exists => Ent(Row(f, es, dir), name) = {At(es, l.slot)}
<1> SUFFICES ASSUME l.exists PROVE Ent(Row(f, es, dir), name) = {At(es, l.slot)}
  OBVIOUS
<1>1. PICK k \in DOMAIN Slots(f, dir) : /\ At(es, l.slot) = Row(f, es, dir)[k]
                                        /\ Ent(Row(f, es, dir), name) = {Row(f, es, dir)[k]}
  BY LookupFinds
<1> QED
  BY <1>1

\* What it finds for a new name, where it need not make the directory larger.
LEMMA LookupMakesRoom ==
    ASSUME NEW f, NEW es, NEW D, Neat(f, es, D), NEW dir \in D, NEW name \in Names,
           NEW create \in BOOLEAN, NEW l, l = dir_lookup(f, es, dir, name, create), ~l.exists, l.r = 0
    PROVE  \/ /\ l = Grown(f, dir) /\ dir # Root /\ Unused(f) # {}
              /\ \A j \in DOMAIN Row(f, es, dir) : Row(f, es, dir)[j].name # END
           \/ /\ l.fat = f /\ l.items = <<>>
              /\ \E k \in DOMAIN Slots(f, dir) :
                    Spot(Row(f, es, dir), k, name) /\ l.slot = Slots(f, dir)[k]
<1> DEFINE R == Row(f, es, dir)
           S == Named(f, es, dir, name)
           T == Usable(f, es, dir)
           k == First(T)
<1>1. f \in Tables /\ EntriesOK(es) /\ dir \in Cluster \cup {Root}
  BY NeatFacts
<1>2. /\ DOMAIN R = DOMAIN Slots(f, dir)
      /\ \A i \in DOMAIN R : R[i] = At(es, Slots(f, dir)[i])
  BY <1>1, RowIs
<1>3. S = {i \in DOMAIN R : R[i].name = name}
  BY NamedIs
<1>4. PICK m \in Nat : DOMAIN R = 1..m
  BY <1>1, RowIs
<1>5. S = {}
  <2> SUFFICES ASSUME S # {} PROVE FALSE
    OBVIOUS
  <2>1. l = Found(f, dir, S, TRUE)
    BY DEF dir_lookup
  <2>2. l.exists = TRUE
    BY <2>1 DEF Found
  <2> QED
    BY <2>2
<1>6. T = {i \in Scanned(f, es, dir) : At(es, Slots(f, dir)[i]).name \in {END, DELETED}}
  BY DEF Usable, Having
<1>7. \A i : i \in Scanned(f, es, dir) <=> i \in DOMAIN R /\ \A j \in 1..(i - 1) : R[j].name # END
  <2>1. \A i \in DOMAIN R : \A j \in 1..(i - 1) : j \in DOMAIN R
    BY <1>4
  <2> QED
    BY <1>2, <2>1 DEF Scanned
<1>8. CASE T # {}
  <2>1. l = Found(f, dir, T, FALSE)
    BY <1>5, <1>8 DEF dir_lookup
  <2>2. l.fat = f /\ l.items = <<>> /\ l.slot = Slots(f, dir)[k]
    BY <2>1 DEF Found
  <2>3. k \in T
    <3>1. T = Having(f, es, dir, {END, DELETED})
      BY DEF Usable
    <3> QED
      BY <1>1, <1>8, <3>1, HavingIs
  <2> HIDE DEF R, S, T, k
  <2>4. k \in DOMAIN R /\ R[k].name \in {END, DELETED} /\ \A j \in 1..(k - 1) : R[j].name # END
    BY <1>2, <1>6, <1>7, <2>3
  <2>5. \A j \in DOMAIN R : j < k => R[j].name # END
    <3> TAKE j \in DOMAIN R
    <3>1. j < k => j \in 1..(k - 1)
      BY <1>4, <2>4
    <3> QED
      BY <2>4, <3>1
  <2>6. \A j \in DOMAIN R : R[j].name # name
    BY <1>3, <1>5
  <2>7. Spot(R, k, name)
    BY <2>4, <2>5, <2>6 DEF Spot
  <2> QED
    BY <1>2, <2>2, <2>4, <2>7 DEF R
<1>9. CASE T = {}
  <2>1. l = Failure(2, f) \/ l = Failure(3, f) \/ (l = Grown(f, dir) /\ dir # Root /\ Unused(f) # {})
    BY <1>5, <1>9 DEF dir_lookup
  <2>2. Failure(2, f).r = 2 /\ Failure(3, f).r = 3
    BY DEF Failure
  <2>3. l = Grown(f, dir) /\ dir # Root /\ Unused(f) # {}
    BY <2>1, <2>2
  <2> HIDE DEF R, S, T, k
  <2>4. ASSUME NEW i \in DOMAIN R, R[i].name = END PROVE FALSE
    <3> DEFINE Q == {j \in DOMAIN R : R[j].name = END}
    <3>1. Q \in SUBSET Nat /\ Q # {}
      BY <1>4, <2>4
    <3>2. PICK j \in Q : \A x \in Q : j <= x
      BY <3>1, LeastNat
    <3>3. \A x \in 1..(j - 1) : R[x].name # END
      <4> TAKE x \in 1..(j - 1)
      <4>1. x \in DOMAIN R /\ ~(j <= x)
        BY <1>4, <3>2
      <4> QED
        BY <3>2, <4>1
    <3>4. j \in Scanned(f, es, dir) /\ At(es, Slots(f, dir)[j]).name = END
      BY <1>2, <1>7, <3>2, <3>3
    <3> QED
      BY <1>6, <1>9, <3>4
  <2> QED
    BY <2>3, <2>4 DEF R
<1> QED
  BY <1>8, <1>9

\* Where one entry of a name leads.
LEMMA SubIs ==
    ASSUME NEW R, NEW n, NEW x, Ent(R, n) = {x}
    PROVE  /\ x.dir => Sub(R, n) = x.first
           /\ ~x.dir => Sub(R, n) = NULL
<1> DEFINE S == Ent(R, n)
           c == CHOOSE y \in S : y.dir
<1>1. x.dir => c \in S
  BY Zenon
<1>2. Sub(R, n) = IF \E y \in S : y.dir THEN c.first ELSE NULL
  BY DEF Sub
<1> HIDE DEF c
<1> QED
  BY <1>1, <1>2

\* The next directory on a path.
LEMMA StepsAre ==
    ASSUME NEW f, NEW es, NEW D, Neat(f, es, D), NEW dir \in D, NEW name \in Names,
           NEW create \in BOOLEAN, NEW l, l = dir_lookup(f, es, dir, name, create)
    PROVE  /\ DirectoryAt(es, l) = Sub(Row(f, es, dir), name)
           /\ Sub(Row(f, es, dir), name) \in D \cup {NULL}
<1> DEFINE R == Row(f, es, dir)
<1>1. f \in Tables /\ EntriesOK(es) /\ D \subseteq Cluster \cup {Root} /\ dir \in Cluster \cup {Root}
  BY NeatFacts
<1>2. CASE l.exists
  <2>1. PICK k \in DOMAIN Slots(f, dir) : At(es, l.slot) = R[k] /\ Ent(R, name) = {R[k]}
    BY <1>2, LookupFinds
  <2>2. /\ R[k].dir => Sub(R, name) = R[k].first
        /\ ~R[k].dir => Sub(R, name) = NULL
    BY <2>1, SubIs
  <2>3. l.slot \in Used(f, es, D)
    BY <1>1, <1>2, FoundIsUsed
  <2>4. At(es, l.slot).dir => At(es, l.slot).first \in D
    BY <2>3, NeatFacts
  <2> DEFINE e == At(es, l.slot)
  <2>5. DirectoryAt(es, l) = IF e.dir THEN e.first ELSE NULL
    BY <1>2 DEF DirectoryAt
  <2>6. e = R[k]
    BY <2>1
  <2> HIDE DEF e
  <2>7. /\ e.dir => Sub(R, name) = e.first
        /\ ~e.dir => Sub(R, name) = NULL
    BY <2>2, <2>6
  <2>8. e.dir => e.first \in D
    BY <2>4 DEF e
  <2> HIDE DEF R
  <2>9. DirectoryAt(es, l) = Sub(R, name) /\ Sub(R, name) \in D \cup {NULL}
    BY <2>5, <2>7, <2>8
  <2> QED
    BY <2>9 DEF R
<1>3. CASE ~l.exists
  <2>1. Ent(R, name) = {}
    BY <1>3, LookupFinds
  <2>2. Sub(R, name) = NULL
    BY <2>1 DEF Sub
  <2> QED
    BY <1>3, <2>2 DEF DirectoryAt
<1> QED
  BY <1>2, <1>3
---------------------------------------------------------------------------
(* The walk along a path.                                                  *)

\* g is what resolve_path passes on the first n names of p.
Visits(f, es, p, g, n) ==
    /\ g[0] = Root
    /\ \A k \in 1..n : g[k] = IF g[k - 1] = NULL THEN NULL ELSE Sub(Row(f, es, g[k - 1]), p[k])

\* No directory has the number that says there is none.
LEMMA NullIsNoBlock == NULL \notin Cluster \cup {Root} /\ Root \notin Cluster
BY Sizes DEF NULL, Cluster, Root

\* A block belongs to one directory.
LEMMA OneDirectory ==
    ASSUME NEW f, NEW es, NEW D, Neat(f, es, D), NEW c \in D, NEW d \in D,
           NEW b, b \in BlockSet(f, c), b \in BlockSet(f, d)
    PROVE  c = d
<1>1. /\ \A h, k \in Heads(f, es, D) : h # k => Chain(f, h) \cap Chain(f, k) = {}
      /\ \A x \in D : x # Root => x \in Heads(f, es, D)
      /\ f \in Tables
  BY NeatFacts
<1>2. \A x : Chain(f, x) \subseteq Cluster
  BY <1>1, ChainIsFinite
<1> QED
  BY <1>1, <1>2, NullIsNoBlock DEF BlockSet

\* The entry that leads to a directory.
LEMMA SubHasEntry ==
    ASSUME NEW f, NEW es, NEW D, Neat(f, es, D), NEW c \in D, NEW n \in Names,
           Sub(Row(f, es, c), n) # NULL
    PROVE  \E s \in Used(f, es, D) :
              /\ s[1] \in BlockSet(f, c) /\ At(es, s).name = n /\ At(es, s).dir
              /\ At(es, s).first = Sub(Row(f, es, c), n)
              /\ At(es, s).first \in D \ {Root}
<1> DEFINE R == Row(f, es, c)
           S == Ent(R, n)
           e == CHOOSE y \in S : y.dir
<1>1. f \in Tables /\ EntriesOK(es) /\ c \in Cluster \cup {Root}
  BY NeatFacts
<1>2. Sub(R, n) = IF \E y \in S : y.dir THEN e.first ELSE NULL
  BY DEF Sub
<1>3. e \in S /\ e.dir /\ Sub(R, n) = e.first
  <2>1. \E y \in S : y.dir
    BY <1>2
  <2>2. e \in S /\ e.dir
    BY <2>1, Zenon
  <2> QED
    BY <1>2, <2>1, <2>2
<1> HIDE DEF e
<1>4. PICK k \in DOMAIN R : R[k].name = n /\ e = R[k]
  BY <1>3 DEF Ent
<1>5. /\ k \in DOMAIN Slots(f, c) /\ R[k] = At(es, Slots(f, c)[k])
      /\ Slots(f, c)[k] \in SlotSet /\ Slots(f, c)[k][1] \in BlockSet(f, c)
  BY <1>1, <1>4, RowIs
<1> DEFINE s == Slots(f, c)[k]
<1>6. s \in SlotSet /\ s[1] \in BlockSet(f, c) /\ At(es, s) = e
  BY <1>4, <1>5
<1> HIDE DEF s, R
<1>7. At(es, s).name = n /\ At(es, s).dir /\ At(es, s).first = Sub(R, n)
  BY <1>3, <1>4, <1>6
<1>8. s \in Used(f, es, D)
  BY <1>6, <1>7 DEF Used
<1>9. At(es, s).first \in D \ {Root}
  BY <1>7, <1>8, NeatFacts
<1> QED
  BY <1>6, <1>7, <1>8, <1>9 DEF R

\* One name of one directory leads to a directory.
LEMMA OneStep ==
    ASSUME NEW f, NEW es, NEW D, Neat(f, es, D), NEW c \in D, NEW d \in D, NEW m \in Names, NEW n \in Names,
           Sub(Row(f, es, c), m) # NULL, Sub(Row(f, es, c), m) = Sub(Row(f, es, d), n)
    PROVE  c = d /\ m = n
<1>1. PICK s \in Used(f, es, D) :
              /\ s[1] \in BlockSet(f, c) /\ At(es, s).name = m
              /\ At(es, s).first = Sub(Row(f, es, c), m)
              /\ At(es, s).first \in D \ {Root}
  BY SubHasEntry
<1>2. PICK t \in Used(f, es, D) :
              /\ t[1] \in BlockSet(f, d) /\ At(es, t).name = n
              /\ At(es, t).first = Sub(Row(f, es, d), n)
  BY SubHasEntry
<1>3. At(es, s).first = At(es, t).first /\ At(es, s).first # 0
  BY <1>1, <1>2 DEF Root
<1>4. s = t
  BY <1>3, NeatFacts
<1>5. c = d
  BY <1>1, <1>2, <1>4, OneDirectory
<1> QED
  BY <1>1, <1>2, <1>4, <1>5

\* A walk stays in the cover.
LEMMA VisitsIn ==
    ASSUME NEW f, NEW es, NEW D, Neat(f, es, D), NEW p \in Seq(Names), NEW n \in 0..Len(p),
           NEW g, Visits(f, es, p, g, n)
    PROVE  \A k \in 0..n : g[k] \in D \cup {NULL}
<1> DEFINE S == {k \in Nat : k <= n => g[k] \in D \cup {NULL}}
<1>0. Len(p) \in Nat /\ n \in Nat /\ n <= Len(p)
  BY LenProperties
<1>1. 0 \in S
  BY NeatFacts DEF Visits
<1>2. \A k \in Nat : k \in S => k + 1 \in S
  <2> SUFFICES ASSUME NEW k \in Nat, k \in S, k + 1 <= n PROVE g[k + 1] \in D \cup {NULL}
    OBVIOUS
  <2>1. k + 1 \in 1..n /\ (k + 1) - 1 = k /\ k + 1 \in 1..Len(p) /\ g[k] \in D \cup {NULL}
    BY <1>0
  <2>2. g[k + 1] = IF g[k] = NULL THEN NULL ELSE Sub(Row(f, es, g[k]), p[k + 1])
    BY <2>1 DEF Visits
  <2>3. p[k + 1] \in Names
    BY <2>1, ElementOfSeq
  <2>4. g[k] # NULL => Sub(Row(f, es, g[k]), p[k + 1]) \in D \cup {NULL}
    BY <2>1, <2>3, StepsAre
  <2> QED
    BY <2>2, <2>4
<1> HIDE DEF S
<1>3. Nat \subseteq S
  BY <1>1, <1>2, NatSetInduction
<1> QED
  BY <1>0, <1>3 DEF S

\* No two ways lead to a directory.
LEMMA OneWay ==
    ASSUME NEW f, NEW es, NEW D, Neat(f, es, D),
           NEW p \in Seq(Names), NEW m \in 0..Len(p), NEW g, Visits(f, es, p, g, m),
           NEW q \in Seq(Names), NEW n \in 0..Len(q), NEW h, Visits(f, es, q, h, n),
           g[m] # NULL, g[m] = h[n]
    PROVE  m = n /\ \A k \in 1..m : p[k] = q[k]
<1>0. /\ Len(p) \in Nat /\ m \in Nat /\ m <= Len(p)
      /\ Len(q) \in Nat /\ n \in Nat /\ n <= Len(q)
  BY LenProperties
<1>1. \A k \in 0..m : g[k] \in D \cup {NULL}
  BY VisitsIn
<1>2. \A k \in 0..n : h[k] \in D \cup {NULL}
  BY VisitsIn
<1>3. g[0] = Root /\ h[0] = Root
  BY DEF Visits
<1>4. ASSUME NEW k \in 1..m, g[k] # NULL
      PROVE  /\ g[k - 1] \in D /\ p[k] \in Names /\ g[k] = Sub(Row(f, es, g[k - 1]), p[k]) /\ g[k] # Root
             /\ k - 1 \in 0..m
  <2>1. k - 1 \in 0..m /\ k \in 1..Len(p)
    BY <1>0
  <2>2. g[k] = IF g[k - 1] = NULL THEN NULL ELSE Sub(Row(f, es, g[k - 1]), p[k])
    BY DEF Visits
  <2>3. p[k] \in Names
    BY <2>1, ElementOfSeq
  <2>4. g[k - 1] \in D /\ g[k] = Sub(Row(f, es, g[k - 1]), p[k])
    BY <1>1, <1>4, <2>1, <2>2
  <2>5. g[k] # Root
    BY <1>4, <2>3, <2>4, SubHasEntry
  <2> QED
    BY <2>1, <2>3, <2>4, <2>5
<1>5. ASSUME NEW k \in 1..n, h[k] # NULL
      PROVE  /\ h[k - 1] \in D /\ q[k] \in Names /\ h[k] = Sub(Row(f, es, h[k - 1]), q[k]) /\ h[k] # Root
             /\ k - 1 \in 0..n
  <2>1. k - 1 \in 0..n /\ k \in 1..Len(q)
    BY <1>0
  <2>2. h[k] = IF h[k - 1] = NULL THEN NULL ELSE Sub(Row(f, es, h[k - 1]), q[k])
    BY DEF Visits
  <2>3. q[k] \in Names
    BY <2>1, ElementOfSeq
  <2>4. h[k - 1] \in D /\ h[k] = Sub(Row(f, es, h[k - 1]), q[k])
    BY <1>2, <1>5, <2>1, <2>2
  <2>5. h[k] # Root
    BY <1>5, <2>3, <2>4, SubHasEntry
  <2> QED
    BY <2>1, <2>3, <2>4, <2>5
<1> DEFINE P(i, j) == (i <= m /\ j <= n /\ g[i] # NULL /\ g[i] = h[j]) => i = j /\ \A k \in 1..i : p[k] = q[k]
           S == {i \in Nat : \A j \in Nat : P(i, j)}
<1>6. 0 \in S
  <2> SUFFICES ASSUME NEW j \in Nat, j <= n, g[0] = h[j] PROVE 0 = j /\ \A k \in 1..0 : p[k] = q[k]
    OBVIOUS
  <2>1. j \in 1..n => h[j] # Root
    BY <1>5, NullIsNoBlock, <1>3
  <2>2. j = 0
    BY <2>1, <1>3
  <2> QED
    BY <2>2
<1>7. \A i \in Nat : i \in S => i + 1 \in S
  <2> SUFFICES ASSUME NEW i \in Nat, i \in S, NEW j \in Nat PROVE P(i + 1, j)
    <3> HIDE DEF P
    <3> QED
      OBVIOUS
  <2>0. \A x \in Nat : P(i, x)
    OBVIOUS
  <2> SUFFICES ASSUME i + 1 <= m, j <= n, g[i + 1] # NULL, g[i + 1] = h[j]
               PROVE  i + 1 = j /\ \A k \in 1..(i + 1) : p[k] = q[k]
    OBVIOUS
  <2>1. i + 1 \in 1..m /\ (i + 1) - 1 = i
    BY <1>0
  <2>2. g[i] \in D /\ p[i + 1] \in Names /\ g[i + 1] = Sub(Row(f, es, g[i]), p[i + 1]) /\ g[i + 1] # Root
    BY <1>4, <2>1
  <2> HIDE DEF S
  <2>3. j \in 1..n
    <3>1. j # 0
      BY <1>3, <2>2
    <3> HIDE DEF P
    <3> QED
      BY <1>0, <3>1
  <2>4. h[j - 1] \in D /\ q[j] \in Names /\ h[j] = Sub(Row(f, es, h[j - 1]), q[j])
    BY <1>5, <2>3
  <2>5. g[i] = h[j - 1] /\ p[i + 1] = q[j]
    <3> DEFINE c == g[i]
               d == h[j - 1]
               a == p[i + 1]
               b == q[j]
    <3>1. c \in D /\ d \in D /\ a \in Names /\ b \in Names
      BY <2>2, <2>4
    <3>2. Sub(Row(f, es, c), a) # NULL /\ Sub(Row(f, es, c), a) = Sub(Row(f, es, d), b)
      BY <2>2, <2>4
    <3> HIDE DEF c, d, a, b
    <3>3. c = d /\ a = b
      BY <3>1, <3>2, OneStep
    <3> QED
      BY <3>3 DEF c, d, a, b
  <2>6. P(i, j - 1) /\ j - 1 \in Nat /\ g[i] # NULL
    <3>1. j - 1 \in Nat
      BY <2>3
    <3>2. g[i] # NULL
      BY <2>2, NeatFacts, NullIsNoBlock
    <3> HIDE DEF P
    <3> QED
      BY <2>0, <3>1, <3>2
  <2>7. i = j - 1 /\ \A k \in 1..i : p[k] = q[k]
    <3>1. i <= m /\ j - 1 <= n
      BY <1>0, <2>3
    <3> QED
      BY <2>5, <2>6, <3>1
  <2> HIDE DEF P
  <2>8. \A k \in 1..(i + 1) : k \in 1..i \/ k = i + 1
    OBVIOUS
  <2>9. i + 1 = j
    BY <2>3, <2>7
  <2> QED
    BY <2>5, <2>7, <2>8, <2>9
<1> HIDE DEF S
<1>8. Nat \subseteq S
  BY <1>6, <1>7, NatSetInduction
<1>9. P(m, n)
  BY <1>0, <1>8 DEF S
<1> QED
  BY <1>0, <1>9

\* Every path has such a walk.
LEMMA WalkExists ==
    ASSUME NEW f, NEW es, NEW D, Neat(f, es, D), NEW p \in Seq(Names)
    PROVE  \E g : Visits(f, es, p, g, Len(p))
<1> DEFINE Q == D \cup {NULL}
           n == Len(p)
           A == [k \in 0..n |-> Q]
           Nx(k, x) == IF x = NULL THEN NULL ELSE Sub(Row(f, es, x), p[k])
           step == [k \in 1..n |-> [x \in Q |-> Nx(k, x)]]
<1>1. n \in Nat
  BY LenProperties
<1>2. Root \in A[0]
  BY <1>1, NeatFacts
<1>3. \A k \in 1..n : \A x \in Q : Nx(k, x) \in Q
  <2> TAKE k \in 1..n
  <2> TAKE x \in Q
  <2>1. p[k] \in Names
    BY ElementOfSeq
  <2>2. x # NULL => Sub(Row(f, es, x), p[k]) \in Q
    BY <2>1, StepsAre
  <2> QED
    BY <2>2
<1> HIDE DEF Nx, n
<1>4. \A k \in 1..n : \A x \in A[k - 1] : step[k][x] \in A[k]
  <2> TAKE k \in 1..n
  <2> TAKE x \in A[k - 1]
  <2>1. k - 1 \in 0..n /\ k \in 0..n
    BY <1>1
  <2>2. x \in Q
    BY <2>1
  <2>3. step[k][x] = Nx(k, x)
    BY <2>2
  <2> QED
    BY <1>3, <2>1, <2>2, <2>3
<1> HIDE DEF step
<1>5. PICK g : IsHistory(g, n, Root, step) /\ \A k \in 0..n : g[k] \in A[k]
  <2> HIDE DEF A
  <2> QED
    BY <1>1, <1>2, <1>4, Iteration
<1>6. g = [k \in 0..n |-> IF k = 0 THEN Root ELSE step[k][g[k - 1]]]
  BY <1>5 DEF IsHistory
<1>7. g[0] = Root
  BY <1>1, <1>6
<1>8. ASSUME NEW k \in 1..n PROVE g[k] = Nx(k, g[k - 1])
  <2>1. k - 1 \in 0..n /\ k \in 0..n /\ k # 0
    BY <1>1
  <2>2. g[k - 1] \in Q
    BY <1>5, <2>1
  <2>3. g[k] = step[k][g[k - 1]]
    BY <1>6, <2>1
  <2> QED
    BY <2>2, <2>3 DEF step
<1> QED
  BY <1>7, <1>8 DEF Visits, Nx, n

\* resolve_path goes that way.
LEMMA ResolveVisits ==
    ASSUME NEW f, NEW es, NEW D, Neat(f, es, D), NEW p \in Seq(Names), p # <<>>,
           NEW g, Visits(f, es, p, g, Len(p) - 1)
    PROVE  /\ Len(p) \in Nat \ {0} /\ NameOf(p) \in Names
           /\ resolve_path(f, es, p) = g[Len(p) - 1]
           /\ resolve_path(f, es, p) \in D \cup {NULL}
<1> DEFINE n == Len(p) - 1
           Nx(k, x) == IF x = NULL THEN NULL ELSE DirectoryAt(es, dir_lookup(f, es, x, p[k], FALSE))
           G(h) == [k \in 0..n |-> IF k = 0 THEN Root ELSE Nx(k, h[k - 1])]
           w == [k \in 0..n |-> g[k]]
           cur == CHOOSE h : h = G(h)
<1>1. Len(p) \in Nat \ {0} /\ NameOf(p) \in Names /\ n \in Nat /\ n \in 0..Len(p)
  BY EmptySeq, LenProperties, ElementOfSeq DEF NameOf
<1>2. \A k \in 0..n : g[k] \in D \cup {NULL}
  BY <1>1, VisitsIn
<1>3. resolve_path(f, es, p) = cur[n]
  BY DEF resolve_path
<1>4. ASSUME NEW k \in 1..n PROVE g[k] = Nx(k, g[k - 1])
  <2>1. k - 1 \in 0..n /\ k \in 1..Len(p)
    BY <1>1
  <2>2. p[k] \in Names
    BY <2>1, ElementOfSeq
  <2>3. g[k] = IF g[k - 1] = NULL THEN NULL ELSE Sub(Row(f, es, g[k - 1]), p[k])
    BY DEF Visits
  <2>4. ASSUME g[k - 1] # NULL
        PROVE  Sub(Row(f, es, g[k - 1]), p[k]) = DirectoryAt(es, dir_lookup(f, es, g[k - 1], p[k], FALSE))
    <3> DEFINE d == g[k - 1]
               no == FALSE
               l == dir_lookup(f, es, d, p[k], no)
    <3>1. d \in D
      BY <1>2, <2>1, <2>4
    <3>2. no \in BOOLEAN
      OBVIOUS
    <3> HIDE DEF no, d, l
    <3>3. l = dir_lookup(f, es, d, p[k], no)
      BY DEF l
    <3>4. DirectoryAt(es, l) = Sub(Row(f, es, d), p[k])
      BY <2>2, <3>1, <3>2, <3>3, StepsAre
    <3> QED
      BY <3>4 DEF d, l, no
  <2> QED
    BY <2>3, <2>4
<1>5. g[0] = Root
  BY DEF Visits
<1> HIDE DEF Nx, n
<1>6. w = G(w)
  <2>1. \A k \in 0..n : k # 0 => k \in 1..n /\ k - 1 \in 0..n
    BY <1>1
  <2>2. \A k \in 0..n : w[k] = IF k = 0 THEN Root ELSE Nx(k, w[k - 1])
    BY <1>4, <1>5, <2>1
  <2> QED
    BY <2>2
<1>7. cur = G(cur)
  <2> HIDE DEF G, w
  <2> QED
    BY <1>6, Zenon
<1> HIDE DEF cur
<1>8. \A k \in 0..n : cur[k] = IF k = 0 THEN Root ELSE Nx(k, cur[k - 1])
  BY <1>7
<1> HIDE DEF G
<1> DEFINE S == {k \in Nat : k <= n => cur[k] = g[k]}
<1>9. 0 \in S
  BY <1>1, <1>5, <1>8
<1>10. \A k \in Nat : k \in S => k + 1 \in S
  <2> SUFFICES ASSUME NEW k \in Nat, k \in S, k + 1 <= n PROVE cur[k + 1] = g[k + 1]
    OBVIOUS
  <2>1. k + 1 \in 0..n /\ k + 1 \in 1..n /\ k + 1 # 0 /\ (k + 1) - 1 = k /\ cur[k] = g[k]
    BY <1>1
  <2>2. cur[k + 1] = Nx(k + 1, cur[k])
    BY <1>8, <2>1
  <2>3. g[k + 1] = Nx(k + 1, g[k])
    BY <1>4, <2>1
  <2> QED
    BY <2>1, <2>2, <2>3
<1> HIDE DEF S
<1>11. Nat \subseteq S
  BY <1>9, <1>10, NatSetInduction
<1>12. cur[n] = g[n]
  BY <1>1, <1>11 DEF S
<1>13. g[n] \in D \cup {NULL}
  BY <1>1, <1>2
<1> QED
  BY <1>1, <1>3, <1>12, <1>13 DEF n

\* What is at a path.
Stat(f, es, p) ==
    IF p = <<>> THEN {Entry("/", TRUE, Root, 0)}
    ELSE IF resolve_path(f, es, p) = NULL THEN {}
    ELSE Ent(Row(f, es, resolve_path(f, es, p)), NameOf(p))

\* What fat_stat and a lookup for it return.
Looked(f, es, p) ==
    {At(es, l.slot) : l \in {l \in {dir_lookup(f, es, dir, NameOf(p), FALSE) :
                                       dir \in {resolve_path(f, es, p)} \ {NULL}} : l.exists}}

\* What stat's lookup finds is what the directory at the end of the walk has.
LEMMA LookedIs ==
    ASSUME NEW f, NEW es, NEW D, Neat(f, es, D), NEW p \in Seq(Names), p # <<>>
    PROVE  Looked(f, es, p) = Stat(f, es, p)
<1> DEFINE dir == resolve_path(f, es, p)
           name == NameOf(p)
           no == FALSE
           l == dir_lookup(f, es, dir, name, no)
<1>1. PICK g : Visits(f, es, p, g, Len(p))
  BY WalkExists
<1>2. Visits(f, es, p, g, Len(p) - 1)
  <2>1. Len(p) \in Nat
    BY LenProperties
  <2>2. \A k \in 1..(Len(p) - 1) : k \in 1..Len(p)
    BY <2>1
  <2> QED
    BY <1>1, <2>2 DEF Visits
<1>3. name \in Names /\ dir \in D \cup {NULL}
  BY <1>2, ResolveVisits
<1>4. Looked(f, es, p) = {At(es, x.slot) : x \in {x \in {dir_lookup(f, es, d, name, no) : d \in {dir} \ {NULL}} : x.exists}}
  BY DEF Looked
<1>5. no \in BOOLEAN
  OBVIOUS
<1>6. Stat(f, es, p) = IF dir = NULL THEN {} ELSE Ent(Row(f, es, dir), name)
  BY DEF Stat
<1> HIDE DEF dir, name, no
<1>7. CASE dir = NULL
  BY <1>4, <1>6, <1>7
<1>8. CASE dir # NULL
  <2>1. dir \in D
    BY <1>3, <1>8
  <2>2. {dir_lookup(f, es, d, name, no) : d \in {dir} \ {NULL}} = {l}
    BY <1>8
  <2>0. l = dir_lookup(f, es, dir, name, no)
    OBVIOUS
  <2> HIDE DEF l
  <2>3. Looked(f, es, p) = {At(es, x.slot) : x \in {x \in {l} : x.exists}}
    BY <1>4, <2>2
  <2>4. CASE l.exists
    <3>1. Looked(f, es, p) = {At(es, l.slot)}
      BY <2>3, <2>4
    <3>2. Ent(Row(f, es, dir), name) = {At(es, l.slot)}
      BY <1>3, <1>5, <2>0, <2>1, <2>4, LookupTells
    <3> QED
      BY <1>6, <1>8, <3>1, <3>2
  <2>5. CASE ~l.exists
    <3>1. Ent(Row(f, es, dir), name) = {}
      BY <1>3, <1>5, <2>0, <2>1, <2>5, LookupFinds
    <3> QED
      BY <1>6, <1>8, <2>3, <2>5, <3>1
  <2> QED
    BY <2>4, <2>5
<1> QED
  BY <1>7, <1>8

\* What fat_stat returns, before and after a step.
LEMMA StatIs ==
    ASSUME NEW D, Neat(fat, disk.entries, D), NEW p \in Seq(Names)
    PROVE  fat_stat(p) = Stat(fat, disk.entries, p)
<1>1. p # <<>> => fat_stat(p) = Looked(fat, disk.entries, p)
  BY DEF fat_stat, Lookup, Looked
<1>2. p # <<>> => Looked(fat, disk.entries, p) = Stat(fat, disk.entries, p)
  BY LookedIs
<1>3. p = <<>> => fat_stat(p) = Stat(fat, disk.entries, p)
  BY DEF fat_stat, Stat
<1> QED
  BY <1>1, <1>2, <1>3

\* The same of the next state.
LEMMA StatIsThen ==
    ASSUME NEW D, Neat(fat', disk'.entries, D), NEW p \in Seq(Names)
    PROVE  fat_stat(p)' = Stat(fat', disk'.entries, p)
<1>1. p # <<>> => fat_stat(p)' = Looked(fat', disk'.entries, p)
  BY DEF fat_stat, Lookup, Looked
<1>2. p # <<>> => Looked(fat', disk'.entries, p) = Stat(fat', disk'.entries, p)
  <2> DEFINE f == fat'
             es == disk'.entries
  <2>1. Neat(f, es, D)
    OBVIOUS
  <2> HIDE DEF f, es
  <2>2. p # <<>> => Looked(f, es, p) = Stat(f, es, p)
    BY <2>1, LookedIs
  <2> QED
    BY <2>2 DEF f, es
<1>3. p = <<>> => fat_stat(p)' = Stat(fat', disk'.entries, p)
  BY DEF fat_stat, Stat
<1> QED
  BY <1>1, <1>2, <1>3
---------------------------------------------------------------------------
(* A change of one name of one directory.                                  *)

\* The second entry leads to c, as that of a directory does to its parent.
Points(R, c) == 2 \in DOMAIN R /\ R[2].name = ".." /\ R[2].first = c

\* Two states of a directory with the same names in the same slots.
SameNames(R, R2) == DOMAIN R2 = DOMAIN R /\ \A j \in DOMAIN R : R2[j].name = R[j].name

\* The entries of that name in dir become E; all else is as it was, and what is
\* new is empty.
Edits(f, es, D, F, es2, D2, dir, name, E) ==
    /\ Neat(f, es, D) /\ Neat(F, es2, D2) /\ dir \in D /\ name \in Names
    /\ \A d \in D \cap D2 : d # dir => Row(F, es2, d) = Row(f, es, d)
    /\ dir \in D2 =>
          /\ \A n \in Names \ {name} : Ent(Row(F, es2, dir), n) = Ent(Row(f, es, dir), n)
          /\ Ent(Row(F, es2, dir), name) = E
          /\ Ent(Row(f, es, dir), name) # {} /\ E # {} => SameNames(Row(f, es, dir), Row(F, es2, dir))
          /\ \A c : Points(Row(f, es, dir), c) => Points(Row(F, es2, dir), c)
    /\ \A d \in D2 \ D : \A n \in Names : Ent(Row(F, es2, d), n) = {}

\* q leads to or through what is at p.
Under(p, q) == Len(p) <= Len(q) /\ \A k \in 1..Len(p) : q[k] = p[k]

\* Outside of p up to its k-th name.
Aside(p, q, k) == k < Len(p) \/ \E i \in 1..Len(p) : q[i] # p[i]

\* A walk that does not go through p sees the entries it saw.
LEMMA EntKept ==
    ASSUME NEW f, NEW es, NEW D, NEW F, NEW es2, NEW D2, NEW dir, NEW name, NEW E,
           Edits(f, es, D, F, es2, D2, dir, name, E),
           NEW p \in Seq(Names), p # <<>>, resolve_path(f, es, p) = dir, NameOf(p) = name,
           NEW q \in Seq(Names), NEW g, Visits(f, es, q, g, Len(q)),
           NEW k \in 1..Len(q), Aside(p, q, k), g[k - 1] \in D2, g[k - 1] # NULL
    PROVE  Ent(Row(F, es2, g[k - 1]), q[k]) = Ent(Row(f, es, g[k - 1]), q[k])
<1> DEFINE d == g[k - 1]
           m == Len(p) - 1
<1>1. Neat(f, es, D) /\ dir \in D
  BY DEF Edits
<1>2. Len(q) \in Nat /\ k - 1 \in 0..Len(q) /\ q[k] \in Names
  BY LenProperties, ElementOfSeq
<1>3. d \in D
  BY <1>1, <1>2, VisitsIn
<1>4. CASE d # dir
  BY <1>3, <1>4 DEF Edits
<1>5. CASE d = dir
  <2>1. PICK h : Visits(f, es, p, h, Len(p))
    BY <1>1, WalkExists
  <2>2. Len(p) \in Nat \ {0}
    BY EmptySeq, LenProperties
  <2>3. m \in 0..Len(p) /\ \A i \in 1..m : i \in 1..Len(p)
    BY <2>2
  <2>4. Visits(f, es, p, h, m)
    BY <2>1, <2>3 DEF Visits
  <2>5. h[m] = dir
    BY <1>1, <2>4, ResolveVisits
  <2>6. \A i \in 1..(k - 1) : i \in 1..Len(q)
    BY <1>2
  <2>7. Visits(f, es, q, g, k - 1)
    BY <2>6 DEF Visits
  <2> DEFINE j == k - 1
  <2>8. j \in 0..Len(q) /\ Visits(f, es, q, g, j) /\ h[m] = g[j] /\ h[m] # NULL
    BY <1>2, <1>5, <2>5, <2>7
  <2> HIDE DEF m, j, d
  <2>9. m = j /\ \A i \in 1..m : p[i] = q[i]
    BY <1>1, <2>3, <2>4, <2>8, OneWay
  <2>10. Len(p) = k
    BY <1>2, <2>2, <2>9 DEF m, j
  <2>11. PICK i \in 1..Len(p) : q[i] # p[i]
    BY <1>2, <2>10 DEF Aside
  <2>12. i \in 1..m \/ i = k
    BY <2>2, <2>10, <2>11 DEF m
  <2>13. q[k] # name
    BY <2>9, <2>10, <2>11, <2>12 DEF NameOf
  <2>14. dir \in D2
    BY <1>5 DEF d
  <2> QED
    BY <1>2, <1>5, <2>13, <2>14 DEF Edits, d
<1> QED
  BY <1>4, <1>5

\* It goes where it went.
LEMMA WalkKept ==
    ASSUME NEW f, NEW es, NEW D, NEW F, NEW es2, NEW D2, NEW dir, NEW name, NEW E,
           Edits(f, es, D, F, es2, D2, dir, name, E),
           NEW p \in Seq(Names), p # <<>>, resolve_path(f, es, p) = dir, NameOf(p) = name,
           NEW q \in Seq(Names), NEW g, Visits(f, es, q, g, Len(q)),
           NEW h, Visits(F, es2, q, h, Len(q))
    PROVE  \A k \in 0..Len(q) : Aside(p, q, k) => h[k] = g[k]
<1> DEFINE S == {k \in Nat : k <= Len(q) /\ Aside(p, q, k) => h[k] = g[k]}
<1>0. Len(q) \in Nat /\ Len(p) \in Nat
  BY LenProperties
<1>1. 0 \in S
  BY DEF Visits
<1>2. \A k \in Nat : k \in S => k + 1 \in S
  <2> SUFFICES ASSUME NEW k \in Nat, k \in S, k + 1 <= Len(q), Aside(p, q, k + 1) PROVE h[k + 1] = g[k + 1]
    OBVIOUS
  <2> DEFINE j == k + 1
  <2>1. j \in 1..Len(q) /\ j - 1 = k /\ k <= Len(q) /\ Aside(p, q, k)
    BY <1>0 DEF Aside
  <2>2. h[k] = g[k]
    BY <2>1
  <2>3. /\ g[j] = IF g[k] = NULL THEN NULL ELSE Sub(Row(f, es, g[k]), q[j])
        /\ h[j] = IF h[k] = NULL THEN NULL ELSE Sub(Row(F, es2, h[k]), q[j])
    <3> HIDE DEF j
    <3> QED
      BY <2>1 DEF Visits
  <2>4. g[k] # NULL => g[k] \in D2
    <3>1. Neat(F, es2, D2)
      BY DEF Edits
    <3>2. Len(q) \in 0..Len(q) /\ k \in 0..Len(q)
      BY <1>0, <2>1
    <3>3. h[k] \in D2 \cup {NULL}
      BY <3>1, <3>2, VisitsIn
    <3> QED
      BY <2>2, <3>3
  <2>5. ASSUME g[k] # NULL PROVE Ent(Row(F, es2, g[k]), q[j]) = Ent(Row(f, es, g[k]), q[j])
    <3>1. g[j - 1] \in D2 /\ g[j - 1] # NULL /\ Aside(p, q, j) /\ g[j - 1] = g[k]
      BY <2>1, <2>4, <2>5
    <3>2. j \in 1..Len(q)
      BY <2>1
    <3> HIDE DEF j
    <3>3. Ent(Row(F, es2, g[j - 1]), q[j]) = Ent(Row(f, es, g[j - 1]), q[j])
      BY <3>1, <3>2, EntKept
    <3> QED
      BY <3>1, <3>3
  <2> HIDE DEF j, S
  <2>6. h[j] = g[j]
    BY <2>2, <2>3, <2>5 DEF Sub
  <2> QED
    BY <2>6 DEF j
<1> HIDE DEF S
<1>3. Nat \subseteq S
  BY <1>1, <1>2, NatSetInduction
<1> QED
  BY <1>0, <1>3 DEF S

\* The first steps of a walk are a walk.
LEMMA VisitsLess ==
    ASSUME NEW f, NEW es, NEW p \in Seq(Names), NEW g, Visits(f, es, p, g, Len(p)),
           NEW n \in 0..Len(p)
    PROVE  Visits(f, es, p, g, n)
<1>1. \A k \in 1..n : k \in 1..Len(p)
  BY LenProperties
<1> QED
  BY <1>1 DEF Visits

\* What is not at or below p stays, and at p is what has been put there.
LEMMA StatEdited ==
    ASSUME NEW f, NEW es, NEW D, NEW F, NEW es2, NEW D2, NEW dir, NEW name, NEW E,
           Edits(f, es, D, F, es2, D2, dir, name, E),
           NEW p \in Seq(Names), p # <<>>, resolve_path(f, es, p) = dir, NameOf(p) = name,
           NEW q \in Seq(Names)
    PROVE  /\ ~Under(p, q) => /\ Stat(F, es2, q) = Stat(f, es, q)
                              /\ q # <<>> => resolve_path(F, es2, q) = resolve_path(f, es, q)
           /\ Stat(F, es2, p) = E /\ dir \in D2 /\ resolve_path(F, es2, p) = dir
<1>1. Neat(f, es, D) /\ Neat(F, es2, D2) /\ dir \in D
  BY DEF Edits
<1>2. ASSUME q # <<>>, ~Under(p, q)
      PROVE  resolve_path(F, es2, q) = resolve_path(f, es, q) /\ Stat(F, es2, q) = Stat(f, es, q)
  <2> DEFINE n == Len(q)
             m == n - 1
  <2>0. n \in Nat \ {0} /\ Len(p) \in Nat
    BY <1>2, EmptySeq, LenProperties
  <2>1. PICK g : Visits(f, es, q, g, Len(q))
    BY <1>1, WalkExists
  <2>2. PICK h : Visits(F, es2, q, h, Len(q))
    BY <1>1, WalkExists
  <2>3. m \in 0..Len(q) /\ n \in 0..Len(q) /\ n \in 1..Len(q) /\ n - 1 = m
    BY <2>0
  <2>4. Aside(p, q, m) /\ Aside(p, q, n)
    BY <1>2, <2>0 DEF Aside, Under
  <2>5. h[m] = g[m]
    BY <2>1, <2>2, <2>3, <2>4, WalkKept
  <2>6. Visits(f, es, q, g, m) /\ Visits(F, es2, q, h, m)
    BY <2>1, <2>2, <2>3, VisitsLess
  <2>7. resolve_path(f, es, q) = g[m]
    BY <1>1, <1>2, <2>6, ResolveVisits
  <2>8. resolve_path(F, es2, q) = h[m]
    BY <1>1, <1>2, <2>6, ResolveVisits
  <2>9. h[m] \in D2 \cup {NULL}
    BY <1>1, <2>2, <2>3, VisitsIn
  <2> HIDE DEF n, m
  <2>10. ASSUME g[m] # NULL PROVE Ent(Row(F, es2, g[m]), q[n]) = Ent(Row(f, es, g[m]), q[n])
    <3>1. g[n - 1] \in D2 /\ g[n - 1] # NULL
      BY <2>3, <2>5, <2>9, <2>10
    <3>2. Ent(Row(F, es2, g[n - 1]), q[n]) = Ent(Row(f, es, g[n - 1]), q[n])
      BY <2>1, <2>3, <2>4, <3>1, EntKept
    <3> QED
      BY <2>3, <3>2
  <2> QED
    BY <1>2, <2>5, <2>7, <2>8, <2>10 DEF Stat, NameOf, n
<1>3. Stat(F, es2, p) = E /\ dir \in D2 /\ resolve_path(F, es2, p) = dir
  <2> DEFINE m == Len(p) - 1
  <2>0. Len(p) \in Nat \ {0}
    BY EmptySeq, LenProperties
  <2>1. PICK g : Visits(f, es, p, g, Len(p))
    BY <1>1, WalkExists
  <2>2. PICK h : Visits(F, es2, p, h, Len(p))
    BY <1>1, WalkExists
  <2>3. m \in 0..Len(p) /\ Aside(p, p, m) /\ Len(p) \in 0..Len(p)
    BY <2>0 DEF Aside
  <2>5. h[m] = g[m]
    BY <2>1, <2>2, <2>3, WalkKept
  <2>6. Visits(f, es, p, g, m) /\ Visits(F, es2, p, h, m)
    BY <2>1, <2>2, <2>3, VisitsLess
  <2>7. dir = g[m]
    BY <1>1, <2>6, ResolveVisits
  <2>8. resolve_path(F, es2, p) = h[m]
    BY <1>1, <2>6, ResolveVisits
  <2>9. h[m] \in D2 \cup {NULL}
    BY <1>1, <2>2, <2>3, VisitsIn
  <2>10. dir # NULL /\ dir \in D2
    <3>1. dir # NULL
      BY <1>1, NeatFacts, NullIsNoBlock
    <3> QED
      BY <2>5, <2>7, <2>9, <3>1
  <2>11. Ent(Row(F, es2, dir), name) = E
    BY <2>10 DEF Edits
  <2> HIDE DEF m
  <2> QED
    BY <2>5, <2>7, <2>8, <2>10, <2>11 DEF Stat
<1> QED
  <2>1. q = <<>> => Stat(F, es2, q) = Stat(f, es, q)
    BY DEF Stat
  <2> QED
    BY <1>2, <1>3, <2>1
---------------------------------------------------------------------------
(* How a change of one slot changes the rows.                              *)

\* A chain of clusters that the table still links alike has the same slots.
LEMMA SlotsSame ==
    ASSUME NEW f \in Tables, NEW g \in Tables, NEW d, \A c \in BlockSet(f, d) : c = Root \/ g[c] = f[c]
    PROVE  Slots(g, d) = Slots(f, d) /\ BlockSet(g, d) = BlockSet(f, d)
<1>1. CASE d = Root
  BY <1>1 DEF Slots, BlockSet
<1>2. CASE d # Root
  <2>1. Chain(f, d) \subseteq Cluster
    BY ChainIsFinite
  <2>2. \A c \in Chain(f, d) : g[c] = f[c]
    BY <1>2, <2>1, NullIsNoBlock DEF BlockSet
  <2>3. /\ \A k \in 0..MaxCluster : ChainWalk(g, d)[k] = ChainWalk(f, d)[k]
        /\ Chain(g, d) = Chain(f, d)
    BY <2>2, ChainAgree
  <2>4. \A k \in 1..Cardinality(Chain(f, d)) : k - 1 \in 0..MaxCluster
    <3>1. Cardinality(Chain(f, d)) \in 0..(MaxCluster - 1)
      BY ChainIsFinite
    <3> QED
      BY <3>1, Sizes
  <2>5. ChainSeq(g, d) = ChainSeq(f, d)
    BY <2>3, <2>4 DEF ChainSeq
  <2> QED
    BY <1>2, <2>3, <2>5 DEF Slots, BlockSet
<1> QED
  BY <1>1, <1>2

\* The slot k of dir gets the entry e, in place of one whose chain may be freed or
\* changed with free clusters; what those held may be overwritten.
Chained(f, e) == IF e.name \in Names THEN Chain(f, e.first) ELSE {}

\* From a well-formed disk, slot k of dir now holds e; else only clusters of the entry
\* that was there, and free ones, have changed.
Acts(f, es, D, dir, k, e, F, es2) ==
    /\ Neat(f, es, D) /\ dir \in D /\ k \in DOMAIN Slots(f, dir)
    /\ F \in Tables /\ EntriesOK(es2)
    /\ LET s == Slots(f, dir)[k]
           old == At(es, s)
           K == Chained(f, old) \cup Unused(f)
       IN  /\ \A c \in Cluster : F[c] = f[c] \/ c \in K
           /\ \A t \in SlotSet : t # s /\ t[1] \notin K => At(es2, t) = At(es, t)
           /\ At(es2, s) = e
           /\ old.name \in Names /\ old.dir => old.first # dir
           /\ old.name \in Names /\ old.dir => e.name \notin Names \/ ~e.dir

\* The directories that stay.
Staying(es, D, s) == IF At(es, s).name \in Names /\ At(es, s).dir THEN D \ {At(es, s).first} ELSE D

\* Of the directories that stay, only dir shows it.
LEMMA RowsAfter ==
    ASSUME NEW f, NEW es, NEW D, NEW dir, NEW k, NEW e, NEW F, NEW es2,
           Acts(f, es, D, dir, k, e, F, es2),
           NEW d \in Staying(es, D, Slots(f, dir)[k])
    PROVE  /\ Slots(F, d) = Slots(f, d)
           /\ Row(F, es2, d) = IF d = dir THEN [Row(f, es, dir) EXCEPT ![k] = e] ELSE Row(f, es, d)
<1> DEFINE s == Slots(f, dir)[k]
           old == At(es, s)
           K == Chained(f, old) \cup Unused(f)
<1>1. /\ Neat(f, es, D) /\ dir \in D /\ k \in DOMAIN Slots(f, dir)
      /\ F \in Tables /\ EntriesOK(es2)
      /\ \A c \in Cluster : F[c] = f[c] \/ c \in K
      /\ \A t \in SlotSet : t # s /\ t[1] \notin K => At(es2, t) = At(es, t)
      /\ At(es2, s) = e
  BY DEF Acts
<1>2. /\ f \in Tables /\ EntriesOK(es) /\ Root \in D /\ D \subseteq Cluster \cup {Root}
      /\ \A t \in Used(f, es, D) : At(es, t).first \in D \ {Root} <=> At(es, t).dir
      /\ \A h, i \in Heads(f, es, D) : h # i => Chain(f, h) \cap Chain(f, i) = {}
      /\ \A x \in D : x # Root => x \in Cluster /\ x \in Heads(f, es, D) /\ Proper(f, x)
  BY <1>1, NeatFacts
<1>3. d \in D /\ d \in Cluster \cup {Root} /\ (old.name \in Names /\ old.dir => d # old.first)
  BY <1>2 DEF Staying
<1>4. s \in SlotSet /\ s[1] \in BlockSet(f, dir)
  BY <1>1, <1>2, RowIs
<1>5. Chained(f, old) \subseteq Cluster /\ Unused(f) \subseteq Cluster
  BY <1>2, ChainIsFinite DEF Chained, Unused
<1>6. BlockSet(f, d) \cap K = {}
  <2>1. CASE d = Root
    BY <1>5, <2>1, NullIsNoBlock DEF BlockSet
  <2>2. CASE d # Root
    <3>1. d \in Heads(f, es, D) /\ Proper(f, d) /\ BlockSet(f, d) = Chain(f, d)
      BY <1>2, <1>3, <2>2 DEF BlockSet
    <3>2. Chain(f, d) \cap Unused(f) = {}
      BY <3>1 DEF Proper, Unused
    <3>3. Chain(f, d) \cap Chained(f, old) = {}
      <4>1. CASE old.name \in Names
        <5>1. s \in Used(f, es, D)
          BY <1>1, <1>4, <4>1 DEF Used
        <5>2. old.first \in Heads(f, es, D)
          BY <5>1 DEF Heads
        <5>3. old.first # d
          BY <1>2, <1>3, <2>2, <4>1, <5>1
        <5> QED
          BY <1>2, <3>1, <4>1, <5>2, <5>3 DEF Chained
      <4>2. CASE old.name \notin Names
        BY <4>2 DEF Chained
      <4> QED
        BY <4>1, <4>2
    <3> QED
      BY <3>1, <3>2, <3>3
  <2> QED
    BY <2>1, <2>2
<1>7. Slots(F, d) = Slots(f, d)
  <2>1. BlockSet(f, d) \subseteq Cluster \cup {Root}
    BY <1>2, BlocksAreClusters
  <2>2. \A c \in BlockSet(f, d) : c = Root \/ F[c] = f[c]
    BY <1>1, <1>6, <2>1
  <2> QED
    BY <1>1, <1>2, <2>2, SlotsSame
<1> DEFINE R == Row(f, es, d)
<1>8. /\ DOMAIN R = DOMAIN Slots(f, d)
      /\ \A j \in DOMAIN R : /\ R[j] = At(es, Slots(f, d)[j])
                             /\ Slots(f, d)[j] \in SlotSet /\ Slots(f, d)[j][1] \in BlockSet(f, d)
  BY <1>2, <1>3, RowIs
<1>9. \A j \in DOMAIN R : Slots(f, d)[j] # s => At(es2, Slots(f, d)[j]) = R[j]
  BY <1>1, <1>6, <1>8
<1>10. \A j \in DOMAIN R : Slots(f, d)[j] = s <=> d = dir /\ j = k
  <2> SUFFICES ASSUME NEW j \in DOMAIN R, Slots(f, d)[j] = s PROVE d = dir /\ j = k
    OBVIOUS
  <2>1. d = dir
    BY <1>1, <1>3, <1>4, <1>8, OneDirectory
  <2>2. j \in DOMAIN Slots(f, dir) /\ Slots(f, dir)[j] = Slots(f, dir)[k]
    BY <1>8, <2>1
  <2>3. dir \in Cluster \cup {Root} /\ (dir # Root => Proper(f, dir))
    BY <1>1, <1>2
  <2>4. j = k
    BY <1>1, <1>2, <2>2, <2>3, SlotsDiffer
  <2> QED
    BY <2>1, <2>4
<1>11. Row(F, es2, d) = [j \in DOMAIN R |-> At(es2, Slots(f, d)[j])]
  BY <1>7, <1>8 DEF Row
<1> HIDE DEF s, K, old
<1>12. CASE d = dir
  <2>1. R = [j \in DOMAIN R |-> R[j]] /\ k \in DOMAIN R
    BY <1>1, <1>8, <1>12 DEF Row
  <2>2. \A j \in DOMAIN R : At(es2, Slots(f, d)[j]) = IF j = k THEN e ELSE R[j]
    BY <1>1, <1>9, <1>10, <1>12
  <2>3. Row(F, es2, d) = [R EXCEPT ![k] = e]
    <3> HIDE DEF R
    <3> QED
      BY <1>11, <2>1, <2>2
  <2> QED
    BY <1>7, <1>12, <2>3
<1>13. CASE d # dir
  <2>1. R = [j \in DOMAIN R |-> R[j]]
    BY DEF Row
  <2>2. \A j \in DOMAIN R : At(es2, Slots(f, d)[j]) = R[j]
    BY <1>9, <1>10, <1>13
  <2>3. Row(F, es2, d) = R
    <3> HIDE DEF R
    <3> QED
      BY <1>11, <2>1, <2>2
  <2> QED
    BY <1>7, <1>13, <2>3
<1> QED
  BY <1>12, <1>13

---------------------------------------------------------------------------
(* Directories.  An edit, and what makes one.                              *)

\* A set that the entries of its directories do not lead out of has all directories.
Inside(f, es, E) ==
    /\ Root \in E /\ E \subseteq Cluster \cup {Root}
    /\ \A d \in E : \A k \in DOMAIN Row(f, es, d) :
          Row(f, es, d)[k].name \in Names /\ Row(f, es, d)[k].dir => Row(f, es, d)[k].first \in E

\* By induction on the depth of the directories.
LEMMA DirsWithin ==
    ASSUME NEW f \in Tables, NEW es, EntriesOK(es), NEW E, Inside(f, es, E)
    PROVE  Dirs(f, es) \subseteq E
<1> DEFINE N == MaxCluster
<1>0. N \in Nat
  BY Sizes
<1>1. PICK g : /\ Dirs(f, es) = g[N] /\ g[0] = {Root}
               /\ \A k \in 1..N : g[k] = Below(f, es, g[k - 1])
  BY DirsAre
<1>2. \A A \in SUBSET E : Below(f, es, A) \in SUBSET E
  <2> TAKE A \in SUBSET E
  <2>1. ASSUME NEW s \in Live(f, es, A), At(es, s).dir PROVE At(es, s).first \in E
    <3>1. PICK d \in A \cap (Cluster \cup {Root}) : s \in {Slots(f, d)[k] : k \in DOMAIN Slots(f, d)}
      BY DEF Live, AllSlots
    <3>2. PICK k \in DOMAIN Slots(f, d) : s = Slots(f, d)[k]
      BY <3>1
    <3>3. At(es, s).name \in Names
      BY DEF Live
    <3>4. k \in DOMAIN Row(f, es, d) /\ Row(f, es, d)[k] = At(es, s)
      BY <3>2 DEF Row
    <3> QED
      BY <2>1, <3>1, <3>3, <3>4 DEF Inside
  <2> QED
    BY <2>1 DEF Below
<1> DEFINE S == {k \in Nat : k <= N => g[k] \in SUBSET E}
<1>3. 0 \in S
  BY <1>1 DEF Inside
<1>4. \A k \in Nat : k \in S => k + 1 \in S
  <2> SUFFICES ASSUME NEW k \in Nat, k \in S, k + 1 <= N PROVE g[k + 1] \in SUBSET E
    OBVIOUS
  <2>1. k + 1 \in 1..N /\ (k + 1) - 1 = k /\ g[k] \in SUBSET E
    BY <1>0
  <2>2. g[k + 1] = Below(f, es, g[k])
    BY <1>1, <2>1
  <2> QED
    BY <1>2, <2>1, <2>2
<1> HIDE DEF S, N
<1>5. Nat \subseteq S
  BY <1>3, <1>4, NatSetInduction
<1>6. g[N] \in SUBSET E
  BY <1>0, <1>5 DEF S
<1> QED
  BY <1>1, <1>6

\* An entry for that name, or none, in the place for it.
Fitting(R, k, name, e) == Spot(R, k, name) /\ e.name \in {name, DELETED, R[k].name}

\* Putting e in slot k changes what R has of name, and of no other.
Tidied(R, k, name, e, R2) ==
    /\ Ended(R2) /\ Single(R2)
    /\ \A n \in Names \ {name} : Ent(R2, n) = Ent(R, n)
    /\ Ent(R2, name) = IF e.name = name THEN {e} ELSE {}
    /\ Ent(R, name) = IF R[k].name = name THEN {R[k]} ELSE {}
    /\ R[k].name = e.name => SameNames(R, R2)
    /\ \A c : Points(R, c) => Points(R2, c)

\* It does, when name is what slot k is for.
LEMMA PutTidy ==
    ASSUME NEW R, NEW m \in Nat, DOMAIN R = 1..m, NEW k, NEW name \in Names, NEW e, Fitting(R, k, name, e),
           Ended(R), Single(R), NEW R2, R2 = [R EXCEPT ![k] = e]
    PROVE  Tidied(R, k, name, e, R2)
<1>1. /\ k \in 1..m /\ R[k].name \in {END, DELETED, name} /\ e.name \in {END, DELETED, name}
      /\ e.name = END => R[k].name = END
      /\ \A j \in 1..m : j < k => R[j].name # END
      /\ \A j \in 1..m : R[j].name = name => j = k
  BY NameIsNoMark DEF Fitting, Spot, END, DELETED
<1>2. DOMAIN R2 = 1..m /\ \A j \in 1..m : R2[j] = IF j = k THEN e ELSE R[j]
  BY <1>1
<1>3. name \notin {END, DELETED} /\ END \notin Names /\ DELETED \notin Names
  BY NameIsNoMark
<1>4. Ended(R2)
  <2> SUFFICES ASSUME NEW i \in 1..m, NEW j \in 1..m, i < j, R2[i].name = END PROVE R2[j].name = END
    BY <1>2 DEF Ended
  <2>1. CASE i = k
    <3>1. R[i].name = END /\ j # k
      BY <1>1, <1>2, <2>1
    <3> QED
      BY <1>2, <2>1, <3>1 DEF Ended
  <2>2. CASE i # k
    <3>1. R[i].name = END /\ ~(i < k)
      BY <1>1, <1>2, <2>2
    <3>2. j # k
      BY <2>2, <3>1
    <3> QED
      BY <1>2, <3>1, <3>2 DEF Ended
  <2> QED
    BY <2>1, <2>2
<1>5. Single(R2)
  <2> SUFFICES ASSUME NEW i \in 1..m, NEW j \in 1..m, R2[i].name \in Names, R2[i].name = R2[j].name PROVE i = j
    BY <1>2 DEF Single
  <2>1. CASE i = k /\ j # k
    <3>1. e.name = name
      BY <1>1, <1>2, <1>3, <2>1
    <3> QED
      BY <1>1, <1>2, <2>1, <3>1
  <2>2. CASE j = k /\ i # k
    <3>1. e.name = name
      BY <1>1, <1>2, <1>3, <2>2
    <3> QED
      BY <1>1, <1>2, <2>2, <3>1
  <2>3. CASE i # k /\ j # k
    BY <1>2, <2>3 DEF Single
  <2> QED
    BY <2>1, <2>2, <2>3
<1>6. ASSUME NEW n \in Names \ {name} PROVE Ent(R2, n) = Ent(R, n)
  <2>1. {j \in DOMAIN R2 : R2[j].name = n} = {j \in DOMAIN R : R[j].name = n}
    BY <1>1, <1>2, <1>3
  <2>2. \A j \in {j \in DOMAIN R : R[j].name = n} : R2[j] = R[j]
    BY <1>1, <1>2, <1>3
  <2> QED
    BY <2>1, <2>2 DEF Ent
<1>7. Ent(R2, name) = IF e.name = name THEN {e} ELSE {}
  <2>1. {j \in DOMAIN R2 : R2[j].name = name} = IF e.name = name THEN {k} ELSE {}
    BY <1>1, <1>2
  <2>2. R2[k] = e
    BY <1>1, <1>2
  <2> QED
    BY <2>1, <2>2 DEF Ent
<1>8. Ent(R, name) = IF R[k].name = name THEN {R[k]} ELSE {}
  <2>1. {j \in DOMAIN R : R[j].name = name} = IF R[k].name = name THEN {k} ELSE {}
    BY <1>1
  <2> QED
    BY <2>1 DEF Ent
<1>9. R[k].name = e.name => SameNames(R, R2)
  BY <1>2 DEF SameNames
<1>10. ASSUME NEW c, Points(R, c) PROVE Points(R2, c)
  <2>1. 2 \in 1..m /\ R[2].name = ".." /\ R[2].first = c
    BY <1>10 DEF Points
  <2>2. ".." \notin {END, DELETED, name}
    BY NamesAssumption DEF END, DELETED
  <2>3. 2 # k
    BY <1>1, <2>1, <2>2
  <2>4. R2[2] = R[2]
    BY <1>2, <2>1, <2>3
  <2> QED
    BY <1>2, <2>1, <2>4 DEF Points
<1> QED
  BY <1>4, <1>5, <1>6, <1>7, <1>8, <1>9, <1>10 DEF Tidied

\* A slot belongs to one directory, at one place.
LEMMA SlotOnce ==
    ASSUME NEW f, NEW es, NEW D, Neat(f, es, D), NEW c \in D, NEW d \in D,
           NEW j \in DOMAIN Slots(f, c), NEW k \in DOMAIN Slots(f, d), Slots(f, c)[j] = Slots(f, d)[k]
    PROVE  c = d /\ j = k
<1>1. /\ f \in Tables /\ EntriesOK(es) /\ c \in Cluster \cup {Root} /\ d \in Cluster \cup {Root}
      /\ d # Root => Proper(f, d)
  BY NeatFacts
<1>2. Slots(f, c)[j][1] \in BlockSet(f, c) /\ Slots(f, d)[k][1] \in BlockSet(f, d)
  BY <1>1, RowIs
<1>3. c = d
  BY <1>2, OneDirectory
<1>4. j \in DOMAIN Slots(f, d) /\ Slots(f, d)[j] = Slots(f, d)[k]
  BY <1>3
<1>5. j = k
  BY <1>1, <1>4, SlotsDiffer
<1> QED
  BY <1>3, <1>5

\* A slot with a name is in use, and a directory it leads to is another than the root.
LEMMA RowUsed ==
    ASSUME NEW f, NEW es, NEW D, Neat(f, es, D), NEW d \in D, NEW j \in DOMAIN Slots(f, d),
           Row(f, es, d)[j].name \in Names
    PROVE  /\ Slots(f, d)[j] \in Used(f, es, D) /\ Row(f, es, d)[j] = At(es, Slots(f, d)[j])
           /\ Row(f, es, d)[j].dir => Row(f, es, d)[j].first \in D \ {Root}
<1>1. /\ f \in Tables /\ EntriesOK(es) /\ d \in Cluster \cup {Root}
      /\ \A s \in Used(f, es, D) : At(es, s).first \in D \ {Root} <=> At(es, s).dir
  BY NeatFacts
<1>2. /\ Row(f, es, d)[j] = At(es, Slots(f, d)[j])
      /\ Slots(f, d)[j] \in SlotSet /\ Slots(f, d)[j][1] \in BlockSet(f, d)
  BY <1>1, RowIs
<1>3. Slots(f, d)[j] \in Used(f, es, D)
  BY <1>2 DEF Used
<1> QED
  BY <1>1, <1>2, <1>3

\* Where no directory was, e makes an empty one.
Fresh(f, F, es2, e) ==
    e.name \in Names /\ e.dir =>
       /\ e.first \in Unused(f)
       /\ Ended(Row(F, es2, e.first))
       /\ \A i \in DOMAIN Row(F, es2, e.first) : Row(F, es2, e.first)[i].name \notin Names

\* The directory that an entry adds.
Coming(e) == IF e.name \in Names /\ e.dir THEN {e.first} ELSE {}

\* A free cluster is no directory.
LEMMA NoRoom ==
    ASSUME NEW f, NEW es, NEW D, Neat(f, es, D), NEW c \in Unused(f)
    PROVE  c \notin D /\ c \in Cluster
<1>1. c \in Cluster /\ f[c] = FAT12_FREE
  BY DEF Unused
<1>2. f \in Tables /\ \A d \in D : d # Root => Proper(f, d)
  BY NeatFacts
<1>3. c # Root /\ c \in Chain(f, c)
  BY <1>1, <1>2, HeadInChain, NullIsNoBlock
<1> QED
  BY <1>1, <1>2, <1>3 DEF Proper

\* The directories that stay, with that one, are all there are.
LEMMA ActsClose ==
    ASSUME NEW f, NEW es, NEW D, NEW dir, NEW k, NEW e, NEW F, NEW es2,
           Acts(f, es, D, dir, k, e, F, es2), Fresh(f, F, es2, e)
    PROVE  Inside(F, es2, Staying(es, D, Slots(f, dir)[k]) \cup Coming(e))
<1> DEFINE s == Slots(f, dir)[k]
           old == At(es, s)
           T == Staying(es, D, s)
           C == Coming(e)
<1>1. /\ Neat(f, es, D) /\ dir \in D /\ k \in DOMAIN Slots(f, dir)
  BY DEF Acts
<1>2. /\ f \in Tables /\ EntriesOK(es) /\ Root \in D /\ D \subseteq Cluster \cup {Root}
      /\ \A t, u \in Used(f, es, D) : t # u /\ At(es, t).first = At(es, u).first => At(es, t).first = 0
  BY <1>1, NeatFacts
<1>3. \A d \in T : /\ Slots(F, d) = Slots(f, d)
                   /\ Row(F, es2, d) = IF d = dir THEN [Row(f, es, dir) EXCEPT ![k] = e] ELSE Row(f, es, d)
  BY RowsAfter
<1>4. old.name \in Names /\ old.dir => s \in Used(f, es, D) /\ old.first \in D \ {Root}
  <2>1. Row(f, es, dir)[k] = old
    BY <1>1, <1>2, RowIs
  <2> QED
    BY <1>1, <2>1, RowUsed
<1>5. Root \in T /\ T \subseteq D
  BY <1>2, <1>4 DEF Staying
<1>6. C \subseteq Cluster
  BY DEF Coming, Fresh, Unused
<1>7. ASSUME NEW d \in T, NEW j \in DOMAIN Row(F, es2, d),
             Row(F, es2, d)[j].name \in Names, Row(F, es2, d)[j].dir
      PROVE  Row(F, es2, d)[j].first \in T \cup C
  <2>1. DOMAIN Row(f, es, d) = DOMAIN Slots(f, d) /\ DOMAIN Row(f, es, dir) = DOMAIN Slots(f, dir)
    BY DEF Row
  <2>2. j \in DOMAIN Slots(f, d)
    BY <1>3, <1>7 DEF Row
  <2>3. CASE d = dir /\ j = k
    <3>1. Row(F, es2, d)[j] = e
      BY <1>1, <1>3, <2>1, <2>3
    <3> QED
      BY <1>7, <3>1 DEF Coming
  <2>4. CASE ~(d = dir /\ j = k)
    <3>1. Row(F, es2, d)[j] = Row(f, es, d)[j]
      BY <1>1, <1>3, <2>1, <2>2, <2>4
    <3> DEFINE t == Slots(f, d)[j]
    <3>2. t \in Used(f, es, D) /\ Row(f, es, d)[j] = At(es, t) /\ At(es, t).first \in D \ {Root}
      BY <1>1, <1>5, <1>7, <2>2, <3>1, RowUsed
    <3>3. t # s
      BY <1>1, <1>5, <2>2, <2>4, SlotOnce
    <3> HIDE DEF t, s
    <3>4. old.name \in Names /\ old.dir => At(es, t).first # old.first
      BY <1>2, <1>4, <3>2, <3>3 DEF Root
    <3> QED
      BY <3>1, <3>2, <3>4 DEF Staying
  <2> QED
    BY <2>3, <2>4
<1>8. ASSUME NEW d \in C, NEW j \in DOMAIN Row(F, es2, d)
      PROVE  Row(F, es2, d)[j].name \notin Names
  BY DEF Coming, Fresh
<1> HIDE DEF T, C
<1>9. Inside(F, es2, T \cup C)
  BY <1>2, <1>5, <1>6, <1>7, <1>8 DEF Inside
<1> QED
  BY <1>9 DEF T, C

\* The one changed slot is an edit of the tree.
LEMMA EditIs ==
    ASSUME NEW f, NEW es, NEW D, NEW dir, NEW k, NEW e, NEW F, NEW es2,
           Acts(f, es, D, dir, k, e, F, es2), Fresh(f, F, es2, e), Sound(F, es2),
           NEW name \in Names, Fitting(Row(f, es, dir), k, name, e)
    PROVE  Edits(f, es, D, F, es2, Dirs(F, es2), dir, name, IF e.name = name THEN {e} ELSE {})
<1> DEFINE s == Slots(f, dir)[k]
           T == Staying(es, D, s)
           C == Coming(e)
           E == IF e.name = name THEN {e} ELSE {}
           R == Row(f, es, dir)
           D2 == Dirs(F, es2)
<1>1. /\ Neat(f, es, D) /\ dir \in D /\ k \in DOMAIN Slots(f, dir) /\ F \in Tables /\ EntriesOK(es2)
      /\ At(es, s).name \in Names /\ At(es, s).dir => At(es, s).first # dir
  BY DEF Acts
<1>2. f \in Tables /\ EntriesOK(es) /\ dir \in Cluster \cup {Root}
  BY <1>1, NeatFacts
<1>3. D2 \subseteq T \cup C
  BY <1>1, ActsClose, DirsWithin
<1>4. C \cap D = {} /\ T \subseteq D /\ dir \in T
  BY <1>1, NoRoom DEF Staying, Coming, Fresh
<1>5. \A d \in T : Row(F, es2, d) = IF d = dir THEN [R EXCEPT ![k] = e] ELSE Row(f, es, d)
  BY RowsAfter
<1>6. PICK m \in Nat : DOMAIN R = 1..m
  BY <1>2, RowIs
<1>7. \A d \in D : Ended(Row(f, es, d)) /\ Single(Row(f, es, d))
  BY <1>1 DEF Neat
<1>8. Fitting(R, k, name, e) /\ Row(F, es2, dir) = [R EXCEPT ![k] = e]
  BY <1>4, <1>5
<1> HIDE DEF R
<1>9. /\ Ended(Row(F, es2, dir)) /\ Single(Row(F, es2, dir))
      /\ \A n \in Names \ {name} : Ent(Row(F, es2, dir), n) = Ent(R, n)
      /\ Ent(Row(F, es2, dir), name) = E
      /\ Ent(R, name) = IF R[k].name = name THEN {R[k]} ELSE {}
      /\ R[k].name = e.name => SameNames(R, Row(F, es2, dir))
      /\ \A c : Points(R, c) => Points(Row(F, es2, dir), c)
  <2>1. Ended(R) /\ Single(R)
    BY <1>1, <1>7 DEF R
  <2>2. Tidied(R, k, name, e, Row(F, es2, dir))
    BY <1>6, <1>8, <2>1, PutTidy
  <2> QED
    BY <2>2 DEF Tidied
<1> HIDE DEF E
<1>10. Ent(R, name) # {} /\ E # {} => SameNames(R, Row(F, es2, dir))
  BY <1>9 DEF E
<1>11. \A d \in C : /\ Ended(Row(F, es2, d))
                    /\ \A i \in DOMAIN Row(F, es2, d) : Row(F, es2, d)[i].name \notin Names
  BY DEF Coming, Fresh
<1> HIDE DEF T, C, D2
<1>12. \A d \in C : Single(Row(F, es2, d)) /\ \A n \in Names : Ent(Row(F, es2, d), n) = {}
  BY <1>11 DEF Single, Ent
<1>13. \A d \in D2 : Ended(Row(F, es2, d)) /\ Single(Row(F, es2, d))
  BY <1>3, <1>4, <1>5, <1>7, <1>9, <1>11, <1>12
<1>14. Good(F, es2, D2, "loose")
  BY <1>1, SoundIsGood DEF D2
<1>15. Neat(F, es2, D2)
  BY <1>13, <1>14 DEF Neat
<1>16. \A d \in D \cap D2 : d # dir => Row(F, es2, d) = Row(f, es, d)
  BY <1>3, <1>4, <1>5
<1>17. \A d \in D2 \ D : \A n \in Names : Ent(Row(F, es2, d), n) = {}
  BY <1>3, <1>4, <1>12
<1>18. Edits(f, es, D, F, es2, D2, dir, name, E)
  BY <1>1, <1>9, <1>10, <1>15, <1>16, <1>17 DEF Edits, R
<1> QED
  BY <1>18 DEF E, D2

\* What is at the end of a path does not lead back.
LEMMA NotItsOwn ==
    ASSUME NEW f, NEW es, NEW D, Neat(f, es, D), NEW p \in Seq(Names), p # <<>>,
           NEW dir \in D, resolve_path(f, es, p) = dir,
           NEW k \in DOMAIN Slots(f, dir), NEW x, x = At(es, Slots(f, dir)[k]), x.name = NameOf(p), x.dir
    PROVE  x.first # dir
<1> DEFINE n == Len(p)
           m == n - 1
           R == Row(f, es, dir)
<1>1. n \in Nat \ {0} /\ p[n] \in Names
  BY EmptySeq, LenProperties, ElementOfSeq
<1>2. PICK g : Visits(f, es, p, g, Len(p))
  BY WalkExists
<1>3. m \in 0..Len(p) /\ n \in 0..Len(p) /\ n \in 1..Len(p) /\ n - 1 = m /\ m # n
  BY <1>1
<1>4. Visits(f, es, p, g, m) /\ Visits(f, es, p, g, n)
  BY <1>2, <1>3, VisitsLess
<1>5. g[m] = dir
  BY <1>4, ResolveVisits
<1>6. dir # NULL /\ dir \in Cluster \cup {Root} /\ f \in Tables /\ EntriesOK(es)
  BY NeatFacts, NullIsNoBlock
<1>7. R[k] = x /\ k \in DOMAIN R /\ x.name = p[n]
  BY <1>6, RowIs DEF NameOf
<1>8. x.first \in D \ {Root}
  BY <1>1, <1>7, RowUsed
<1>9. Ent(R, p[n]) = {x}
  <2>1. \A j \in DOMAIN R : R[j].name = p[n] => j = k
    BY <1>1, <1>7 DEF Neat, Single
  <2> HIDE DEF R
  <2> QED
    BY <1>7, <2>1 DEF Ent
<1>10. g[n] = x.first
  <2>1. Sub(R, p[n]) = x.first
    BY <1>9, SubIs
  <2> QED
    BY <1>2, <1>3, <1>5, <1>6, <2>1 DEF Visits
<1> HIDE DEF n, m, R
<1>11. ASSUME x.first = dir PROVE FALSE
  BY <1>3, <1>4, <1>5, <1>6, <1>10, <1>11, OneWay
<1> QED
  BY <1>11

\* A directory that grows keeps its slots and gets those of one cluster more.
Longer(S, T, n, m) ==
    /\ DOMAIN S = 1..m /\ DOMAIN T = 1..(m + DirEntries)
    /\ \A j \in 1..m : T[j] = S[j]
    /\ \A j \in (m + 1)..(m + DirEntries) : T[j] = <<n, j - m>>

\* Where its chain gets another cluster: the slots it had and the new ones.
LEMMA LongerSlots ==
    ASSUME NEW f \in Tables, NEW g \in Tables, NEW d \in Cluster, Proper(f, d),
           NEW n \in Cluster, f[n] = FAT12_FREE,
           NEW x, x = ChainWalk(f, d)[Cardinality(Chain(f, d)) - 1],
           g[x] = n, g[n] = FAT12_EOC,
           \A y \in Chain(f, d) : y # x => g[y] = f[y]
    PROVE  \E m \in Nat : Longer(Slots(f, d), Slots(g, d), n, m)
<1> DEFINE m == Cardinality(Chain(f, d))
           v == ChainSeq(f, d)
           w == ChainSeq(g, d)
           N == DirEntries
<1>1. m \in Nat \ {0} /\ N \in Nat \ {0}
  BY LastHasMark, Sizes
<1>2. Cardinality(Chain(g, d)) = m + 1 /\ ChainWalk(g, d)[m] = n
  BY Extended
<1>3. /\ Len(v) = m /\ Len(w) = m + 1
      /\ \A i \in 1..m : v[i] = ChainWalk(f, d)[i - 1]
      /\ \A i \in 1..(m + 1) : w[i] = ChainWalk(g, d)[i - 1]
  BY <1>2, ChainSeqIs
<1>4. \A k \in 0..(m - 1) : ChainWalk(g, d)[k] = ChainWalk(f, d)[k]
  BY LongerWalk
<1> HIDE DEF m, v, w
<1>5. (\A i \in 1..m : w[i] = v[i]) /\ w[m + 1] = n
  <2>1. \A i \in 1..m : i \in 1..(m + 1) /\ i - 1 \in 0..(m - 1)
    BY <1>1
  <2>2. m + 1 \in 1..(m + 1) /\ (m + 1) - 1 = m
    BY <1>1
  <2> QED
    BY <1>2, <1>3, <1>4, <2>1, <2>2
<1>6. BlocksOf(f, d) = v /\ BlocksOf(g, d) = w /\ InBlock(d) = N /\ d \in Cluster \cup {Root}
  BY NullIsNoBlock DEF BlocksOf, InBlock, v, w
<1>7. /\ DOMAIN Slots(f, d) = 1..(N * m) /\ DOMAIN Slots(g, d) = 1..(N * (m + 1))
      /\ \A k \in 1..(N * m) : Slots(f, d)[k] = <<v[1 + (k - 1) \div N], 1 + ((k - 1) % N)>>
      /\ \A k \in 1..(N * (m + 1)) : Slots(g, d)[k] = <<w[1 + (k - 1) \div N], 1 + ((k - 1) % N)>>
  <2>1. /\ DOMAIN Slots(f, d) = 1..(InBlock(d) * Len(BlocksOf(f, d)))
        /\ DOMAIN Slots(g, d) = 1..(InBlock(d) * Len(BlocksOf(g, d)))
        /\ \A k \in 1..(InBlock(d) * Len(BlocksOf(f, d))) :
              Slots(f, d)[k] = <<BlocksOf(f, d)[1 + (k - 1) \div InBlock(d)], 1 + ((k - 1) % InBlock(d))>>
        /\ \A k \in 1..(InBlock(d) * Len(BlocksOf(g, d))) :
              Slots(g, d)[k] = <<BlocksOf(g, d)[1 + (k - 1) \div InBlock(d)], 1 + ((k - 1) % InBlock(d))>>
    BY <1>6, SlotsAre
  <2> HIDE DEF N
  <2> QED
    BY <1>3, <1>6, <2>1
<1> HIDE DEF N
<1>8. N * (m + 1) = N * m + N /\ N * m \in Nat
  BY <1>1
<1>9. ASSUME NEW j \in 1..(N * m) PROVE Slots(g, d)[j] = Slots(f, d)[j]
  <2>1. j \in 1..(N * (m + 1))
    BY <1>1, <1>8
  <2>2. 1 + (j - 1) \div N \in 1..m
    BY <1>1, Places
  <2> QED
    BY <1>5, <1>7, <2>1, <2>2
<1>10. ASSUME NEW j \in (N * m + 1)..(N * m + N) PROVE Slots(g, d)[j] = <<n, j - N * m>>
  <2> DEFINE q == (j - 1) \div N
             r == (j - 1) % N
  <2>1. j \in 1..(N * (m + 1)) /\ m + 1 \in Nat
    BY <1>1, <1>8
  <2>2. q \in 0..((m + 1) - 1) /\ 1 + r \in 1..N /\ j = N * q + (1 + r)
    BY <1>1, <2>1, Places
  <2>3. Slots(g, d)[j] = <<w[1 + q], 1 + r>>
    BY <1>7, <2>1
  <2> HIDE DEF q, r
  <2>4. q = m
    <3> SUFFICES ASSUME q <= m - 1 PROVE FALSE
      BY <1>1, <2>2
    <3>1. N * q <= N * (m - 1)
      BY <1>1, <2>2
    <3>2. N * (m - 1) = N * m - N
      BY <1>1
    <3> QED
      BY <1>1, <1>8, <2>2, <3>1, <3>2
  <2>5. 1 + r = j - N * m
    BY <1>1, <1>8, <2>2, <2>4
  <2>6. 1 + q = m + 1
    BY <1>1, <2>4
  <2> QED
    BY <1>5, <2>3, <2>5, <2>6
<1>11. Longer(Slots(f, d), Slots(g, d), n, N * m)
  BY <1>7, <1>8, <1>9, <1>10 DEF Longer, N
<1> QED
  BY <1>8, <1>11

\* The row of a directory that has grown.
Sprouted(R, T, m) ==
    /\ Ended(T) /\ Single(T)
    /\ \A n \in Names : Ent(T, n) = Ent(R, n)
    /\ \A n \in Names : Ent(R, n) = {} => Spot(T, m + 1, n)

\* A full directory with empty slots appended is still well formed.
LEMMA LongerRow ==
    ASSUME NEW R, NEW T, NEW m \in Nat, NEW l \in Nat \ {0}, DOMAIN R = 1..m, DOMAIN T = 1..(m + l),
           \A j \in 1..m : T[j] = R[j] /\ R[j].name # END,
           \A j \in (m + 1)..(m + l) : T[j].name = END,
           Single(R)
    PROVE  Sprouted(R, T, m)
<1>1. \A j \in 1..(m + l) : j \in 1..m \/ j \in (m + 1)..(m + l)
  OBVIOUS
<1>2. END \notin Names
  BY NameIsNoMark
<1>3. \A j \in 1..(m + l) : T[j].name = END <=> m < j
  BY <1>1
<1>4. Ended(T)
  BY <1>3 DEF Ended
<1>5. \A j \in 1..(m + l) : T[j].name \in Names => j \in 1..m /\ T[j] = R[j]
  BY <1>1, <1>2
<1>6. Single(T)
  BY <1>5 DEF Single
<1>7. ASSUME NEW n \in Names PROVE Ent(T, n) = Ent(R, n)
  <2>1. {j \in DOMAIN T : T[j].name = n} = {j \in DOMAIN R : R[j].name = n}
    BY <1>5
  <2>2. \A j \in {j \in DOMAIN R : R[j].name = n} : T[j] = R[j]
    OBVIOUS
  <2> QED
    BY <2>1, <2>2 DEF Ent
<1>8. ASSUME NEW n \in Names, Ent(R, n) = {} PROVE Spot(T, m + 1, n)
  <2>1. m + 1 \in 1..(m + l) /\ T[m + 1].name = END
    OBVIOUS
  <2>2. \A j \in 1..(m + l) : j < m + 1 => T[j].name # END
    BY <1>1
  <2>3. \A j \in 1..(m + l) : T[j].name # n
    BY <1>5, <1>8 DEF Ent
  <2> QED
    BY <2>1, <2>2, <2>3 DEF Spot
<1> QED
  BY <1>4, <1>6, <1>7, <1>8 DEF Sprouted

\* The place a lookup has found for a name, or the entry, once its own writes are
\* done; nothing else has changed.
Ready(f, es, D, dir, name, g, es1, s, k) ==
    /\ Neat(f, es, D) /\ Neat(g, es1, D) /\ dir \in D /\ name \in Names
    /\ k \in DOMAIN Slots(g, dir) /\ Slots(g, dir)[k] = s /\ Spot(Row(g, es1, dir), k, name)
    /\ \A d \in D : d # dir => Row(g, es1, d) = Row(f, es, d)
    /\ \A n \in Names : Ent(Row(g, es1, dir), n) = Ent(Row(f, es, dir), n)
    /\ Ent(Row(f, es, dir), name) # {} => g = f /\ es1 = es
    /\ \A c : Points(Row(f, es, dir), c) => Points(Row(g, es1, dir), c)

\* A full directory grows, and its first new slot is ready for the name.
LEMMA GrowthIsReady ==
    ASSUME NEW f, NEW es, NEW D, Neat(f, es, D), NEW dir \in D \ {Root}, NEW name \in Names, Unused(f) # {},
           \A j \in DOMAIN Row(f, es, dir) : Row(f, es, dir)[j].name # END,
           Ent(Row(f, es, dir), name) = {},
           NEW n, n = NewCluster(f), NEW g, g = Grown(f, dir).fat, NEW es1, es1 = Zeroed(es, n, EmptyDir)
    PROVE  \E k : Ready(f, es, D, dir, name, g, es1, <<n, 1>>, k)
<1> DEFINE m == Cardinality(Chain(f, dir))
           x == ChainWalk(f, dir)[m - 1]
<1>1. /\ f \in Tables /\ EntriesOK(es) /\ D \subseteq Cluster \cup {Root} /\ Good(f, es, D, "loose")
      /\ \A h, k \in Heads(f, es, D) : h # k => Chain(f, h) \cap Chain(f, k) = {}
      /\ \A d \in D : d # Root => d \in Cluster /\ d \in Heads(f, es, D) /\ Proper(f, d)
  BY NeatFacts
<1>2. dir \in Cluster /\ Proper(f, dir)
  BY <1>1
<1>3. /\ n \in Cluster /\ f[n] = FAT12_FREE /\ n \in Unused(f)
      /\ Allocate(f) \in Tables /\ \A c \in Cluster : Allocate(f)[c] = IF c = n THEN FAT12_EOC ELSE f[c]
  BY <1>1, AllocateIs DEF Unused
<1>4. m \in 1..(MaxCluster - 1) /\ x \in Chain(f, dir) /\ x \in Cluster /\ f[x] = FAT12_EOC
  BY <1>1, <1>2, LastHasMark, ChainIsFinite
<1>5. ChainSeq(f, dir)[m] = x
  <2>1. m \in 1..m
    BY <1>4
  <2> QED
    BY <1>1, <2>1, ChainSeqIs
<1> HIDE DEF x, m
<1>6. g \in Tables /\ g = [Allocate(f) EXCEPT ![x] = n]
  BY <1>1, <1>2, <1>5, GrownIs DEF m
<1>7. n \notin Chain(f, dir)
  BY <1>2, <1>3 DEF Proper
<1>8. x # n /\ g[x] = n /\ g[n] = FAT12_EOC /\ \A c \in Cluster : c # x /\ c # n => g[c] = f[c]
  BY <1>3, <1>4, <1>6, <1>7 DEF Tables
<1>9. Good(g, es1, D, "loose")
  <2>1. Regrown(f, es, D, "loose", dir, n, g, es1)
    BY <1>1, GrownIsGood
  <2> QED
    BY <2>1 DEF Regrown
<1>10. /\ EntriesOK(es1)
       /\ \A t \in SlotSet : At(es1, t) = IF t[1] = n THEN EmptyDir[t[2]] ELSE At(es, t)
       /\ \A t \in SlotSet : t[1] = n => t[2] \in 1..DirEntries
  <2>1. EmptyDir \in [1..DirEntries -> Entries]
    BY EmptyDirIs
  <2>2. EntriesOK(es) /\ n \in Cluster
    BY <1>1, <1>3
  <2>3. /\ EntriesOK(Zeroed(es, n, EmptyDir))
        /\ \A t \in SlotSet : At(Zeroed(es, n, EmptyDir), t) = IF t[1] = n THEN EmptyDir[t[2]] ELSE At(es, t)
        /\ \A t \in SlotSet : t[1] = n => t[2] \in 1..DirEntries
    BY <2>1, <2>2, ZeroedIs
  <2> QED
    BY <2>3
<1>11. ASSUME NEW d \in D PROVE n \notin BlockSet(f, d)
  <2>1. CASE d = Root
    BY <1>3, <2>1, NullIsNoBlock DEF BlockSet
  <2>2. CASE d # Root
    BY <1>1, <1>3, <2>2 DEF BlockSet, Proper
  <2> QED
    BY <2>1, <2>2
<1>12. ASSUME NEW d \in D, d # dir PROVE Row(g, es1, d) = Row(f, es, d)
  <2>1. x \notin BlockSet(f, d)
    BY <1>1, <1>4, <1>12, NullIsNoBlock DEF BlockSet
  <2>2. \A c \in BlockSet(f, d) : c = Root \/ g[c] = f[c]
    BY <1>1, <1>8, <1>11, <2>1, BlocksAreClusters
  <2>3. Slots(g, d) = Slots(f, d)
    BY <1>1, <1>6, <2>2, SlotsSame
  <2>4. \A k \in DOMAIN Slots(f, d) : Slots(f, d)[k] \in SlotSet /\ Slots(f, d)[k][1] \in BlockSet(f, d)
    BY <1>1, SlotIn
  <2>5. \A k \in DOMAIN Slots(f, d) : At(es1, Slots(f, d)[k]) = At(es, Slots(f, d)[k])
    BY <1>10, <1>11, <2>4
  <2> QED
    BY <2>3, <2>5 DEF Row
<1> DEFINE R == Row(f, es, dir)
           T == Row(g, es1, dir)
<1>13. PICK l \in Nat : Longer(Slots(f, dir), Slots(g, dir), n, l)
  <2>1. \A y \in Chain(f, dir) : y # x => g[y] = f[y]
    BY <1>1, <1>7, <1>8, ChainIsFinite
  <2>2. x = ChainWalk(f, dir)[Cardinality(Chain(f, dir)) - 1]
    BY DEF x, m
  <2> QED
    BY <1>1, <1>2, <1>3, <1>6, <1>8, <2>1, <2>2, LongerSlots
<1>14. /\ DOMAIN Slots(f, dir) = 1..l /\ DOMAIN Slots(g, dir) = 1..(l + DirEntries)
       /\ \A j \in 1..l : Slots(g, dir)[j] = Slots(f, dir)[j]
       /\ \A j \in (l + 1)..(l + DirEntries) : Slots(g, dir)[j] = <<n, j - l>>
  BY <1>13 DEF Longer
<1>15. DOMAIN R = 1..l /\ DOMAIN T = 1..(l + DirEntries) /\ DirEntries \in Nat \ {0}
  BY <1>14, Sizes DEF Row
<1>16. ASSUME NEW j \in 1..l PROVE T[j] = R[j]
  <2>1. j \in 1..(l + DirEntries)
    BY <1>15
  <2>2. Slots(f, dir)[j] \in SlotSet /\ Slots(f, dir)[j][1] \in BlockSet(f, dir)
    BY <1>1, <1>2, <1>14, SlotIn
  <2>3. At(es1, Slots(f, dir)[j]) = At(es, Slots(f, dir)[j])
    BY <1>10, <1>11, <2>2
  <2> QED
    BY <1>14, <2>1, <2>3 DEF Row
<1>17. ASSUME NEW j \in (l + 1)..(l + DirEntries) PROVE T[j].name = END
  <2>1. j \in 1..(l + DirEntries) /\ j - l \in 1..DirEntries
    BY <1>15
  <2>2. Slots(g, dir)[j] \in SlotSet
    BY <1>2, <1>6, <1>14, <2>1, SlotIn
  <2>3. Slots(g, dir)[j] = <<n, j - l>>
    BY <1>14
  <2>4. At(es1, Slots(g, dir)[j]) = EmptyDir[j - l]
    BY <1>10, <2>2, <2>3
  <2>5. EmptyDir[j - l].name = END
    BY <2>1 DEF EmptyDir, NoEntry
  <2> QED
    BY <1>14, <2>1, <2>4, <2>5 DEF Row
<1>18. Single(R) /\ \A j \in 1..l : R[j].name # END
  BY <1>15 DEF Neat
<1>19. Ent(R, name) = {}
  OBVIOUS
<1> HIDE DEF R, T
<1>25. ASSUME NEW c, Points(R, c) PROVE Points(T, c)
  <2>1. 2 \in 1..l /\ 2 \in 1..(l + DirEntries)
    BY <1>15, <1>25 DEF Points
  <2> QED
    BY <1>15, <1>16, <1>25, <2>1 DEF Points
<1>20. /\ Ended(T) /\ Single(T)
       /\ \A a \in Names : Ent(T, a) = Ent(R, a)
       /\ \A a \in Names : Ent(R, a) = {} => Spot(T, l + 1, a)
  <2>1. Sprouted(R, T, l)
    BY <1>15, <1>16, <1>17, <1>18, LongerRow
  <2> QED
    BY <2>1 DEF Sprouted
<1>21. Neat(g, es1, D)
  BY <1>9, <1>12, <1>20 DEF Neat, T
<1>22. l + 1 \in DOMAIN Slots(g, dir) /\ Slots(g, dir)[l + 1] = <<n, 1>>
  <2>1. l + 1 \in (l + 1)..(l + DirEntries) /\ (l + 1) - l = 1 /\ l + 1 \in 1..(l + DirEntries)
    BY <1>15
  <2> QED
    BY <1>14, <2>1
<1>23. Spot(T, l + 1, name)
  BY <1>19, <1>20
<1>24. Ready(f, es, D, dir, name, g, es1, <<n, 1>>, l + 1)
  BY <1>12, <1>19, <1>20, <1>21, <1>22, <1>23, <1>25 DEF Ready, R, T
<1> QED
  BY <1>24

---------------------------------------------------------------------------
(* Items.  What a call writes, taken together.                             *)

\* The items X make of the entries es the entries z.
Makes(es, X, z) ==
    /\ X \in Seq(Items)
    /\ \E h : /\ h[0] = es /\ h[Len(X)] = z
              /\ \A k \in 0..Len(X) : EntriesOK(h[k])
              /\ \A k \in 1..Len(X) : h[k] = EntriesAfter(h[k - 1], X[k])

\* Between well-formed entries.
LEMMA MakesOK ==
    ASSUME NEW es, NEW X, NEW z, Makes(es, X, z)
    PROVE  EntriesOK(es) /\ EntriesOK(z) /\ X \in Seq(Items)
<1>1. X \in Seq(Items) /\ Len(X) \in Nat
  BY LenProperties DEF Makes
<1>2. 0 \in 0..Len(X) /\ Len(X) \in 0..Len(X)
  BY <1>1
<1> QED
  BY <1>1, <1>2 DEF Makes

\* Items in two parts make one step each.
LEMMA MakesApart ==
    ASSUME NEW es, NEW X \in Seq(Items), NEW Y \in Seq(Items), NEW z, Makes(es, X \o Y, z)
    PROVE  \E y : Makes(es, X, y) /\ Makes(y, Y, z)
<1> DEFINE n == Len(X)
           m == Len(Y)
           Z == X \o Y
<1>1. n \in Nat /\ m \in Nat /\ Len(Z) = n + m
  BY ItemsConcat
<1>2. /\ \A k \in 1..n : Z[k] = X[k]
      /\ \A k \in 1..m : Z[n + k] = Y[k]
  BY ConcatProperties
<1>3. PICK h : /\ h[0] = es /\ h[Len(Z)] = z
               /\ \A k \in 0..Len(Z) : EntriesOK(h[k])
               /\ \A k \in 1..Len(Z) : h[k] = EntriesAfter(h[k - 1], Z[k])
  BY DEF Makes
<1> HIDE DEF Z
<1> DEFINE g == [k \in 0..m |-> h[n + k]]
<1>4. Makes(es, X, h[n])
  <2>1. \A k \in 0..n : k \in 0..Len(Z)
    BY <1>1
  <2>2. \A k \in 1..n : k \in 1..Len(Z)
    BY <1>1
  <2>3. /\ h[0] = es /\ h[Len(X)] = h[n]
        /\ \A k \in 0..Len(X) : EntriesOK(h[k])
        /\ \A k \in 1..Len(X) : h[k] = EntriesAfter(h[k - 1], X[k])
    BY <1>2, <1>3, <2>1, <2>2
  <2> QED
    BY <2>3 DEF Makes
<1>5. Makes(h[n], Y, z)
  <2>1. 0 \in 0..m /\ m \in 0..m /\ n + 0 = n
    BY <1>1
  <2>2. g[0] = h[n] /\ g[m] = z
    BY <1>1, <1>3, <2>1
  <2>3. \A k \in 0..m : EntriesOK(g[k])
    <3>1. \A k \in 0..m : n + k \in 0..Len(Z)
      BY <1>1
    <3> QED
      BY <1>3, <3>1
  <2>4. ASSUME NEW k \in 1..m PROVE g[k] = EntriesAfter(g[k - 1], Y[k])
    <3>1. k \in 0..m /\ k - 1 \in 0..m /\ n + k \in 1..Len(Z) /\ (n + k) - 1 = n + (k - 1)
      BY <1>1
    <3>2. g[k] = h[n + k] /\ g[k - 1] = h[n + (k - 1)]
      BY <3>1
    <3> HIDE DEF g
    <3>3. h[n + k] = EntriesAfter(h[(n + k) - 1], Z[n + k])
      BY <1>3, <3>1
    <3> QED
      BY <1>2, <3>1, <3>2, <3>3
  <2> HIDE DEF g
  <2>5. \E u : /\ u[0] = h[n] /\ u[Len(Y)] = z
               /\ \A k \in 0..Len(Y) : EntriesOK(u[k])
               /\ \A k \in 1..Len(Y) : u[k] = EntriesAfter(u[k - 1], Y[k])
    BY <2>2, <2>3, <2>4
  <2> QED
    BY <2>5 DEF Makes
<1> QED
  BY <1>4, <1>5

\* No items make no change.
LEMMA MakesNone ==
    ASSUME NEW es, NEW z, Makes(es, <<>>, z)
    PROVE  z = es
<1>1. PICK h : h[0] = es /\ h[Len(<<>>)] = z
  BY DEF Makes
<1>2. Len(<<>>) = 0
  BY EmptySeq
<1> QED
  BY <1>1, <1>2

\* A single item makes its own.
LEMMA MakesOne ==
    ASSUME NEW f \in Tables, NEW w \in Writes, NEW es, NEW z, Makes(es, Item(f, w), z)
    PROVE  z = EntriesAfter(es, [fat |-> f, write |-> w])
<1> DEFINE X == Item(f, w)
<1>1. Len(X) = 1 /\ X[1] = [fat |-> f, write |-> w]
  BY ItemIs
<1> HIDE DEF X
<1>2. PICK h : /\ h[0] = es /\ h[Len(X)] = z
               /\ \A k \in 1..Len(X) : h[k] = EntriesAfter(h[k - 1], X[k])
  BY DEF Makes, X
<1>3. 1 \in 1..Len(X) /\ 1 - 1 = 0
  BY <1>1
<1> QED
  BY <1>1, <1>2, <1>3

\* What changes no entries.
Quiet(it) == it.write.kind \in {"fat", "return"}

\* Items that write no entry change none.
LEMMA MakesQuiet ==
    ASSUME NEW X \in Seq(Items), \A k \in 1..Len(X) : Quiet(X[k]), NEW es, NEW z, Makes(es, X, z)
    PROVE  z = es
<1> DEFINE n == Len(X)
<1>1. n \in Nat
  BY LenProperties
<1>2. PICK h : /\ h[0] = es /\ h[n] = z
               /\ \A k \in 1..n : h[k] = EntriesAfter(h[k - 1], X[k])
  BY DEF Makes
<1> HIDE DEF n
<1> DEFINE S == {k \in Nat : k <= n => h[k] = es}
<1>3. 0 \in S
  BY <1>2
<1>4. \A k \in Nat : k \in S => k + 1 \in S
  <2> SUFFICES ASSUME NEW k \in Nat, k \in S, k + 1 <= n PROVE h[k + 1] = es
    OBVIOUS
  <2>1. k + 1 \in 1..n /\ (k + 1) - 1 = k /\ h[k] = es
    BY <1>1
  <2>2. Quiet(X[k + 1])
    BY <2>1 DEF n
  <2>3. EntriesAfter(h[k], X[k + 1]) = h[k]
    BY <2>2 DEF Quiet, EntriesAfter
  <2> QED
    BY <1>2, <2>1, <2>3
<1> HIDE DEF S
<1>5. Nat \subseteq S
  BY <1>3, <1>4, NatSetInduction
<1> QED
  BY <1>1, <1>2, <1>5 DEF S

\* Writing the table back changes no entry.
LEMMA MakesFlush ==
    ASSUME NEW f \in Tables, NEW es, NEW z, Makes(es, fat_flush(f), z)
    PROVE  z = es
<1> DEFINE X == fat_flush(f)
           N == fat_count * sectors_per_fat
<1>0. /\ X \in Seq(Items) /\ Len(X) = N
      /\ \A k \in 1..N :
            X[k] = [fat |-> f, write |-> [kind |-> "fat", at |-> 1 + (k - 1) \div sectors_per_fat,
                                          val |-> 1 + ((k - 1) % sectors_per_fat)]]
  BY FlushIs
<1> HIDE DEF X, N
<1>1. X \in Seq(Items) /\ \A k \in 1..Len(X) : X[k].write.kind = "fat"
  BY <1>0
<1>2. \A k \in 1..Len(X) : Quiet(X[k])
  BY <1>1 DEF Quiet
<1> QED
  BY <1>1, <1>2, MakesQuiet DEF X

\* Nor does returning.
LEMMA MakesReturn ==
    ASSUME NEW f \in Tables, NEW code \in {"ok", "full"}, NEW es, NEW z, Makes(es, Return(f, code), z)
    PROVE  z = es
<1> DEFINE w == [kind |-> "return", at |-> Root, val |-> code]
<1>1. w \in Writes /\ Return(f, code) = Item(f, w) /\ w.kind = "return"
  BY DEF Writes, Return
<1> HIDE DEF w
<1>2. z = EntriesAfter(es, [fat |-> f, write |-> w])
  BY <1>1, MakesOne
<1>3. EntriesAfter(es, [fat |-> f, write |-> w]) = es
  BY <1>1 DEF EntriesAfter
<1> QED
  BY <1>2, <1>3

\* Writing an entry changes that one.
LEMMA MakesEntry ==
    ASSUME NEW f \in Tables, NEW s \in SlotSet, NEW e \in Entries, NEW es, NEW z, Makes(es, WriteEntry(f, s, e), z)
    PROVE  z = Put(es, s, e)
<1> DEFINE w == [kind |-> "entry", at |-> s, val |-> e]
<1>1. w \in Writes /\ WriteEntry(f, s, e) = Item(f, w) /\ w.kind = "entry" /\ w.at = s /\ w.val = e
  BY DEF Writes, WriteEntry
<1> HIDE DEF w
<1>2. z = EntriesAfter(es, [fat |-> f, write |-> w])
  BY <1>1, MakesOne
<1>3. EntriesAfter(es, [fat |-> f, write |-> w]) = Put(es, s, e)
  BY <1>1 DEF EntriesAfter
<1> QED
  BY <1>2, <1>3

\* Writing a cluster of entries changes that cluster.
LEMMA MakesDir ==
    ASSUME NEW f \in Tables, NEW c \in Cluster, NEW b \in [1..DirEntries -> Entries], NEW es, NEW z,
           Makes(es, WriteDir(f, c, b), z)
    PROVE  z = Zeroed(es, c, b)
<1> DEFINE w == [kind |-> "dir", at |-> c, val |-> b]
<1>1. w \in Writes /\ WriteDir(f, c, b) = Item(f, w) /\ w.kind = "dir" /\ w.at = c /\ w.val = b
  BY DEF Writes, WriteDir
<1> HIDE DEF w
<1>2. z = EntriesAfter(es, [fat |-> f, write |-> w])
  BY <1>1, MakesOne
<1>3. EntriesAfter(es, [fat |-> f, write |-> w]) = Zeroed(es, c, b)
  BY <1>1 DEF EntriesAfter
<1> QED
  BY <1>2, <1>3

\* Bytes stored in the clusters K leave the entries elsewhere.
LEMMA MakesBytes ==
    ASSUME NEW X, OnlyBytes(X), NEW K, \A k \in 1..Len(X) : X[k].write.at \in K,
           NEW es, NEW z, Makes(es, X, z)
    PROVE  \A t \in SlotSet : t[1] \notin K => At(z, t) = At(es, t)
<1> DEFINE n == Len(X)
<1>1. n \in Nat /\ X \in Seq(Items)
  BY LenProperties DEF OnlyBytes
<1>2. PICK h : /\ h[0] = es /\ h[n] = z
               /\ \A k \in 0..n : EntriesOK(h[k])
               /\ \A k \in 1..n : h[k] = EntriesAfter(h[k - 1], X[k])
  BY DEF Makes
<1>3. \A k \in 1..n : X[k].write.kind = "bytes" /\ X[k].write.at \in Cluster \cap K
  <2> TAKE k \in 1..n
  <2>1. X[k] \in Items /\ X[k].write.kind = "bytes"
    BY <1>1, ElementOfSeq DEF OnlyBytes
  <2>2. X[k].write \in Writes
    BY <2>1 DEF Items
  <2> QED
    BY <2>1, <2>2 DEF Writes
<1> HIDE DEF n
<1> SUFFICES ASSUME NEW t \in SlotSet, t[1] \notin K PROVE At(z, t) = At(es, t)
  OBVIOUS
<1> DEFINE S == {k \in Nat : k <= n => At(h[k], t) = At(es, t)}
<1>4. 0 \in S
  BY <1>2
<1>5. \A k \in Nat : k \in S => k + 1 \in S
  <2> SUFFICES ASSUME NEW k \in Nat, k \in S, k + 1 <= n PROVE At(h[k + 1], t) = At(es, t)
    OBVIOUS
  <2>1. k + 1 \in 1..n /\ (k + 1) - 1 = k /\ At(h[k], t) = At(es, t) /\ k \in 0..n
    BY <1>1
  <2> DEFINE a == X[k + 1].write.at
  <2>2. X[k + 1].write.kind = "bytes" /\ a \in Cluster /\ t[1] # a
    BY <1>3, <2>1
  <2>3. EntriesAfter(h[k], X[k + 1]) = Zeroed(h[k], a, DataBlock)
    BY <2>2 DEF EntriesAfter
  <2> HIDE DEF a
  <2>4. At(Zeroed(h[k], a, DataBlock), t) = At(h[k], t)
    <3>1. EntriesOK(h[k]) /\ DataBlock \in [1..DirEntries -> Entries]
      BY <1>2, <2>1, EmptyDirIs
    <3>2. \A u \in SlotSet : At(Zeroed(h[k], a, DataBlock), u) = IF u[1] = a THEN DataBlock[u[2]] ELSE At(h[k], u)
      BY <2>2, <3>1, ZeroedIs
    <3> QED
      BY <2>2, <3>2
  <2> QED
    BY <1>2, <2>1, <2>3, <2>4
<1> HIDE DEF S
<1>6. Nat \subseteq S
  BY <1>4, <1>5, NatSetInduction
<1> QED
  BY <1>1, <1>2, <1>6 DEF S

\* Where dir_lookup stops in a directory with room, the slot is ready for the name.
LEMMA SpotIsReady ==
    ASSUME NEW f, NEW es, NEW D, Neat(f, es, D), NEW dir \in D, NEW name \in Names,
           NEW k \in DOMAIN Slots(f, dir), Spot(Row(f, es, dir), k, name)
    PROVE  Ready(f, es, D, dir, name, f, es, Slots(f, dir)[k], k)
BY DEF Ready

\* What a lookup with its writes leaves.
LEMMA LookupReady ==
    ASSUME NEW f, NEW es, NEW D, Neat(f, es, D), NEW dir \in D, NEW name \in Names,
           NEW create \in BOOLEAN, NEW l, l = dir_lookup(f, es, dir, name, create), l.r = 0,
           NEW es1, Makes(es, l.items, es1)
    PROVE  \E k : Ready(f, es, D, dir, name, l.fat, es1, l.slot, k)
<1>1. f \in Tables /\ EntriesOK(es) /\ dir \in Cluster \cup {Root} /\ D \subseteq Cluster \cup {Root}
  BY NeatFacts
<1>2. l \in Lookups /\ (l.exists => l.fat = f /\ l.items = <<>>)
  BY <1>1, LookupIs
<1>3. CASE l.exists
  <2>1. PICK k \in DOMAIN Slots(f, dir) : Spot(Row(f, es, dir), k, name) /\ l.slot = Slots(f, dir)[k]
    BY <1>3, LookupFinds
  <2>2. es1 = es
    BY <1>2, <1>3, MakesNone
  <2>3. Ready(f, es, D, dir, name, f, es, Slots(f, dir)[k], k)
    BY <2>1, SpotIsReady
  <2> QED
    BY <1>2, <1>3, <2>1, <2>2, <2>3
<1>4. CASE ~l.exists
  <2>0. Ent(Row(f, es, dir), name) = {}
    BY <1>4, LookupFinds
  <2>1. \/ /\ l = Grown(f, dir) /\ dir # Root /\ Unused(f) # {}
           /\ \A j \in DOMAIN Row(f, es, dir) : Row(f, es, dir)[j].name # END
        \/ /\ l.fat = f /\ l.items = <<>>
           /\ \E k \in DOMAIN Slots(f, dir) :
                 Spot(Row(f, es, dir), k, name) /\ l.slot = Slots(f, dir)[k]
    BY <1>4, LookupMakesRoom
  <2>2. CASE l.fat = f /\ l.items = <<>> /\ \E k \in DOMAIN Slots(f, dir) :
                 Spot(Row(f, es, dir), k, name) /\ l.slot = Slots(f, dir)[k]
    <3>1. PICK k \in DOMAIN Slots(f, dir) : Spot(Row(f, es, dir), k, name) /\ l.slot = Slots(f, dir)[k]
      BY <2>2
    <3>2. es1 = es
      BY <2>2, MakesNone
    <3>3. Ready(f, es, D, dir, name, f, es, Slots(f, dir)[k], k)
      BY <3>1, SpotIsReady
    <3> QED
      BY <2>2, <3>1, <3>2, <3>3
  <2>3. CASE /\ l = Grown(f, dir) /\ dir # Root /\ Unused(f) # {}
             /\ \A j \in DOMAIN Row(f, es, dir) : Row(f, es, dir)[j].name # END
    <3> DEFINE n == NewCluster(f)
               g == l.fat
    <3>1. dir \in D \ {Root} /\ dir \in Cluster
      BY <1>1, <2>3
    <3>2. /\ l.slot = <<n, 1>> /\ g = Grown(f, dir).fat /\ g \in Tables
          /\ l.items = WriteDir(g, n, EmptyDir) \o fat_flush(g)
      BY <1>1, <2>3, <3>1, GrownIs
    <3>3. n \in Cluster /\ EmptyDir \in [1..DirEntries -> Entries]
      BY <1>1, <2>3, AllocateIs, EmptyDirIs
    <3>5. n = NewCluster(f)
      OBVIOUS
    <3> HIDE DEF n, g
    <3>4. es1 = Zeroed(es, n, EmptyDir)
      <4>1. WriteDir(g, n, EmptyDir) \in Seq(Items) /\ fat_flush(g) \in Seq(Items)
        BY <3>2, <3>3, WriteDirIs, FlushIs
      <4>2. PICK y : Makes(es, WriteDir(g, n, EmptyDir), y) /\ Makes(y, fat_flush(g), es1)
        BY <3>2, <4>1, MakesApart
      <4>3. y = Zeroed(es, n, EmptyDir)
        BY <3>2, <3>3, <4>2, MakesDir
      <4>4. es1 = y
        BY <3>2, <4>2, MakesFlush
      <4> QED
        BY <4>3, <4>4
    <3>6. \E k : Ready(f, es, D, dir, name, g, es1, <<n, 1>>, k)
      BY <2>0, <2>3, <3>1, <3>2, <3>4, <3>5, GrowthIsReady
    <3> QED
      BY <3>2, <3>6 DEF g
  <2> QED
    BY <2>1, <2>2, <2>3
<1> QED
  BY <1>3, <1>4

\* What the writes of the lookup do is no part of the edit.
LEMMA EditsThrough ==
    ASSUME NEW f, NEW es, NEW D, NEW dir, NEW name, NEW g, NEW es1, NEW s, NEW k,
           Ready(f, es, D, dir, name, g, es1, s, k),
           NEW F, NEW es2, NEW D2, NEW E, Edits(g, es1, D, F, es2, D2, dir, name, E)
    PROVE  Edits(f, es, D, F, es2, D2, dir, name, E)
<1>1. /\ Neat(f, es, D) /\ dir \in D /\ name \in Names
      /\ \A d \in D : d # dir => Row(g, es1, d) = Row(f, es, d)
      /\ \A n \in Names : Ent(Row(g, es1, dir), n) = Ent(Row(f, es, dir), n)
      /\ Ent(Row(f, es, dir), name) # {} => g = f /\ es1 = es
      /\ \A c : Points(Row(f, es, dir), c) => Points(Row(g, es1, dir), c)
  BY DEF Ready
<1>2. /\ Neat(F, es2, D2)
      /\ \A d \in D \cap D2 : d # dir => Row(F, es2, d) = Row(g, es1, d)
      /\ dir \in D2 =>
            /\ \A n \in Names \ {name} : Ent(Row(F, es2, dir), n) = Ent(Row(g, es1, dir), n)
            /\ Ent(Row(F, es2, dir), name) = E
            /\ Ent(Row(g, es1, dir), name) # {} /\ E # {} => SameNames(Row(g, es1, dir), Row(F, es2, dir))
            /\ \A c : Points(Row(g, es1, dir), c) => Points(Row(F, es2, dir), c)
      /\ \A d \in D2 \ D : \A n \in Names : Ent(Row(F, es2, d), n) = {}
  BY DEF Edits
<1>3. \A d \in D \cap D2 : d # dir => Row(F, es2, d) = Row(f, es, d)
  BY <1>1, <1>2
<1>4. dir \in D2 =>
         /\ \A n \in Names \ {name} : Ent(Row(F, es2, dir), n) = Ent(Row(f, es, dir), n)
         /\ Ent(Row(F, es2, dir), name) = E
         /\ Ent(Row(f, es, dir), name) # {} /\ E # {} => SameNames(Row(f, es, dir), Row(F, es2, dir))
         /\ \A c : Points(Row(f, es, dir), c) => Points(Row(F, es2, dir), c)
  BY <1>1, <1>2
<1> QED
  BY <1>1, <1>2, <1>3, <1>4 DEF Edits
---------------------------------------------------------------------------
(* A whole operation.                                                      *)

\* The disks between the writes of an operation.
Between(d, X, h) ==
    /\ h[0] = d
    /\ \A k \in 0..Len(X) : h[k] \in Disks
    /\ \A k \in 1..Len(X) : h[k] = Effect(h[k - 1], X[k])

\* What a completed call leaves is the last of the states its items lead through.
LEMMA DoneIs ==
    ASSUME NEW f \in Tables, NEW d \in Disks, NEW X \in Seq(Items)
    PROVE  /\ Done(f, d, X).fat \in Tables
           /\ \E h : Between(d, X, h) /\ Done(f, d, X).disk = h[Len(X)]
<1> DEFINE n == Len(X)
           step == [k \in 1..n |-> [x \in Disks |-> Effect(x, X[k])]]
           A == [k \in 0..n |-> Disks]
           Nx(k, x) == Effect(x, X[k])
           G(a) == [k \in 0..n |-> IF k = 0 THEN d ELSE Nx(k, a[k - 1])]
<1>1. n \in Nat /\ \A k \in 1..n : X[k] \in Items
  BY LenProperties, ElementOfSeq
<1>2. Done(f, d, X).disk = (CHOOSE a : a = G(a))[n]
  BY DEF Done
<1>3. Done(f, d, X).fat = IF X = <<>> THEN f ELSE X[n].fat
  BY DEF Done
<1>4. \A k \in 1..n : \A x \in Disks : Nx(k, x) \in Disks
  BY <1>1, EffectIs
<1> HIDE DEF n, Nx
<1>5. \A k \in 1..n : \A x \in A[k - 1] : step[k][x] \in A[k]
  <2> TAKE k \in 1..n
  <2> TAKE x \in A[k - 1]
  <2>1. k - 1 \in 0..n /\ k \in 0..n
    BY <1>1
  <2>2. x \in Disks
    BY <2>1
  <2>3. step[k][x] = Nx(k, x)
    BY <2>2 DEF Nx
  <2> QED
    BY <1>4, <2>1, <2>2, <2>3
<1>6. d \in A[0]
  BY <1>1
<1> HIDE DEF step, A
<1>7. PICK g : IsHistory(g, n, d, step) /\ \A k \in 0..n : g[k] \in A[k]
  BY <1>1, <1>5, <1>6, Iteration
<1>8. \A k \in 0..n : g[k] \in Disks
  BY <1>7 DEF A
<1>9. g = G(g)
  <2>1. g = [k \in 0..n |-> IF k = 0 THEN d ELSE step[k][g[k - 1]]]
    BY <1>7 DEF IsHistory
  <2>2. \A k \in 1..n : step[k][g[k - 1]] = Nx(k, g[k - 1])
    <3> TAKE k \in 1..n
    <3>1. k - 1 \in 0..n
      BY <1>1
    <3>2. g[k - 1] \in Disks
      BY <3>1, <1>8
    <3> QED
      BY <3>2 DEF step, Nx
  <2>3. \A k \in 0..n : k # 0 => k \in 1..n
    BY <1>1
  <2>4. [k \in 0..n |-> IF k = 0 THEN d ELSE step[k][g[k - 1]]] = G(g)
    BY <2>2, <2>3
  <2> QED
    BY <2>1, <2>4
<1> DEFINE after == CHOOSE h : h = G(h)
<1>10. after = G(after)
  <2> HIDE DEF G
  <2> QED
    BY <1>9, Zenon
<1>11. Done(f, d, X).disk = after[n]
  BY <1>2
<1> HIDE DEF after
<1>12. \A k \in 0..n : after[k] = IF k = 0 THEN d ELSE Nx(k, after[k - 1])
  BY <1>10
<1> HIDE DEF G
<1>13. \A k \in 0..n : after[k] \in Disks
  <2> DEFINE S == {k \in Nat : k <= n => after[k] \in Disks}
  <2>1. 0 \in S
    BY <1>12, <1>1
  <2>2. \A k \in Nat : k \in S => k + 1 \in S
    <3> SUFFICES ASSUME NEW k \in Nat, k \in S, k + 1 <= n PROVE after[k + 1] \in Disks
      OBVIOUS
    <3>1. k + 1 \in 0..n /\ k + 1 \in 1..n /\ k + 1 # 0 /\ (k + 1) - 1 = k /\ after[k] \in Disks
      BY <1>1
    <3> QED
      BY <3>1, <1>4, <1>12
  <2> HIDE DEF S
  <2>3. Nat \subseteq S
    BY <2>1, <2>2, NatSetInduction
  <2> QED
    BY <2>3, <1>1 DEF S
<1>14. after[0] = d /\ \A k \in 1..n : after[k] = Effect(after[k - 1], X[k])
  BY <1>1, <1>12 DEF Nx
<1>15. Between(d, X, after)
  BY <1>13, <1>14 DEF Between, n
<1>16. Done(f, d, X).fat \in Tables
  <2>1. X # <<>> => n \in 1..n
    BY <1>1, EmptySeq DEF n
  <2> QED
    BY <1>1, <1>3, <2>1 DEF Items
<1> QED
  BY <1>11, <1>15, <1>16 DEF n

\* Of its entries: what the items make.
LEMMA DoneMakes ==
    ASSUME NEW f \in Tables, NEW d \in Disks, NEW X \in Seq(Items)
    PROVE  Makes(d.entries, X, Done(f, d, X).disk.entries)
<1> DEFINE n == Len(X)
<1>1. n \in Nat /\ \A k \in 1..n : X[k] \in Items
  BY LenProperties, ElementOfSeq
<1>2. PICK h : Between(d, X, h) /\ Done(f, d, X).disk = h[n]
  BY DoneIs
<1>3. /\ h[0] = d
      /\ \A k \in 0..n : h[k] \in Disks
      /\ \A k \in 1..n : h[k] = Effect(h[k - 1], X[k])
  BY <1>2 DEF Between
<1> HIDE DEF n
<1> DEFINE g == [k \in 0..n |-> h[k].entries]
<1>4. g[0] = d.entries /\ g[n] = Done(f, d, X).disk.entries
  BY <1>1, <1>2, <1>3
<1>5. \A k \in 0..n : EntriesOK(g[k])
  BY <1>3 DEF Disks
<1>6. ASSUME NEW k \in 1..n PROVE g[k] = EntriesAfter(g[k - 1], X[k])
  <2>1. k \in 0..n /\ k - 1 \in 0..n
    BY <1>1
  <2>2. Effect(h[k - 1], X[k]).entries = EntriesAfter(h[k - 1].entries, X[k])
    BY <1>1, <1>3, <2>1, EffectOnEntries
  <2> QED
    BY <1>3, <2>1, <2>2
<1> HIDE DEF g
<1> QED
  BY <1>4, <1>5, <1>6 DEF Makes, n

\* A call that returns F leaves F as the table in memory.
LEMMA DoneReturns ==
    ASSUME NEW f \in Tables, NEW d \in Disks, NEW X \in Seq(Items), NEW F \in Tables, NEW code \in {"ok", "full"}
    PROVE  /\ Done(f, d, X \o Return(F, code)).fat = F
           /\ Makes(d.entries, X, Done(f, d, X \o Return(F, code)).disk.entries)
<1> DEFINE Y == Return(F, code)
           Z == X \o Y
           w == [kind |-> "return", at |-> Root, val |-> code]
<1>1. Y \in Seq(Items) /\ Len(Y) = 1 /\ Y[1].fat = F
  <2>1. w \in Writes /\ Y = Item(F, w)
    BY DEF Writes, Return
  <2> HIDE DEF w, Y
  <2>2. Y \in Seq(Items) /\ Len(Y) = 1 /\ Y[1] = [fat |-> F, write |-> w]
    BY <2>1, ItemIs
  <2> QED
    BY <2>2
<1> HIDE DEF Y
<1>2. /\ Z \in Seq(Items) /\ Len(Z) = Len(X) + 1 /\ Len(X) \in Nat
      /\ Z[Len(X) + 1] = Y[1]
  <2>1. 1 \in 1..Len(Y)
    BY <1>1
  <2> QED
    BY <1>1, <2>1, ItemsConcat
<1> HIDE DEF Z
<1>3. Z # <<>>
  <2>1. Len(<<>>) = 0
    BY EmptySeq
  <2> QED
    BY <1>2, <2>1
<1>4. Done(f, d, Z).fat = F
  <2>1. Done(f, d, Z).fat = IF Z = <<>> THEN f ELSE Z[Len(Z)].fat
    BY DEF Done
  <2> QED
    BY <1>1, <1>2, <1>3, <2>1
<1>5. Makes(d.entries, Z, Done(f, d, Z).disk.entries)
  BY <1>2, DoneMakes
<1>6. PICK y : Makes(d.entries, X, y) /\ Makes(y, Y, Done(f, d, Z).disk.entries)
  BY <1>1, <1>5, MakesApart DEF Z
<1>7. Done(f, d, Z).disk.entries = y
  BY <1>6, MakesReturn DEF Y
<1> QED
  BY <1>4, <1>6, <1>7 DEF Y, Z

\* Where the proof of well-formedness says a part of a call leads, its items do.
LEMMA LeadsMakes ==
    ASSUME NEW act, NEW f, NEW es, NEW X, NEW g, NEW es2, Leads(act, OnDisk(f, es), X, OnDisk(g, es2)),
           NEW y, Makes(es, X, y)
    PROVE  y = es2
<1> DEFINE n == Len(X)
<1>1. n \in Nat
  BY LenProperties DEF Makes
<1>2. PICK h : /\ h[0] = es /\ h[n] = y
               /\ \A k \in 1..n : h[k] = EntriesAfter(h[k - 1], X[k])
  BY DEF Makes
<1>3. PICK u : /\ u[0] = OnDisk(f, es) /\ u[n] = OnDisk(g, es2)
               /\ \A k \in 1..n : Goes(act, u[k - 1], X[k], u[k])
  BY DEF Leads
<1>4. \A a, b : OnDisk(a, b).entries = b
  BY DEF OnDisk
<1>5. \A k \in 1..n : u[k].entries = EntriesAfter(u[k - 1].entries, X[k])
  BY <1>3, <1>4 DEF Goes, AfterWrite
<1> HIDE DEF n
<1> DEFINE S == {k \in Nat : k <= n => h[k] = u[k].entries}
<1>6. 0 \in S
  BY <1>2, <1>3, <1>4
<1>7. \A k \in Nat : k \in S => k + 1 \in S
  <2> SUFFICES ASSUME NEW k \in Nat, k \in S, k + 1 <= n PROVE h[k + 1] = u[k + 1].entries
    OBVIOUS
  <2>1. k + 1 \in 1..n /\ (k + 1) - 1 = k /\ h[k] = u[k].entries
    BY <1>1
  <2> QED
    BY <1>2, <1>5, <2>1
<1> HIDE DEF S
<1>8. Nat \subseteq S
  BY <1>6, <1>7, NatSetInduction
<1>9. h[n] = u[n].entries
  BY <1>1, <1>8 DEF S
<1> QED
  BY <1>2, <1>3, <1>4, <1>9

\* The table and the entries when an operation has returned.
LEMMA OutcomeSound ==
    ASSUME fat \in Tables, disk \in Disks, NEW D, Good(fat, disk.entries, D, "loose"),
           NEW p \in Paths, NEW name, NEW o \in Called(name, p), o.code # "wild"
    PROVE  /\ o.code \in {"ok", "full"}
           /\ Sound(Done(fat, disk, o.items).fat, Done(fat, disk, o.items).disk.entries)
<1> DEFINE es == disk.entries
           code == o.code
<1>1. Comes(o, name, fat, es, D, "loose")
  BY OutcomesCome
<1>2. PICK X, F, g, es2, D2, fit2 :
         /\ o.items = X \o Return(F, code) /\ code \in {"ok", "full"}
         /\ Leads(name, OnDisk(fat, es), X, OnDisk(g, es2))
         /\ Good(F, es2, D2, fit2)
  BY <1>1 DEF Comes
<1>3. X \in Seq(Items) /\ F \in Tables
  BY <1>2, GoodFacts DEF Leads
<1> HIDE DEF code
<1>4. /\ Done(fat, disk, o.items).fat = F
      /\ Makes(es, X, Done(fat, disk, o.items).disk.entries)
  BY <1>2, <1>3, DoneReturns
<1> HIDE DEF es
<1>5. Done(fat, disk, o.items).disk.entries = es2
  BY <1>2, <1>4, LeadsMakes
<1>6. Sound(F, es2)
  BY <1>2, GoodIsSound
<1> QED
  BY <1>2, <1>4, <1>5, <1>6 DEF code

---------------------------------------------------------------------------
(* Calls.  What each operation does to the tree.                           *)

\* What an operation does to the entry it is about, its lookup done.
Alters(g, es1, s, e, F, es2) ==
    /\ F \in Tables /\ EntriesOK(es2)
    /\ LET K == Chained(g, At(es1, s)) \cup Unused(g) IN
       /\ \A c \in Cluster : F[c] = g[c] \/ c \in K
       /\ \A t \in SlotSet : t # s /\ t[1] \notin K => At(es2, t) = At(es1, t)
    /\ At(es2, s) = e
    /\ At(es1, s).name \in Names /\ At(es1, s).dir => e.name \notin Names \/ ~e.dir

\* What a directory has of a name after e took its slot.
Now(name, e) == IF e.name = name THEN {e} ELSE {}

\* A lookup and what is done to the entry it found.
Steps(f, es, D, p, g, es1, s, k, F, es2, e) ==
    /\ Ready(f, es, D, resolve_path(f, es, p), NameOf(p), g, es1, s, k)
    /\ Alters(g, es1, s, e, F, es2) /\ Fresh(g, F, es2, e) /\ Sound(F, es2)
    /\ e.name \in {NameOf(p), DELETED, At(es1, s).name}

\* The directories after it, the lookup included.
LEMMA AltersEdits ==
    ASSUME NEW f, NEW es, NEW D, NEW p \in Seq(Names), p # <<>>, NEW g, NEW es1, NEW s, NEW k,
           NEW F, NEW es2, NEW e, Steps(f, es, D, p, g, es1, s, k, F, es2, e)
    PROVE  Edits(f, es, D, F, es2, Dirs(F, es2), resolve_path(f, es, p), NameOf(p), Now(NameOf(p), e))
<1> DEFINE dir == resolve_path(f, es, p)
           name == NameOf(p)
<1>0. /\ Ready(f, es, D, dir, name, g, es1, s, k)
      /\ Alters(g, es1, s, e, F, es2) /\ Fresh(g, F, es2, e) /\ Sound(F, es2)
      /\ e.name \in {name, DELETED, At(es1, s).name}
      /\ dir = resolve_path(f, es, p) /\ name = NameOf(p)
  BY DEF Steps
<1> HIDE DEF dir, name
<1> DEFINE R == Row(g, es1, dir)
           old == At(es1, s)
<1>1. /\ Neat(f, es, D) /\ Neat(g, es1, D) /\ dir \in D /\ name \in Names
      /\ k \in DOMAIN Slots(g, dir) /\ Slots(g, dir)[k] = s /\ Spot(R, k, name)
      /\ \A n \in Names : Ent(R, n) = Ent(Row(f, es, dir), n)
      /\ Ent(Row(f, es, dir), name) # {} => g = f /\ es1 = es
  BY <1>0 DEF Ready
<1>2. R[k] = old /\ k \in DOMAIN R
  BY <1>1 DEF Row
<1>3. old.name \in {END, DELETED, name}
  BY <1>1, <1>2 DEF Spot
<1>4. ASSUME old.name \in Names, old.dir PROVE old.first # dir
  <2>1. old.name = name
    BY <1>3, <1>4, NameIsNoMark
  <2>2. R[k] \in Ent(R, name)
    BY <1>2, <2>1 DEF Ent
  <2>3. Ent(Row(f, es, dir), name) # {}
    BY <1>1, <2>2
  <2>4. g = f /\ es1 = es
    BY <1>1, <2>3
  <2>5. k \in DOMAIN Slots(f, dir) /\ old = At(es, Slots(f, dir)[k])
    BY <1>1, <2>4
  <2> HIDE DEF R, old
  <2> QED
    BY <1>0, <1>1, <1>4, <2>1, <2>5, NotItsOwn
<1>5. Acts(g, es1, D, dir, k, e, F, es2)
  <2> DEFINE K == Chained(g, At(es1, s)) \cup Unused(g)
  <2>1. /\ F \in Tables /\ EntriesOK(es2) /\ At(es2, s) = e
        /\ \A c \in Cluster : F[c] = g[c] \/ c \in K
        /\ \A t \in SlotSet : t # s /\ t[1] \notin K => At(es2, t) = At(es1, t)
        /\ At(es1, s).name \in Names /\ At(es1, s).dir => e.name \notin Names \/ ~e.dir
    BY <1>0 DEF Alters
  <2>2. At(es1, s).name \in Names /\ At(es1, s).dir => At(es1, s).first # dir
    BY <1>4
  <2>3. Slots(g, dir)[k] = s
    BY <1>1
  <2> HIDE DEF old, R
  <2> QED
    BY <1>1, <2>1, <2>2, <2>3, Zenon DEF Acts
<1>6. Fitting(R, k, name, e)
  BY <1>0, <1>1, <1>2 DEF Fitting
<1> HIDE DEF R, old
<1>8. Fitting(Row(g, es1, dir), k, name, e) /\ name \in Names
  BY <1>1, <1>6 DEF R
<1>7. Edits(g, es1, D, F, es2, Dirs(F, es2), dir, name, IF e.name = name THEN {e} ELSE {})
  BY <1>0, <1>5, <1>8, EditIs, Zenon
<1>9. Edits(f, es, D, F, es2, Dirs(F, es2), dir, name, IF e.name = name THEN {e} ELSE {})
  BY <1>0, <1>7, EditsThrough
<1> QED
  BY <1>9 DEF Now, dir, name

\* An entry that is no new directory.
LEMMA NotFresh ==
    ASSUME NEW g, NEW F, NEW es2, NEW e, e.name \notin Names \/ ~e.dir
    PROVE  Fresh(g, F, es2, e)
BY DEF Fresh

\* The last write is that of the entry.
LEMMA PutAlters ==
    ASSUME NEW g, NEW es1, NEW s \in SlotSet, NEW e \in Entries, NEW F \in Tables, NEW y, EntriesOK(y),
           NEW K, K = Chained(g, At(es1, s)) \cup Unused(g),
           \A c \in Cluster : F[c] = g[c] \/ c \in K,
           \A t \in SlotSet : t[1] \notin K => At(y, t) = At(es1, t),
           At(es1, s).name \in Names /\ At(es1, s).dir => e.name \notin Names \/ ~e.dir
    PROVE  Alters(g, es1, s, e, F, Put(y, s, e))
<1>1. /\ EntriesOK(Put(y, s, e)) /\ At(Put(y, s, e), s) = e
      /\ \A t \in SlotSet : t # s => At(Put(y, s, e), t) = At(y, t)
  BY PutIs
<1> DEFINE es2 == Put(y, s, e)
<1> HIDE DEF es2
<1>2. /\ EntriesOK(es2) /\ At(es2, s) = e
      /\ \A t \in SlotSet : t # s => At(es2, t) = At(y, t)
  BY <1>1 DEF es2
<1>3. Alters(g, es1, s, e, F, es2)
  BY <1>2 DEF Alters
<1> QED
  BY <1>3 DEF es2
---------------------------------------------------------------------------
(* What each operation comes to.                                           *)

\* The operation edits the entry of p: afterwards E is what is there.
Brings(o, p, D, E) ==
    LET d == Done(fat, disk, o.items) IN
    Edits(fat, disk.entries, D, d.fat, d.disk.entries, Dirs(d.fat, d.disk.entries),
          resolve_path(fat, disk.entries, p), NameOf(p), E)

\* The lookup and its writes.
LEMMA LookupBegins ==
    ASSUME fat \in Tables, disk \in Disks, NEW D, Neat(fat, disk.entries, D),
           NEW p \in Paths, NEW create \in BOOLEAN, NEW l \in Lookup(p, create), l.r = 0,
           NEW es1, Makes(disk.entries, l.items, es1)
    PROVE  \E k : Ready(fat, disk.entries, D, resolve_path(fat, disk.entries, p), NameOf(p),
                        l.fat, es1, l.slot, k)
<1> DEFINE es == disk.entries
           dir == resolve_path(fat, disk.entries, p)
           name == NameOf(p)
<1>1. Good(fat, es, D, "loose")
  BY DEF Neat
<1>2. name \in Names /\ dir \in D
  BY <1>1, LookupInCover
<1>3. l = dir_lookup(fat, es, dir, name, create)
  BY LookupsAre
<1>4. Neat(fat, es, D) /\ Makes(es, l.items, es1)
  OBVIOUS
<1> HIDE DEF es, dir, name
<1>5. \E k : Ready(fat, es, D, dir, name, l.fat, es1, l.slot, k)
  BY <1>2, <1>3, <1>4, LookupReady
<1> QED
  BY <1>5 DEF es, dir, name

\* A call that looks its path up and alters the entry edits the tree at that path.
LEMMA AltersBring ==
    ASSUME fat \in Tables, disk \in Disks, NEW D, Neat(fat, disk.entries, D),
           NEW p \in Paths, NEW create \in BOOLEAN, NEW l \in Lookup(p, create), l.r = 0,
           NEW es1, Makes(disk.entries, l.items, es1),
           NEW act, NEW o \in Called(act, p), o.code # "wild",
           NEW F, NEW es2, Done(fat, disk, o.items).fat = F, Done(fat, disk, o.items).disk.entries = es2,
           NEW e, Alters(l.fat, es1, l.slot, e, F, es2), Fresh(l.fat, F, es2, e),
           e.name \in {NameOf(p), DELETED, At(es1, l.slot).name}
    PROVE  Brings(o, p, D, Now(NameOf(p), e))
<1> DEFINE es == disk.entries
           g == l.fat
           s == l.slot
<1>1. PICK k : Ready(fat, es, D, resolve_path(fat, es, p), NameOf(p), g, es1, s, k)
  BY LookupBegins
<1>2. Sound(F, es2)
  <2>1. Good(fat, disk.entries, D, "loose")
    BY DEF Neat
  <2> QED
    BY <2>1, OutcomeSound
<1>3. p \in Seq(Names) /\ p # <<>>
  BY PathAssumption
<1>4. Alters(g, es1, s, e, F, es2) /\ Fresh(g, F, es2, e) /\ e.name \in {NameOf(p), DELETED, At(es1, s).name}
  OBVIOUS
<1> HIDE DEF es, g, s
<1>5. Steps(fat, es, D, p, g, es1, s, k, F, es2, e)
  BY <1>1, <1>2, <1>4, Zenon DEF Steps
<1>6. Edits(fat, es, D, F, es2, Dirs(F, es2), resolve_path(fat, es, p), NameOf(p), Now(NameOf(p), e))
  BY <1>3, <1>5, AltersEdits
<1> QED
  BY <1>6 DEF Brings, es

\* A lookup, its table, and the entry.
LEMMA LookupThenEntry ==
    ASSUME NEW f \in Tables, NEW s \in SlotSet, NEW e \in Entries, NEW X \in Seq(Items), NEW es, NEW z,
           Makes(es, X \o fat_flush(f) \o WriteEntry(f, s, e), z)
    PROVE  \E y : Makes(es, X, y) /\ EntriesOK(y) /\ z = Put(y, s, e)
<1> DEFINE A == fat_flush(f)
           B == WriteEntry(f, s, e)
<1>1. A \in Seq(Items) /\ B \in Seq(Items) /\ Makes(es, (X \o A) \o B, z)
  BY FlushIs, WriteEntryIs
<1> HIDE DEF A, B
<1>2. X \o A \in Seq(Items)
  BY <1>1, ItemsConcat
<1>3. PICK y : Makes(es, X \o A, y) /\ Makes(y, B, z)
  BY <1>1, <1>2, MakesApart
<1>4. PICK x : Makes(es, X, x) /\ Makes(x, A, y)
  BY <1>1, <1>3, MakesApart
<1>5. y = x
  BY <1>4, MakesFlush DEF A
<1>6. z = Put(y, s, e)
  BY <1>3, MakesEntry DEF B
<1>7. EntriesOK(x)
  BY <1>4, MakesOK
<1> QED
  BY <1>4, <1>5, <1>6, <1>7

\* fat_truncate leaves an empty file.
LEMMA TruncateBrings ==
    ASSUME fat \in Tables, disk \in Disks, NEW D, Neat(fat, disk.entries, D),
           NEW p \in Paths, NEW o \in Called("truncate", p), o.code # "wild"
    PROVE  Brings(o, p, D, {Entry(NameOf(p), FALSE, 0, 0)})
<1>0. o \in fat_write_file(p)
  BY DEF Called
<1>1. PICK l \in Lookup(p, TRUE) :
         /\ l.r # 2
         /\ LET old == At(disk.entries, l.slot)
                f == IF l.exists THEN fat_free_chain(fat, old.first) ELSE l.fat
            IN  o = IF l.r = 3 THEN Derailed
                    ELSE [Outcome(l.items \o fat_flush(f)
                                  \o WriteEntry(f, l.slot, Entry(NameOf(p), FALSE, 0, 0)), f, "ok")
                          EXCEPT !.emptied = l.exists /\ old.dir]
  BY <1>0 DEF fat_write_file
<1> DEFINE es == disk.entries
           old == At(disk.entries, l.slot)
           s == l.slot
           F == IF l.exists THEN fat_free_chain(fat, old.first) ELSE l.fat
           e == Entry(NameOf(p), FALSE, 0, 0)
           X == l.items \o fat_flush(F) \o WriteEntry(F, l.slot, e)
<1>2. Good(fat, es, D, "loose")
  BY DEF Neat
<1>3. /\ NameOf(p) \in Names /\ s \in SlotSet /\ l.fat \in Tables /\ l \in Lookups
      /\ l.exists => s \in Used(fat, es, D) /\ l.fat = fat /\ l.items = <<>>
  BY <1>2, LookupInCover, LookupsAre
<1>4. l.r # 3
  BY <1>1 DEF Derailed
<1>5. l.r = 0 /\ l.items \in Seq(Items)
  BY <1>1, <1>3, <1>4 DEF Lookups
<1>6. o.items = X \o Return(F, "ok")
  BY <1>1, <1>4 DEF Outcome
<1>7. F \in Tables
  BY <1>3, FreeChainIs
<1>8. e \in Entries /\ e.name = NameOf(p) /\ ~e.dir
  BY <1>3, EntryIs, Sizes DEF Entry
<1> DEFINE es2 == Done(fat, disk, o.items).disk.entries
<1>9. X \in Seq(Items)
  <2> HIDE DEF F, e
  <2>1. fat_flush(F) \in Seq(Items) /\ WriteEntry(F, s, e) \in Seq(Items)
    BY <1>3, <1>7, <1>8, FlushIs, WriteEntryIs
  <2> QED
    BY <1>5, <2>1, ItemsConcat
<1>10. Done(fat, disk, o.items).fat = F /\ Makes(es, X, es2)
  <2> HIDE DEF F, X
  <2> QED
    BY <1>6, <1>7, <1>9, DoneReturns
<1>11. \E y : Makes(es, l.items, y) /\ EntriesOK(y) /\ es2 = Put(y, s, e)
  <2> HIDE DEF F, e, es2
  <2> QED
    BY <1>3, <1>5, <1>7, <1>8, <1>10, LookupThenEntry
<1>12. PICK es1 : Makes(es, l.items, es1) /\ EntriesOK(es1) /\ es2 = Put(es1, s, e)
  BY <1>11
<1> DEFINE K == Chained(l.fat, At(es1, s)) \cup Unused(l.fat)
<1>13. \A c \in Cluster : F[c] = l.fat[c] \/ c \in K
  <2>1. CASE l.exists
    <3>1. es1 = es
      BY <1>3, <1>12, <2>1, MakesNone
    <3>2. old.name \in Names
      BY <1>3, <2>1 DEF Used
    <3>3. Chain(fat, old.first) \subseteq K
      BY <1>3, <2>1, <3>1, <3>2 DEF Chained
    <3> QED
      BY <1>3, <2>1, <3>3, FreeChainIs
  <2>2. CASE ~l.exists
    BY <2>2
  <2> QED
    BY <2>1, <2>2
<1>14. Alters(l.fat, es1, s, e, F, es2)
  <2>1. K = Chained(l.fat, At(es1, s)) \cup Unused(l.fat)
    OBVIOUS
  <2>2. \A t \in SlotSet : t[1] \notin K => At(es1, t) = At(es1, t)
    OBVIOUS
  <2> HIDE DEF K, F, e, es2, s
  <2>3. Alters(l.fat, es1, s, e, F, Put(es1, s, e))
    BY <1>3, <1>7, <1>8, <1>12, <1>13, <2>1, <2>2, PutAlters
  <2> QED
    BY <1>12, <2>3
<1> HIDE DEF e, F, es2, X
<1>15. Fresh(l.fat, F, es2, e)
  BY <1>8, NotFresh
<1>16. Brings(o, p, D, Now(NameOf(p), e))
  BY <1>5, <1>8, <1>10, <1>12, <1>14, <1>15, AltersBring DEF es2, es, s
<1> QED
  BY <1>8, <1>16 DEF Now, e

\* A lookup that finds the name reports no error.
LEMMA FoundIsAll ==
    ASSUME NEW f, NEW es, NEW dir, NEW name, NEW create \in BOOLEAN, dir_lookup(f, es, dir, name, create).exists
    PROVE  dir_lookup(f, es, dir, name, create).r = 0
<1>1. /\ \A S, x : Found(f, dir, S, x).r = 0
      /\ \A r : ~Failure(r, f).exists
      /\ ~Grown(f, dir).exists
  BY DEF Found, Failure, Grown
<1> QED
  BY <1>1, Zenon DEF dir_lookup

\* A call without items leaves the entries.
LEMMA MakesNothing ==
    ASSUME NEW es, EntriesOK(es)
    PROVE  Makes(es, <<>>, es)
<1> DEFINE h == [k \in {0} |-> es]
<1>1. Len(<<>>) = 0 /\ <<>> \in Seq(Items)
  OBVIOUS
<1>2. h[0] = es /\ (\A k \in 0..0 : EntriesOK(h[k])) /\ \A k \in 1..0 : h[k] = EntriesAfter(h[k - 1], <<>>[k])
  OBVIOUS
<1> HIDE DEF h
<1> QED
  BY <1>1, <1>2, Zenon DEF Makes

\* The entry and the table, in either order.
LEMMA EntryAndTable ==
    ASSUME NEW f \in Tables, NEW s \in SlotSet, NEW e \in Entries, NEW es, NEW z,
           \/ Makes(es, WriteEntry(f, s, e) \o fat_flush(f), z)
           \/ Makes(es, fat_flush(f) \o WriteEntry(f, s, e), z)
    PROVE  z = Put(es, s, e)
<1> DEFINE A == fat_flush(f)
           B == WriteEntry(f, s, e)
<1>1. A \in Seq(Items) /\ B \in Seq(Items) /\ (Makes(es, B \o A, z) \/ Makes(es, A \o B, z))
  BY FlushIs, WriteEntryIs
<1>2. \A a, b : /\ Makes(a, A, b) => b = a
                /\ Makes(a, B, b) => b = Put(a, s, e)
  BY MakesFlush, MakesEntry
<1> HIDE DEF A, B
<1>3. CASE Makes(es, B \o A, z)
  <2>1. PICK y : Makes(es, B, y) /\ Makes(y, A, z)
    BY <1>1, <1>3, MakesApart
  <2> QED
    BY <1>2, <2>1
<1>4. CASE Makes(es, A \o B, z)
  <2>1. PICK y : Makes(es, A, y) /\ Makes(y, B, z)
    BY <1>1, <1>4, MakesApart
  <2> QED
    BY <1>2, <2>1
<1> QED
  BY <1>1, <1>3, <1>4

\* fat_unlink and fat_rmdir leave nothing.
LEMMA RemovalBrings ==
    ASSUME fat \in Tables, disk \in Disks, NEW D, Neat(fat, disk.entries, D), NEW p \in Paths,
           NEW act \in {"unlink", "rmdir"}, NEW o \in Called(act, p), o.code # "wild"
    PROVE  Brings(o, p, D, {})
<1> DEFINE F(l) == fat_free_chain(fat, At(disk.entries, l.slot).first)
           es == disk.entries
           e == Gone
<1>0. o \in fat_delete_file(p) \/ o \in fat_rmdir(p)
  BY DEF Called
<1>1. PICK l \in Lookup(p, FALSE) :
         /\ l.exists
         /\ \/ o = Outcome(fat_delete_items(F(l), l.slot), F(l), "ok")
            \/ o = Outcome(fat_flush(F(l)) \o WriteEntry(F(l), l.slot, Gone), F(l), "ok")
  BY <1>0 DEF fat_delete_file, fat_rmdir
<1> DEFINE s == l.slot
           f == F(l)
           X == SubSeq(o.items, 1, Len(o.items) - 1)
           es2 == Done(fat, disk, o.items).disk.entries
<1>2. Good(fat, es, D, "loose")
  BY DEF Neat
<1>3. /\ NameOf(p) \in Names /\ s \in SlotSet /\ s \in Used(fat, es, D) /\ l.fat = fat /\ l.items = <<>>
      /\ EntriesOK(es) /\ l = dir_lookup(fat, es, resolve_path(fat, es, p), NameOf(p), FALSE)
  BY <1>1, <1>2, LookupInCover, LookupsAre
<1>4. l.r = 0
  <2> DEFINE no == FALSE
  <2>1. no \in BOOLEAN /\ l = dir_lookup(fat, es, resolve_path(fat, es, p), NameOf(p), no)
    BY <1>3
  <2> HIDE DEF es, no
  <2> QED
    BY <1>1, <2>1, FoundIsAll
<1>5. f \in Tables /\ \A x \in Cluster : f[x] = IF x \in Chain(fat, At(es, s).first) THEN FAT12_FREE ELSE fat[x]
  BY FreeChainIs
<1>6. \/ o.items = (WriteEntry(f, s, e) \o fat_flush(f)) \o Return(f, "ok")
      \/ o.items = (fat_flush(f) \o WriteEntry(f, s, e)) \o Return(f, "ok")
  <2>1. \A Y : Outcome(Y, f, "ok").items = Y \o Return(f, "ok")
    BY DEF Outcome
  <2>2. fat_delete_items(F(l), l.slot) = WriteEntry(f, s, e) \o fat_flush(f)
    BY DEF fat_delete_items
  <2>3. \/ o = Outcome(WriteEntry(f, s, e) \o fat_flush(f), f, "ok")
        \/ o = Outcome(fat_flush(f) \o WriteEntry(f, s, e), f, "ok")
    BY <1>1, <2>2
  <2> HIDE DEF f, s, e
  <2> QED
    BY <2>1, <2>3
<1>7. e \in Entries /\ e.name = DELETED /\ DELETED \notin Names
  <2>1. Gone.name = DELETED
    BY DEF Gone, NoEntry
  <2> QED
    BY <2>1, EmptyDirIs, NamesAssumption
<1> HIDE DEF F, e
<1>8. Done(fat, disk, o.items).fat = f /\ es2 = Put(es, s, e)
  <2> HIDE DEF f, es
  <2>1. WriteEntry(f, s, e) \in Seq(Items) /\ fat_flush(f) \in Seq(Items)
    BY <1>3, <1>5, <1>7, FlushIs, WriteEntryIs
  <2>2. WriteEntry(f, s, e) \o fat_flush(f) \in Seq(Items) /\ fat_flush(f) \o WriteEntry(f, s, e) \in Seq(Items)
    BY <2>1, ItemsConcat
  <2>3. CASE o.items = (WriteEntry(f, s, e) \o fat_flush(f)) \o Return(f, "ok")
    <3> DEFINE Y == WriteEntry(f, s, e) \o fat_flush(f)
    <3>1. Y \in Seq(Items) /\ o.items = Y \o Return(f, "ok")
      BY <2>2, <2>3
    <3> HIDE DEF Y
    <3>2. Done(fat, disk, o.items).fat = f /\ Makes(disk.entries, Y, Done(fat, disk, o.items).disk.entries)
      BY <1>5, <3>1, DoneReturns
    <3>3. Makes(es, Y, es2)
      BY <3>2 DEF es
    <3> HIDE DEF es2
    <3>4. es2 = Put(es, s, e)
      BY <1>3, <1>5, <1>7, <3>3, EntryAndTable DEF Y
    <3> QED
      BY <3>2, <3>4
  <2>4. CASE o.items = (fat_flush(f) \o WriteEntry(f, s, e)) \o Return(f, "ok")
    <3> DEFINE Y == fat_flush(f) \o WriteEntry(f, s, e)
    <3>1. Y \in Seq(Items) /\ o.items = Y \o Return(f, "ok")
      BY <2>2, <2>4
    <3> HIDE DEF Y
    <3>2. Done(fat, disk, o.items).fat = f /\ Makes(disk.entries, Y, Done(fat, disk, o.items).disk.entries)
      BY <1>5, <3>1, DoneReturns
    <3>3. Makes(es, Y, es2)
      BY <3>2 DEF es
    <3> HIDE DEF es2
    <3>4. es2 = Put(es, s, e)
      BY <1>3, <1>5, <1>7, <3>3, EntryAndTable DEF Y
    <3> QED
      BY <3>2, <3>4
  <2> QED
    BY <1>6, <2>3, <2>4
<1> DEFINE K == Chained(fat, At(es, s)) \cup Unused(fat)
<1>9. \A c \in Cluster : f[c] = fat[c] \/ c \in K
  <2>1. Chain(fat, At(es, s).first) \subseteq K
    BY <1>3 DEF Chained, Used
  <2> HIDE DEF K, f
  <2> QED
    BY <1>5, <2>1
<1>10. Alters(fat, es, s, e, f, es2)
  <2>1. K = Chained(fat, At(es, s)) \cup Unused(fat) /\ \A t \in SlotSet : t[1] \notin K => At(es, t) = At(es, t)
    OBVIOUS
  <2> HIDE DEF K, f, s, es, es2
  <2>2. Alters(fat, es, s, e, f, Put(es, s, e))
    BY <1>3, <1>5, <1>7, <1>9, <2>1, PutAlters
  <2> QED
    BY <1>8, <2>2
<1>11. Fresh(fat, f, es2, e)
  BY <1>7, NotFresh
<1>12. Makes(es, l.items, es)
  <2> HIDE DEF es
  <2> QED
    BY <1>3, MakesNothing
<1> HIDE DEF f, es2
<1>13. Brings(o, p, D, Now(NameOf(p), e))
  BY <1>3, <1>4, <1>7, <1>8, <1>10, <1>11, <1>12, AltersBring DEF es2, es, s
<1> QED
  BY <1>3, <1>7, <1>13 DEF Now

\* The slots of a directory of one cluster.
LEMMA OneBlock ==
    ASSUME NEW f \in Tables, NEW c \in Cluster, f[c] = FAT12_EOC
    PROVE  Slots(f, c) = [k \in 1..DirEntries |-> <<c, k>>]
<1> DEFINE N == DirEntries
<1>1. N \in Nat \ {0} /\ c # Root /\ c \in Cluster \cup {Root}
  BY Sizes, NullIsNoBlock
<1>2. Cardinality(Chain(f, c)) = 1 /\ ChainWalk(f, c)[0] = c
  BY OneCluster
<1>3. Len(ChainSeq(f, c)) = 1 /\ ChainSeq(f, c)[1] = c
  <2> DEFINE n == Cardinality(Chain(f, c))
             v == ChainSeq(f, c)
  <2>1. Len(v) = n /\ \A k \in 1..n : v[k] = ChainWalk(f, c)[k - 1]
    BY ChainSeqIs
  <2>2. n = 1
    BY <1>2
  <2> HIDE DEF n, v
  <2>3. v[1] = ChainWalk(f, c)[1 - 1]
    BY <2>1, <2>2
  <2> QED
    BY <1>2, <2>1, <2>2, <2>3 DEF v
<1>4. BlocksOf(f, c) = ChainSeq(f, c) /\ InBlock(c) = N
  BY <1>1 DEF BlocksOf, InBlock
<1> HIDE DEF N
<1>5. Slots(f, c) \in Seq(SlotSet) /\ DOMAIN Slots(f, c) = 1..(N * 1)
      /\ \A k \in 1..(N * 1) : Slots(f, c)[k] = <<BlocksOf(f, c)[1 + (k - 1) \div N], 1 + ((k - 1) % N)>>
  <2>1. /\ Slots(f, c) \in Seq(SlotSet)
        /\ DOMAIN Slots(f, c) = 1..(InBlock(c) * Len(BlocksOf(f, c)))
        /\ \A k \in 1..(InBlock(c) * Len(BlocksOf(f, c))) :
              Slots(f, c)[k] = <<BlocksOf(f, c)[1 + (k - 1) \div InBlock(c)], 1 + ((k - 1) % InBlock(c))>>
    BY <1>1, SlotsAre
  <2> QED
    BY <1>3, <1>4, <2>1
<1>6. N * 1 = N
  BY <1>1
<1>7. ASSUME NEW k \in 1..N PROVE Slots(f, c)[k] = <<c, k>>
  <2>1. (k - 1) \div N = 0 /\ (k - 1) % N = k - 1
    <3> DEFINE q == (k - 1) \div N
               r == (k - 1) % N
    <3>1. k \in 1..(N * 1) /\ 1 \in Nat
      BY <1>6
    <3>2. q \in 0..(1 - 1) /\ 1 + r \in 1..N /\ k = N * q + (1 + r)
      BY <1>1, <3>1, Places
    <3> HIDE DEF q, r
    <3>3. q = 0 /\ N * 0 = 0 /\ k \in Int
      BY <1>1, <3>2
    <3>5. k = N * 0 + (1 + r)
      BY <3>2, <3>3
    <3>6. r \in Int
      BY <1>1, <3>3 DEF r
    <3>4. r = k - 1
      BY <3>3, <3>5, <3>6
    <3> QED
      BY <3>3, <3>4 DEF q, r
  <2>2. 1 + (k - 1) \div N = 1 /\ 1 + ((k - 1) % N) = k
    BY <2>1
  <2> QED
    BY <1>3, <1>4, <1>5, <1>6, <2>2
<1>8. DOMAIN Slots(f, c) = 1..N
  BY <1>5, <1>6
<1>9. Slots(f, c) = [k \in DOMAIN Slots(f, c) |-> Slots(f, c)[k]]
  BY DEF Slots
<1> QED
  BY <1>7, <1>8, <1>9 DEF N

\* A slot of a directory lies in no cluster that can be allocated.
LEMMA SlotIsTaken ==
    ASSUME NEW f, NEW es, NEW D, Neat(f, es, D), NEW dir \in D, NEW k \in DOMAIN Slots(f, dir)
    PROVE  Slots(f, dir)[k] \in SlotSet /\ Slots(f, dir)[k][1] \notin Unused(f)
<1>1. f \in Tables /\ dir \in Cluster \cup {Root} /\ (dir # Root => Proper(f, dir))
  BY NeatFacts
<1>2. Slots(f, dir)[k] \in SlotSet /\ Slots(f, dir)[k][1] \in BlockSet(f, dir)
  BY <1>1, SlotIn
<1>3. CASE dir = Root
  BY <1>2, <1>3, NullIsNoBlock DEF BlockSet, Unused
<1>4. CASE dir # Root
  BY <1>1, <1>2, <1>4 DEF BlockSet, Proper, Unused
<1> QED
  BY <1>2, <1>3, <1>4

\* What stands at a slot that a lookup has made ready.
LEMMA ReadySlot ==
    ASSUME NEW f, NEW es, NEW D, NEW dir, NEW name, NEW g, NEW es1, NEW s, NEW k,
           Ready(f, es, D, dir, name, g, es1, s, k)
    PROVE  /\ s \in SlotSet /\ s[1] \notin Unused(g)
           /\ \E d \in D : s[1] \in BlockSet(g, d)
           /\ At(es1, s).name \in {END, DELETED, name}
           /\ Ent(Row(f, es, dir), name) = {} => At(es1, s).name \notin Names
<1> DEFINE R == Row(g, es1, dir)
<1>1. /\ Neat(g, es1, D) /\ dir \in D /\ name \in Names
      /\ k \in DOMAIN Slots(g, dir) /\ Slots(g, dir)[k] = s /\ Spot(R, k, name)
      /\ \A n \in Names : Ent(R, n) = Ent(Row(f, es, dir), n)
  BY DEF Ready
<1>2. s \in SlotSet /\ s[1] \notin Unused(g)
  BY <1>1, SlotIsTaken
<1>3. k \in DOMAIN R /\ R[k] = At(es1, s) /\ R[k].name \in {END, DELETED, name}
  BY <1>1 DEF Row, Spot
<1>4. ASSUME At(es1, s).name \in Names PROVE Ent(Row(f, es, dir), name) # {}
  <2>1. R[k].name = name
    BY <1>3, <1>4, NameIsNoMark
  <2>2. R[k] \in Ent(R, name)
    BY <1>3, <2>1 DEF Ent
  <2> QED
    BY <1>1, <2>2
<1>5. s[1] \in BlockSet(g, dir)
  <2>1. g \in Tables /\ dir \in Cluster \cup {Root}
    BY <1>1, NeatFacts
  <2> QED
    BY <1>1, <2>1, SlotIn
<1> QED
  BY <1>1, <1>2, <1>3, <1>4, <1>5

\* The first block of a new directory holds no names.
LEMMA FirstBlockEmpty ==
    ASSUME NEW c \in Cluster, NEW parent \in Cluster \cup {Root}, NEW b, b = FirstBlock(c, parent)
    PROVE  /\ b \in [1..DirEntries -> Entries]
           /\ \A i \in 1..DirEntries : b[i].name \notin Names
           /\ \A i, j \in 1..DirEntries : i < j /\ b[i].name = END => b[j].name = END
           /\ Points(b, parent)
<1>1. b \in [1..DirEntries -> Entries] /\ DirEntries \in Nat /\ DirEntries >= 2
  BY FirstBlockIs, DirAssumption
<1>2. /\ \A i \in 1..DirEntries : EmptyDir[i].name = END
      /\ EmptyDir \in [1..DirEntries -> Entries]
      /\ Entry(".", TRUE, c, 0).name = "." /\ Entry("..", TRUE, parent, 0).name = ".."
  BY EmptyDirIs DEF EmptyDir, NoEntry, Entry
<1> DEFINE x == Entry(".", TRUE, c, 0)
           y == Entry("..", TRUE, parent, 0)
<1>11. y.first = parent
  BY DEF Entry
<1>3. b = [EmptyDir EXCEPT ![1] = x, ![2] = y]
  BY DEF FirstBlock
<1>4. x.name = "." /\ y.name = ".."
  BY <1>2
<1> HIDE DEF x, y
<1>5. b[1] = x /\ b[2] = y /\ \A i \in 3..DirEntries : b[i] = EmptyDir[i]
  BY <1>1, <1>2, <1>3
<1>6. b[1].name = "." /\ b[2].name = ".." /\ \A i \in 3..DirEntries : b[i].name = END
  BY <1>1, <1>2, <1>4, <1>5
<1>7. "." # END /\ ".." # END /\ "." \notin Names /\ ".." \notin Names /\ END \notin Names
  BY NamesAssumption DEF END
<1>8. \A i \in 1..DirEntries : i = 1 \/ i = 2 \/ i \in 3..DirEntries
  BY <1>1
<1>9. \A i \in 1..DirEntries : b[i].name \notin Names
  BY <1>6, <1>7, <1>8
<1>10. \A i, j \in 1..DirEntries : i < j /\ b[i].name = END => b[j].name = END
  <2> SUFFICES ASSUME NEW i \in 1..DirEntries, NEW j \in 1..DirEntries, i < j, b[i].name = END
               PROVE  b[j].name = END
    OBVIOUS
  <2>1. i # 1 /\ i # 2
    BY <1>6, <1>7
  <2>2. i \in 3..DirEntries
    BY <1>8, <2>1
  <2>3. j \in 3..DirEntries
    BY <1>1, <2>2
  <2> QED
    BY <1>6, <2>3
<1>12. Points(b, parent)
  <2>1. 2 \in 1..DirEntries /\ DOMAIN b = 1..DirEntries
    BY <1>1
  <2> QED
    BY <1>5, <1>6, <1>11, <2>1 DEF Points
<1> QED
  BY <1>1, <1>9, <1>10, <1>12

\* The row of a new directory.
LEMMA NewRow ==
    ASSUME NEW f \in Tables, NEW c \in Cluster, f[c] = FAT12_EOC, NEW b \in [1..DirEntries -> Entries],
           NEW es, \A t \in SlotSet : t[1] = c => At(es, t) = b[t[2]]
    PROVE  Row(f, es, c) = b
<1>1. Slots(f, c) = [k \in 1..DirEntries |-> <<c, k>>]
  BY OneBlock
<1>2. c # Root /\ c \in Cluster \cup {Root} /\ DirEntries \in Nat
  BY NullIsNoBlock, DirAssumption
<1>3. ASSUME NEW k \in 1..DirEntries PROVE At(es, Slots(f, c)[k]) = b[k]
  <2>1. <<c, k>> \in SlotSet /\ <<c, k>>[1] = c /\ <<c, k>>[2] = k
    BY <1>2 DEF SlotSet, InBlock
  <2> QED
    BY <1>1, <2>1
<1>4. DOMAIN Slots(f, c) = 1..DirEntries
  BY <1>1
<1>5. Row(f, es, c) = [k \in 1..DirEntries |-> b[k]]
  BY <1>3, <1>4, Zenon DEF Row
<1> QED
  BY <1>5

\* A directory that is there afterwards is a new one, below the one of the path.
Opens(o, p, D, E) ==
    LET d == Done(fat, disk, o.items) IN
    \A x \in E : x.dir => /\ x.first \notin D
                          /\ Points(Row(d.fat, d.disk.entries, x.first), resolve_path(fat, disk.entries, p))

\* fat_mkdir edits the tree at its path.
LEMMA MkdirBrings ==
    ASSUME fat \in Tables, disk \in Disks, NEW D, Neat(fat, disk.entries, D), NEW p \in Paths,
           NEW o \in Called("mkdir", p), o.code # "wild"
    PROVE  \E E : Brings(o, p, D, E) /\ Opens(o, p, D, E) /\ \A x \in E : x.dir
<1> DEFINE dir == resolve_path(fat, disk.entries, p)
           C(l) == NewCluster(l.fat)
           F(l) == Allocate(l.fat)
           es == disk.entries
<1>0. o \in fat_mkdir(p)
  BY DEF Called
<1>1. PICK l \in Lookup(p, TRUE) :
         /\ l.r = 0 /\ ~l.exists
         /\ \/ /\ Unused(l.fat) # {}
               /\ o = Outcome(l.items \o WriteDir(F(l), C(l), FirstBlock(C(l), dir)) \o fat_flush(F(l))
                              \o WriteEntry(F(l), l.slot, Entry(NameOf(p), TRUE, C(l), 0)), F(l), "ok")
            \/ o = Outcome(l.items, l.fat, "full")
  BY <1>0 DEF fat_mkdir
<1> DEFINE s == l.slot
           name == NameOf(p)
           es2 == Done(fat, disk, o.items).disk.entries
<1>2. Good(fat, es, D, "loose")
  BY DEF Neat
<1>3. /\ name \in Names /\ s \in SlotSet /\ l.fat \in Tables /\ dir \in D
      /\ dir \in Cluster \cup {Root} /\ l.items \in Seq(Items)
      /\ EntriesOK(es) /\ l = dir_lookup(fat, es, dir, name, TRUE)
  BY <1>2, LookupInCover, LookupsAre DEF Lookups
<1>4. Ent(Row(fat, es, dir), name) = {}
  <2> DEFINE yes == TRUE
  <2>1. yes \in BOOLEAN /\ l = dir_lookup(fat, es, dir, name, yes) /\ Neat(fat, es, D)
    BY <1>3
  <2> HIDE DEF yes, es, dir, name
  <2> QED
    BY <1>1, <1>3, <2>1, LookupFinds
<1>20. \A Y, g, code : Outcome(Y, g, code).items = Y \o Return(g, code)
  BY DEF Outcome
<1>21. \A es1 : Makes(es, l.items, es1) =>
         /\ \E k : Ready(fat, es, D, dir, name, l.fat, es1, s, k)
         /\ EntriesOK(es1) /\ s[1] \notin Unused(l.fat)
         /\ At(es1, s).name \notin Names /\ Neat(l.fat, es1, D)
  <2> SUFFICES ASSUME NEW es1, Makes(es, l.items, es1)
               PROVE  /\ \E k : Ready(fat, es, D, dir, name, l.fat, es1, s, k)
                      /\ EntriesOK(es1) /\ s[1] \notin Unused(l.fat)
                      /\ At(es1, s).name \notin Names /\ Neat(l.fat, es1, D)
    OBVIOUS
  <2>1. PICK k : Ready(fat, es, D, dir, name, l.fat, es1, s, k)
    BY <1>1, LookupBegins
  <2>2. EntriesOK(es1)
    BY MakesOK
  <2> HIDE DEF es, dir, name, s
  <2>3. Neat(l.fat, es1, D)
    BY <2>1 DEF Ready
  <2> QED
    BY <1>4, <2>1, <2>2, <2>3, ReadySlot
<1>5. CASE o = Outcome(l.items, l.fat, "full")
  <2>1. Done(fat, disk, o.items).fat = l.fat /\ Makes(es, l.items, es2)
    <3> DEFINE Y == l.items
    <3>3. Outcome(l.items, l.fat, "full").items = l.items \o Return(l.fat, "full")
      BY DEF Outcome
    <3>4. Y \in Seq(Items) /\ Y = l.items /\ l.fat \in Tables
      BY <1>3
    <3> HIDE DEF Y, s, name, es, C, F
    <3>1. o.items = Y \o Return(l.fat, "full")
      BY <1>5, <3>3, <3>4, Zenon
    <3>2. Done(fat, disk, o.items).fat = l.fat /\ Makes(disk.entries, Y, Done(fat, disk, o.items).disk.entries)
      BY <3>1, <3>4, DoneReturns
    <3> QED
      BY <3>2, <3>4 DEF es
  <2> DEFINE e == At(es2, s)
  <2>2. e.name \notin Names
    BY <1>21, <2>1
  <2>3. Alters(l.fat, es2, s, e, l.fat, es2)
    BY <1>3, <1>21, <2>1 DEF Alters
  <2> HIDE DEF e, es2
  <2>4. Fresh(l.fat, l.fat, es2, e)
    BY <2>2, NotFresh
  <2>5. e.name \in {name, DELETED, At(es2, s).name}
    BY DEF e
  <2>6. Brings(o, p, D, Now(name, e))
    BY <1>1, <2>1, <2>3, <2>4, <2>5, AltersBring DEF es2
  <2>7. Now(name, e) = {}
    BY <1>3, <2>2 DEF Now
  <2>8. Opens(o, p, D, {})
    BY DEF Opens
  <2> QED
    BY <2>6, <2>7, <2>8
<1>6. CASE /\ Unused(l.fat) # {}
           /\ o = Outcome(l.items \o WriteDir(F(l), C(l), FirstBlock(C(l), dir)) \o fat_flush(F(l))
                          \o WriteEntry(F(l), l.slot, Entry(NameOf(p), TRUE, C(l), 0)), F(l), "ok")
  <2> DEFINE c == C(l)
             f == F(l)
             b == FirstBlock(c, dir)
             e == Entry(name, TRUE, c, 0)
             X == l.items \o WriteDir(f, c, b)
             Y == X \o fat_flush(f) \o WriteEntry(f, s, e)
  <2>1. /\ f \in Tables /\ c \in Cluster /\ l.fat[c] = FAT12_FREE
        /\ \A x \in Cluster : f[x] = IF x = c THEN FAT12_EOC ELSE l.fat[x]
    BY <1>3, <1>6, AllocateIs
  <2>2. o.items = Y \o Return(f, "ok")
    BY <1>6, <1>20
  <2>3. b \in [1..DirEntries -> Entries] /\ b = FirstBlock(c, dir)
    BY <1>3, <2>1, FirstBlockIs
  <2>4. e.dir /\ e.first = c /\ e.name = name /\ e \in Entries
    BY <1>3, <2>1, EntryIs, Sizes DEF Entry
  <2> HIDE DEF C, F, b, e
  <2>5. X \in Seq(Items) /\ Y \in Seq(Items) /\ WriteDir(f, c, b) \in Seq(Items)
    <3>1. WriteDir(f, c, b) \in Seq(Items) /\ fat_flush(f) \in Seq(Items) /\ WriteEntry(f, s, e) \in Seq(Items)
      BY <1>3, <2>1, <2>3, <2>4, WriteDirIs, FlushIs, WriteEntryIs
    <3> QED
      BY <1>3, <3>1, ItemsConcat
  <2> HIDE DEF f, c, es
  <2>6. Done(fat, disk, o.items).fat = f /\ Makes(es, Y, es2)
    <3> HIDE DEF X, Y
    <3> QED
      BY <2>1, <2>2, <2>5, DoneReturns DEF es
  <2> HIDE DEF es2, X
  <2>7. \E y : Makes(es, X, y) /\ EntriesOK(y) /\ es2 = Put(y, s, e)
    <3>1. Makes(es, X \o fat_flush(f) \o WriteEntry(f, s, e), es2)
      BY <2>6
    <3> HIDE DEF s, Y
    <3> QED
      BY <1>3, <2>1, <2>4, <2>5, <3>1, LookupThenEntry
  <2>8. PICK y : Makes(es, X, y) /\ EntriesOK(y) /\ es2 = Put(y, s, e)
    BY <2>7
  <2>9. PICK es1 : Makes(es, l.items, es1) /\ Makes(es1, WriteDir(f, c, b), y)
    BY <1>3, <2>5, <2>8, MakesApart DEF X
  <2>10. y = Zeroed(es1, c, b)
    BY <2>1, <2>3, <2>9, MakesDir
  <2>11. EntriesOK(es1) /\ s[1] \notin Unused(l.fat) /\ At(es1, s).name \notin Names /\ Neat(l.fat, es1, D)
    BY <1>21, <2>9
  <2>12. \A t \in SlotSet : At(y, t) = IF t[1] = c THEN b[t[2]] ELSE At(es1, t)
    <3>1. \A t \in SlotSet : At(Zeroed(es1, c, b), t) = IF t[1] = c THEN b[t[2]] ELSE At(es1, t)
      BY <2>1, <2>3, <2>11, ZeroedIs
    <3> QED
      BY <2>10, <3>1
  <2> DEFINE K == Chained(l.fat, At(es1, s)) \cup Unused(l.fat)
  <2>13. c \in K /\ c \in Unused(l.fat) /\ K = Chained(l.fat, At(es1, s)) \cup Unused(l.fat)
    BY <2>1 DEF Unused
  <2> HIDE DEF K
  <2>14. /\ \A x \in Cluster : f[x] = l.fat[x] \/ x \in K
         /\ \A t \in SlotSet : t[1] \notin K => At(y, t) = At(es1, t)
    BY <2>1, <2>12, <2>13
  <2>15. Alters(l.fat, es1, s, e, f, Put(y, s, e))
    <3> HIDE DEF s
    <3> QED
      BY <1>3, <2>1, <2>4, <2>8, <2>11, <2>13, <2>14, PutAlters
  <2>16. Alters(l.fat, es1, s, e, f, es2)
    BY <2>8, <2>15
  <2>17. Row(f, es2, c) = b
    <3>1. \A t \in SlotSet : t # s => At(Put(y, s, e), t) = At(y, t)
      BY <1>3, <2>4, <2>8, PutIs
    <3>2. \A t \in SlotSet : t[1] = c => At(es2, t) = b[t[2]]
      BY <2>8, <2>11, <2>12, <2>13, <3>1
    <3>3. f[c] = FAT12_EOC
      BY <2>1
    <3> QED
      BY <2>1, <2>3, <3>2, <3>3, NewRow
  <2>18. /\ \A i \in DOMAIN b : b[i].name \notin Names
         /\ Ended(b) /\ Points(b, dir)
    <3>1. DOMAIN b = 1..DirEntries
      BY <2>3
    <3>2. /\ \A i \in 1..DirEntries : b[i].name \notin Names
          /\ \A i, j \in 1..DirEntries : i < j /\ b[i].name = END => b[j].name = END
          /\ Points(b, dir)
      BY <1>3, <2>1, <2>3, FirstBlockEmpty
    <3> QED
      BY <3>1, <3>2 DEF Ended
  <2>19. Fresh(l.fat, f, es2, e)
    BY <2>4, <2>13, <2>17, <2>18 DEF Fresh
  <2>23. c \notin D
    BY <2>11, <2>13, NoRoom
  <2>24. Opens(o, p, D, {e})
    <3>1. Points(Row(f, es2, e.first), dir) /\ e.first \notin D
      BY <2>4, <2>17, <2>18, <2>23
    <3>2. f = Done(fat, disk, o.items).fat /\ es2 = Done(fat, disk, o.items).disk.entries
      BY <2>6 DEF es2
    <3> HIDE DEF dir
    <3>3. Points(Row(Done(fat, disk, o.items).fat, Done(fat, disk, o.items).disk.entries, e.first), dir)
      BY <3>1, <3>2
    <3> QED
      BY <3>1, <3>3 DEF Opens, dir
  <2> HIDE DEF s, name
  <2>22. e.name \in {name, DELETED, At(es1, s).name}
    BY <2>4
  <2>20. Brings(o, p, D, Now(name, e))
    BY <1>1, <2>6, <2>9, <2>16, <2>19, <2>22, AltersBring DEF es2, es, s, name
  <2>25. Now(name, e) = {e}
    BY <2>4 DEF Now
  <2> QED
    BY <2>4, <2>20, <2>24, <2>25
<1> QED
  BY <1>1, <1>5, <1>6

\* Written, the entry has the size that the write and the old size make it; on a
\* full disk it is as it was.
Wrote(o, p, D, e) ==
    LET E == Ent(Row(fat, disk.entries, resolve_path(fat, disk.entries, p)), NameOf(p)) IN
    \/ o.code = "full" /\ Brings(o, p, D, E) /\ \A x \in E : ~x.dir
    \/ /\ o.code = "ok"
       /\ \E x, z : /\ Brings(o, p, D, {x}) /\ x.size = NewSize(e, z.size) /\ ~x.dir
                    /\ E = {z} \/ (E = {} /\ z.size = 0)

\* A write to the file whose entry is z, or to none yet, where l is found, in full
\* or until the disk is full.
Puts(o, p, D, e, b, l, z) ==
    LET E == Ent(Row(fat, disk.entries, resolve_path(fat, disk.entries, p)), NameOf(p))
        h == Stored(l.fat, z.first, e, b)
        new == [z EXCEPT !.first = h.first, !.size = NewSize(e, z.size)]
    IN  /\ l \in Lookup(p, TRUE) /\ l.slot \in SlotSet
        /\ z \in Entries /\ ~z.dir /\ Proper(l.fat, z.first)
        /\ z.size <= cluster_size * Cardinality(Chain(l.fat, z.first))
        /\ l.exists => l.fat = fat /\ E = {z}
        /\ ~l.exists => E = {} /\ z = Entry(NameOf(p), FALSE, 0, 0)
        /\ \/ /\ ~h.full
              /\ o = Outcome(l.items \o fat_write_items(l.fat, h, l.slot, new), h.fat, "ok")
              /\ Brings(o, p, D, {new}) /\ new \in Entries /\ ~new.dir
           \/ /\ o = Outcome(l.items \o h.items, h.fat, "full")
              /\ Brings(o, p, D, E)

LEMMA WritePuts ==
    ASSUME fat \in Tables, disk \in Disks, NEW D, Neat(fat, disk.entries, D), NEW p \in Paths,
           NEW e \in Extent, NEW b \in Bytes, NEW o \in fat_write_at(p, e, b), o \in Called("write", p),
           o.code # "wild"
    PROVE  \E l, z : Puts(o, p, D, e, b, l, z)
<1> DEFINE Old(l) == IF l.exists THEN At(disk.entries, l.slot) ELSE Entry(NameOf(p), FALSE, 0, 0)
           H(l) == Stored(l.fat, Old(l).first, e, b)
           New(l) == [Old(l) EXCEPT !.first = H(l).first, !.size = NewSize(e, Old(l).size)]
           es == disk.entries
           dir == resolve_path(fat, disk.entries, p)
           name == NameOf(p)
<1>1. PICK l \in Lookup(p, TRUE) :
         /\ l.r # 2
         /\ \/ o = Derailed
            \/ /\ l.r # 3 /\ ~(l.exists /\ Old(l).dir)
               /\ \/ /\ ~H(l).full
                     /\ o = Outcome(l.items \o fat_write_items(l.fat, H(l), l.slot, New(l)), H(l).fat, "ok")
                  \/ o = Outcome(l.items \o H(l).items, H(l).fat, "full")
  BY Zenon DEF fat_write_at
<1> DEFINE ent == Old(l)
           h == H(l)
           new == New(l)
           s == l.slot
           E == Ent(Row(fat, es, dir), name)
           es2 == Done(fat, disk, o.items).disk.entries
<1>2. Good(fat, es, D, "loose")
  BY DEF Neat
<1>3. /\ name \in Names /\ s \in SlotSet /\ l.fat \in Tables /\ l \in Lookups /\ dir \in D
      /\ l.exists => s \in Used(fat, es, D) /\ l.fat = fat /\ l.items = <<>>
      /\ At(es, s) \in Entries /\ e.offset \in Nat /\ e.len \in Nat \ {0}
      /\ EntriesOK(es) /\ l = dir_lookup(fat, es, dir, name, TRUE)
  BY <1>2, LookupInCover, LookupsAre DEF Extent
<1>4. /\ l.r = 0 /\ ~(l.exists /\ ent.dir) /\ l.items \in Seq(Items)
      /\ \/ /\ ~h.full
            /\ o = Outcome(l.items \o fat_write_items(l.fat, h, s, new), h.fat, "ok")
         \/ o = Outcome(l.items \o h.items, h.fat, "full")
  <2>1. o # Derailed
    BY DEF Derailed
  <2> QED
    BY <1>1, <1>3, <2>1 DEF Lookups
<1>5. /\ l.exists => E = {At(es, s)}
      /\ ~l.exists => E = {}
  <2> DEFINE yes == TRUE
  <2>1. yes \in BOOLEAN /\ l = dir_lookup(fat, es, dir, name, yes) /\ Neat(fat, es, D)
    BY <1>3
  <2> HIDE DEF yes, es, dir, name
  <2>4. dir \in D /\ name \in Names
    BY <1>3
  <2>2. l.exists => Ent(Row(fat, es, dir), name) = {At(es, l.slot)}
    BY <2>1, <2>4, LookupTells
  <2>3. ~l.exists => Ent(Row(fat, es, dir), name) = {}
    BY <1>3, <2>1, LookupFinds
  <2> QED
    BY <2>2, <2>3
<1>6. /\ ent \in Entries /\ ~ent.dir /\ ent.name \in Names
      /\ Fits(l.fat, ent, "loose") /\ Proper(l.fat, ent.first)
      /\ ~l.exists => Chain(l.fat, ent.first) = {} /\ ent.name = name /\ ent.size = 0
      /\ l.exists => ent = At(es, s)
  <2>1. CASE l.exists
    <3>1. ent = At(es, s) /\ l.fat = fat /\ s \in Used(fat, es, D)
      BY <1>3, <2>1
    <3>2. At(es, s).first \in Heads(fat, es, D) /\ At(es, s).name \in Names
      BY <3>1 DEF Heads, Used
    <3> HIDE DEF Old, es, s, ent
    <3>3. Proper(fat, At(es, s).first) /\ (~At(es, s).dir => Fits(fat, At(es, s), "loose"))
      BY <1>2, <3>1, <3>2, GoodFacts
    <3>4. ~ent.dir
      BY <1>4, <2>1
    <3> QED
      BY <1>3, <2>1, <3>1, <3>2, <3>3, <3>4
  <2>2. CASE ~l.exists
    <3>1. ent = Entry(name, FALSE, 0, 0)
      BY <2>2
    <3>2. Entry(name, FALSE, 0, 0).name = name /\ Entry(name, FALSE, 0, 0).size = 0
      BY DEF Entry
    <3> HIDE DEF Old, name
    <3> QED
      BY <1>3, <2>2, <3>1, <3>2, EmptyFile
  <2> QED
    BY <2>1, <2>2
<1>7. ent.name = name
  <2>1. CASE l.exists
    <3>1. At(es, s) \in E
      BY <1>5, <2>1
    <3>2. \A x \in E : x.name = name
      BY DEF Ent
    <3> HIDE DEF E
    <3> QED
      BY <1>6, <2>1, <3>1, <3>2
  <2> QED
    BY <1>6, <2>1
<1> HIDE DEF Old
<1>8. ent.first \in Cluster \cup {0}
  BY <1>6 DEF Entries
<1>9. Extends(l.fat, ent.first, h) /\ Fills(l.fat, ent.first, h.items)
  BY <1>3, <1>6, <1>8, StoredExtends
<1>10. new = [ent EXCEPT !.first = h.first, !.size = NewSize(e, ent.size)]
  OBVIOUS
<1>21. h = Stored(l.fat, ent.first, e, b)
  OBVIOUS
<1> HIDE DEF H, New
<1>11. /\ h \in Stores /\ h.fat \in Tables /\ h.items \in Seq(Items) /\ h.first \in Cluster \cup {0}
       /\ \A c \in Cluster : h.fat[c] = l.fat[c] \/ c \in Chain(l.fat, ent.first) \/ l.fat[c] = FAT12_FREE
  BY <1>9 DEF Extends, Stores
<1>12. \A Y, g, code : Outcome(Y, g, code).items = Y \o Return(g, code) /\ Outcome(Y, g, code).code = code
  BY DEF Outcome
<1> DEFINE K0 == Chain(l.fat, ent.first) \cup Unused(l.fat)
           K(es1) == Chained(l.fat, At(es1, s)) \cup Unused(l.fat)
<1>13. ASSUME NEW es1, Makes(es, l.items, es1)
       PROVE  /\ EntriesOK(es1) /\ s[1] \notin K0 /\ K0 \subseteq K(es1)
              /\ At(es1, s).name \in Names => ~At(es1, s).dir
              /\ At(es1, s).name \in {END, DELETED, name}
              /\ l.exists => At(es1, s) = At(es, s)
              /\ ~l.exists => At(es1, s).name \notin Names
  <2>1. PICK k : Ready(fat, es, D, dir, name, l.fat, es1, s, k)
    BY <1>4, <1>13, LookupBegins
  <2>2. EntriesOK(es1)
    BY <1>13, MakesOK
  <2>3. l.exists => es1 = es
    BY <1>3, <1>13, MakesNone
  <2>4. Neat(l.fat, es1, D) /\ Good(l.fat, es1, D, "loose")
    BY <2>1 DEF Ready, Neat
  <2> HIDE DEF es, dir, name, s
  <2>5. /\ s \in SlotSet /\ s[1] \notin Unused(l.fat)
        /\ \E d \in D : s[1] \in BlockSet(l.fat, d)
        /\ At(es1, s).name \in {END, DELETED, name}
        /\ E = {} => At(es1, s).name \notin Names
    BY <2>1, ReadySlot
  <2>6. ~l.exists => At(es1, s).name \notin Names
    BY <1>5, <2>5
  <2>7. Target(l.fat, es1, D, "loose", s, ent)
    <3>1. CASE l.exists
      <4>1. s \in Used(l.fat, es1, D) /\ ent = At(es1, s)
        BY <1>3, <1>6, <2>3, <3>1
      <4> QED
        BY <1>3, <1>6, <4>1 DEF Target
    <3>2. CASE ~l.exists
      <4>1. /\ Chain(l.fat, ent.first) = {} /\ At(es1, s).name \notin Names /\ s[1] \notin Unused(l.fat)
            /\ \E d \in D : s[1] \in BlockSet(l.fat, d)
        BY <1>6, <2>5, <2>6, <3>2
      <4> QED
        BY <1>3, <1>6, <4>1 DEF Target
    <3> QED
      BY <3>1, <3>2
  <2>8. s[1] \notin K0
    BY <2>4, <2>7, FileIsApart
  <2>9. K0 \subseteq K(es1)
    <3>1. CASE l.exists
      <4>1. At(es1, s) = ent
        BY <1>6, <2>3, <3>1
      <4> QED
        BY <1>6, <4>1 DEF Chained
    <3>2. CASE ~l.exists
      BY <1>6, <3>2
    <3> QED
      BY <3>1, <3>2
  <2>10. At(es1, s).name \in Names => ~At(es1, s).dir
    BY <1>6, <2>3, <2>6
  <2>11. l.exists => At(es1, s) = At(es, s)
    BY <2>3
  <2> QED
    BY <2>2, <2>5, <2>6, <2>8, <2>9, <2>10, <2>11
<1>14. \A es1, y : Makes(es1, h.items, y) => \A t \in SlotSet : t[1] \notin K0 => At(y, t) = At(es1, t)
  <2>1. OnlyBytes(h.items) /\ \A k \in 1..Len(h.items) : h.items[k].write.at \in K0
    BY <1>9 DEF Fills
  <2> HIDE DEF K0, h
  <2> QED
    BY <2>1, MakesBytes
<1> HIDE DEF K0
<1>20. \A c \in Cluster : h.fat[c] = l.fat[c] \/ c \in K0
  BY <1>11 DEF K0, Unused
<1>22. ASSUME \/ /\ ~h.full
                 /\ o = Outcome(l.items \o fat_write_items(l.fat, h, s, new), h.fat, "ok")
                 /\ Brings(o, p, D, {new}) /\ new \in Entries /\ ~new.dir
              \/ /\ o = Outcome(l.items \o h.items, h.fat, "full")
                 /\ Brings(o, p, D, E)
       PROVE  \E y, z : Puts(o, p, D, e, b, y, z)
  <2>1. /\ ent \in Entries /\ ~ent.dir /\ Proper(l.fat, ent.first)
        /\ ent.size <= cluster_size * Cardinality(Chain(l.fat, ent.first))
        /\ l.exists => l.fat = fat /\ E = {ent}
        /\ ~l.exists => E = {} /\ ent = Entry(name, FALSE, 0, 0)
    <3>1. ent.size <= cluster_size * Cardinality(Chain(l.fat, ent.first))
      BY <1>6 DEF Fits
    <3>2. ~l.exists => ent = Entry(name, FALSE, 0, 0)
      BY DEF Old
    <3> HIDE DEF ent, E, es, name
    <3> QED
      BY <1>3, <1>5, <1>6, <3>1, <3>2
  <2>2. l \in Lookup(p, TRUE) /\ s \in SlotSet
    BY <1>1, <1>3
  <2>3. E = Ent(Row(fat, disk.entries, resolve_path(fat, disk.entries, p)), NameOf(p))
    OBVIOUS
  <2> HIDE DEF ent, E, h, new
  <2>4. Puts(o, p, D, e, b, l, ent)
    BY <1>10, <1>21, <1>22, <2>1, <2>2, <2>3 DEF Puts
  <2> QED
    BY <2>4
<1>15. CASE o = Outcome(l.items \o h.items, h.fat, "full")
  <2> DEFINE Y == l.items \o h.items
             x == At(es2, s)
  <2>1. Y \in Seq(Items)
    BY <1>4, <1>11, ItemsConcat
  <2>2. o.items = Y \o Return(h.fat, "full") /\ o.code = "full"
    BY <1>15 DEF Outcome
  <2> HIDE DEF Y
  <2>3. Done(fat, disk, o.items).fat = h.fat /\ Makes(es, Y, es2)
    BY <1>11, <2>1, <2>2, DoneReturns
  <2> HIDE DEF es2
  <2>4. PICK es1 : Makes(es, l.items, es1) /\ Makes(es1, h.items, es2)
    BY <1>4, <1>11, <2>3, MakesApart DEF Y
  <2>5. /\ EntriesOK(es1) /\ EntriesOK(es2) /\ s[1] \notin K0 /\ K0 \subseteq K(es1)
        /\ At(es1, s).name \in Names => ~At(es1, s).dir
        /\ At(es1, s).name \in {END, DELETED, name}
        /\ l.exists => At(es1, s) = At(es, s)
        /\ ~l.exists => At(es1, s).name \notin Names
    BY <1>13, <2>4, MakesOK
  <2>6. \A t \in SlotSet : t[1] \notin K0 => At(es2, t) = At(es1, t)
    BY <1>14, <2>4
  <2>7. x = At(es1, s)
    BY <1>3, <2>5, <2>6
  <2> HIDE DEF s, x, es, h, K0
  <2>8. Alters(l.fat, es1, s, x, h.fat, es2)
    BY <1>11, <1>20, <2>5, <2>6, <2>7 DEF Alters, x
  <2>9. Fresh(l.fat, h.fat, es2, x)
    BY <2>5, <2>7, NotFresh
  <2>10. x.name \in {name, DELETED, At(es1, s).name}
    BY <2>7
  <2>11. Brings(o, p, D, Now(name, x))
    BY <1>4, <2>3, <2>4, <2>8, <2>9, <2>10, AltersBring DEF es2, es, s, name
  <2>12. Now(name, x) = E
    <3>1. CASE l.exists
      <4>1. x = At(es, s) /\ x.name = name
        BY <1>6, <1>7, <2>5, <2>7, <3>1
      <4> QED
        BY <1>5, <3>1, <4>1 DEF Now
    <3>2. CASE ~l.exists
      <4>1. x.name # name
        BY <1>3, <2>5, <2>7, <3>2
      <4> QED
        BY <1>5, <3>2, <4>1 DEF Now
    <3> QED
      BY <3>1, <3>2
  <2>13. Brings(o, p, D, E)
    BY <2>11, <2>12
  <2> QED
    BY <1>15, <1>22, <2>13
<1>16. CASE ~h.full /\ o = Outcome(l.items \o fat_write_items(l.fat, h, s, new), h.fat, "ok")
  <2> DEFINE B == h.items \o fat_flush(h.fat) \o WriteEntry(h.fat, s, new)
             Y == l.items \o B
  <2>1. new \in Entries /\ new.name = name /\ ~new.dir /\ new.size = NewSize(e, ent.size)
    <3> DEFINE size == NewSize(e, ent.size)
               first == h.first
    <3>1. size \in Nat /\ first \in Cluster \cup {0}
      <4>1. e.offset \in Nat /\ e.len \in Nat
        BY <1>3
      <4>2. ent.size \in Nat
        BY <1>6 DEF Entries
      <4> HIDE DEF ent
      <4> QED
        BY <1>11, <4>1, <4>2 DEF NewSize
    <3>2. new = [ent EXCEPT !.first = first, !.size = size] /\ ent \in Entries /\ ent.name = name /\ ~ent.dir
      BY <1>6, <1>7, <1>10
    <3> HIDE DEF new, ent, h, name, size, first
    <3>3. new \in Entries /\ new.name = name /\ ~new.dir /\ new.size = size
      BY <3>1, <3>2 DEF Entries
    <3> QED
      BY <3>3 DEF size
  <2>2. B \in Seq(Items) /\ Y \in Seq(Items)
    <3>1. fat_flush(h.fat) \in Seq(Items) /\ WriteEntry(h.fat, s, new) \in Seq(Items)
      BY <1>3, <1>11, <2>1, FlushIs, WriteEntryIs
    <3> QED
      BY <1>4, <1>11, <3>1, ItemsConcat
  <2>3. o.items = Y \o Return(h.fat, "ok") /\ o.code = "ok"
    BY <1>16 DEF Outcome, fat_write_items
  <2> HIDE DEF Y, B
  <2>4. Done(fat, disk, o.items).fat = h.fat /\ Makes(es, Y, es2)
    BY <1>11, <2>2, <2>3, DoneReturns
  <2> HIDE DEF es2
  <2>5. PICK es1 : Makes(es, l.items, es1) /\ Makes(es1, B, es2)
    BY <1>4, <2>2, <2>4, MakesApart DEF Y
  <2> HIDE DEF s, new, h
  <2>6. \E y : Makes(es1, h.items, y) /\ EntriesOK(y) /\ es2 = Put(y, s, new)
    <3>1. Makes(es1, h.items \o fat_flush(h.fat) \o WriteEntry(h.fat, s, new), es2)
      BY <2>5 DEF B
    <3> QED
      BY <1>3, <1>11, <2>1, <3>1, LookupThenEntry
  <2>7. PICK y : Makes(es1, h.items, y) /\ EntriesOK(y) /\ es2 = Put(y, s, new)
    BY <2>6
  <2>8. /\ EntriesOK(es1) /\ K0 \subseteq K(es1)
        /\ At(es1, s).name \in Names => ~At(es1, s).dir
    BY <1>13, <2>5
  <2> DEFINE KK == K(es1)
  <2>9. /\ KK = Chained(l.fat, At(es1, s)) \cup Unused(l.fat)
        /\ \A c \in Cluster : h.fat[c] = l.fat[c] \/ c \in KK
        /\ \A t \in SlotSet : t[1] \notin KK => At(y, t) = At(es1, t)
    BY <1>14, <1>20, <2>7, <2>8
  <2> HIDE DEF KK, K
  <2>10. Alters(l.fat, es1, s, new, h.fat, Put(y, s, new))
    BY <1>3, <1>11, <2>1, <2>7, <2>8, <2>9, PutAlters
  <2>11. Alters(l.fat, es1, s, new, h.fat, es2)
    BY <2>7, <2>10
  <2>12. Fresh(l.fat, h.fat, es2, new)
    BY <2>1, NotFresh
  <2>13. new.name \in {name, DELETED, At(es1, s).name}
    BY <2>1
  <2>14. Brings(o, p, D, Now(name, new))
    BY <1>4, <2>4, <2>5, <2>11, <2>12, <2>13, AltersBring DEF es2, es, s, name
  <2>15. Brings(o, p, D, {new})
    BY <2>1, <2>14 DEF Now
  <2> QED
    BY <1>16, <1>22, <2>1, <2>15
<1> QED
  BY <1>4, <1>15, <1>16

\* fat_write_at leaves a file of the size it has grown to.
LEMMA WriteBrings ==
    ASSUME fat \in Tables, disk \in Disks, NEW D, Neat(fat, disk.entries, D), NEW p \in Paths,
           NEW e \in Extent, NEW b \in Bytes, NEW o \in fat_write_at(p, e, b), o \in Called("write", p),
           o.code # "wild"
    PROVE  Wrote(o, p, D, e)
<1> DEFINE E == Ent(Row(fat, disk.entries, resolve_path(fat, disk.entries, p)), NameOf(p))
           New(h, z) == [z EXCEPT !.first = h.first, !.size = NewSize(e, z.size)]
<1>1. PICK l, z : Puts(o, p, D, e, b, l, z)
  BY WritePuts
<1>2. PICK h : h = Stored(l.fat, z.first, e, b)
  OBVIOUS
<1>3. /\ z \in Entries /\ ~z.dir
      /\ l.exists => E = {z}
      /\ ~l.exists => E = {} /\ z = Entry(NameOf(p), FALSE, 0, 0)
      /\ \/ \E Y : o = Outcome(Y, h.fat, "ok") /\ Brings(o, p, D, {New(h, z)}) /\ ~New(h, z).dir
         \/ \E Y : o = Outcome(Y, h.fat, "full") /\ Brings(o, p, D, E)
  BY <1>1, <1>2 DEF Puts
<1>4. New(h, z).size = NewSize(e, z.size)
  BY <1>3 DEF Entries
<1>5. E = {z} \/ (E = {} /\ z.size = 0)
  BY <1>3 DEF Entry
<1> HIDE DEF New
<1>6. CASE \E Y : o = Outcome(Y, h.fat, "ok") /\ Brings(o, p, D, {New(h, z)}) /\ ~New(h, z).dir
  <2>1. o.code = "ok"
    BY <1>6 DEF Outcome
  <2> DEFINE x == New(h, z)
  <2>2. Brings(o, p, D, {x}) /\ x.size = NewSize(e, z.size) /\ ~x.dir
    BY <1>4, <1>6
  <2> HIDE DEF x, E
  <2>3. \E y, t : /\ Brings(o, p, D, {y}) /\ y.size = NewSize(e, t.size) /\ ~y.dir
                  /\ E = {t} \/ (E = {} /\ t.size = 0)
    BY <1>5, <2>2
  <2> QED
    BY <2>1, <2>3 DEF Wrote, E
<1>7. CASE \E Y : o = Outcome(Y, h.fat, "full") /\ Brings(o, p, D, E)
  <2>1. o.code = "full"
    BY <1>7 DEF Outcome
  <2>2. \A x \in E : ~x.dir
    BY <1>3
  <2> QED
    BY <1>7, <2>1, <2>2 DEF Wrote
<1> QED
  BY <1>3, <1>6, <1>7

---------------------------------------------------------------------------
(* Listings.                                                               *)

\* There is no more than one entry of a name.
LEMMA EntSingle ==
    ASSUME NEW R, Single(R), NEW n \in Names, NEW x \in Ent(R, n), NEW y \in Ent(R, n)
    PROVE  x = y
<1>1. PICK i \in DOMAIN R : R[i].name = n /\ x = R[i]
  BY DEF Ent
<1>2. PICK j \in DOMAIN R : R[j].name = n /\ y = R[j]
  BY DEF Ent
<1> QED
  BY <1>1, <1>2, Zenon DEF Single

\* Nor at a path.
LEMMA StatOne ==
    ASSUME NEW f, NEW es, NEW D, Neat(f, es, D), NEW p \in Seq(Names),
           NEW x \in Stat(f, es, p), NEW y \in Stat(f, es, p)
    PROVE  x = y
<1>1. CASE p = <<>>
  BY <1>1 DEF Stat
<1>2. CASE p # <<>>
  <2> DEFINE d == resolve_path(f, es, p)
  <2>1. PICK g : Visits(f, es, p, g, Len(p))
    BY WalkExists
  <2>2. Visits(f, es, p, g, Len(p) - 1)
    <3>1. Len(p) \in Nat /\ Len(p) # 0
      BY <1>2
    <3>2. Len(p) - 1 \in 0..Len(p)
      BY <3>1
    <3> QED
      BY <2>1, <3>2, VisitsLess
  <2>3. NameOf(p) \in Names /\ d \in D \cup {NULL}
    BY <1>2, <2>2, ResolveVisits
  <2>4. d # NULL /\ x \in Ent(Row(f, es, d), NameOf(p)) /\ y \in Ent(Row(f, es, d), NameOf(p))
    BY <1>2 DEF Stat
  <2> HIDE DEF d
  <2>5. Single(Row(f, es, d))
    BY <2>3, <2>4 DEF Neat
  <2> QED
    BY <2>3, <2>4, <2>5, EntSingle
<1> QED
  BY <1>1, <1>2

\* The cluster a handle for p gets.
Opendir(f, es, p) == {e.first : e \in {e \in Stat(f, es, p) : e.dir}}

\* It is where the walk along p ends.
LEMMA DirWalk ==
    ASSUME NEW f, NEW es, NEW D, Neat(f, es, D), NEW p \in Seq(Names),
           NEW c \in Opendir(f, es, p), NEW g, Visits(f, es, p, g, Len(p))
    PROVE  g[Len(p)] = c /\ c \in D
<1>1. PICK e \in Stat(f, es, p) : e.dir /\ c = e.first
  BY DEF Opendir
<1>2. CASE p = <<>>
  <2>1. e = Entry("/", TRUE, Root, 0)
    BY <1>1, <1>2 DEF Stat
  <2>2. c = Root /\ Len(p) = 0
    BY <1>1, <1>2, <2>1 DEF Entry
  <2>3. g[0] = Root /\ Root \in D
    BY NeatFacts DEF Visits
  <2> QED
    BY <2>2, <2>3
<1>3. CASE p # <<>>
  <2> DEFINE d == resolve_path(f, es, p)
             n == Len(p)
  <2>1. n \in Nat \ {0} /\ n - 1 \in 0..n /\ n \in 1..n
    <3>1. Len(p) \in Nat /\ Len(p) # 0
      BY <1>3
    <3> QED
      BY <3>1
  <2>2. Visits(f, es, p, g, n - 1)
    BY <2>1, VisitsLess
  <2>3. NameOf(p) \in Names /\ d = g[n - 1] /\ d \in D \cup {NULL}
    BY <1>3, <2>2, ResolveVisits
  <2>4. d # NULL /\ e \in Ent(Row(f, es, d), NameOf(p))
    BY <1>1, <1>3 DEF Stat
  <2>5. g[n] = Sub(Row(f, es, g[n - 1]), p[n])
    <3>1. g[n] = IF g[n - 1] = NULL THEN NULL ELSE Sub(Row(f, es, g[n - 1]), p[n])
      BY <2>1 DEF Visits
    <3> QED
      BY <2>3, <2>4, <3>1
  <2>6. g[n] = Sub(Row(f, es, d), NameOf(p))
    BY <2>3, <2>5 DEF NameOf
  <2>7. n \in 0..Len(p)
    BY <2>1
  <2>8. g[n] \in D \cup {NULL}
    BY <2>7, VisitsIn
  <2> HIDE DEF d, n
  <2>9. Single(Row(f, es, d)) /\ d \in Cluster \cup {Root} /\ f \in Tables /\ EntriesOK(es)
    BY <2>3, <2>4, NeatFacts DEF Neat
  <2>10. Ent(Row(f, es, d), NameOf(p)) = {e}
    BY <2>3, <2>4, <2>9, EntSingle
  <2>11. Sub(Row(f, es, d), NameOf(p)) = e.first
    BY <1>1, <2>10, SubIs
  <2>12. c # NULL
    <3>1. PICK k \in DOMAIN Row(f, es, d) : e = Row(f, es, d)[k]
      BY <2>4 DEF Ent
    <3>2. e \in Entries
      BY <2>9, <3>1, RowIs
    <3>3. e.first \in Cluster \cup {0}
      BY <3>2 DEF Entries
    <3> QED
      BY <1>1, <3>3, NullIsNoBlock DEF Root
  <2>13. g[n] = c
    BY <1>1, <2>6, <2>11
  <2> QED
    BY <2>8, <2>12, <2>13 DEF n
<1> QED
  BY <1>2, <1>3

\* What is below a directory is in its entries.
LEMMA StatBelow ==
    ASSUME NEW f, NEW es, NEW D, Neat(f, es, D), NEW p \in Seq(Names), NEW c \in Opendir(f, es, p),
           NEW n \in Names
    PROVE  Stat(f, es, Append(p, n)) = Ent(Row(f, es, c), n)
<1> DEFINE q == Append(p, n)
           m == Len(p)
<1>1. /\ q \in Seq(Names) /\ Len(q) = m + 1 /\ m \in Nat /\ q # <<>> /\ q[m + 1] = n
      /\ \A k \in 1..m : q[k] = p[k]
  OBVIOUS
<1> HIDE DEF q
<1>2. PICK g : Visits(f, es, q, g, Len(q))
  BY <1>1, WalkExists
<1>3. Visits(f, es, q, g, m)
  <2>1. m \in 0..Len(q)
    BY <1>1
  <2> QED
    BY <1>1, <1>2, <2>1, VisitsLess
<1>4. Visits(f, es, p, g, m)
  BY <1>1, <1>3 DEF Visits
<1>5. g[m] = c /\ c \in D
  BY <1>4, DirWalk
<1>6. m = Len(q) - 1 /\ NameOf(q) = n
  BY <1>1 DEF NameOf
<1>7. resolve_path(f, es, q) = c
  BY <1>1, <1>3, <1>5, <1>6, ResolveVisits
<1>8. c # NULL
  BY <1>5, NeatFacts, NullIsNoBlock
<1>9. Stat(f, es, q) = Ent(Row(f, es, c), n)
  BY <1>1, <1>6, <1>7, <1>8 DEF Stat
<1> QED
  BY <1>9 DEF q

\* At or below a file there is no directory.
LEMMA NoDirBelowFile ==
    ASSUME NEW f, NEW es, NEW D, Neat(f, es, D), NEW p \in Seq(Names), p # <<>>, NEW q \in Seq(Names),
           Under(p, q), NEW x \in Stat(f, es, p), ~x.dir
    PROVE  Opendir(f, es, q) = {}
<1> DEFINE m == Len(p)
           n == Len(q)
           d == resolve_path(f, es, p)
<1>1. m \in Nat \ {0} /\ n \in Nat /\ m <= n /\ m - 1 \in 0..m /\ m \in 0..n /\ m \in 1..m
  <2>1. Len(p) \in Nat /\ Len(p) # 0 /\ Len(q) \in Nat /\ Len(p) <= Len(q)
    BY DEF Under
  <2> QED
    BY <2>1
<1>2. PICK g : Visits(f, es, q, g, n)
  BY WalkExists
<1>3. Visits(f, es, p, g, m)
  <2>1. Visits(f, es, q, g, m)
    BY <1>1, <1>2, VisitsLess
  <2> QED
    BY <2>1 DEF Visits, Under
<1>4. Visits(f, es, p, g, m - 1)
  BY <1>1, <1>3, VisitsLess
<1>5. NameOf(p) \in Names /\ d = g[m - 1] /\ d \in D \cup {NULL}
  BY <1>4, ResolveVisits
<1>6. d # NULL /\ x \in Ent(Row(f, es, d), NameOf(p))
  BY DEF Stat
<1>7. g[m] = Sub(Row(f, es, d), NameOf(p))
  <2>1. g[m] = IF g[m - 1] = NULL THEN NULL ELSE Sub(Row(f, es, g[m - 1]), p[m])
    BY <1>1, <1>3 DEF Visits
  <2> QED
    BY <1>5, <1>6, <2>1 DEF NameOf
<1> HIDE DEF d
<1>8. g[m] = NULL
  <2>1. Single(Row(f, es, d))
    BY <1>5, <1>6 DEF Neat
  <2>2. Ent(Row(f, es, d), NameOf(p)) = {x}
    BY <1>5, <1>6, <2>1, EntSingle
  <2> QED
    BY <1>7, <2>2, SubIs
<1> HIDE DEF m
<1>9. \A k \in Nat : m + k <= n => g[m + k] = NULL
  <2> DEFINE S == {k \in Nat : m + k <= n => g[m + k] = NULL}
  <2>1. 0 \in S
    BY <1>1, <1>8
  <2>2. ASSUME NEW k \in Nat, k \in S PROVE k + 1 \in S
    <3> SUFFICES ASSUME m + (k + 1) <= n PROVE g[m + (k + 1)] = NULL
      BY <2>2
    <3>1. m + (k + 1) \in 1..n /\ m + k <= n /\ (m + (k + 1)) - 1 = m + k
      BY <1>1, <2>2
    <3>2. g[m + (k + 1)] = IF g[(m + (k + 1)) - 1] = NULL THEN NULL
                           ELSE Sub(Row(f, es, g[(m + (k + 1)) - 1]), q[m + (k + 1)])
      BY <1>2, <3>1 DEF Visits
    <3>3. g[m + k] = NULL
      BY <2>2, <3>1
    <3> QED
      BY <3>1, <3>2, <3>3
  <2> HIDE DEF S
  <2>3. Nat \subseteq S
    BY <2>1, <2>2, NatSetInduction
  <2> QED
    BY <2>3 DEF S
<1>10. g[n] = NULL
  <2>1. n - m \in Nat /\ m + (n - m) = n
    BY <1>1
  <2> QED
    BY <1>9, <2>1
<1>11. ASSUME NEW c \in Opendir(f, es, q) PROVE FALSE
  <2>1. g[n] = c /\ c \in D
    BY <1>2, <1>11, DirWalk
  <2> QED
    BY <1>10, <2>1, NeatFacts, NullIsNoBlock
<1> QED
  BY <1>11

\* A listing of a directory is not disturbed where p is elsewhere, nor where the
\* entry of a file changes and its name stays.
Spared(f, es, p, q, E) ==
    \/ ~Under(p, q) /\ q # SubSeq(p, 1, Len(p) - 1)
    \/ (\E x \in Stat(f, es, p) : ~x.dir) /\ E # {}

\* Such an edit leaves the directory where it was, with the names it had.
LEMMA ListedKept ==
    ASSUME NEW f, NEW es, NEW D, NEW F, NEW es2, NEW D2, NEW dir, NEW name, NEW E,
           Edits(f, es, D, F, es2, D2, dir, name, E),
           NEW p \in Seq(Names), p # <<>>, resolve_path(f, es, p) = dir, NameOf(p) = name,
           NEW q \in Seq(Names), NEW c \in Opendir(f, es, q), Spared(f, es, p, q, E)
    PROVE  c \in Opendir(F, es2, q) /\ SameNames(Row(f, es, c), Row(F, es2, c))
<1>0. Neat(f, es, D) /\ Neat(F, es2, D2) /\ dir \in D
  BY DEF Edits
<1>1. ~Under(p, q)
  <2>1. ASSUME NEW x \in Stat(f, es, p), ~x.dir, Under(p, q) PROVE FALSE
    BY <1>0, <2>1, NoDirBelowFile
  <2> QED
    BY <2>1 DEF Spared
<1>2. Stat(F, es2, q) = Stat(f, es, q) /\ Stat(F, es2, p) = E /\ dir \in D2
  BY <1>1, StatEdited
<1>3. c \in Opendir(F, es2, q)
  BY <1>2 DEF Opendir
<1>4. PICK h : Visits(f, es, q, h, Len(q))
  BY <1>0, WalkExists
<1>5. h[Len(q)] = c /\ c \in D
  BY <1>0, <1>4, DirWalk
<1>6. c \in D2
  <2>1. PICK w : Visits(F, es2, q, w, Len(q))
    BY <1>0, WalkExists
  <2> QED
    BY <1>0, <1>3, <2>1, DirWalk
<1>7. CASE c # dir
  <2>1. Row(F, es2, c) = Row(f, es, c)
    BY <1>5, <1>6, <1>7 DEF Edits
  <2> QED
    BY <1>3, <2>1 DEF SameNames
<1>8. CASE c = dir
  <2>1. PICK g : Visits(f, es, p, g, Len(p))
    BY <1>0, WalkExists
  <2>2. Len(p) \in Nat \ {0} /\ Len(p) - 1 \in 0..Len(p) /\ Len(q) \in Nat /\ Len(q) \in 0..Len(q)
    <3>1. Len(p) \in Nat /\ Len(p) # 0 /\ Len(q) \in Nat
      OBVIOUS
    <3> QED
      BY <3>1
  <2>3. Visits(f, es, p, g, Len(p) - 1)
    BY <2>1, <2>2, VisitsLess
  <2>4. dir = g[Len(p) - 1]
    BY <1>0, <2>3, ResolveVisits
  <2>5. g[Len(p) - 1] # NULL /\ g[Len(p) - 1] = h[Len(q)]
    BY <1>0, <1>5, <1>8, <2>4, NeatFacts, NullIsNoBlock
  <2> DEFINE m == Len(p) - 1
  <2>6. m \in 0..Len(p) /\ Visits(f, es, p, g, m) /\ g[m] # NULL /\ g[m] = h[Len(q)]
    BY <2>2, <2>3, <2>5
  <2> HIDE DEF m
  <2>7. m = Len(q) /\ \A k \in 1..m : p[k] = q[k]
    BY <1>0, <1>4, <2>2, <2>6, OneWay
  <2>8. q = SubSeq(p, 1, m)
    <3>1. m <= Len(p) /\ m \in Nat
      BY <2>2, <2>6
    <3>2. \A k \in 1..m : q[k] = p[k]
      BY <2>7
    <3>3. SubSeq(p, 1, m) \in Seq(Names) /\ Len(SubSeq(p, 1, m)) = m
      BY <2>2, <3>1
    <3>4. \A k \in 1..m : SubSeq(p, 1, m)[k] = p[k]
      BY <2>2, <3>1
    <3> DEFINE r == SubSeq(p, 1, m)
    <3> HIDE DEF r
    <3>5. r \in Seq(Names) /\ Len(r) = Len(q) /\ \A k \in 1..Len(q) : r[k] = q[k]
      BY <2>7, <3>2, <3>3, <3>4 DEF r
    <3>6. q = r
      BY <3>5, SeqEqual
    <3> QED
      BY <3>6 DEF r
  <2>9. (\E x \in Stat(f, es, p) : ~x.dir) /\ E # {}
    BY <1>1, <2>8 DEF Spared, m
  <2>10. Stat(f, es, p) = Ent(Row(f, es, dir), name)
    BY <2>9 DEF Stat
  <2>11. SameNames(Row(f, es, dir), Row(F, es2, dir))
    BY <1>2, <2>9, <2>10 DEF Edits
  <2> QED
    BY <1>3, <1>8, <2>11
<1> QED
  BY <1>7, <1>8

\* Where one number of a set is, as many others come before as it has rank.
Before(K, k) == {j \in K : j < k}

\* The number of slots counted before one.
LEMMA BeforeIs ==
    ASSUME NEW m \in Nat, NEW K \in SUBSET (1..m), NEW k \in 1..m
    PROVE  IsFiniteSet(Before(K, k)) /\ Cardinality(Before(K, k)) \in Nat
<1>1. IsFiniteSet(1..m)
  BY FS_Interval
<1>2. Before(K, k) \subseteq 1..m
  BY DEF Before
<1>3. IsFiniteSet(Before(K, k))
  BY <1>1, <1>2, FS_Subset
<1> QED
  BY <1>3, FS_CardinalityType

\* No two slots have the same number before them.
LEMMA OneOfRank ==
    ASSUME NEW m \in Nat, NEW K \in SUBSET (1..m), NEW a \in K, NEW b \in K,
           Cardinality(Before(K, a)) = Cardinality(Before(K, b))
    PROVE  a = b
<1>1. ASSUME NEW x \in K, NEW y \in K, x < y
      PROVE  Cardinality(Before(K, x)) # Cardinality(Before(K, y))
  <2> DEFINE X == Before(K, x)
             Y == Before(K, y)
             Z == X \cup {x}
  <2>1. /\ IsFiniteSet(X) /\ Cardinality(X) \in Nat /\ IsFiniteSet(Y) /\ Cardinality(Y) \in Nat
    BY BeforeIs
  <2>2. x \notin X /\ Z \subseteq Y
    <3>1. x \in Nat /\ y \in Nat /\ \A j \in K : j \in Nat
      OBVIOUS
    <3>2. \A j : j \in X <=> j \in K /\ j < x
      BY DEF Before
    <3>3. \A j : j \in Y <=> j \in K /\ j < y
      BY DEF Before
    <3>4. x \notin X
      BY <3>1, <3>2
    <3>5. ASSUME NEW j \in X PROVE j \in Y
      <4>1. j \in K /\ j < x /\ j \in Nat
        BY <3>1, <3>2, <3>5
      <4>2. j < y
        BY <1>1, <3>1, <4>1
      <4> QED
        BY <3>3, <4>1, <4>2
    <3>6. x \in Y
      BY <1>1, <3>3
    <3> HIDE DEF X, Y
    <3> QED
      BY <3>4, <3>5, <3>6
  <2> HIDE DEF X, Y
  <2>3. Cardinality(Z) = Cardinality(X) + 1
    BY <2>1, <2>2, FS_AddElement
  <2> HIDE DEF Z
  <2>4. Z \in SUBSET Y
    BY <2>2
  <2>6. Cardinality(Z) <= Cardinality(Y)
    BY <2>1, <2>4, FS_Subset
  <2>5. Cardinality(X) # Cardinality(Y)
    BY <2>1, <2>3, <2>6
  <2> QED
    BY <2>5 DEF X, Y
<1>2. a \in Nat /\ b \in Nat
  OBVIOUS
<1> QED
  BY <1>1, <1>2

\* No rank below another is left out.
LEMMA RanksFull ==
    ASSUME NEW m \in Nat, NEW K \in SUBSET (1..m), NEW k \in K, NEW i \in Nat,
           i <= Cardinality(Before(K, k))
    PROVE  \E a \in K : Cardinality(Before(K, a)) = i
<1> DEFINE S == {a \in K : i <= Cardinality(Before(K, a))}
<1>1. S \in SUBSET Nat /\ S # {}
  <2>1. k \in S
    OBVIOUS
  <2>2. \A a \in S : a \in Nat
    <3>1. \A a \in K : a \in Nat
      OBVIOUS
    <3> QED
      BY <3>1
  <2> HIDE DEF S
  <2> QED
    BY <2>1, <2>2
<1>2. PICK a \in S : \A x \in S : a <= x
  BY <1>1, LeastNat
<1>3. a \in K /\ a \in 1..m /\ i <= Cardinality(Before(K, a))
  BY <1>2
<1> HIDE DEF S
<1>4. IsFiniteSet(Before(K, a)) /\ Cardinality(Before(K, a)) \in Nat
  BY <1>3, BeforeIs
<1>5. ASSUME i < Cardinality(Before(K, a)) PROVE FALSE
  <2> DEFINE A == Before(K, a)
             T == {m - j : j \in A}
  <2>1. A # {}
    <3>1. Cardinality({}) = 0
      BY FS_EmptySet
    <3>2. 0 < Cardinality(A)
      BY <1>4, <1>5
    <3> HIDE DEF A
    <3> QED
      BY <3>1, <3>2
  <2>2. A \subseteq 1..m /\ \A j \in A : j \in K /\ j < a
    BY DEF Before
  <2> HIDE DEF A
  <2>3. T \in SUBSET Nat /\ T # {}
    <3>1. \A j \in A : m - j \in Nat
      BY <2>2
    <3> QED
      BY <2>1, <3>1
  <2>4. PICK x \in T : \A y \in T : x <= y
    BY <2>3, LeastNat
  <2>5. PICK b \in A : x = m - b
    BY <2>4
  <2>6. \A j \in A : j <= b
    <3> TAKE j \in A
    <3>1. m - b <= m - j
      BY <2>4, <2>5
    <3>2. b \in Nat /\ j \in Nat
      BY <2>2
    <3> QED
      BY <3>1, <3>2
  <2>7. b \in K /\ b < a /\ b \in 1..m /\ a \in Nat
    BY <1>3, <2>2
  <2> HIDE DEF T
  <2>8. A = Before(K, b) \cup {b}
    <3>1. ASSUME NEW j \in A PROVE j \in Before(K, b) \cup {b}
      <4>1. j <= b /\ j \in K /\ j \in Nat
        BY <2>2, <2>6
      <4> QED
        BY <2>7, <4>1 DEF Before
    <3>2. ASSUME NEW j \in Before(K, b) \cup {b} PROVE j \in A
      BY <2>7 DEF Before, A
    <3> QED
      BY <3>1, <3>2
  <2> DEFINE B == Before(K, b)
  <2>9. IsFiniteSet(B) /\ Cardinality(B) \in Nat /\ b \notin B
    <3>1. IsFiniteSet(Before(K, b)) /\ Cardinality(Before(K, b)) \in Nat
      BY <2>7, BeforeIs
    <3>2. b \notin Before(K, b)
      BY <2>7 DEF Before
    <3> QED
      BY <3>1, <3>2
  <2> HIDE DEF B
  <2>10. Cardinality(B \cup {b}) = Cardinality(B) + 1
    BY <2>9, FS_AddElement
  <2>11. i <= Cardinality(B)
    BY <1>5, <2>8, <2>9, <2>10 DEF A, B
  <2>12. b \in S
    BY <2>7, <2>11 DEF S, B
  <2> QED
    BY <1>2, <2>7, <2>12
<1> QED
  BY <1>3, <1>4, <1>5

\* The entries a listing counts, and the name it shows at index i.
Counts(R) == {k \in DOMAIN R : R[k].name \in Names}

\* The names at one index.
Shown(R, i) == {R[k].name : k \in {k \in Counts(R) : Cardinality(Before(Counts(R), k)) = i}}

\* What fat_readdir returns is a name at its index.
LEMMA ReaddirIs ==
    ASSUME NEW d, NEW i
    PROVE  fat_readdir(d, i) = Shown(Row(fat, disk.entries, d), i)
<1> DEFINE R == Row(fat, disk.entries, d)
<1>1. DOMAIN R = DOMAIN Slots(fat, d)
  BY DEF Row
<1>2. \A k \in DOMAIN R : R[k] = At(disk.entries, Slots(fat, d)[k])
  BY DEF Row
<1>3. Counted(d) = Counts(R)
  BY <1>1, <1>2 DEF Counted, Counts
<1> HIDE DEF R
<1>4. \A k \in Counts(R) : R[k] = At(disk.entries, Slots(fat, d)[k])
  BY <1>2 DEF Counts
<1>5. fat_readdir(d, i) = Shown(R, i)
  BY <1>3, <1>4 DEF fat_readdir, Shown, Before
<1> QED
  BY <1>5 DEF R

\* It depends on the names alone.
LEMMA ShownSame ==
    ASSUME NEW R, NEW R2, SameNames(R, R2), NEW i
    PROVE  Shown(R2, i) = Shown(R, i)
<1>1. Counts(R2) = Counts(R)
  BY DEF SameNames, Counts
<1>2. \A k \in Counts(R) : R2[k].name = R[k].name
  BY DEF SameNames, Counts
<1> QED
  BY <1>1, <1>2 DEF Shown

\* What a listing of R has shown when it has shown the names up to index n.
ShownUpTo(R, names, n) ==
    names \in Seq(Names) /\ Len(names) = n /\ \A i \in 1..n : names[i] \in Shown(R, i - 1)

\* One more name has been shown.
LEMMA ShownNext ==
    ASSUME NEW R, NEW names, NEW n \in Nat, ShownUpTo(R, names, n), NEW x \in Shown(R, n)
    PROVE  ShownUpTo(R, Append(names, x), n + 1)
<1>1. x \in Names
  BY DEF Shown, Counts
<1> DEFINE s == Append(names, x)
<1>2. /\ s \in Seq(Names) /\ Len(s) = n + 1 /\ s[n + 1] = x
      /\ \A i \in 1..n : s[i] = names[i]
  BY <1>1 DEF ShownUpTo
<1> HIDE DEF s
<1>3. ASSUME NEW i \in 1..(n + 1) PROVE s[i] \in Shown(R, i - 1)
  <2>1. CASE i = n + 1
    BY <1>2, <2>1
  <2>2. CASE i # n + 1
    <3>1. i \in 1..n
      BY <2>2
    <3> QED
      BY <1>2, <3>1 DEF ShownUpTo
  <2> QED
    BY <2>1, <2>2
<1> QED
  BY <1>2, <1>3 DEF ShownUpTo, s

\* It shows each name once, and when nothing is left it has shown all.
LEMMA ShownAll ==
    ASSUME NEW m \in Nat, NEW R, DOMAIN R = 1..m, Single(R), NEW names, NEW n \in Nat, ShownUpTo(R, names, n)
    PROVE  /\ \A i, j \in DOMAIN names : names[i] = names[j] => i = j
           /\ Shown(R, n) = {} => {names[i] : i \in DOMAIN names} = {x \in Names : Ent(R, x) # {}}
<1> DEFINE K == Counts(R)
<1>1. K \in SUBSET (1..m)
  BY DEF Counts
<1>2. DOMAIN names = 1..n
  BY DEF ShownUpTo
<1>3. \A i \in 1..n : \E k \in K : Cardinality(Before(K, k)) = i - 1 /\ names[i] = R[k].name
  BY DEF ShownUpTo, Shown
<1>4. \A i \in K : R[i].name \in Names /\ i \in DOMAIN R
  BY DEF Counts
<1>s. \A i : Shown(R, i) = {R[k].name : k \in {k \in K : Cardinality(Before(K, k)) = i}}
  BY DEF Shown
<1>c. K = {k \in DOMAIN R : R[k].name \in Names}
  BY DEF Counts
<1> HIDE DEF K
<1>5. ASSUME NEW i \in 1..n, NEW j \in 1..n, names[i] = names[j] PROVE i = j
  <2>1. PICK a \in K : Cardinality(Before(K, a)) = i - 1 /\ names[i] = R[a].name
    BY <1>3
  <2>2. PICK b \in K : Cardinality(Before(K, b)) = j - 1 /\ names[j] = R[b].name
    BY <1>3
  <2>3. a = b
    BY <1>4, <1>5, <2>1, <2>2, Zenon DEF Single
  <2> QED
    BY <2>1, <2>2, <2>3
<1>6. ASSUME Shown(R, n) = {}
      PROVE  {names[i] : i \in DOMAIN names} = {x \in Names : Ent(R, x) # {}}
  <2>1. ASSUME NEW i \in 1..n PROVE names[i] \in Names /\ Ent(R, names[i]) # {}
    <3>1. PICK k \in K : names[i] = R[k].name
      BY <1>3
    <3> QED
      BY <1>4, <3>1 DEF Ent
  <2>2. ASSUME NEW x \in Names, Ent(R, x) # {} PROVE \E i \in 1..n : names[i] = x
    <3>1. PICK k \in DOMAIN R : R[k].name = x
      BY <2>2 DEF Ent
    <3>2. k \in K
      BY <1>c, <3>1
    <3> DEFINE r == Cardinality(Before(K, k))
    <3>3. r \in Nat
      BY <1>1, <3>2, BeforeIs
    <3>4. CASE r < n
      <4>1. r + 1 \in 1..n /\ (r + 1) - 1 = r
        BY <3>3, <3>4
      <4>2. PICK a \in K : Cardinality(Before(K, a)) = (r + 1) - 1 /\ names[r + 1] = R[a].name
        BY <1>3, <4>1
      <4>3. a = k
        BY <1>1, <3>2, <4>1, <4>2, OneOfRank
      <4> QED
        BY <3>1, <4>1, <4>2, <4>3
    <3>5. CASE ~(r < n)
      <4>1. n <= r
        BY <3>3, <3>5
      <4>2. \E a \in K : Cardinality(Before(K, a)) = n
        BY <1>1, <3>2, <4>1, RanksFull
      <4>3. PICK a \in K : Cardinality(Before(K, a)) = n
        BY <4>2
      <4>4. R[a].name \in Shown(R, n)
        BY <1>s, <4>3
      <4> QED
        BY <1>6, <4>4
    <3> QED
      BY <3>4, <3>5
  <2>3. {names[i] : i \in DOMAIN names} \subseteq {x \in Names : Ent(R, x) # {}}
    BY <1>2, <2>1
  <2>4. {x \in Names : Ent(R, x) # {}} \subseteq {names[i] : i \in DOMAIN names}
    BY <1>2, <2>2
  <2> QED
    BY <2>3, <2>4
<1> QED
  BY <1>2, <1>5, <1>6
---------------------------------------------------------------------------
(* Parents.  A directory's second entry leads back to where it is named.   *)

\* A walk that does not end nowhere ends in a directory.
LEMMA WalkDir ==
    ASSUME NEW f, NEW es, NEW D, Neat(f, es, D), NEW p \in Seq(Names), NEW g, Visits(f, es, p, g, Len(p)),
           g[Len(p)] # NULL
    PROVE  g[Len(p)] \in Opendir(f, es, p)
<1>1. CASE p = <<>>
  <2>1. Len(p) = 0 /\ g[0] = Root
    BY <1>1 DEF Visits
  <2> DEFINE e == Entry("/", TRUE, Root, 0)
  <2>2. e \in Stat(f, es, p)
    BY <1>1 DEF Stat
  <2>3. e.dir /\ e.first = Root
    BY DEF Entry
  <2> HIDE DEF e
  <2> QED
    BY <2>1, <2>2, <2>3 DEF Opendir
<1>2. CASE p # <<>>
  <2> DEFINE n == Len(p)
             d == g[n - 1]
  <2>1. n \in Nat \ {0} /\ n - 1 \in 0..n /\ n \in 1..n
    <3>1. Len(p) \in Nat /\ Len(p) # 0
      BY <1>2
    <3> QED
      BY <3>1
  <2>2. Visits(f, es, p, g, n - 1)
    BY <2>1, VisitsLess
  <2>3. resolve_path(f, es, p) = d
    BY <1>2, <2>2, ResolveVisits
  <2>4. g[n] = IF d = NULL THEN NULL ELSE Sub(Row(f, es, d), NameOf(p))
    BY <2>1 DEF Visits, NameOf
  <2>5. d # NULL /\ g[n] = Sub(Row(f, es, d), NameOf(p))
    BY <2>4
  <2>6. Stat(f, es, p) = Ent(Row(f, es, d), NameOf(p))
    BY <1>2, <2>3, <2>5 DEF Stat
  <2> DEFINE S == Ent(Row(f, es, d), NameOf(p))
  <2>7. \E x \in S : x.dir
    BY <2>5 DEF Sub
  <2>8. g[n] = (CHOOSE x \in S : x.dir).first
    BY <2>5, <2>7 DEF Sub
  <2> DEFINE y == CHOOSE x \in S : x.dir
  <2>9. y \in S /\ y.dir
    BY <2>7
  <2> HIDE DEF y, S
  <2>10. g[n] = y.first /\ y \in Stat(f, es, p)
    BY <2>6, <2>8, <2>9 DEF S, y
  <2> QED
    BY <2>9, <2>10 DEF Opendir
<1> QED
  BY <1>1, <1>2

\* Without its last name.
Parent(p) == SubSeq(p, 1, Len(p) - 1)

\* The path without its last name.
LEMMA ParentIs ==
    ASSUME NEW p \in Seq(Names), p # <<>>
    PROVE  /\ Parent(p) \in Seq(Names) /\ Len(p) \in Nat \ {0} /\ Len(Parent(p)) = Len(p) - 1
           /\ \A k \in 1..(Len(p) - 1) : Parent(p)[k] = p[k]
           /\ Len(p) - 1 \in 0..Len(p) /\ NameOf(p) \in Names
<1>1. Len(p) \in Nat \ {0}
  <2>1. Len(p) \in Nat /\ Len(p) # 0
    OBVIOUS
  <2> QED
    BY <2>1
<1>2. Len(p) - 1 \in Nat /\ Len(p) - 1 <= Len(p) /\ Len(p) - 1 \in 0..Len(p) /\ Len(p) \in 1..Len(p)
  BY <1>1
<1>3. Parent(p) \in Seq(Names) /\ Len(Parent(p)) = Len(p) - 1
  <2> DEFINE m == Len(p) - 1
  <2>1. m \in Nat /\ m <= Len(p)
    BY <1>2
  <2> HIDE DEF m
  <2>2. SubSeq(p, 1, m) \in Seq(Names) /\ Len(SubSeq(p, 1, m)) = m
    BY <2>1
  <2> QED
    BY <2>2 DEF Parent, m
<1>4. ASSUME NEW k \in 1..(Len(p) - 1) PROVE Parent(p)[k] = p[k]
  <2> DEFINE m == Len(p) - 1
  <2>1. m \in Nat /\ m <= Len(p) /\ k \in 1..m
    BY <1>2
  <2> HIDE DEF m
  <2>2. SubSeq(p, 1, m)[k] = p[k]
    BY <2>1
  <2> QED
    BY <2>2 DEF Parent, m
<1>5. NameOf(p) \in Names
  BY <1>2, ElementOfSeq DEF NameOf
<1> QED
  BY <1>1, <1>2, <1>3, <1>4, <1>5

\* What is at a path is in the directory of the path without its last name.
LEMMA ParentThere ==
    ASSUME NEW f, NEW es, NEW D, Neat(f, es, D), NEW p \in Seq(Names), p # <<>>, Stat(f, es, p) # {}
    PROVE  \E c \in Opendir(f, es, Parent(p)) :
              c \in D /\ resolve_path(f, es, p) = c /\ Stat(f, es, p) = Ent(Row(f, es, c), NameOf(p))
<1> DEFINE n == Len(p) - 1
           r == Parent(p)
<1>1. r \in Seq(Names) /\ Len(r) = n /\ n \in 0..Len(p) /\ n \in Nat /\ \A k \in 1..n : r[k] = p[k]
  BY ParentIs
<1>2. PICK g : Visits(f, es, p, g, Len(p))
  BY WalkExists
<1>3. Visits(f, es, p, g, n)
  BY <1>1, <1>2, VisitsLess
<1>4. resolve_path(f, es, p) = g[n]
  BY <1>3, ResolveVisits
<1>5. g[n] # NULL /\ Stat(f, es, p) = Ent(Row(f, es, g[n]), NameOf(p))
  BY <1>4 DEF Stat
<1> HIDE DEF r, n
<1>6. Visits(f, es, r, g, Len(r))
  BY <1>1, <1>3 DEF Visits
<1>7. g[Len(r)] \in Opendir(f, es, r)
  BY <1>1, <1>5, <1>6, WalkDir
<1>8. g[Len(r)] \in D
  BY <1>1, <1>6, <1>7, DirWalk
<1> QED
  BY <1>1, <1>4, <1>5, <1>7, <1>8 DEF r

\* A directory is in the cover where it has an entry.
LEMMA EntFirst ==
    ASSUME NEW f, NEW es, NEW D, Neat(f, es, D), NEW c \in D, NEW n \in Names,
           NEW x \in Ent(Row(f, es, c), n), x.dir
    PROVE  x.first \in D \ {Root}
<1>1. PICK k \in DOMAIN Row(f, es, c) : Row(f, es, c)[k].name = n /\ x = Row(f, es, c)[k]
  BY DEF Ent
<1>2. k \in DOMAIN Slots(f, c) /\ Row(f, es, c)[k].name \in Names /\ Row(f, es, c)[k].dir
  BY <1>1 DEF Row
<1> QED
  BY <1>1, <1>2, RowUsed

\* The second entry of a directory that has a name leads to the directory with
\* that name.
Dotted(f, es, D) ==
    \A c \in D, n \in Names : \A x \in Ent(Row(f, es, c), n) : x.dir => Points(Row(f, es, x.first), c)

\* All that leads to anything is in P.
Confined(f, es, P) == \A p \in Seq(Names) : Stat(f, es, p) # {} => p \in P

\* What is new at a path is no directory or a new one, whose second entry leads
\* to dir.
NewBelow(F, es2, D, dir, E) ==
    \A x \in E : x.dir => x.first \notin D /\ Points(Row(F, es2, x.first), dir)

\* An edit keeps the second entries true.
LEMMA DottedKept ==
    ASSUME NEW f, NEW es, NEW D, NEW F, NEW es2, NEW D2, NEW dir, NEW name, NEW E,
           Edits(f, es, D, F, es2, D2, dir, name, E),
           Dotted(f, es, D), NewBelow(F, es2, D, dir, E)
    PROVE  Dotted(F, es2, D2)
<1> SUFFICES ASSUME NEW c \in D2, NEW n \in Names, NEW x \in Ent(Row(F, es2, c), n), x.dir
             PROVE  Points(Row(F, es2, x.first), c)
  BY DEF Dotted
<1>0. Neat(f, es, D) /\ Neat(F, es2, D2) /\ dir \in D /\ name \in Names
  BY DEF Edits
<1>1. c \in D
  BY DEF Edits
<1> DEFINE b == x.first
<1>2. b \in D2
  BY <1>0, EntFirst
<1>3. CASE c = dir /\ n = name
  <2>1. x \in E
    BY <1>3 DEF Edits
  <2> QED
    BY <1>3, <2>1 DEF NewBelow
<1>4. CASE c # dir \/ n # name
  <2>1. Ent(Row(F, es2, c), n) = Ent(Row(f, es, c), n)
    <3>1. CASE c # dir
      <4>1. Row(F, es2, c) = Row(f, es, c)
        BY <1>1, <3>1 DEF Edits
      <4> QED
        BY <4>1
    <3>2. CASE c = dir
      BY <1>4, <3>2 DEF Edits
    <3> QED
      BY <3>1, <3>2
  <2>2. x \in Ent(Row(f, es, c), n)
    BY <2>1
  <2>3. b \in D /\ Points(Row(f, es, b), c)
    <3>1. x.first \in D
      BY <1>0, <1>1, <2>2, EntFirst
    <3> QED
      BY <1>1, <2>2, <3>1 DEF Dotted
  <2> HIDE DEF b
  <2>4. CASE b # dir
    <3>1. Row(F, es2, b) = Row(f, es, b)
      BY <1>2, <2>3, <2>4 DEF Edits
    <3> QED
      BY <2>3, <3>1 DEF b
  <2>5. CASE b = dir
    <3>1. dir \in D2 /\ Points(Row(f, es, dir), c)
      BY <1>2, <2>3, <2>5
    <3>2. Points(Row(F, es2, dir), c)
      BY <3>1 DEF Edits
    <3> QED
      BY <2>5, <3>2 DEF b
  <2> QED
    BY <2>4, <2>5
<1> QED
  BY <1>3, <1>4

\* A walk that is nowhere stays there.
LEMMA NullStays ==
    ASSUME NEW f, NEW es, NEW p \in Seq(Names), NEW g, Visits(f, es, p, g, Len(p)),
           NEW i \in 0..Len(p), g[i] = NULL, NEW k \in i..Len(p)
    PROVE  g[k] = NULL
<1> DEFINE n == Len(p)
           S == {j \in Nat : i + j <= n => g[i + j] = NULL}
<1>1. n \in Nat /\ i \in Nat /\ k \in Nat /\ i <= k /\ k <= n
  BY LenProperties
<1> HIDE DEF n
<1>2. 0 \in S
  BY <1>1
<1>3. ASSUME NEW j \in Nat, j \in S PROVE j + 1 \in S
  <2> SUFFICES ASSUME i + (j + 1) <= n PROVE g[i + (j + 1)] = NULL
    BY <1>3
  <2>1. i + (j + 1) \in 1..n /\ i + j <= n /\ (i + (j + 1)) - 1 = i + j
    BY <1>1, <1>3
  <2>2. g[i + (j + 1)] = IF g[(i + (j + 1)) - 1] = NULL THEN NULL
                         ELSE Sub(Row(f, es, g[(i + (j + 1)) - 1]), p[i + (j + 1)])
    BY <2>1 DEF Visits, n
  <2>3. g[i + j] = NULL
    BY <1>3, <2>1
  <2> QED
    BY <2>1, <2>2, <2>3
<1> HIDE DEF S
<1>4. Nat \subseteq S
  BY <1>2, <1>3, NatSetInduction
<1>5. k - i \in S /\ i + (k - i) = k
  BY <1>1, <1>4
<1> QED
  BY <1>1, <1>5 DEF S

\* An edit at a path of P keeps this: below the path there is nothing.
LEMMA ConfinedKept ==
    ASSUME NEW f, NEW es, NEW D, NEW F, NEW es2, NEW D2, NEW dir, NEW name, NEW E,
           Edits(f, es, D, F, es2, D2, dir, name, E), NewBelow(F, es2, D, dir, E),
           NEW p \in Seq(Names), p # <<>>, resolve_path(f, es, p) = dir, NameOf(p) = name,
           NEW P, p \in P, Confined(f, es, P)
    PROVE  Confined(F, es2, P)
<1> SUFFICES ASSUME NEW q \in Seq(Names), Stat(F, es2, q) # {} PROVE q \in P
  BY DEF Confined
<1>0. Neat(f, es, D) /\ Neat(F, es2, D2) /\ dir \in D
  BY DEF Edits
<1>1. Len(p) \in Nat \ {0} /\ Len(q) \in Nat
  <2>1. Len(p) \in Nat /\ Len(p) # 0 /\ Len(q) \in Nat
    OBVIOUS
  <2> QED
    BY <2>1
<1>2. CASE ~Under(p, q)
  <2>1. Stat(F, es2, q) = Stat(f, es, q)
    BY <1>2, StatEdited
  <2> QED
    BY <2>1 DEF Confined
<1>3. CASE Under(p, q) /\ Len(q) <= Len(p)
  <2>1. Len(q) = Len(p) /\ \A k \in 1..Len(q) : q[k] = p[k]
    BY <1>1, <1>3 DEF Under
  <2>2. q = p
    BY <1>1, <2>1, SeqEqual
  <2> QED
    BY <2>2
<1>4. ASSUME Under(p, q), Len(p) < Len(q) PROVE FALSE
  <2> DEFINE i == Len(p)
             n == Len(q)
  <2>1. PICK g : Visits(F, es2, q, g, n)
    BY <1>0, WalkExists
  <2>2. i \in 1..n /\ i \in 0..n /\ n - 1 \in i..n /\ n - 1 \in 0..n /\ i + 1 \in 1..n /\ (i + 1) - 1 = i
    BY <1>1, <1>4
  <2>3. q # <<>>
    BY <1>1, <2>2
  <2>4. Visits(F, es2, q, g, n - 1) /\ Visits(F, es2, q, g, i)
    BY <2>1, <2>2, VisitsLess
  <2>5. resolve_path(F, es2, q) = g[n - 1] /\ NameOf(q) \in Names
    BY <1>0, <2>3, <2>4, ResolveVisits
  <2>6. g[n - 1] # NULL /\ Ent(Row(F, es2, g[n - 1]), NameOf(q)) # {}
    BY <2>3, <2>5 DEF Stat
  <2>7. g[i] # NULL
    BY <2>1, <2>2, <2>6, NullStays
  <2>8. Visits(F, es2, p, g, i)
    BY <1>4, <2>4 DEF Visits, Under
  <2>9. g[i] \in Opendir(F, es2, p) /\ g[i] \in D2
    <3>1. g[i] \in Opendir(F, es2, p)
      BY <1>0, <2>7, <2>8, WalkDir
    <3> QED
      BY <1>0, <2>8, <3>1, DirWalk
  <2>10. g[i] \notin D
    <3>1. Stat(F, es2, p) = E
      BY StatEdited
    <3>2. PICK x \in E : x.dir /\ x.first = g[i]
      BY <2>9, <3>1 DEF Opendir
    <3> QED
      BY <3>2 DEF NewBelow
  <2>11. \A a \in Names : Ent(Row(F, es2, g[i]), a) = {}
    BY <2>9, <2>10 DEF Edits
  <2>12. CASE n - 1 = i
    BY <2>5, <2>6, <2>11, <2>12
  <2>13. CASE n - 1 # i
    <3>1. g[i + 1] = Sub(Row(F, es2, g[i]), q[i + 1])
      <4>1. g[i + 1] = IF g[(i + 1) - 1] = NULL THEN NULL ELSE Sub(Row(F, es2, g[(i + 1) - 1]), q[i + 1])
        BY <2>1, <2>2 DEF Visits
      <4> QED
        BY <2>2, <2>7, <4>1
    <3>2. q[i + 1] \in Names
      BY <2>2, ElementOfSeq
    <3>3. g[i + 1] = NULL
      <4>1. Ent(Row(F, es2, g[i]), q[i + 1]) = {}
        BY <2>11, <3>2
      <4> QED
        BY <3>1, <4>1 DEF Sub
    <3>4. i + 1 \in 0..n /\ n - 1 \in (i + 1)..n
      BY <1>1, <2>2, <2>13
    <3> QED
      BY <2>1, <2>6, <3>3, <3>4, NullStays
  <2> QED
    BY <2>12, <2>13
<1> QED
  BY <1>1, <1>2, <1>3, <1>4

\* The second entry is that of the directory's first cluster.
LEMMA SecondEntry ==
    ASSUME NEW f, NEW es, NEW D, Neat(f, es, D), NEW d \in D \ {Root}
    PROVE  2 \in DOMAIN Row(f, es, d) => Row(f, es, d)[2] = es[d][2]
<1>1. f \in Tables /\ d \in Cluster /\ d # Root
  BY NeatFacts
<1> DEFINE n == InBlock(d)
           b == BlocksOf(f, d)
<1>2. n = DirEntries /\ n \in Nat /\ n >= 2
  BY <1>1, DirAssumption DEF InBlock
<1>3. b = ChainSeq(f, d)
  BY <1>1 DEF BlocksOf
<1>4. b[1] = d
  <2>1. Cardinality(Chain(f, d)) \in Nat \ {0}
    BY <1>1, LastOfChain
  <2>2. 1 \in 1..Cardinality(Chain(f, d)) /\ 1 - 1 = 0
    BY <2>1
  <2>3. b[1] = ChainWalk(f, d)[0]
    BY <1>1, <1>3, <2>2, ChainSeqIs
  <2>4. 0 \in 0..MaxCluster
    BY Sizes
  <2>5. ChainWalk(f, d)[0] = d
    BY <1>1, <2>4, WalkOfChain
  <2> QED
    BY <2>3, <2>5
<1>5. ASSUME 2 \in DOMAIN Slots(f, d) PROVE Slots(f, d)[2] = <<d, 2>>
  <2>1. 2 \in 1..(InBlock(d) * Len(BlocksOf(f, d)))
    BY <1>1, <1>5, SlotsAre
  <2>2. Slots(f, d)[2] = <<BlocksOf(f, d)[1 + (2 - 1) \div InBlock(d)], 1 + ((2 - 1) % InBlock(d))>>
    BY <1>1, <2>1, SlotsAre
  <2> HIDE DEF n
  <2>3. (2 - 1) \div n = 0 /\ (2 - 1) % n = 1
    BY <1>2
  <2>4. Slots(f, d)[2] = <<b[1 + 0], 1 + 1>>
    BY <2>2, <2>3 DEF n
  <2> QED
    BY <1>4, <2>4
<1> HIDE DEF n, b
<1>6. ASSUME 2 \in DOMAIN Row(f, es, d) PROVE Row(f, es, d)[2] = es[d][2]
  <2>1. 2 \in DOMAIN Slots(f, d) /\ Row(f, es, d)[2] = At(es, Slots(f, d)[2])
    BY <1>6 DEF Row
  <2>2. Slots(f, d)[2] = <<d, 2>>
    BY <1>5, <2>1
  <2> QED
    BY <2>1, <2>2 DEF At
<1> QED
  BY <1>6

\* From a directory of a path, one name further.
LEMMA StepDown ==
    ASSUME NEW f, NEW es, NEW D, Neat(f, es, D), NEW p \in Seq(Names), NEW c \in Opendir(f, es, p),
           NEW n \in Names, NEW a, a = DirectoryAt(es, dir_lookup(f, es, c, n, FALSE)), a # NULL
    PROVE  a \in Opendir(f, es, Append(p, n))
<1> DEFINE no == FALSE
           l == dir_lookup(f, es, c, n, no)
           S == Ent(Row(f, es, c), n)
<1>1. c \in D
  <2>1. PICK g : Visits(f, es, p, g, Len(p))
    BY WalkExists
  <2> QED
    BY <2>1, DirWalk
<1>2. no \in BOOLEAN /\ a = DirectoryAt(es, l)
  OBVIOUS
<1> HIDE DEF no
<1>3. l = dir_lookup(f, es, c, n, no)
  OBVIOUS
<1> HIDE DEF l
<1>4. DirectoryAt(es, l) = Sub(Row(f, es, c), n)
  BY <1>1, <1>2, <1>3, StepsAre
<1>5. a = Sub(Row(f, es, c), n)
  BY <1>2, <1>4
<1>6. Stat(f, es, Append(p, n)) = S
  BY StatBelow
<1>7. \E x \in S : x.dir
  BY <1>5 DEF Sub
<1>8. a = (CHOOSE x \in S : x.dir).first
  BY <1>5, <1>7 DEF Sub
<1> DEFINE y == CHOOSE x \in S : x.dir
<1>9. y \in S /\ y.dir
  BY <1>7
<1> HIDE DEF y, S
<1>10. a = y.first /\ y \in Stat(f, es, Append(p, n))
  BY <1>6, <1>8, <1>9 DEF y
<1> QED
  BY <1>9, <1>10 DEF Opendir

\* From a directory of a path by its second entry.
LEMMA StepUp ==
    ASSUME NEW f, NEW es, NEW D, Neat(f, es, D), Dotted(f, es, D),
           NEW p \in Seq(Names), NEW c \in Opendir(f, es, p)
    PROVE  IF p = <<>> THEN c = Root
           ELSE c # Root /\ es[c][2].first \in Opendir(f, es, Parent(p))
<1>1. CASE p = <<>>
  <2>1. PICK e \in Stat(f, es, p) : e.dir /\ c = e.first
    BY DEF Opendir
  <2>2. e = Entry("/", TRUE, Root, 0)
    BY <1>1, <2>1 DEF Stat
  <2>3. c = Root
    BY <2>1, <2>2 DEF Entry
  <2> QED
    BY <1>1, <2>3
<1>2. CASE p # <<>>
  <2>1. PICK x \in Stat(f, es, p) : x.dir /\ c = x.first
    BY DEF Opendir
  <2>2. Stat(f, es, p) # {}
    BY <2>1
  <2>3. PICK d \in Opendir(f, es, Parent(p)) : d \in D /\ Stat(f, es, p) = Ent(Row(f, es, d), NameOf(p))
    BY <1>2, <2>2, ParentThere
  <2>4. NameOf(p) \in Names
    BY <1>2, ParentIs
  <2>5. x \in Ent(Row(f, es, d), NameOf(p))
    BY <2>1, <2>3
  <2>6. c \in D \ {Root}
    BY <2>1, <2>3, <2>4, <2>5, EntFirst
  <2>7. Points(Row(f, es, c), d)
    BY <2>1, <2>3, <2>4, <2>5 DEF Dotted
  <2>8. 2 \in DOMAIN Row(f, es, c) /\ Row(f, es, c)[2].first = d
    BY <2>7 DEF Points
  <2>9. es[c][2].first = d
    BY <2>6, <2>8, SecondEntry
  <2> QED
    BY <1>2, <2>3, <2>6, <2>9
<1> QED
  BY <1>1, <1>2

\* At first there are no names at all.
LEMMA InitNeat == Init => Neat(fat, disk.entries, Dirs(fat, disk.entries))
<1> SUFFICES ASSUME Init PROVE Neat(fat, disk.entries, Dirs(fat, disk.entries))
  OBVIOUS
<1>0. Init
  OBVIOUS
<1> DEFINE es == disk.entries
           D == Dirs(fat, es)
<1>1. fat \in Tables /\ EntriesOK(es)
  BY <1>0, InitTypes DEF TypeInv, TypeOK, Disks
<1>2. Good(fat, es, D, "loose")
  <2>1. SoundInv /\ todo = <<>> /\ past = {}
    BY <1>0, InitSound DEF Init
  <2>2. ASSUME NEW X, NEW F, NEW code, NEW y, NEW B, NEW fit, Heading(X, F, code, y, B, fit) PROVE FALSE
    BY <2>1, <2>2, HeadingIs
  <2>3. Sound(fat, es)
    <3>1. PICK B, fit : Rests(B, fit)
      BY <2>1, <2>2 DEF SoundInv
    <3> QED
      BY <3>1, GoodIsSound DEF Rests
  <2> QED
    BY <1>1, <2>3, SoundIsGood
<1>3. Neat(fat, es, D)
  <2>1. es = [c \in Cluster \cup {Root} |-> [i \in 1..InBlock(c) |-> NoEntry]]
    BY <1>0 DEF Init
  <2>2. \A s \in SlotSet : At(es, s) = NoEntry
    BY <2>1 DEF SlotSet, At
  <2> HIDE DEF es, D
  <2>3. D \subseteq Cluster \cup {Root}
    BY <1>2, GoodFacts
  <2>4. ASSUME NEW d \in D PROVE Ended(Row(fat, es, d)) /\ Single(Row(fat, es, d))
    <3>1. \A k \in DOMAIN Row(fat, es, d) : Row(fat, es, d)[k] = NoEntry
      BY <1>1, <2>2, <2>3, RowIs
    <3>2. NoEntry.name = END /\ END \notin Names
      BY NamesAssumption DEF NoEntry
    <3> QED
      BY <3>1, <3>2 DEF Ended, Single
  <2> QED
    BY <1>2, <2>4 DEF Neat
<1> QED
  BY <1>3
=============================================================================
