---------------------------- MODULE MemoryProofs ----------------------------
(* Proofs about Memory and UserHeap: the frames of address spaces, the      *)
(* pages in them, the order in which frames are handed out; the list of     *)
(* malloc's blocks covers the heap of a program, and what the program       *)
(* holds is in it.                                                          *)
EXTENDS UserHeap, ListLemmas, SequenceTheorems

\* Functions on integers with values in R.
Fcns(R) == UNION {[D -> R] : D \in SUBSET Int}

PageEntry == [frame : Nat, rw : BOOLEAN]
Space == [pd : Int, table : Fcns(Nat), page : Fcns(PageEntry), panic : BOOLEAN]
Loads == [free : SUBSET Nat, space : Space]

Writable(s) == {v \in DOMAIN s.page : s.page[v].rw}

\* The states of a loop that maps pages.  It began with the free frames F0; F are
\* the free frames and those of the address space, D its pages, W those that may
\* be written.  Frames were taken from below.
Building(F0, F, D, W) ==
    {m \in Loads :
        \/ m.space.panic
        \/ /\ OneWay(m.space) /\ m.space.pd \in Nat
           /\ m.free \cap Frames(m.space) = {}
           /\ m.free \cup Frames(m.space) = F
           /\ DOMAIN m.space.page = D
           /\ Writable(m.space) = W
           /\ m.free \subseteq F0 /\ \A f \in F0 \ m.free, g \in m.free : f < g}

\* The first frame of a set is in it, and none is before it.
LEMMA FirstIsLeast ==
    ASSUME NEW S \in SUBSET Nat, S # {}
    PROVE  First(S) \in S /\ \A j \in S : First(S) <= j
<1>1. \E k \in S : \A j \in S : k <= j
  BY LeastNat
<1> QED
  BY <1>1 DEF First

\* A function with one more argument.
LEMMA PutFacts ==
    ASSUME NEW R, NEW f \in Fcns(R), NEW x \in Int, NEW y \in R
    PROVE  /\ Put(f, x, y) \in Fcns(R)
           /\ DOMAIN Put(f, x, y) = DOMAIN f \cup {x}
           /\ Put(f, x, y)[x] = y
           /\ \A z \in DOMAIN f : z # x => Put(f, x, y)[z] = f[z]
<1>1. PICK D \in SUBSET Int : f \in [D -> R]
  BY DEF Fcns
<1>2. Put(f, x, y) \in [D \cup {x} -> R]
  BY <1>1 DEF Put
<1> QED
  BY <1>1, <1>2 DEF Put, Fcns

\* The arguments and the values of such a function.
LEMMA FcnsFacts ==
    ASSUME NEW R, NEW f \in Fcns(R)
    PROVE  DOMAIN f \subseteq Int /\ \A z \in DOMAIN f : f[z] \in R
BY DEF Fcns

WithPage(s, v, f, rw) == [s EXCEPT !.page = Put(@, v, [frame |-> f, rw |-> rw])]
WithTable(s, k, f) == [s EXCEPT !.table = Put(@, k, f)]

\* One frame more, and a page on it, or a table.
Leads(r, s, f) ==
    /\ r \in Space /\ OneWay(r) /\ r.pd = s.pd /\ r.panic = s.panic
    /\ Frames(r) = Frames(s) \cup {f}
PageAdded(r, s, v, rw) ==
    /\ r.table = s.table
    /\ DOMAIN r.page = DOMAIN s.page \cup {v}
    /\ Writable(r) = IF rw THEN Writable(s) \cup {v} ELSE Writable(s)

\* A page on a frame that the directory does not lead to.
LEMMA AddPage ==
    ASSUME NEW s \in Space, OneWay(s), s.pd \in Nat,
           NEW v \in Int, v \notin DOMAIN s.page,
           NEW f \in Nat, f \notin Frames(s), NEW rw \in BOOLEAN
    PROVE  Leads(WithPage(s, v, f, rw), s, f) /\ PageAdded(WithPage(s, v, f, rw), s, v, rw)
<1> DEFINE e == [frame |-> f, rw |-> rw]
           r == WithPage(s, v, f, rw)
<1>0. s.page \in Fcns(PageEntry) /\ s.table \in Fcns(Nat) /\ e \in PageEntry /\ e.frame = f /\ e.rw = rw
  BY DEF Space, PageEntry
<1>1. r = [pd |-> s.pd, table |-> s.table, page |-> Put(s.page, v, e), panic |-> s.panic]
  BY DEF Space, WithPage
<1> HIDE DEF r
<1>2. /\ r.page \in Fcns(PageEntry) /\ DOMAIN r.page = DOMAIN s.page \cup {v} /\ r.page[v] = e
      /\ \A z \in DOMAIN s.page : r.page[z] = s.page[z]
  <2> HIDE DEF e
  <2>1. Put(s.page, v, e) \in Fcns(PageEntry)
    BY <1>0, PutFacts, Zenon
  <2>2. /\ DOMAIN Put(s.page, v, e) = DOMAIN s.page \cup {v}
        /\ Put(s.page, v, e)[v] = e
        /\ \A z \in DOMAIN s.page : z # v => Put(s.page, v, e)[z] = s.page[z]
    BY DEF Put
  <2> QED
    BY <1>1, <2>1, <2>2
<1> HIDE DEF e
<1>3. r.pd = s.pd /\ r.panic = s.panic /\ r.table = s.table
  BY <1>1
<1>4. r \in Space
  BY <1>1, <1>2 DEF Space
<1>5. /\ f # s.pd /\ \A t \in DOMAIN s.table : s.table[t] # f
      /\ \A w \in DOMAIN s.page : s.page[w].frame # f
  BY DEF Frames, NULL
<1>6. OneWay(r)
  BY <1>0, <1>2, <1>3, <1>5 DEF OneWay
<1>7. Frames(r) = Frames(s) \cup {f}
  <2>1. {r.page[w].frame : w \in DOMAIN r.page} = {s.page[w].frame : w \in DOMAIN s.page} \cup {f}
    BY <1>0, <1>2
  <2> QED
    BY <1>3, <2>1 DEF Frames
<1>8. Writable(r) = IF rw THEN Writable(s) \cup {v} ELSE Writable(s)
  BY <1>0, <1>2 DEF Writable
<1> QED
  BY <1>2, <1>3, <1>4, <1>6, <1>7, <1>8 DEF r, Leads, PageAdded

\* A page table on such a frame.
LEMMA AddTable ==
    ASSUME NEW s \in Space, OneWay(s), s.pd \in Nat,
           NEW k \in Int, k \notin DOMAIN s.table,
           NEW f \in Nat, f \notin Frames(s)
    PROVE  Leads(WithTable(s, k, f), s, f) /\ WithTable(s, k, f).page = s.page
<1> DEFINE r == WithTable(s, k, f)
<1>0. s.table \in Fcns(Nat)
  BY DEF Space
<1>1. r = [pd |-> s.pd, table |-> Put(s.table, k, f), page |-> s.page, panic |-> s.panic]
  BY DEF Space, WithTable
<1> HIDE DEF r
<1>2. /\ r.table \in Fcns(Nat) /\ DOMAIN r.table = DOMAIN s.table \cup {k} /\ r.table[k] = f
      /\ \A z \in DOMAIN s.table : r.table[z] = s.table[z]
  <2>1. Put(s.table, k, f) \in Fcns(Nat)
    BY <1>0, PutFacts, Zenon
  <2>2. /\ DOMAIN Put(s.table, k, f) = DOMAIN s.table \cup {k}
        /\ Put(s.table, k, f)[k] = f
        /\ \A z \in DOMAIN s.table : z # k => Put(s.table, k, f)[z] = s.table[z]
    BY DEF Put
  <2> QED
    BY <1>1, <2>1, <2>2
<1>3. r.pd = s.pd /\ r.panic = s.panic /\ r.page = s.page
  BY <1>1
<1>4. r \in Space
  BY <1>1, <1>2 DEF Space
<1>5. /\ f # s.pd /\ \A t \in DOMAIN s.table : s.table[t] # f
      /\ \A w \in DOMAIN s.page : s.page[w].frame # f
  BY DEF Frames, NULL
<1>6. OneWay(r)
  BY <1>2, <1>3, <1>5 DEF OneWay
<1>7. Frames(r) = Frames(s) \cup {f}
  <2>1. {r.table[t] : t \in DOMAIN r.table} = {s.table[t] : t \in DOMAIN s.table} \cup {f}
    BY <1>2
  <2> QED
    BY <1>3, <2>1 DEF Frames
<1> QED
  BY <1>3, <1>4, <1>6, <1>7 DEF Leads, r

\* A state of the loop is made of its parts.
LEMMA StateFacts ==
    ASSUME NEW F \in SUBSET Nat, NEW s \in Space
    PROVE  State(F, s) \in Loads /\ State(F, s).free = F /\ State(F, s).space = s
BY DEF State, Loads

\* The frames that a page may take are free ones, the first.
LEMMA TakeFirst ==
    ASSUME NEW F \in SUBSET Nat, F # {}
    PROVE  LET f == pmm_alloc_frame(F) IN
           f \in F /\ f \in Nat /\ \A g \in F \ {f} : f < g
<1> DEFINE f == First(F)
<1>1. f \in F /\ \A j \in F : f <= j
  BY FirstIsLeast, Zenon
<1> HIDE DEF f
<1>2. f \in F /\ f \in Nat /\ \A g \in F \ {f} : f < g
  BY <1>1
<1> QED
  BY <1>2 DEF pmm_alloc_frame, f

\* A page is in one page table.
LEMMA TableIndex == ASSUME NEW v \in Int PROVE v \div PerTable \in Int
BY PageAssumption

\* A state of the loop has the fields that it should have.
LEMMA BuildingFacts ==
    ASSUME NEW F0, NEW F, NEW D, NEW W, NEW m \in Building(F0, F, D, W)
    PROVE  /\ m \in Loads /\ m.free \in SUBSET Nat /\ m.space \in Space
           /\ m.space.page \in Fcns(PageEntry) /\ m.space.table \in Fcns(Nat)
           /\ m.space.panic \in BOOLEAN
           /\ m = [free |-> m.free, space |-> m.space]
BY DEF Building, Loads, Space

\* Whatever it meets, a panic is kept.
LEMMA PanicStays ==
    ASSUME NEW F0, NEW F, NEW D, NEW W, NEW E, NEW X,
           NEW m \in Building(F0, F, D, W), m.space.panic,
           NEW v \in Int, NEW rw \in BOOLEAN
    PROVE  MapNew(m, v, rw) \in Building(F0, F, E, X)
<1> DEFINE f == pmm_alloc_frame(m.free)
           t == pmm_alloc_frame(m.free \ {f})
           k == v \div PerTable
           page == Put(m.space.page, v, [frame |-> f, rw |-> rw])
           mapped == [m.space EXCEPT !.page = page]
           r == MapNew(m, v, rw)
<1>1. /\ m.free \in SUBSET Nat /\ m.space \in Space /\ m.space.table \in Fcns(Nat)
      /\ m.space.page \in Fcns(PageEntry) /\ m = [free |-> m.free, space |-> m.space]
  BY BuildingFacts
<1>2. k \in Int
  BY TableIndex
<1>3. m.free # {} => f \in Nat
  BY <1>1, TakeFirst, Zenon
<1>4. m.free \ {f} # {} => t \in Nat
  BY <1>1, TakeFirst, Zenon
<1>5. m.free # {} => mapped \in Space /\ mapped.panic
  <2> SUFFICES ASSUME m.free # {} PROVE mapped \in Space /\ mapped.panic
    OBVIOUS
  <2>1. [frame |-> f, rw |-> rw] \in PageEntry
    BY <1>3 DEF PageEntry
  <2>2. page \in Fcns(PageEntry)
    BY <1>1, <2>1, PutFacts, Zenon
  <2> QED
    BY <1>1, <2>2 DEF Space
<1>6. r \in Loads /\ r.space.panic
  <2> HIDE DEF k, f, t
  <2>1. CASE m.free = {} \/ (k \notin DOMAIN m.space.table /\ m.free = {f})
    <3>1. r = [m EXCEPT !.space.panic = TRUE]
      BY <2>1 DEF MapNew, f, k
    <3> QED
      BY <1>1, <3>1 DEF Loads, Space
  <2>2. CASE m.free # {} /\ k \in DOMAIN m.space.table
    <3>1. r = State(m.free \ {f}, mapped)
      BY <2>2 DEF MapNew, f, k
    <3>2. m.free \ {f} \in SUBSET Nat /\ mapped \in Space /\ mapped.panic
      BY <1>1, <1>5, <2>2
    <3> HIDE DEF mapped, r
    <3> QED
      BY <3>1, <3>2, StateFacts, Zenon
  <2>3. CASE m.free # {} /\ m.free # {f} /\ k \notin DOMAIN m.space.table
    <3>1. r = State(m.free \ {f, t}, [mapped EXCEPT !.table = Put(@, k, t)])
      BY <2>3 DEF MapNew, f, k, t
    <3>2. m.free \ {f} # {}
      BY <2>3
    <3>3. mapped.table = m.space.table
      BY <1>1 DEF Space
    <3>4. Put(mapped.table, k, t) \in Fcns(Nat)
      BY <1>1, <1>2, <1>4, <3>2, <3>3, PutFacts, Zenon
    <3> HIDE DEF mapped
    <3>5. [mapped EXCEPT !.table = Put(@, k, t)] \in Space /\ [mapped EXCEPT !.table = Put(@, k, t)].panic
      BY <1>5, <2>3, <3>4 DEF Space
    <3>6. m.free \ {f, t} \in SUBSET Nat
      BY <1>1
    <3> HIDE DEF r
    <3> QED
      BY <3>1, <3>5, <3>6, StateFacts, Zenon
  <2> QED
    BY <2>1, <2>2, <2>3
<1> QED
  BY <1>6 DEF Building

\* A frame goes from the free ones to the address space, the first.
LEMMA FrameMoves ==
    ASSUME NEW F0, NEW F, NEW D, NEW W, NEW m \in Building(F0, F, D, W), ~m.space.panic,
           m.free # {}, NEW f, f = pmm_alloc_frame(m.free),
           NEW r \in Space, OneWay(r), r.pd = m.space.pd, Frames(r) = Frames(m.space) \cup {f}
    PROVE  State(m.free \ {f}, r) \in Building(F0, F, DOMAIN r.page, Writable(r))
<1> DEFINE n == State(m.free \ {f}, r)
<1>1. /\ m.free \in SUBSET Nat /\ r.pd \in Nat
      /\ m.free \cap Frames(m.space) = {} /\ m.free \cup Frames(m.space) = F
      /\ m.free \subseteq F0 /\ \A h \in F0 \ m.free, g \in m.free : h < g
  BY DEF Building, Loads
<1>2. f \in m.free /\ \A g \in m.free \ {f} : f < g
  BY <1>1, TakeFirst, Zenon
<1>3. n \in Loads /\ n.free = m.free \ {f} /\ n.space = r
  <2>1. m.free \ {f} \in SUBSET Nat
    BY <1>1
  <2>2. State(m.free \ {f}, r) = n
    OBVIOUS
  <2> HIDE DEF n
  <2> QED
    BY <2>1, <2>2, StateFacts
<1> HIDE DEF n
<1>4. n.free \cap Frames(r) = {} /\ n.free \cup Frames(r) = F
  BY <1>1, <1>2, <1>3
<1>5. n.free \subseteq F0 /\ \A h \in F0 \ n.free, g \in n.free : h < g
  BY <1>1, <1>2, <1>3
<1>6. n \in Building(F0, F, DOMAIN r.page, Writable(r))
  BY <1>1, <1>3, <1>4, <1>5 DEF Building
<1> QED
  BY <1>6 DEF n

\* An address space in which no frame was found.
LEMMA SpacePanics ==
    ASSUME NEW s \in Space
    PROVE  [s EXCEPT !.panic = TRUE] \in Space /\ [s EXCEPT !.panic = TRUE].panic
BY DEF Space

\* A new page: it takes a frame, and one for a table where there is none.
LEMMA MapNewBuilds ==
    ASSUME NEW F0, NEW F, NEW D, NEW W, NEW m \in Building(F0, F, D, W),
           NEW v \in Int, v \notin D, NEW rw \in BOOLEAN
    PROVE  MapNew(m, v, rw) \in Building(F0, F, D \cup {v}, IF rw THEN W \cup {v} ELSE W)
<1> DEFINE f == pmm_alloc_frame(m.free)
           t == pmm_alloc_frame(m.free \ {f})
           k == v \div PerTable
           mapped == WithPage(m.space, v, f, rw)
           E == D \cup {v}
           X == IF rw THEN W \cup {v} ELSE W
           r == MapNew(m, v, rw)
<1> SUFFICES ASSUME ~m.space.panic PROVE r \in Building(F0, F, E, X)
  BY PanicStays
<1>1. /\ m.free \in SUBSET Nat /\ m.space \in Space /\ m = [free |-> m.free, space |-> m.space]
      /\ OneWay(m.space) /\ m.space.pd \in Nat /\ m.free \cap Frames(m.space) = {}
      /\ v \notin DOMAIN m.space.page /\ DOMAIN m.space.page = D /\ Writable(m.space) = W
  <2>1. /\ m.free \in SUBSET Nat /\ m.space \in Space /\ m = [free |-> m.free, space |-> m.space]
    BY BuildingFacts
  <2>2. /\ OneWay(m.space) /\ m.space.pd \in Nat /\ m.free \cap Frames(m.space) = {}
        /\ DOMAIN m.space.page = D /\ Writable(m.space) = W
    BY DEF Building
  <2> QED
    BY <2>1, <2>2
<1>2. k \in Int
  BY TableIndex
<1> HIDE DEF k
<1>3. CASE m.free = {} \/ (k \notin DOMAIN m.space.table /\ m.free = {f})
  <2>1. r = [m EXCEPT !.space.panic = TRUE]
    BY <1>3 DEF MapNew, k
  <2>2. r = State(m.free, [m.space EXCEPT !.panic = TRUE])
    BY <1>1, <2>1 DEF State
  <2> HIDE DEF r
  <2>3. r \in Loads /\ r.space.panic
    BY <1>1, <2>2, SpacePanics, StateFacts, Zenon
  <2> QED
    BY <2>3 DEF Building
<1>4. CASE ~(m.free = {} \/ (k \notin DOMAIN m.space.table /\ m.free = {f}))
  <2>1. f \in m.free /\ f \in Nat
    BY <1>1, <1>4, TakeFirst, Zenon
  <2>2. f \notin Frames(m.space)
    BY <1>1, <2>1
  <2> DEFINE n == State(m.free \ {f}, mapped)
  <2>3. /\ mapped \in Space /\ OneWay(mapped) /\ mapped.pd = m.space.pd /\ mapped.panic = m.space.panic
        /\ mapped.table = m.space.table /\ Frames(mapped) = Frames(m.space) \cup {f}
        /\ DOMAIN mapped.page = E /\ Writable(mapped) = X
    <3> HIDE DEF f
    <3>1. Leads(mapped, m.space, f) /\ PageAdded(mapped, m.space, v, rw)
      BY <1>1, <2>1, <2>2, AddPage, Zenon
    <3> HIDE DEF mapped
    <3> QED
      BY <1>1, <3>1 DEF Leads, PageAdded
  <2> HIDE DEF mapped, f
  <2>4. n \in Building(F0, F, E, X)
    BY <1>4, <2>3, FrameMoves DEF f
  <2>5. n.space = mapped /\ n.free = m.free \ {f}
    BY DEF State
  <2> HIDE DEF n
  <2>6. CASE k \in DOMAIN m.space.table
    <3>1. r = n
      BY <1>4, <2>6 DEF MapNew, f, k, n, mapped, WithPage
    <3> QED
      BY <2>4, <3>1
  <2>7. CASE k \notin DOMAIN m.space.table
    <3> DEFINE full == WithTable(mapped, k, t)
    <3>1. r = State(m.free \ {f, t}, full)
      BY <1>4, <2>7 DEF MapNew, f, k, mapped, WithPage, WithTable
    <3>2. n.free # {} /\ n.free \in SUBSET Nat /\ t = pmm_alloc_frame(n.free)
      BY <1>1, <1>4, <2>5, <2>7, <2>1
    <3>3. t \in n.free /\ t \in Nat
      BY <3>2, TakeFirst, Zenon
    <3>4. t \notin Frames(mapped)
      BY <1>1, <2>3, <2>5, <3>3
    <3> HIDE DEF t, r
    <3>5. Leads(full, mapped, t) /\ full.page = mapped.page
      <4>1. mapped \in Space /\ OneWay(mapped) /\ mapped.pd \in Nat
        BY <1>1, <2>3
      <4>2. k \in Int /\ k \notin DOMAIN mapped.table /\ t \in Nat /\ t \notin Frames(mapped)
        BY <1>2, <2>3, <2>7, <3>3, <3>4
      <4> QED
        BY <4>1, <4>2, AddTable, Zenon
    <3> HIDE DEF full
    <3>6. /\ full \in Space /\ OneWay(full) /\ full.pd = mapped.pd /\ full.page = mapped.page
          /\ Frames(full) = Frames(mapped) \cup {t} /\ Writable(full) = Writable(mapped)
      BY <3>5 DEF Leads, Writable
    <3>7. State(n.free \ {t}, full) \in Building(F0, F, DOMAIN full.page, Writable(full))
      BY <2>3, <2>4, <2>5, <3>2, <3>6, FrameMoves
    <3>8. n.free \ {t} = m.free \ {f, t}
      BY <2>5
    <3> QED
      BY <2>3, <3>1, <3>6, <3>7, <3>8
  <2> QED
    BY <2>6, <2>7
<1> QED
  BY <1>3, <1>4

\* A page that is there may become writable.
LEMMA UpgradeBuilds ==
    ASSUME NEW F0, NEW F, NEW D, NEW W, NEW m \in Building(F0, F, D, W),
           NEW v \in DOMAIN m.space.page, NEW rw \in BOOLEAN
    PROVE  Upgrade(m, v, rw) \in Building(F0, F, D \cup {v}, IF rw THEN W \cup {v} ELSE W)
<1> DEFINE r == Upgrade(m, v, rw)
           s == m.space
<1>1. /\ m \in Loads /\ s \in Space /\ m = [free |-> m.free, space |-> s]
      /\ s.page \in Fcns(PageEntry) /\ s.table \in Fcns(Nat)
  BY BuildingFacts
<1>2. CASE ~rw
  <2>1. r = m
    BY <1>2 DEF Upgrade
  <2>2. m \in Building(F0, F, D \cup {v}, W)
    BY DEF Building
  <2> QED
    BY <1>2, <2>1, <2>2
<1>3. CASE rw
  <2> DEFINE page == [s.page EXCEPT ![v].rw = TRUE]
             x == [pd |-> s.pd, table |-> s.table, page |-> page, panic |-> s.panic]
  <2>1. s = [pd |-> s.pd, table |-> s.table, page |-> s.page, panic |-> s.panic]
    BY <1>1 DEF Space
  <2>2. r = [free |-> m.free, space |-> x]
    <3>1. r = [m EXCEPT !.space.page[v].rw = TRUE]
      BY <1>3 DEF Upgrade
    <3> QED
      BY <1>1, <2>1, <3>1
  <2>3. /\ page \in Fcns(PageEntry) /\ DOMAIN page = DOMAIN s.page
        /\ \A w \in DOMAIN page : page[w].frame = s.page[w].frame
        /\ \A w \in DOMAIN page : page[w].rw = IF w = v THEN TRUE ELSE s.page[w].rw
    <3>1. PICK E \in SUBSET Int : s.page \in [E -> PageEntry]
      BY <1>1 DEF Fcns
    <3> DEFINE e == [s.page[v] EXCEPT !.rw = TRUE]
    <3>2. page = [w \in E |-> IF w = v THEN e ELSE s.page[w]]
      BY <3>1
    <3>3. v \in E /\ e \in PageEntry /\ e.frame = s.page[v].frame /\ e.rw
      <4>1. \A y \in PageEntry : /\ [y EXCEPT !.rw = TRUE] \in PageEntry
                                 /\ [y EXCEPT !.rw = TRUE].frame = y.frame
                                 /\ [y EXCEPT !.rw = TRUE].rw
        BY DEF PageEntry
      <4>2. v \in E /\ s.page[v] \in PageEntry
        BY <3>1
      <4> QED
        BY <4>1, <4>2
    <3> HIDE DEF page, e
    <3>4. page \in [E -> PageEntry]
      BY <3>1, <3>2, <3>3
    <3> QED
      BY <3>1, <3>2, <3>3, <3>4 DEF Fcns
  <2> HIDE DEF page
  <2>4. x \in Space /\ x.pd = s.pd /\ x.table = s.table /\ x.page = page /\ x.panic = s.panic
    BY <1>1, <2>3 DEF Space
  <2> HIDE DEF x
  <2>5. {x.page[w].frame : w \in DOMAIN x.page} = {s.page[w].frame : w \in DOMAIN s.page}
    BY <2>3, <2>4
  <2>6. Frames(x) = Frames(s)
    BY <2>4, <2>5 DEF Frames
  <2>7. OneWay(s) => OneWay(x)
    BY <2>3, <2>4 DEF OneWay
  <2>8. Writable(x) = Writable(s) \cup {v}
    BY <2>3, <2>4 DEF Writable
  <2>9. r \in Loads /\ r.free = m.free /\ r.space = x
    BY <1>1, <2>2, <2>4 DEF Loads
  <2> HIDE DEF r, s
  <2>10. r \in Building(F0, F, D \cup {v}, W \cup {v})
    BY <2>3, <2>4, <2>6, <2>7, <2>8, <2>9 DEF Building, s
  <2> QED
    BY <1>3, <2>10 DEF r
<1> QED
  BY <1>2, <1>3

\* The pages of a loop are mapped, in whatever state it finds them.
LEMMA PagesMappedBuilds ==
    ASSUME NEW F0, NEW F, NEW D, NEW W, NEW m \in Building(F0, F, D, W),
           NEW from \in Int, NEW n \in Nat, NEW rw \in BOOLEAN, NEW walk \in BOOLEAN,
           walk \/ \A v \in D : v \notin from..(from + n - 1)
    PROVE  PagesMapped(m, from, n, rw, walk)
               \in Building(F0, F, D \cup (from..(from + n - 1)),
                            IF rw THEN W \cup (from..(from + n - 1)) ELSE W)
<1> DEFINE P(k) == from..(from + k - 1)
           A(k) == Building(F0, F, D \cup P(k), IF rw THEN W \cup P(k) ELSE W)
           Round(k, x) == IF walk /\ (from + k - 1) \in DOMAIN x.space.page
                          THEN Upgrade(x, from + k - 1, rw) ELSE MapNew(x, from + k - 1, rw)
           G(h) == [k \in 0..n |-> IF k = 0 THEN m ELSE Round(k, h[k - 1])]
           after == CHOOSE h : h = G(h)
<1>1. PagesMapped(m, from, n, rw, walk) = after[n]
  BY DEF PagesMapped
<1>2. m \in A(0)
  <2>1. P(0) = {}
    OBVIOUS
  <2>2. D \cup P(0) = D /\ W \cup P(0) = W
    BY <2>1
  <2> HIDE DEF P
  <2> QED
    BY <2>2
<1>3. \A k \in 1..n : \A x \in A(k - 1) : Round(k, x) \in A(k)
  <2> SUFFICES ASSUME NEW k \in 1..n, NEW x \in A(k - 1) PROVE Round(k, x) \in A(k)
    OBVIOUS
  <2> DEFINE v == from + k - 1
             E == D \cup P(k - 1)
             X == IF rw THEN W \cup P(k - 1) ELSE W
  <2>1. v \in Int /\ P(k) = P(k - 1) \cup {v} /\ v \notin P(k - 1) /\ (~walk => v \notin D)
    OBVIOUS
  <2> HIDE DEF v, P
  <2>2. D \cup P(k) = E \cup {v} /\ (IF rw THEN W \cup P(k) ELSE W) = (IF rw THEN X \cup {v} ELSE X)
    BY <2>1
  <2>3. x \in Building(F0, F, E, X)
    OBVIOUS
  <2> HIDE DEF E, X
  <2> SUFFICES Round(k, x) \in Building(F0, F, E \cup {v}, IF rw THEN X \cup {v} ELSE X)
    BY <2>2
  <2>4. CASE walk /\ v \in DOMAIN x.space.page
    <3>1. Upgrade(x, v, rw) \in Building(F0, F, E \cup {v}, IF rw THEN X \cup {v} ELSE X)
      BY <2>3, <2>4, UpgradeBuilds
    <3> QED
      BY <2>4, <3>1 DEF v
  <2>5. CASE ~(walk /\ v \in DOMAIN x.space.page)
    <3>1. MapNew(x, v, rw) \in Building(F0, F, E \cup {v}, IF rw THEN X \cup {v} ELSE X)
      <4>1. CASE x.space.panic
        BY <2>1, <2>3, <4>1, PanicStays
      <4>2. CASE ~x.space.panic
        <5>1. v \notin E
          BY <2>1, <2>3, <2>5, <4>2 DEF Building, E
        <5> QED
          BY <2>1, <2>3, <5>1, MapNewBuilds
      <4> QED
        BY <4>1, <4>2
    <3> QED
      BY <2>5, <3>1 DEF v
  <2> QED
    BY <2>4, <2>5
<1> HIDE DEF A, Round
<1>4. \E h : h = G(h)
  <2> DEFINE B == [k \in 0..n |-> A(k)]
             step == [k \in 1..n |-> [x \in A(k - 1) |-> Round(k, x)]]
  <2>1. m \in B[0]
    BY <1>2
  <2>2. \A k \in 1..n : B[k - 1] = A(k - 1) /\ B[k] = A(k)
    OBVIOUS
  <2>3. \A k \in 1..n : \A x \in B[k - 1] : step[k][x] \in B[k]
    BY <1>3, <2>2
  <2> HIDE DEF B, step
  <2>0. PICK g : IsHistory(g, n, m, step) /\ \A k \in 0..n : g[k] \in B[k]
    BY <2>1, <2>3, Iteration, Zenon
  <2>4. g = [k \in 0..n |-> IF k = 0 THEN m ELSE step[k][g[k - 1]]]
    BY <2>0 DEF IsHistory
  <2>5. \A k \in 1..n : step[k][g[k - 1]] = Round(k, g[k - 1])
    <3> SUFFICES ASSUME NEW k \in 1..n PROVE step[k][g[k - 1]] = Round(k, g[k - 1])
      OBVIOUS
    <3>1. k - 1 \in 0..n
      OBVIOUS
    <3>2. g[k - 1] \in A(k - 1)
      BY <2>2, <2>0, <3>1
    <3> QED
      BY <3>2 DEF step
  <2>6. g = G(g)
    BY <2>4, <2>5
  <2> QED
    BY <2>6
<1>5. after = G(after)
  BY <1>4
<1> HIDE DEF after
<1>6. after[0] = m /\ \A k \in 1..n : after[k] = Round(k, after[k - 1])
  BY <1>5
<1> DEFINE S == {k \in Nat : k <= n => after[k] \in A(k)}
<1>7. 0 \in S
  BY <1>2, <1>6
<1>8. \A k \in Nat : k \in S => k + 1 \in S
  <2> SUFFICES ASSUME NEW k \in Nat, k + 1 <= n, after[k] \in A(k) PROVE after[k + 1] \in A(k + 1)
    OBVIOUS
  <2>1. k + 1 \in 1..n /\ (k + 1) - 1 = k
    OBVIOUS
  <2> QED
    BY <1>3, <1>6, <2>1
<1>9. n \in S
  BY <1>7, <1>8, NatSetInduction
<1> QED
  BY <1>1, <1>9 DEF A
---------------------------------------------------------------------------
(* Pages and addresses.                                                     *)

\* The start of a page is on that page; later addresses are on later pages.
LEMMA DivFacts ==
    /\ \A a \in Int : a \div PageSize \in Int
    /\ \A k \in Int : (PageSize * k) \div PageSize = k
    /\ \A a, b \in Int : a <= b => a \div PageSize <= b \div PageSize
    /\ \A a \in Int : a % PageSize = 0 => a = PageSize * (a \div PageSize)
<1>1. \A a \in Int : a \div PageSize \in Int
  BY PageAssumption
<1>2. \A k \in Int : (PageSize * k) \div PageSize = k
  BY PageAssumption
<1>3. \A a, b \in Int : a <= b => a \div PageSize <= b \div PageSize
  BY PageAssumption
<1>4. \A a \in Int : a % PageSize = 0 => a = PageSize * (a \div PageSize)
  BY PageAssumption
<1> QED
  BY <1>1, <1>2, <1>3, <1>4

\* Rounding up to a page.
LEMMA PageUpFacts ==
    /\ \A a \in Int : PageUp(a) \in Int /\ PageOf(a) <= PageUp(a) /\ PageUp(a) <= PageOf(a) + 1
    /\ \A k \in Int : PageUp(PageSize * k) = k
    /\ \A a, b \in Int : a <= b => PageUp(a) <= PageUp(b)
    /\ \A a \in Nat : PageUp(a) \in Nat
<1>1. \A a \in Int : PageUp(a) \in Int /\ PageOf(a) <= PageUp(a) /\ PageUp(a) <= PageOf(a) + 1
  BY PageAssumption DEF PageUp, PageOf
<1>2. \A k \in Int : PageUp(PageSize * k) = k
  BY PageAssumption DEF PageUp
<1>3. \A a, b \in Int : a <= b => PageUp(a) <= PageUp(b)
  BY PageAssumption, DivFacts DEF PageUp
<1>4. \A a \in Nat : PageUp(a) \in Nat
  BY PageAssumption DEF PageUp
<1> QED
  BY <1>1, <1>2, <1>3, <1>4

\* The heaps that SYS_SBRK leaves.
GoodHeap(h) ==
    /\ h.prog \in Programs /\ h.start = HeapStart(h.prog)
    /\ h.break \in Int /\ h.start <= h.break /\ h.break <= USER_HEAP_MAX

\* The page below the stack.
Guard == PageOf(USER_HEAP_MAX)

ProgPages(prog) == Pages(prog.code) \cup Pages(prog.data) \cup Pages(prog.bss)

\* The stack lies behind the page below it.
LEMMA StackPages ==
    /\ USER_HEAP_MAX \in Nat /\ Guard \in Int /\ USER_HEAP_MAX = PageSize * Guard
    /\ PageUp(USER_HEAP_MAX) = Guard
    /\ Stack.at \in Nat /\ Stack.size \in Nat
    /\ \A v \in Pages(Stack) : v \in Int /\ v > Guard
<1> DEFINE top == USER_STACK_TOP
           size == USER_STACK_SIZE
<1>1. /\ top \in Nat /\ top % PageSize = 0 /\ size \in Nat /\ size % PageSize = 0
      /\ PageSize \in Nat \ {0} /\ size + PageSize < top
  BY LayoutAssumption, PageAssumption
<1>2. PICK t \in Int, k \in Int : top = PageSize * t /\ size = PageSize * k
  <2>1. top = PageSize * (top \div PageSize) /\ size = PageSize * (size \div PageSize)
    BY <1>1, DivFacts
  <2>2. top \div PageSize \in Int /\ size \div PageSize \in Int
    BY <1>1, DivFacts
  <2> HIDE DEF top, size
  <2> QED
    BY <2>1, <2>2, Zenon
<1>3. USER_HEAP_MAX = PageSize * (t - k - 1) /\ Stack.at = PageSize * (t - k)
  BY <1>1, <1>2 DEF USER_HEAP_MAX, Stack
<1>4. Guard = t - k - 1 /\ PageOf(Stack.at) = t - k /\ PageUp(USER_HEAP_MAX) = t - k - 1
  BY <1>3, DivFacts, PageUpFacts DEF Guard, PageOf
<1>5. USER_HEAP_MAX \in Nat /\ Stack.at \in Nat /\ Stack.size \in Nat
  BY <1>1 DEF USER_HEAP_MAX, Stack
<1>6. \A v \in Pages(Stack) : v \in Int /\ v > Guard
  BY <1>4, <1>5, PageUpFacts DEF Pages
<1> QED
  BY <1>2, <1>3, <1>4, <1>5, <1>6

\* The program lies below its heap, the heap below the stack.
LEMMA HeapLayout ==
    ASSUME NEW h, GoodHeap(h)
    PROVE  /\ PageOf(h.start) \in Int /\ PageUp(h.break) \in Int
           /\ h.start = PageSize * PageOf(h.start)
           /\ PageOf(h.start) <= PageUp(h.break) /\ PageUp(h.break) <= Guard
           /\ \A v \in ProgPages(h.prog) : v \in Int /\ v < PageOf(h.start)
<1> DEFINE prog == h.prog
           last == prog.bss.at + prog.bss.size
           k == PageUp(last)
<1>1. /\ prog.code.at \in Nat /\ prog.code.size \in Nat /\ prog.data.at \in Nat
      /\ prog.data.size \in Nat /\ prog.bss.at \in Nat /\ prog.bss.size \in Nat
      /\ prog.code.at + prog.code.size <= last /\ prog.data.at + prog.data.size <= last
      /\ last <= USER_HEAP_MAX
  BY ProgramAssumption DEF GoodHeap
<1>2. last \in Nat /\ k \in Int
  BY <1>1, PageUpFacts
<1>3. h.start = PageSize * k /\ PageOf(h.start) = k
  BY <1>2, DivFacts DEF GoodHeap, HeapStart, PageOf
<1>4. k <= PageUp(h.break) /\ PageUp(h.break) <= Guard /\ PageUp(h.break) \in Int
  <2>1. h.start \in Int /\ h.break \in Int /\ h.start <= h.break /\ h.break <= USER_HEAP_MAX
    BY <1>2, <1>3, PageAssumption DEF GoodHeap
  <2>2. PageUp(h.start) = k
    BY <1>2, <1>3, PageUpFacts
  <2> QED
    BY <2>1, <2>2, StackPages, PageUpFacts
<1>5. \A seg \in {prog.code, prog.data, prog.bss} : \A v \in Pages(seg) : v \in Int /\ v < k
  <2> SUFFICES ASSUME NEW seg \in {prog.code, prog.data, prog.bss}, NEW v \in Pages(seg)
               PROVE  v \in Int /\ v < k
    OBVIOUS
  <2>1. seg.at \in Nat /\ seg.size \in Nat /\ seg.at + seg.size <= last
    BY <1>1
  <2>2. seg.at \in Int /\ seg.at + seg.size \in Int /\ last \in Int
    BY <1>1, <2>1
  <2>3. PageOf(seg.at) \in Int
    BY <2>2, DivFacts DEF PageOf
  <2>4. PageUp(seg.at + seg.size) \in Int /\ PageUp(seg.at + seg.size) <= k
    <3> DEFINE y == seg.at + seg.size
    <3>1. y \in Int /\ last \in Int /\ y <= last
      BY <2>1, <2>2
    <3> HIDE DEF y, last
    <3>2. PageUp(y) \in Int /\ PageUp(y) <= PageUp(last)
      BY <3>1, PageUpFacts
    <3> QED
      BY <1>2, <3>2 DEF y
  <2> QED
    BY <1>2, <2>3, <2>4 DEF Pages
<1> QED
  BY <1>2, <1>3, <1>4, <1>5 DEF ProgPages
---------------------------------------------------------------------------
(* What the operations on an address space leave.                           *)

\* A segment is mapped in full.
LEMMA SegmentBuilds ==
    ASSUME NEW F0, NEW F, NEW D, NEW W, NEW m \in Building(F0, F, D, W),
           NEW seg, seg.at \in Nat, seg.size \in Nat, NEW rw \in BOOLEAN
    PROVE  map_and_copy(m, seg, rw)
               \in Building(F0, F, D \cup Pages(seg), IF rw THEN W \cup Pages(seg) ELSE W)
<1> DEFINE from == PageOf(seg.at)
           to == PageUp(seg.at + seg.size)
<1>1. CASE seg.size = 0
  <2>1. Pages(seg) = {} /\ map_and_copy(m, seg, rw) = m
    BY <1>1 DEF Pages, map_and_copy
  <2>2. D \cup {} = D /\ W \cup {} = W
    OBVIOUS
  <2> QED
    BY <2>1, <2>2
<1>2. CASE seg.size # 0
  <2>1. from \in Int /\ to \in Int /\ from <= to
    <3> DEFINE a == seg.at
               b == seg.at + seg.size
    <3>1. a \in Int /\ b \in Int /\ a <= b
      OBVIOUS
    <3> HIDE DEF a, b
    <3>2. PageOf(a) \in Int
      BY <3>1, DivFacts DEF PageOf
    <3>3. PageOf(a) <= PageUp(a) /\ PageUp(a) \in Int /\ PageUp(b) \in Int /\ PageUp(a) <= PageUp(b)
      BY <3>1, PageUpFacts
    <3>4. PageOf(a) <= PageUp(b)
      BY <3>2, <3>3
    <3> QED
      BY <3>2, <3>3, <3>4 DEF a, b
  <2>2. /\ Pages(seg) = from..(to - 1)
        /\ map_and_copy(m, seg, rw) = PagesMapped(m, from, to - from, rw, TRUE)
    BY <1>2 DEF Pages, map_and_copy
  <2> HIDE DEF from, to
  <2>3. to - from \in Nat /\ from + (to - from) - 1 = to - 1
    BY <2>1
  <2>4. PagesMapped(m, from, to - from, rw, TRUE)
            \in Building(F0, F, D \cup (from..(from + (to - from) - 1)),
                         IF rw THEN W \cup (from..(from + (to - from) - 1)) ELSE W)
    BY <2>1, <2>3, PagesMappedBuilds
  <2> QED
    BY <2>2, <2>3, <2>4
<1> QED
  BY <1>1, <1>2

\* A new address space holds the program's pages and the stack's, on frames that
\* were free.
LEMMA LoadBuilds ==
    ASSUME NEW F \in SUBSET Nat, NEW prog \in Programs
    PROVE  exec_load(F, prog) \in Building(F, F, MayRead(Loaded(prog)), MayWrite(Loaded(prog)))
<1> DEFINE h == Loaded(prog)
           pd == pmm_alloc_frame(F)
           m0 == State(F \ {pd}, [NoSpace EXCEPT !.pd = pd])
           m1 == map_and_copy(m0, prog.code, FALSE)
           m2 == map_and_copy(m1, prog.data, TRUE)
           m3 == map_and_copy(m2, prog.bss, TRUE)
           C == Pages(prog.code)
           A == Pages(prog.data)
           B == Pages(prog.bss)
           S == Pages(Stack)
<1>0. <<>> \in Fcns(Nat) /\ <<>> \in Fcns(PageEntry) /\ DOMAIN <<>> = {}
  <2>1. <<>> \in [{} -> Nat] /\ <<>> \in [{} -> PageEntry]
    OBVIOUS
  <2> QED
    BY <2>1 DEF Fcns
<1>1. CASE F = {}
  <2> DEFINE x == [NoSpace EXCEPT !.panic = TRUE]
  <2>1. exec_load(F, prog) = State(F, x)
    BY <1>1 DEF exec_load
  <2>2. NoSpace \in Space
    BY <1>0 DEF NoSpace, Space, NULL
  <2>3. x \in Space /\ x.panic
    BY <2>2, SpacePanics
  <2> HIDE DEF x
  <2>4. exec_load(F, prog) \in Loads /\ exec_load(F, prog).space.panic
    <3>1. State(F, x) \in Loads /\ State(F, x).space = x
      BY <2>3, StateFacts
    <3> QED
      BY <2>1, <2>3, <3>1
  <2> QED
    BY <2>4 DEF Building
<1>2. CASE F # {}
  <2>1. pd \in F /\ pd \in Nat /\ \A g \in F \ {pd} : pd < g
    BY <1>2, TakeFirst, Zenon
  <2> HIDE DEF pd
  <2>2. m0 \in Building(F, F, {}, {})
    <3> DEFINE s == [NoSpace EXCEPT !.pd = pd]
    <3>2. /\ s \in Space /\ s.pd = pd /\ ~s.panic
          /\ DOMAIN s.table = {} /\ DOMAIN s.page = {}
      <4>1. s.pd = pd /\ s.table = <<>> /\ s.page = <<>> /\ s.panic = FALSE
        BY DEF NoSpace
      <4>2. NoSpace \in Space
        BY <1>0 DEF NoSpace, Space, NULL
      <4>3. s \in Space
        BY <2>1, <4>2 DEF Space
      <4> QED
        BY <1>0, <4>1, <4>3
    <3> HIDE DEF s
    <3>3. Frames(s) = {pd} /\ Writable(s) = {} /\ OneWay(s)
      BY <2>1, <3>2 DEF Frames, Writable, OneWay, NULL
    <3>4. m0 \in Loads /\ m0.free = F \ {pd} /\ m0.space = s
      <4>1. F \ {pd} \in SUBSET Nat
        OBVIOUS
      <4> QED
        BY <3>2, <4>1, StateFacts, Zenon DEF s
    <3> HIDE DEF m0
    <3> QED
      BY <2>1, <3>2, <3>3, <3>4 DEF Building
  <2> HIDE DEF m0
  <2>3. /\ prog.code.at \in Nat /\ prog.code.size \in Nat /\ prog.data.at \in Nat
        /\ prog.data.size \in Nat /\ prog.bss.at \in Nat /\ prog.bss.size \in Nat
        /\ Stack.at \in Nat /\ Stack.size \in Nat
    BY ProgramAssumption, StackPages
  <2>4. m1 \in Building(F, F, {} \cup C, {})
    BY <2>2, <2>3, SegmentBuilds
  <2> HIDE DEF m1
  <2>5. m2 \in Building(F, F, {} \cup C \cup A, {} \cup A)
    BY <2>3, <2>4, SegmentBuilds
  <2> HIDE DEF m2
  <2>6. m3 \in Building(F, F, {} \cup C \cup A \cup B, {} \cup A \cup B)
    BY <2>3, <2>5, SegmentBuilds
  <2> HIDE DEF m3
  <2>7. map_and_copy(m3, Stack, TRUE)
            \in Building(F, F, {} \cup C \cup A \cup B \cup S, {} \cup A \cup B \cup S)
    BY <2>3, <2>6, SegmentBuilds
  <2>8. exec_load(F, prog) = map_and_copy(m3, Stack, TRUE)
    BY <1>2 DEF exec_load, m0, m1, m2, m3, pd
  <2>9. h.prog = prog /\ HeapPages(h) = {}
    <3>1. prog.bss.at + prog.bss.size \in Nat
      BY <2>3
    <3>2. PageUp(prog.bss.at + prog.bss.size) \in Int
      BY <3>1, PageUpFacts
    <3>3. /\ PageUp(HeapStart(prog)) = PageUp(prog.bss.at + prog.bss.size)
          /\ PageOf(HeapStart(prog)) = PageUp(prog.bss.at + prog.bss.size)
      BY <3>2, PageUpFacts, DivFacts DEF HeapStart, PageOf
    <3> QED
      BY <3>2, <3>3 DEF Loaded, HeapPages
  <2>10. /\ MayWrite(h) = {} \cup A \cup B \cup S
         /\ MayRead(h) = {} \cup C \cup A \cup B \cup S
    <3> HIDE DEF h
    <3> QED
      BY <2>9 DEF MayRead, MayWrite
  <2> QED
    BY <2>7, <2>8, <2>10
<1> QED
  BY <1>1, <1>2

Heaps == [prog : Programs \cup {NULL}, start : Int, break : Int]

\* The address space of a process is what its program and its break ask for.
Exact(s, h) ==
    /\ ~s.panic /\ OneWay(s) /\ s.pd \in Nat /\ GoodHeap(h)
    /\ DOMAIN s.page = MayRead(h)
    /\ Writable(s) = MayWrite(h)

\* What an operation makes of the free frames and of an address space that led to
\* the frames K: none is lost, none is used twice, and those taken are the first.
Outcome(F, K, h, m) ==
    /\ m \in Loads
    /\ ~m.space.panic =>
          /\ Exact(m.space, h)
          /\ m.free \cap Frames(m.space) = {}
          /\ m.free \cup Frames(m.space) = F \cup K
          /\ \A f \in F \ m.free, g \in m.free : f < g

\* A break that is higher or lower, and the pages of the heap below it.
LEMMA BreakMoves ==
    ASSUME NEW h \in Heaps, GoodHeap(h), NEW new \in Int, InHeap(h, new),
           NEW n, n = [h EXCEPT !.break = new]
    PROVE  /\ n \in Heaps /\ n.prog = h.prog /\ n.start = h.start /\ n.break = new /\ GoodHeap(n)
           /\ MayWrite(h) = Pages(h.prog.data) \cup Pages(h.prog.bss) \cup Pages(Stack)
                                \cup (PageOf(h.start)..(PageUp(h.break) - 1))
           /\ MayWrite(n) = Pages(h.prog.data) \cup Pages(h.prog.bss) \cup Pages(Stack)
                                \cup (PageOf(h.start)..(PageUp(new) - 1))
           /\ MayRead(h) = ProgPages(h.prog) \cup Pages(Stack)
                                \cup (PageOf(h.start)..(PageUp(h.break) - 1))
           /\ MayRead(n) = ProgPages(h.prog) \cup Pages(Stack)
                                \cup (PageOf(h.start)..(PageUp(new) - 1))
<1>1. n \in Heaps /\ n.prog = h.prog /\ n.start = h.start /\ n.break = new
  BY DEF Heaps
<1>2. GoodHeap(n)
  BY <1>1 DEF GoodHeap, InHeap
<1> QED
  BY <1>1, <1>2 DEF MayRead, MayWrite, HeapPages, ProgPages

\* SYS_SBRK, a higher break: the pages between the two are new.
LEMMA GrownBuilds ==
    ASSUME NEW F \in SUBSET Nat, NEW s \in Space, NEW h \in Heaps, Exact(s, h),
           F \cap Frames(s) = {}, NEW new \in Int, InHeap(h, new),
           PageUp(new) > PageUp(h.break)
    PROVE  Outcome(F, Frames(s), [h EXCEPT !.break = new],
                   Grown(State(F, s), PageUp(h.break), PageUp(new)))
<1> DEFINE n == [h EXCEPT !.break = new]
           a == PageUp(h.break)
           b == PageUp(new)
           k == PageOf(h.start)
           m0 == State(F, s)
           m == Grown(m0, a, b)
<1>1. GoodHeap(h) /\ DOMAIN s.page = MayRead(h) /\ Writable(s) = MayWrite(h)
  BY DEF Exact
<1>2. /\ GoodHeap(n)
      /\ MayWrite(h) = Pages(h.prog.data) \cup Pages(h.prog.bss) \cup Pages(Stack) \cup (k..(a - 1))
      /\ MayWrite(n) = Pages(h.prog.data) \cup Pages(h.prog.bss) \cup Pages(Stack) \cup (k..(b - 1))
      /\ MayRead(h) = ProgPages(h.prog) \cup Pages(Stack) \cup (k..(a - 1))
      /\ MayRead(n) = ProgPages(h.prog) \cup Pages(Stack) \cup (k..(b - 1))
      /\ n.break = new /\ n.start = h.start
  BY <1>1, BreakMoves
<1> HIDE DEF n
<1>3. /\ k \in Int /\ a \in Int /\ b \in Int /\ k <= a /\ a < b /\ b <= Guard
      /\ \A v \in ProgPages(h.prog) : v \in Int /\ v < k
      /\ \A v \in Pages(Stack) : v \in Int /\ v > Guard
      /\ Guard \in Int
  BY <1>1, <1>2, HeapLayout, StackPages
<1> HIDE DEF a, b, k
<1>4. m0 \in Building(F, F \cup Frames(s), MayRead(h), MayWrite(h))
  <2>1. m0 \in Loads /\ m0.free = F /\ m0.space = s
    BY StateFacts
  <2> HIDE DEF m0
  <2> QED
    BY <1>1, <2>1 DEF Building, Exact
<1> HIDE DEF m0
<1>5. b - a \in Nat /\ a + (b - a) - 1 = b - 1
  BY <1>3
<1>6. \A v \in MayRead(h) : v \notin a..(a + (b - a) - 1)
  BY <1>2, <1>3
<1>7. PagesMapped(m0, a, b - a, TRUE, FALSE)
          \in Building(F, F \cup Frames(s), MayRead(h) \cup (a..(a + (b - a) - 1)),
                       MayWrite(h) \cup (a..(a + (b - a) - 1)))
  BY <1>3, <1>4, <1>5, <1>6, PagesMappedBuilds
<1>8. (k..(a - 1)) \cup (a..(b - 1)) = k..(b - 1)
  BY <1>3
<1>9. MayRead(h) \cup (a..(b - 1)) = MayRead(n) /\ MayWrite(h) \cup (a..(b - 1)) = MayWrite(n)
  <2> HIDE DEF MayRead, MayWrite
  <2> QED
    BY <1>2, <1>8
<1>10. m \in Building(F, F \cup Frames(s), MayRead(n), MayWrite(n))
  BY <1>5, <1>7, <1>9 DEF Grown
<1> HIDE DEF m
<1>11. Outcome(F, Frames(s), n, m)
  BY <1>2, <1>10 DEF Building, Outcome, Exact
<1> QED
  BY <1>11 DEF m, m0, n, a, b

\* SYS_SBRK, a break that is not on a higher page: the pages between are given back.
LEMMA ShrunkBuilds ==
    ASSUME NEW F \in SUBSET Nat, NEW s \in Space, NEW h \in Heaps, Exact(s, h),
           F \cap Frames(s) = {}, NEW new \in Int, InHeap(h, new),
           ~(PageUp(new) > PageUp(h.break))
    PROVE  Outcome(F, Frames(s), [h EXCEPT !.break = new],
                   Shrunk(State(F, s), PageUp(new), PageUp(h.break)))
<1> DEFINE n == [h EXCEPT !.break = new]
           a == PageUp(h.break)
           b == PageUp(new)
           k == PageOf(h.start)
           m == Shrunk(State(F, s), b, a)
           cut == DOMAIN s.page \cap (b..(a - 1))
           page == [v \in DOMAIN s.page \ cut |-> s.page[v]]
           given == {s.page[v].frame : v \in cut}
           x == [s EXCEPT !.page = page]
<1>1. GoodHeap(h) /\ DOMAIN s.page = MayRead(h) /\ Writable(s) = MayWrite(h)
  BY DEF Exact
<1>2. /\ GoodHeap(n)
      /\ MayWrite(h) = Pages(h.prog.data) \cup Pages(h.prog.bss) \cup Pages(Stack) \cup (k..(a - 1))
      /\ MayWrite(n) = Pages(h.prog.data) \cup Pages(h.prog.bss) \cup Pages(Stack) \cup (k..(b - 1))
      /\ MayRead(h) = ProgPages(h.prog) \cup Pages(Stack) \cup (k..(a - 1))
      /\ MayRead(n) = ProgPages(h.prog) \cup Pages(Stack) \cup (k..(b - 1))
      /\ n.break = new /\ n.start = h.start
  BY <1>1, BreakMoves
<1> HIDE DEF n
<1>3. /\ k \in Int /\ a \in Int /\ b \in Int /\ k <= b /\ b <= a /\ a <= Guard
      /\ \A v \in ProgPages(h.prog) : v \in Int /\ v < k
      /\ \A v \in Pages(Stack) : v \in Int /\ v > Guard
      /\ Guard \in Int
  BY <1>1, <1>2, HeapLayout, StackPages
<1>4. m = State(F \cup given, x)
  BY DEF Shrunk, State
<1>5. /\ s.page \in Fcns(PageEntry) /\ s.table \in Fcns(Nat)
      /\ \A v \in DOMAIN s.page : v \in Int /\ s.page[v] \in PageEntry /\ s.page[v].frame \in Nat
  <2>1. s.page \in Fcns(PageEntry) /\ s.table \in Fcns(Nat)
    BY DEF Space
  <2>2. DOMAIN s.page \subseteq Int /\ \A v \in DOMAIN s.page : s.page[v] \in PageEntry
    BY <2>1, FcnsFacts, Zenon
  <2> QED
    BY <2>1, <2>2 DEF PageEntry
<1>6. /\ page \in Fcns(PageEntry) /\ DOMAIN page = DOMAIN s.page \ cut
      /\ \A v \in DOMAIN page : page[v] = s.page[v]
  <2>1. page \in [DOMAIN s.page \ cut -> PageEntry]
    BY <1>5
  <2> QED
    BY <1>5, <2>1 DEF Fcns
<1> HIDE DEF page
<1>7. x \in Space /\ x.pd = s.pd /\ x.table = s.table /\ x.page = page /\ x.panic = s.panic
  BY <1>6 DEF Space
<1> HIDE DEF x
<1>8. given \in SUBSET Nat /\ F \cup given \in SUBSET Nat
  BY <1>5
<1>9. m \in Loads /\ m.free = F \cup given /\ m.space = x
  BY <1>4, <1>7, <1>8, StateFacts
<1> HIDE DEF m
<1>10. OneWay(x)
  BY <1>6, <1>7 DEF OneWay, Exact
<1>11. Frames(x) \cup given = Frames(s)
  <2>1. {x.page[v].frame : v \in DOMAIN x.page} \cup given = {s.page[v].frame : v \in DOMAIN s.page}
    BY <1>6, <1>7
  <2> QED
    BY <1>7, <2>1 DEF Frames
<1>12. Frames(x) \cap given = {}
  <2>1. \A v \in cut : \A w \in DOMAIN x.page : s.page[v].frame # x.page[w].frame
    BY <1>6, <1>7 DEF OneWay, Exact
  <2>2. \A v \in cut : s.page[v].frame # s.pd /\ \A t \in DOMAIN s.table : s.page[v].frame # s.table[t]
    BY DEF OneWay, Exact
  <2> QED
    BY <1>7, <2>1, <2>2 DEF Frames
<1>13. DOMAIN x.page = MayRead(n)
  <2>1. DOMAIN x.page = MayRead(h) \ (b..(a - 1))
    BY <1>1, <1>6, <1>7
  <2> HIDE DEF a, b, k
  <2> QED
    BY <1>2, <1>3, <2>1
<1>14. Writable(x) = MayWrite(n)
  <2>1. Writable(x) = MayWrite(h) \ (b..(a - 1))
    BY <1>1, <1>6, <1>7 DEF Writable
  <2>2. \A v \in Pages(h.prog.data) \cup Pages(h.prog.bss) : v \in Int /\ v < k
    BY <1>3 DEF ProgPages
  <2> HIDE DEF a, b, k
  <2> QED
    BY <1>2, <1>3, <2>1, <2>2
<1>15. Outcome(F, Frames(s), n, m)
  <2>1. m.free \cap Frames(m.space) = {} /\ m.free \cup Frames(m.space) = F \cup Frames(s)
    BY <1>9, <1>11, <1>12
  <2>2. F \ m.free = {}
    BY <1>9
  <2>3. Exact(m.space, n)
    BY <1>2, <1>7, <1>9, <1>10, <1>13, <1>14 DEF Exact
  <2> QED
    BY <1>9, <2>1, <2>2, <2>3 DEF Outcome
<1> QED
  BY <1>15 DEF m, n, a, b
---------------------------------------------------------------------------
(* The invariant.                                                           *)

\* No frame is in two of the pools: free, lost, an address space of one process.
Apart ==
    /\ free \cap leaked = {}
    /\ \A p \in Procs : free \cap Frames(space[p]) = {} /\ leaked \cap Frames(space[p]) = {}
    /\ \A p, q \in Procs : p # q => Frames(space[p]) \cap Frames(space[q]) = {}

\* None is in none of them.
Complete ==
    \A f : f \in pool <=> f \in free \/ f \in leaked \/ \E p \in Procs : f \in Frames(space[p])

MemTypes ==
    /\ free \in SUBSET Nat /\ leaked \in SUBSET Nat
    /\ space \in [Procs -> Space] /\ heap \in [Procs -> Heaps]
    /\ proc \in [Procs -> {"none", "live", "dead"}]

MemInv ==
    /\ MemTypes /\ Apart /\ Complete
    /\ \A p \in Procs : IF Used(p) THEN Exact(space[p], heap[p]) ELSE space[p] = NoSpace

\* An address space that does not exist leads to no frame.
LEMMA NoSpaceFacts == NoSpace \in Space /\ Frames(NoSpace) = {} /\ NoHeap \in Heaps
<1>1. <<>> \in Fcns(Nat) /\ <<>> \in Fcns(PageEntry)
  <2>1. <<>> \in [{} -> Nat] /\ <<>> \in [{} -> PageEntry]
    OBVIOUS
  <2> QED
    BY <2>1 DEF Fcns
<1>2. NoSpace \in Space
  BY <1>1 DEF NoSpace, Space, NULL
<1>3. NoSpace.pd = NULL /\ DOMAIN NoSpace.table = {} /\ DOMAIN NoSpace.page = {}
  BY DEF NoSpace
<1>4. Frames(NoSpace) = {}
  BY <1>3 DEF Frames
<1>5. NoHeap \in Heaps
  BY DEF NoHeap, Heaps
<1> QED
  BY <1>2, <1>4, <1>5

\* Frames are numbers.
LEMMA FramesAreNats ==
    ASSUME NEW s \in Space, s.pd \in Nat
    PROVE  Frames(s) \in SUBSET Nat
<1>1. s.table \in Fcns(Nat) /\ s.page \in Fcns(PageEntry)
  BY DEF Space
<1>2. \A t \in DOMAIN s.table : s.table[t] \in Nat
  BY <1>1, FcnsFacts, Zenon
<1>3. \A v \in DOMAIN s.page : s.page[v] \in PageEntry
  BY <1>1, FcnsFacts, Zenon
<1>4. \A e \in PageEntry : e.frame \in Nat
  BY DEF PageEntry
<1> QED
  BY <1>2, <1>3, <1>4 DEF Frames

\* Frames that move between the free ones, the lost ones and one address space
\* leave all frames accounted for.
LEMMA Exchange ==
    ASSUME Apart, Complete, space \in [Procs -> Space],
           NEW p \in Procs, NEW s \in Space, space' = [space EXCEPT ![p] = s], pool' = pool,
           free' \cap leaked' = {}, free' \cap Frames(s) = {}, leaked' \cap Frames(s) = {},
           free' \cup leaked' \cup Frames(s) = free \cup leaked \cup Frames(space[p])
    PROVE  Apart' /\ Complete'
<1>1. space'[p] = s /\ \A q \in Procs : q # p => space'[q] = space[q]
  OBVIOUS
<1>2. \A q \in Procs : q # p => (free \cup leaked \cup Frames(space[p])) \cap Frames(space[q]) = {}
  BY DEF Apart
<1>3. \A q \in Procs : q # p => (free' \cup leaked' \cup Frames(s)) \cap Frames(space[q]) = {}
  BY <1>2
<1>4. Apart'
  <2>1. \A q, r \in Procs : q # r => Frames(space'[q]) \cap Frames(space'[r]) = {}
    BY <1>1, <1>3 DEF Apart
  <2>2. \A q \in Procs : free' \cap Frames(space'[q]) = {} /\ leaked' \cap Frames(space'[q]) = {}
    BY <1>1, <1>3
  <2> QED
    BY <2>1, <2>2 DEF Apart
<1>5. Complete'
  <2> SUFFICES ASSUME NEW f
               PROVE  f \in pool' <=> f \in free' \/ f \in leaked' \/ \E q \in Procs : f \in Frames(space'[q])
    BY DEF Complete
  <2>1. f \in pool <=> f \in free \/ f \in leaked \/ \E q \in Procs : f \in Frames(space[q])
    BY DEF Complete
  <2>2. f \in free \/ f \in leaked \/ f \in Frames(space[p])
            <=> f \in free' \/ f \in leaked' \/ f \in Frames(s)
    OBVIOUS
  <2>3. (\E q \in Procs : f \in Frames(space[q]))
            <=> f \in Frames(space[p]) \/ \E q \in Procs \ {p} : f \in Frames(space[q])
    OBVIOUS
  <2>4. (\E q \in Procs : f \in Frames(space'[q]))
            <=> f \in Frames(s) \/ \E q \in Procs \ {p} : f \in Frames(space[q])
    BY <1>1
  <2> QED
    BY <2>1, <2>2, <2>3, <2>4
<1> QED
  BY <1>4, <1>5

\* An action of one process leaves the address spaces of the others.
LEMMA OthersStay ==
    ASSUME MemInv, NEW p \in Procs,
           NEW s \in Space, space' = [space EXCEPT ![p] = s],
           NEW h \in Heaps, heap' = [heap EXCEPT ![p] = h],
           NEW c \in {"none", "live", "dead"}, proc' = [proc EXCEPT ![p] = c],
           free' \in SUBSET Nat, leaked' \in SUBSET Nat,
           Apart', Complete',
           IF c = "none" THEN s = NoSpace ELSE Exact(s, h)
    PROVE  MemInv'
<1>1. MemTypes'
  BY DEF MemInv, MemTypes
<1>2. /\ space'[p] = s /\ heap'[p] = h /\ proc'[p] = c
      /\ \A q \in Procs : q # p => space'[q] = space[q] /\ heap'[q] = heap[q] /\ proc'[q] = proc[q]
  BY DEF MemInv, MemTypes
<1>3. ASSUME NEW q \in Procs
      PROVE  (IF Used(q) THEN Exact(space[q], heap[q]) ELSE space[q] = NoSpace)'
  BY <1>2 DEF MemInv, Used
<1> QED
  BY <1>1, <1>3 DEF MemInv

\* The frames that a step takes are the first of the free ones.
Ordered == \A f \in free \ free', g \in free' : f < g

\* A step that leaves the frames, the processes and their memory alone.
LEMMA NothingMoves ==
    ASSUME MemInv, UNCHANGED <<free, space, heap, proc, pool, leaked>>
    PROVE  MemInv' /\ Ordered
BY DEF MemInv, MemTypes, Apart, Complete, Used, Ordered

\* process_create.
LEMMA StartKeeps ==
    ASSUME MemInv, NEW p \in Procs, NEW prog \in Programs, Start(p, prog)
    PROVE  MemInv' /\ Ordered
<1> DEFINE m == exec_load(free, prog)
           h == Loaded(prog)
<1>1. CASE Panic
  BY <1>1, NothingMoves DEF Panic
<1>2. CASE /\ ~m.space.panic /\ free' = m.free
           /\ \/ /\ space' = [space EXCEPT ![p] = m.space]
                 /\ heap' = [heap EXCEPT ![p] = Loaded(prog)]
                 /\ proc' = [proc EXCEPT ![p] = "live"]
                 /\ UNCHANGED leaked
              \/ leaked' = leaked \cup Frames(m.space) /\ UNCHANGED <<space, heap, proc>>
           /\ UNCHANGED <<halted, pool>>
  <2>1. /\ free \in SUBSET Nat /\ leaked \in SUBSET Nat /\ space \in [Procs -> Space]
        /\ heap \in [Procs -> Heaps] /\ Apart /\ Complete
    BY DEF MemInv, MemTypes
  <2>2. space[p] = NoSpace /\ Frames(space[p]) = {}
    BY NoSpaceFacts DEF Start, MemInv, Used
  <2>3. m \in Building(free, free, MayRead(h), MayWrite(h))
    BY <2>1, LoadBuilds
  <2>4. GoodHeap(h) /\ h \in Heaps
    <3> DEFINE last == prog.bss.at + prog.bss.size
    <3>1. last \in Nat /\ last <= USER_HEAP_MAX
      BY ProgramAssumption
    <3>2. PageUp(last) \in Int /\ PageUp(last) <= Guard /\ Guard \in Int
      BY <3>1, PageUpFacts, StackPages
    <3>3. HeapStart(prog) \in Int /\ HeapStart(prog) <= USER_HEAP_MAX
      BY <3>1, <3>2, StackPages, PageAssumption DEF HeapStart
    <3>4. h.prog = prog /\ h.start = HeapStart(prog) /\ h.break = HeapStart(prog)
      BY DEF Loaded
    <3> QED
      BY <3>3, <3>4 DEF GoodHeap, Heaps, Loaded
  <2> HIDE DEF m, h
  <2>5. /\ m.space \in Space /\ m.free \in SUBSET Nat /\ OneWay(m.space) /\ m.space.pd \in Nat
        /\ m.free \cap Frames(m.space) = {} /\ m.free \cup Frames(m.space) = free
        /\ DOMAIN m.space.page = MayRead(h) /\ Writable(m.space) = MayWrite(h)
        /\ \A f \in free \ m.free, g \in m.free : f < g
    BY <1>2, <2>3 DEF Building, Loads
  <2>6. Ordered
    BY <1>2, <2>5 DEF Ordered
  <2>7. CASE /\ space' = [space EXCEPT ![p] = m.space]
             /\ heap' = [heap EXCEPT ![p] = Loaded(prog)]
             /\ proc' = [proc EXCEPT ![p] = "live"]
             /\ UNCHANGED leaked
    <3>1. Exact(m.space, h)
      BY <1>2, <2>4, <2>5 DEF Exact
    <3>2. leaked \cap free = {}
      BY <2>1 DEF Apart
    <3>3. Apart' /\ Complete'
      <4>1. /\ free' \cap leaked' = {} /\ free' \cap Frames(m.space) = {}
            /\ leaked' \cap Frames(m.space) = {}
            /\ free' \cup leaked' \cup Frames(m.space) = free \cup leaked \cup Frames(space[p])
        BY <1>2, <2>2, <2>5, <2>7, <3>2
      <4> QED
        BY <1>2, <2>1, <2>5, <2>7, <4>1, Exchange
    <3>4. MemInv'
      BY <1>2, <2>1, <2>4, <2>5, <2>7, <3>1, <3>3, OthersStay DEF h
    <3> QED
      BY <2>6, <3>4
  <2>8. CASE leaked' = leaked \cup Frames(m.space) /\ UNCHANGED <<space, heap, proc>>
    <3>1. space' = [space EXCEPT ![p] = NoSpace]
      BY <2>1, <2>2, <2>8
    <3>2. leaked \cap free = {} /\ leaked' \in SUBSET Nat
      BY <2>1, <2>5, <2>8 DEF Apart
    <3>3. Apart' /\ Complete'
      <4>1. /\ free' \cap leaked' = {} /\ free' \cap Frames(NoSpace) = {} /\ leaked' \cap Frames(NoSpace) = {}
            /\ free' \cup leaked' \cup Frames(NoSpace) = free \cup leaked \cup Frames(space[p])
        BY <1>2, <2>2, <2>5, <2>8, <3>2, NoSpaceFacts
      <4> QED
        BY <1>2, <2>1, <3>1, <4>1, NoSpaceFacts, Exchange
    <3>4. MemInv'
      BY <1>2, <2>5, <2>8, <3>2, <3>3 DEF MemInv, MemTypes, Used
    <3> QED
      BY <2>6, <3>4
  <2> QED
    BY <1>2, <2>7, <2>8
<1> QED
  BY <1>1, <1>2 DEF Start

\* SYS_SBRK, whatever a program asks for.
LEMMA SbrkKeeps ==
    ASSUME MemInv, NEW p \in Procs, NEW delta \in Int, Sbrk(p, delta)
    PROVE  MemInv' /\ Ordered
<1> DEFINE new == NewBreak(p, delta)
           m == Moved(p, heap[p].break, new)
           h == [heap[p] EXCEPT !.break = new]
<1>1. CASE Panic
  BY <1>1, NothingMoves DEF Panic
<1>2. CASE /\ ~m.space.panic /\ free' = m.free /\ space' = [space EXCEPT ![p] = m.space]
           /\ heap' = [heap EXCEPT ![p].break = new]
           /\ UNCHANGED <<proc, halted, pool, leaked>>
  <2>1. /\ free \in SUBSET Nat /\ leaked \in SUBSET Nat /\ space \in [Procs -> Space]
        /\ heap \in [Procs -> Heaps] /\ proc \in [Procs -> {"none", "live", "dead"}] /\ Apart /\ Complete
    BY DEF MemInv, MemTypes
  <2>2. /\ proc[p] = "live" /\ Exact(space[p], heap[p]) /\ space[p] \in Space /\ heap[p] \in Heaps
        /\ free \cap Frames(space[p]) = {} /\ leaked \cap Frames(space[p]) = {} /\ free \cap leaked = {}
    BY <2>1 DEF Sbrk, MemInv, Used, Apart
  <2>3. new \in Int /\ InHeap(heap[p], new)
    <3>1. heap[p].break + delta \in Int
      BY <2>2 DEF Heaps
    <3>2. new \in Int
      BY <3>1, PageAssumption DEF NewBreak
    <3> QED
      BY <3>2 DEF Sbrk
  <2> HIDE DEF new
  <2>4. Outcome(free, Frames(space[p]), h, m)
    <3>1. CASE PageUp(new) > PageUp(heap[p].break)
      <4>1. m = Grown(State(free, space[p]), PageUp(heap[p].break), PageUp(new))
        BY <3>1 DEF Moved
      <4> QED
        BY <2>1, <2>2, <2>3, <3>1, <4>1, GrownBuilds
    <3>2. CASE ~(PageUp(new) > PageUp(heap[p].break))
      <4>1. m = Shrunk(State(free, space[p]), PageUp(new), PageUp(heap[p].break))
        BY <3>2 DEF Moved
      <4> QED
        BY <2>1, <2>2, <2>3, <3>2, <4>1, ShrunkBuilds
    <3> QED
      BY <3>1, <3>2
  <2>5. h \in Heaps /\ heap' = [heap EXCEPT ![p] = h]
    <3>1. h \in Heaps
      BY <2>2, <2>3 DEF Heaps
    <3> QED
      BY <1>2, <2>1, <3>1
  <2> HIDE DEF m, h
  <2>6. /\ m.space \in Space /\ m.free \in SUBSET Nat /\ Exact(m.space, h)
        /\ m.free \cap Frames(m.space) = {}
        /\ m.free \cup Frames(m.space) = free \cup Frames(space[p])
        /\ \A f \in free \ m.free, g \in m.free : f < g
    BY <1>2, <2>4 DEF Outcome, Loads
  <2>7. Ordered
    BY <1>2, <2>6 DEF Ordered
  <2>8. Apart' /\ Complete'
    <3>1. /\ free' \cap leaked' = {} /\ free' \cap Frames(m.space) = {} /\ leaked' \cap Frames(m.space) = {}
          /\ free' \cup leaked' \cup Frames(m.space) = free \cup leaked \cup Frames(space[p])
      BY <1>2, <2>2, <2>6
    <3> QED
      BY <1>2, <2>1, <2>6, <3>1, Exchange
  <2>9. proc' = [proc EXCEPT ![p] = "live"]
    BY <1>2, <2>1, <2>2
  <2>10. MemInv'
    BY <1>2, <2>1, <2>5, <2>6, <2>8, <2>9, OthersStay
  <2> QED
    BY <2>7, <2>10
<1> QED
  BY <1>1, <1>2 DEF Sbrk, Rebreak

\* A process that dies keeps its memory until it is cleaned up.
LEMMA DieKeeps ==
    ASSUME MemInv, NEW p \in Procs, Die(p)
    PROVE  MemInv' /\ Ordered
<1>1. MemTypes' /\ Apart' /\ Complete' /\ Ordered
  BY DEF Die, MemInv, MemTypes, Apart, Complete, Ordered
<1>2. \A q \in Procs : Used(q)' = Used(q)
  BY DEF Die, Used, MemInv, MemTypes
<1> QED
  BY <1>1, <1>2 DEF MemInv, Die

\* process_cleanup gives every frame of the address space back.
LEMMA CleanUpKeeps ==
    ASSUME MemInv, NEW p \in Procs, CleanUp(p)
    PROVE  MemInv' /\ Ordered
<1>1. /\ free \in SUBSET Nat /\ leaked \in SUBSET Nat /\ space \in [Procs -> Space]
      /\ Apart /\ Complete /\ space[p] \in Space /\ Exact(space[p], heap[p])
  BY DEF MemInv, MemTypes, CleanUp, Used
<1>2. Frames(space[p]) \in SUBSET Nat
  BY <1>1, FramesAreNats DEF Exact
<1>3. free' = free \cup Frames(space[p]) /\ free' \in SUBSET Nat /\ Ordered
  BY <1>1, <1>2 DEF CleanUp, paging_destroy_address_space, Ordered
<1>4. Apart' /\ Complete'
  <2>1. /\ free' \cap leaked' = {} /\ free' \cap Frames(NoSpace) = {} /\ leaked' \cap Frames(NoSpace) = {}
        /\ free' \cup leaked' \cup Frames(NoSpace) = free \cup leaked \cup Frames(space[p])
    BY <1>1, <1>3, NoSpaceFacts DEF Apart, CleanUp
  <2> QED
    BY <1>1, <2>1, NoSpaceFacts, Exchange DEF CleanUp
<1>5. MemInv'
  BY <1>1, <1>3, <1>4, NoSpaceFacts, OthersStay DEF CleanUp
<1> QED
  BY <1>3, <1>5

\* SYS_WAIT loses every frame of the address space.
LEMMA ReapKeeps ==
    ASSUME MemInv, NEW p \in Procs, Reap(p)
    PROVE  MemInv' /\ Ordered
<1>1. /\ free \in SUBSET Nat /\ leaked \in SUBSET Nat /\ space \in [Procs -> Space]
      /\ Apart /\ Complete /\ space[p] \in Space /\ Exact(space[p], heap[p])
  BY DEF MemInv, MemTypes, Reap, Used
<1>2. Frames(space[p]) \in SUBSET Nat
  BY <1>1, FramesAreNats DEF Exact
<1>3. leaked' = leaked \cup Frames(space[p]) /\ leaked' \in SUBSET Nat /\ Ordered
  BY <1>1, <1>2 DEF Reap, Ordered
<1>4. Apart' /\ Complete'
  <2>1. /\ free' \cap leaked' = {} /\ free' \cap Frames(NoSpace) = {} /\ leaked' \cap Frames(NoSpace) = {}
        /\ free' \cup leaked' \cup Frames(NoSpace) = free \cup leaked \cup Frames(space[p])
    BY <1>1, <1>3, NoSpaceFacts DEF Apart, Reap
  <2> QED
    BY <1>1, <2>1, NoSpaceFacts, Exchange DEF Reap
<1>5. free' \in SUBSET Nat
  BY <1>1 DEF Reap
<1>6. MemInv'
  BY <1>1, <1>3, <1>4, <1>5, NoSpaceFacts, OthersStay DEF Reap
<1> QED
  BY <1>3, <1>6

\* After boot all frames that are free are accounted for.
LEMMA InitKeeps == ASSUME Init PROVE MemInv
<1>1. free \in SUBSET Nat
  <2>1. Usable \cup Phantom \subseteq Nat
    BY FrameAssumption DEF Usable
  <2>2. \A B \in Boot : B \subseteq Usable \cup Phantom
    BY DEF Boot
  <2> QED
    BY <2>1, <2>2 DEF Init
<1>2. MemTypes
  BY <1>1, NoSpaceFacts DEF Init, MemTypes
<1>3. \A p \in Procs : space[p] = NoSpace /\ ~Used(p)
  BY DEF Init, Used
<1>4. Apart /\ Complete
  BY <1>3, NoSpaceFacts DEF Init, Apart, Complete
<1> QED
  BY <1>2, <1>3, <1>4 DEF MemInv

\* What a process does to memory: whoever calls sbrk, and for however much.
Step == \E p \in Procs :
    \/ \E prog \in Programs : Start(p, prog)
    \/ \E delta \in Int : Sbrk(p, delta)
    \/ Die(p) \/ CleanUp(p) \/ Reap(p)

\* Every step keeps the invariant and takes the first of the free frames.
LEMMA StepKeeps ==
    ASSUME MemInv, Step \/ UNCHANGED vars
    PROVE  MemInv' /\ Ordered
<1>1. CASE Step
  BY <1>1, StartKeeps, SbrkKeeps, DieKeeps, CleanUpKeeps, ReapKeeps DEF Step
<1>2. CASE UNCHANGED vars
  BY <1>2, NothingMoves DEF vars
<1> QED
  BY <1>1, <1>2

\* Programs that call sbrk themselves take no other steps.
LEMMA NextIsStep == ASSUME [Next]_vars PROVE Step \/ UNCHANGED vars
BY DeltaAssumption DEF Next, Step

\* malloc asks for the words that its heap lacks.
LEMMA UserNextIsStep == ASSUME [UserNext]_userVars PROVE Step \/ UNCHANGED vars
<1>1. CASE UNCHANGED userVars
  BY <1>1 DEF userVars
<1>2. ASSUME NEW p \in Procs, NEW n \in Requests, malloc(p, n) PROVE Step \/ UNCHANGED vars
  <2>1. Growth(n) \in Int
    BY UserHeapAssumption DEF Growth
  <2> QED
    BY <1>2, <2>1 DEF malloc, Step
<1>3. ASSUME NEW p \in Procs, NEW ptr \in DOMAIN held[p], Free(p, ptr) PROVE Step \/ UNCHANGED vars
  BY <1>3 DEF Free
<1> QED
  BY <1>1, <1>2, <1>3, DeltaAssumption DEF UserNext, Step
---------------------------------------------------------------------------
(* What follows.                                                            *)

\* The pools of frames are the property's.
LEMMA InvAccounts == ASSUME MemInv PROVE FramesAccounted
<1> DEFINE inUse == UNION {Frames(space[p]) : p \in Procs}
<1>1. \A p \in Procs : Used(p) => OneWay(space[p])
  BY DEF MemInv, Exact
<1>2. free \cap inUse = {} /\ free \cap leaked = {} /\ leaked \cap inUse = {}
  BY DEF MemInv, Apart
<1>3. free \cup inUse \cup leaked = pool
  BY DEF MemInv, Complete
<1> QED
  BY <1>1, <1>2, <1>3 DEF MemInv, Apart, FramesAccounted

\* The pages are the program's, the heap's and the stack's.
LEMMA InvIsExact == ASSUME MemInv PROVE SpaceIsExact
<1> SUFFICES ASSUME NEW p \in Procs, Used(p)
             PROVE  /\ DOMAIN space[p].page = MayRead(heap[p])
                    /\ Writable(space[p]) = MayWrite(heap[p])
                    /\ Guard \notin DOMAIN space[p].page
  BY DEF SpaceIsExact, Writable, Guard
<1> DEFINE s == space[p]
           h == heap[p]
<1>1. Exact(s, h)
  BY DEF MemInv
<1>2. GoodHeap(h) /\ DOMAIN s.page = MayRead(h) /\ Writable(s) = MayWrite(h)
  BY <1>1 DEF Exact
<1> HIDE DEF s, h
<1>3. \A v \in MayRead(h) : v # Guard
  <2>1. MayRead(h) = ProgPages(h.prog) \cup HeapPages(h) \cup Pages(Stack)
    BY DEF MayRead, MayWrite, ProgPages
  <2>2. /\ PageOf(h.start) \in Int /\ PageUp(h.break) \in Int /\ Guard \in Int
        /\ PageOf(h.start) <= PageUp(h.break) /\ PageUp(h.break) <= Guard
        /\ \A v \in ProgPages(h.prog) : v \in Int /\ v < PageOf(h.start)
        /\ \A v \in Pages(Stack) : v \in Int /\ v > Guard
    BY <1>2, HeapLayout, StackPages
  <2>3. \A v \in HeapPages(h) : v # Guard
    BY <2>2 DEF HeapPages
  <2> QED
    BY <2>1, <2>2, <2>3
<1> QED
  BY <1>2, <1>3 DEF s, h

\* The image lies behind the frames below 640 KB, what does not exist behind all.
LEMMA OrderedIsLastResort ==
    ASSUME MemInv, Ordered
    PROVE  \A f \in free \ free' :
               /\ f \in Image => free' \cap Conventional = {}
               /\ f \in Phantom => free' \cap Usable = {}
<1>1. Conventional \subseteq Nat /\ Image \subseteq Nat /\ Extended \subseteq Nat /\ Phantom \subseteq Nat
  BY FrameAssumption
<1>2. \A f \in free \ free' : f \in Image => free' \cap Conventional = {}
  <2> SUFFICES ASSUME NEW f \in free \ free', f \in Image, NEW c \in free', c \in Conventional
               PROVE  FALSE
    OBVIOUS
  <2>1. c < f /\ f < c
    BY FrameAssumption DEF Ordered
  <2> QED
    BY <1>1, <2>1
<1>3. \A f \in free \ free' : f \in Phantom => free' \cap Usable = {}
  <2> SUFFICES ASSUME NEW f \in free \ free', f \in Phantom, NEW c \in free', c \in Usable
               PROVE  FALSE
    OBVIOUS
  <2>1. c < f /\ f < c /\ c \in Nat
    BY <1>1, FrameAssumption DEF Ordered, Usable
  <2> QED
    BY <1>1, <2>1
<1> QED
  BY <1>2, <1>3

\* No page that a process may use is at the end of the address space.
LEMMA TopPages ==
    ASSUME NEW h, GoodHeap(h)
    PROVE  \A v \in MayRead(h) : v \in Int /\ v < PageOf(USER_STACK_TOP)
<1>1. /\ PageOf(h.start) \in Int /\ PageUp(h.break) \in Int /\ Guard \in Int
      /\ PageOf(h.start) <= PageUp(h.break) /\ PageUp(h.break) <= Guard
      /\ \A v \in ProgPages(h.prog) : v \in Int /\ v < PageOf(h.start)
      /\ \A v \in Pages(Stack) : v \in Int /\ v > Guard
  BY HeapLayout, StackPages
<1>2. USER_STACK_TOP \in Nat /\ USER_STACK_SIZE \in Nat /\ USER_STACK_TOP % PageSize = 0
  BY LayoutAssumption
<1>3. PageUp(Stack.at + Stack.size) = PageOf(USER_STACK_TOP) /\ PageOf(USER_STACK_TOP) \in Int
  <2>1. Stack.at + Stack.size = USER_STACK_TOP
    BY <1>2 DEF Stack
  <2>2. USER_STACK_TOP = PageSize * PageOf(USER_STACK_TOP) /\ PageOf(USER_STACK_TOP) \in Int
    BY <1>2, DivFacts DEF PageOf
  <2> QED
    BY <2>1, <2>2, PageUpFacts
<1>4. \A v \in Pages(Stack) : v < PageOf(USER_STACK_TOP)
  BY <1>1, <1>3 DEF Pages
<1>5. Guard <= PageOf(USER_STACK_TOP)
  <2>1. USER_HEAP_MAX <= USER_STACK_TOP /\ USER_HEAP_MAX \in Int
    BY <1>2, PageAssumption, StackPages DEF USER_HEAP_MAX
  <2> QED
    BY <1>2, <2>1, DivFacts DEF Guard, PageOf
<1>6. MayRead(h) = ProgPages(h.prog) \cup HeapPages(h) \cup Pages(Stack)
  BY DEF MayRead, MayWrite, ProgPages
<1> QED
  BY <1>1, <1>3, <1>4, <1>5, <1>6 DEF HeapPages

\* Looking at each page once is looking at each byte, wrapped or not.
LEMMA PagesAreBytes ==
    ASSUME NEW at \in 0..(Word - 1), NEW size \in 0..(Word - 1), size # 0,
           NEW S, \A v \in S : v \in Int /\ v < PageOf(USER_STACK_TOP)
    PROVE  (/\ (at + size) % Word >= at
            /\ \A v \in PageOf(at)..PageOf((at + size - 1) % Word) : v \in S)
           <=> \A b \in {(at + i) % Word : i \in 0..(size - 1)} : PageOf(b) \in S
<1> SUFFICES (/\ (at + size) % Word >= at
              /\ \A v \in PageOf(at)..PageOf((at + size - 1) % Word) : v \in S)
             <=> \A i \in 0..(size - 1) : PageOf((at + i) % Word) \in S
  OBVIOUS
<1>1. /\ Word \in Nat \ {0} /\ PageSize \in Nat \ {0} /\ USER_STACK_TOP \in Nat
      /\ USER_STACK_TOP <= Word - 1
  BY PageAssumption, LayoutAssumption
<1>2. CASE at + size < Word
  <2>1. (at + size) % Word = at + size /\ (at + size - 1) % Word = at + size - 1
    BY <1>1, <1>2
  <2>2. \A i \in 0..(size - 1) : (at + i) % Word = at + i
    BY <1>1, <1>2
  <2>0. /\ (at + size) % Word >= at
        /\ PageOf((at + size - 1) % Word) = PageOf(at + size - 1)
        /\ \A i \in 0..(size - 1) : PageOf((at + i) % Word) = PageOf(at + i)
    BY <2>1, <2>2
  <2> SUFFICES (\A v \in PageOf(at)..PageOf(at + size - 1) : v \in S)
                   <=> \A i \in 0..(size - 1) : PageOf(at + i) \in S
    BY <2>0
  <2>3. ASSUME NEW i \in 0..(size - 1) PROVE PageOf(at + i) \in PageOf(at)..PageOf(at + size - 1)
    BY DivFacts DEF PageOf
  <2>4. ASSUME NEW v \in PageOf(at)..PageOf(at + size - 1)
        PROVE  \E i \in 0..(size - 1) : PageOf(at + i) = v
    <3>1. CASE v = PageOf(at)
      BY <3>1
    <3>2. CASE v # PageOf(at)
      <4>1. PageOf(at) \in Int /\ v \in Int /\ PageOf(at) + 1 <= v /\ v <= PageOf(at + size - 1)
        BY <3>2, DivFacts DEF PageOf
      <4>2. at < PageSize * PageOf(at) + PageSize
        BY <1>1 DEF PageOf
      <4>3. PageSize * PageOf(at) + PageSize <= PageSize * v
        BY <1>1, <4>1
      <4>4. PageSize * v <= PageSize * PageOf(at + size - 1) /\ PageOf(at + size - 1) \in Int
        BY <1>1, <4>1, DivFacts DEF PageOf
      <4>5. PageSize * PageOf(at + size - 1) <= at + size - 1
        BY <1>1 DEF PageOf
      <4> DEFINE b == PageSize * v
      <4>6. b \in Int /\ at <= b /\ b <= at + size - 1 /\ PageOf(b) = v
        BY <1>1, <4>1, <4>2, <4>3, <4>4, <4>5, DivFacts DEF PageOf
      <4> HIDE DEF b
      <4>7. b - at \in 0..(size - 1) /\ at + (b - at) = b
        BY <4>6
      <4> QED
        BY <4>6, <4>7
    <3> QED
      BY <3>1, <3>2
  <2> QED
    BY <2>3, <2>4
<1>3. CASE at + size >= Word
  <2>1. (at + size) % Word = at + size - Word /\ at + size - Word < at
    BY <1>1, <1>3
  <2>2. (Word - 1 - at) \in 0..(size - 1) /\ (at + (Word - 1 - at)) % Word = Word - 1
    BY <1>1, <1>3
  <2>3. PageOf(Word - 1) \notin S
    BY <1>1, DivFacts DEF PageOf
  <2> DEFINE i == Word - 1 - at
  <2>4. i \in 0..(size - 1) /\ PageOf((at + i) % Word) \notin S
    BY <2>2, <2>3
  <2>5. ~((at + size) % Word >= at)
    BY <1>1, <2>1
  <2> HIDE DEF i
  <2> QED
    BY <2>4, <2>5
<1> QED
  BY <1>1, <1>2, <1>3

\* A byte of a string is on the page of the last byte that was validated.
LEMMA LastValidated ==
    ASSUME NEW at \in 0..(Word - 1), NEW i \in 0..(Word - 1)
    PROVE  \E k \in 0..i : /\ k = 0 \/ (at + k) % PageSize = 0
                           /\ PageOf((at + k) % Word) = PageOf((at + i) % Word)
<1>1. Word \in Nat \ {0} /\ PageSize \in Nat \ {0} /\ Word % PageSize = 0
  BY PageAssumption, LayoutAssumption
<1>2. PICK w \in Int : Word = PageSize * w
  BY <1>1, DivFacts
<1> DEFINE b == PageSize * PageOf(at + i)
<1>3. PageOf(at + i) \in Int /\ b \in Int /\ b <= at + i /\ at + i < b + PageSize
  BY <1>1 DEF PageOf
<1>4. ASSUME NEW x \in Int, b <= x, x <= at + i, 0 <= x
      PROVE  PageOf(x % Word) = PageOf((at + i) % Word)
  <2>1. PageOf(x) = PageOf(at + i)
    <3>1. PageOf(b) = PageOf(at + i)
      BY <1>3, DivFacts DEF PageOf
    <3> HIDE DEF b
    <3> QED
      BY <1>3, <1>4, <3>1, DivFacts DEF PageOf
  <2>2. \A y \in Int : PageOf(y - Word) = PageOf(y) - w
    BY <1>1, <1>2 DEF PageOf
  <2>3. \A y \in 0..(2 * Word - 1) : y % Word = IF y < Word THEN y ELSE y - Word
    BY <1>1
  <2>4. b >= Word \/ b + PageSize <= Word
    <3>1. PageOf(at + i) >= w \/ PageOf(at + i) + 1 <= w
      BY <1>3
    <3>2. \A j, k \in Int : j <= k => PageSize * j <= PageSize * k
      BY <1>1
    <3>3. PageSize * (PageOf(at + i) + 1) = b + PageSize
      BY <1>1, <1>3
    <3> HIDE DEF b
    <3> QED
      BY <1>2, <1>3, <3>1, <3>2, <3>3 DEF b
  <2> HIDE DEF b
  <2>5. (x < Word) <=> (at + i < Word)
    BY <1>1, <1>3, <1>4, <2>4
  <2> QED
    BY <1>1, <1>4, <2>1, <2>2, <2>3, <2>5
<1>5. CASE b >= at
  <2>1. b - at \in 0..i /\ at + (b - at) = b /\ b % PageSize = 0
    <3>1. b % PageSize = 0
      <4>1. \A k \in Int : (PageSize * k) % PageSize = 0
        BY <1>1
      <4> QED
        BY <1>3, <4>1
    <3> HIDE DEF b
    <3> QED
      BY <1>3, <1>5, <3>1
  <2> HIDE DEF b
  <2> QED
    BY <1>3, <1>4, <1>5, <2>1
<1>6. CASE b < at
  <2> HIDE DEF b
  <2> QED
    BY <1>3, <1>4, <1>6
<1> QED
  BY <1>3, <1>5, <1>6

\* The checks of user pointers say what a process may do with its bytes.
LEMMA InvAllows == ASSUME MemInv PROVE AccessIsAllowed
<1> SUFFICES ASSUME NEW p \in Procs, Used(p), NEW r \in Ranges
             PROVE  LET bytes == {(r.at + i) % Word : i \in 0..(r.size - 1)}
                        Allows(S) == \A b \in bytes : PageOf(b) \in S
                    IN  /\ paging_validate_user_range(space[p], r.at, r.size, FALSE)
                               <=> Allows(MayRead(heap[p]))
                        /\ paging_validate_user_range(space[p], r.at, r.size, TRUE)
                               <=> Allows(MayWrite(heap[p]))
                        /\ \A b \in copy_user_str(space[p], r.at, r.size) :
                              PageOf(b) \in MayRead(heap[p])
  BY DEF AccessIsAllowed
<1> DEFINE s == space[p]
           h == heap[p]
           bytes == {(r.at + i) % Word : i \in 0..(r.size - 1)}
<1>1. GoodHeap(h) /\ DOMAIN s.page = MayRead(h) /\ Writable(s) = MayWrite(h)
  BY DEF MemInv, Exact
<1>2. r.at \in 0..(Word - 1) /\ r.size \in 0..(Word - 1) /\ Word \in Nat \ {0}
  BY RangeAssumption, PageAssumption
<1> HIDE DEF s, h
<1>3. \A v \in MayRead(h) : v \in Int /\ v < PageOf(USER_STACK_TOP)
  BY <1>1, TopPages
<1>4. MayWrite(h) \subseteq MayRead(h)
  BY DEF MayRead
<1>5. CASE r.size = 0
  <2>1. bytes = {}
    BY <1>5
  <2>2. 0..(r.size - 1) = {}
    BY <1>5
  <2>3. copy_user_str(s, r.at, r.size) = {}
    BY <2>2 DEF copy_user_str
  <2> QED
    BY <1>5, <2>1, <2>3 DEF paging_validate_user_range, s, h
<1>6. CASE r.size # 0
  <2>1. paging_validate_user_range(s, r.at, r.size, FALSE) <=> \A b \in bytes : PageOf(b) \in MayRead(h)
    <3>1. (/\ (r.at + r.size) % Word >= r.at
           /\ \A v \in PageOf(r.at)..PageOf((r.at + r.size - 1) % Word) : v \in MayRead(h))
          <=> \A b \in bytes : PageOf(b) \in MayRead(h)
      BY <1>2, <1>3, <1>6, PagesAreBytes
    <3> HIDE DEF bytes
    <3> QED
      BY <1>1, <1>6, <3>1 DEF paging_validate_user_range
  <2>2. paging_validate_user_range(s, r.at, r.size, TRUE) <=> \A b \in bytes : PageOf(b) \in MayWrite(h)
    <3>1. (/\ (r.at + r.size) % Word >= r.at
           /\ \A v \in PageOf(r.at)..PageOf((r.at + r.size - 1) % Word) : v \in MayWrite(h))
          <=> \A b \in bytes : PageOf(b) \in MayWrite(h)
      BY <1>2, <1>3, <1>4, <1>6, PagesAreBytes
    <3>2. \A v : v \in DOMAIN s.page /\ s.page[v].rw <=> v \in MayWrite(h)
      BY <1>1 DEF Writable
    <3> HIDE DEF bytes
    <3> QED
      BY <1>6, <3>1, <3>2 DEF paging_validate_user_range
  <2>3. ASSUME NEW i \in 0..(r.size - 1),
               \A k \in 0..i : (k = 0 \/ (r.at + k) % PageSize = 0)
                   => paging_validate_user_range(s, (r.at + k) % Word, 1, FALSE)
        PROVE  PageOf((r.at + i) % Word) \in MayRead(h)
    <3>1. PICK k \in 0..i : /\ k = 0 \/ (r.at + k) % PageSize = 0
                            /\ PageOf((r.at + k) % Word) = PageOf((r.at + i) % Word)
      <4>1. i \in 0..(Word - 1)
        BY <1>2
      <4> QED
        BY <1>2, <4>1, LastValidated
    <3> DEFINE x == (r.at + k) % Word
    <3>2. x \in 0..(Word - 1) /\ (x + 1 - 1) % Word = x /\ PageOf(x) \in Int
      <4>1. x \in 0..(Word - 1)
        BY <1>2
      <4> HIDE DEF x
      <4> QED
        BY <1>2, <4>1, DivFacts DEF PageOf
    <3>3. paging_validate_user_range(s, x, 1, FALSE)
      BY <2>3, <3>1
    <3> HIDE DEF x
    <3>4. PageOf(x) \in DOMAIN s.page
      BY <3>2, <3>3 DEF paging_validate_user_range
    <3> QED
      BY <1>1, <3>1, <3>4 DEF x
  <2>4. \A b \in copy_user_str(s, r.at, r.size) : PageOf(b) \in MayRead(h)
    BY <2>3 DEF copy_user_str
  <2> QED
    BY <2>1, <2>2, <2>4 DEF s, h
<1> QED
  BY <1>5, <1>6

\* However processes start, move their breaks, allocate and die, every frame that
\* was free after boot is free, lost, or in one place of one address space.
THEOREM FramesAreAccounted == UserSpec => []FramesAccounted
<1>1. UserInit => MemInv
  BY InitKeeps DEF UserInit
<1>2. MemInv /\ [UserNext]_userVars => MemInv'
  BY UserNextIsStep, StepKeeps
<1>3. MemInv => FramesAccounted
  BY InvAccounts
<1> QED
  BY <1>1, <1>2, <1>3, PTL DEF UserSpec

\* Whatever sbrk is asked for, an address space holds the pages of its program,
\* its heap and its stack, the right ones writable, and none below the stack.
THEOREM SpacesAreExact == UserSpec => []SpaceIsExact
<1>1. UserInit => MemInv
  BY InitKeeps DEF UserInit
<1>2. MemInv /\ [UserNext]_userVars => MemInv'
  BY UserNextIsStep, StepKeeps
<1>3. MemInv => SpaceIsExact
  BY InvIsExact
<1> QED
  BY <1>1, <1>2, <1>3, PTL DEF UserSpec

\* A buffer that a program passes goes through exactly if the program may use all
\* of it, and of a string only bytes are read that it may read.
THEOREM AccessesAreAllowed == UserSpec => []AccessIsAllowed
<1>1. UserInit => MemInv
  BY InitKeeps DEF UserInit
<1>2. MemInv /\ [UserNext]_userVars => MemInv'
  BY UserNextIsStep, StepKeeps
<1>3. MemInv => AccessIsAllowed
  BY InvAllows
<1> QED
  BY <1>1, <1>2, <1>3, PTL DEF UserSpec

\* The frames of the kernel's image go out only after all of those below 640 KB,
\* and bits without a frame only after all frames.
THEOREM ImageIsLastResort == UserSpec => LastResort
<1>1. UserInit => MemInv
  BY InitKeeps DEF UserInit
<1>2. MemInv /\ [UserNext]_userVars => MemInv'
  BY UserNextIsStep, StepKeeps
<1>3. MemInv /\ [UserNext]_userVars =>
          \A f \in free \ free' :
              /\ f \in Image => free' \cap Conventional = {}
              /\ f \in Phantom => free' \cap Usable = {}
  BY UserNextIsStep, StepKeeps, OrderedIsLastResort
<1> QED
  BY <1>1, <1>2, <1>3, PTL DEF UserSpec, LastResort

\* The same of programs that only call sbrk.
THEOREM SbrkIsSafe == Spec => [](FramesAccounted /\ SpaceIsExact /\ AccessIsAllowed)
<1>1. Init => MemInv
  BY InitKeeps
<1>2. MemInv /\ [Next]_vars => MemInv'
  BY NextIsStep, StepKeeps
<1>3. MemInv => FramesAccounted /\ SpaceIsExact /\ AccessIsAllowed
  BY InvAccounts, InvIsExact, InvAllows
<1> QED
  BY <1>1, <1>2, <1>3, PTL DEF Spec

---------------------------------------------------------------------------
(* The list of malloc's blocks.                                            *)

Block == [at : Int, size : Nat, free : BOOLEAN]

\* Where block k of a list should start.
StartOf(list, start, k) == IF k = 1 THEN start ELSE End(list[k - 1])

\* The blocks follow each other from start to the break.
Tiling(list, start, brk) ==
    /\ list \in Seq(Block)
    /\ \A k \in DOMAIN list : list[k].at = StartOf(list, start, k)
    /\ StartOf(list, start, Len(list) + 1) = brk

FreePair(list, k) == list[k - 1].free /\ list[k].free

NoFreePair(list) == \A k \in 2..Len(list) : ~FreePair(list, k)

\* The blocks in use are still there.
KeepsUsed(list, new) ==
    \A k \in DOMAIN list : ~list[k].free => \E j \in DOMAIN new : new[j] = list[k]

\* Block j is in use, has the address of ptr and n words.
Serves(list, ptr, n) ==
    \E j \in DOMAIN list :
        ~list[j].free /\ list[j].at + BLOCK_HEADER_SIZE = ptr /\ list[j].size >= n

\* A block ends behind its start.
LEMMA BlockFacts ==
    ASSUME NEW b \in Block
    PROVE  /\ b.at \in Int /\ b.size \in Nat /\ b.free \in BOOLEAN
           /\ End(b) \in Int /\ End(b) = b.at + BLOCK_HEADER_SIZE + b.size
           /\ BLOCK_HEADER_SIZE \in Nat \ {0}
BY UserHeapAssumption DEF Block, End

\* The domain and the members of a list.
LEMMA ListFacts ==
    ASSUME NEW list \in Seq(Block)
    PROVE  Len(list) \in Nat /\ DOMAIN list = 1..Len(list) /\ \A k \in 1..Len(list) : list[k] \in Block
OBVIOUS

\* Two lists, one after the other.
LEMMA Joined ==
    ASSUME NEW s \in Seq(Block), NEW t \in Seq(Block), NEW u, u = s \o t
    PROVE  /\ u \in Seq(Block) /\ Len(u) = Len(s) + Len(t)
           /\ \A i \in 1..Len(s) : u[i] = s[i]
           /\ \A i \in 1..Len(t) : u[Len(s) + i] = t[i]
<1>1. Len(s) \in Nat /\ Len(t) \in Nat
  OBVIOUS
<1>2. /\ s \o t \in Seq(Block) /\ Len(s \o t) = Len(s) + Len(t)
      /\ \A i \in 1..(Len(s) + Len(t)) : (s \o t)[i] = IF i <= Len(s) THEN s[i] ELSE t[i - Len(s)]
  BY ConcatProperties
<1>3. \A i \in 1..Len(t) : Len(s) + i \in 1..(Len(s) + Len(t)) /\ ~(Len(s) + i <= Len(s))
                           /\ (Len(s) + i) - Len(s) = i
  BY <1>1
<1> QED
  BY <1>1, <1>2, <1>3

\* Block k of a list gives way to the blocks of mid.
Splice(list, k, mid) == SubSeq(list, 1, k - 1) \o mid \o SubSeq(list, k + 1, Len(list))

IsSplice(new, list, k, mid) ==
    /\ new \in Seq(Block) /\ Len(new) = Len(list) - 1 + Len(mid)
    /\ \A i \in 1..(k - 1) : new[i] = list[i]
    /\ \A i \in 1..Len(mid) : new[k - 1 + i] = mid[i]
    /\ \A i \in 1..(Len(list) - k) : new[k - 1 + Len(mid) + i] = list[k + i]

LEMMA SpliceFacts ==
    ASSUME NEW list \in Seq(Block), NEW k \in 1..Len(list), NEW mid \in Seq(Block)
    PROVE  IsSplice(Splice(list, k, mid), list, k, mid)
<1> DEFINE new == Splice(list, k, mid)
<1> DEFINE x == SubSeq(list, 1, k - 1)
           z == SubSeq(list, k + 1, Len(list))
           u == x \o mid
<1>0. Len(list) \in Nat /\ k \in Nat /\ \A i \in 1..Len(list) : list[i] \in Block
  OBVIOUS
<1>1. x \in Seq(Block) /\ Len(x) = k - 1 /\ \A i \in 1..(k - 1) : x[i] = list[i]
  BY <1>0, SubSeqProperties
<1>2. z \in Seq(Block) /\ Len(z) = Len(list) - k /\ \A i \in 1..(Len(list) - k) : z[i] = list[k + i]
  BY <1>0, SubSeqProperties
<1>3. u = x \o mid /\ new = u \o z
  BY DEF Splice
<1> HIDE DEF x, z, u, new
<1>4. /\ u \in Seq(Block) /\ Len(u) = Len(x) + Len(mid)
      /\ \A i \in 1..Len(x) : u[i] = x[i]
      /\ \A i \in 1..Len(mid) : u[Len(x) + i] = mid[i]
  <2>1. x \in Seq(Block) /\ mid \in Seq(Block)
    BY <1>1
  <2>2. u = x \o mid
    BY <1>3
  <2> QED
    BY <2>1, <2>2, Joined
<1>5. /\ new \in Seq(Block) /\ Len(new) = Len(u) + Len(z)
      /\ \A i \in 1..Len(u) : new[i] = u[i]
      /\ \A i \in 1..Len(z) : new[Len(u) + i] = z[i]
  <2>1. u \in Seq(Block) /\ z \in Seq(Block)
    BY <1>2, <1>4
  <2>2. new = u \o z
    BY <1>3
  <2> QED
    BY <2>1, <2>2, Joined
<1>6. /\ Len(list) \in Nat /\ k \in Nat /\ Len(mid) \in Nat /\ k >= 1 /\ k <= Len(list)
      /\ Len(x) = k - 1 /\ Len(z) = Len(list) - k
      /\ Len(u) = k - 1 + Len(mid) /\ Len(new) = Len(list) - 1 + Len(mid)
  <2>1. Len(x) = k - 1 /\ Len(z) = Len(list) - k
    BY <1>1, <1>2
  <2>2. Len(u) = Len(x) + Len(mid) /\ Len(new) = Len(u) + Len(z)
    BY <1>4, <1>5
  <2>3. Len(mid) \in Nat /\ k >= 1 /\ k <= Len(list)
    BY <1>0
  <2> QED
    BY <1>0, <2>1, <2>2, <2>3
<1>8. ASSUME NEW i \in 1..(k - 1) PROVE new[i] = list[i]
  <2>1. i \in 1..Len(u) /\ i \in 1..Len(x)
    BY <1>6
  <2> QED
    BY <1>1, <1>4, <1>5, <2>1, Zenon
<1>9. ASSUME NEW i \in 1..Len(mid) PROVE new[k - 1 + i] = mid[i]
  <2>1. k - 1 + i \in 1..Len(u) /\ Len(x) + i = k - 1 + i
    BY <1>6
  <2> QED
    BY <1>4, <1>5, <2>1, Zenon
<1>10. ASSUME NEW i \in 1..(Len(list) - k) PROVE new[k - 1 + Len(mid) + i] = list[k + i]
  <2>1. i \in 1..Len(z) /\ Len(u) + i = k - 1 + Len(mid) + i
    BY <1>6
  <2> QED
    BY <1>2, <1>5, <2>1, Zenon
<1> QED
  BY <1>5, <1>6, <1>8, <1>9, <1>10 DEF IsSplice, new
---------------------------------------------------------------------------
(* malloc.                                                                  *)

\* The block that malloc takes is the first that fits.
LEMMA FittingFacts ==
    ASSUME NEW list \in Seq(Block), NEW n \in Nat, Fitting(list, n) # {}
    PROVE  LET k == First(Fitting(list, n))
           IN  k \in 1..Len(list) /\ list[k] \in Block /\ list[k].free /\ list[k].size >= n
<1>1. Fitting(list, n) \in SUBSET Nat
  BY ListFacts DEF Fitting
<1>2. First(Fitting(list, n)) \in Fitting(list, n)
  BY <1>1, FirstIsLeast
<1> QED
  BY <1>2, ListFacts DEF Fitting

\* What it leaves of that block: one block in use, and the rest if there is room
\* for a header.
LEMMA PartsFacts ==
    ASSUME NEW b \in Block, NEW n \in Nat, b.size >= n
    PROVE  \E t \in Block :
               /\ t.at = b.at /\ ~t.free /\ t.size >= n
               /\ \/ Parts(b, n) = <<t>> /\ End(t) = End(b)
                  \/ \E r \in Block : Parts(b, n) = <<t, r>> /\ r.at = End(t) /\ End(r) = End(b)
<1> DEFINE t1 == [b EXCEPT !.free = FALSE]
           t2 == [b EXCEPT !.size = n, !.free = FALSE]
           r == [at |-> End(t2), size |-> b.size - n - BLOCK_HEADER_SIZE, free |-> TRUE]
<1>0. b.at \in Int /\ b.size \in Nat /\ BLOCK_HEADER_SIZE \in Nat \ {0}
  BY BlockFacts
<1>1. CASE b.size >= n + BLOCK_HEADER_SIZE + 1
  <2>1. t2 \in Block /\ t2.at = b.at /\ ~t2.free /\ t2.size = n
    BY DEF Block
  <2>2. End(t2) = b.at + BLOCK_HEADER_SIZE + n
    BY <2>1 DEF End
  <2>3. r \in Block /\ r.at = End(t2) /\ r.size = b.size - n - BLOCK_HEADER_SIZE
    BY <1>0, <1>1, <2>2 DEF Block
  <2>4. End(r) = End(b)
    BY <1>0, <2>2, <2>3 DEF End
  <2>5. Parts(b, n) = <<t2, r>>
    BY <1>1 DEF Parts
  <2> HIDE DEF t2, r
  <2> QED
    BY <2>1, <2>3, <2>4, <2>5
<1>2. CASE ~ (b.size >= n + BLOCK_HEADER_SIZE + 1)
  <2>1. t1 \in Block /\ t1.at = b.at /\ ~t1.free /\ t1.size = b.size
    BY DEF Block
  <2>2. End(t1) = End(b)
    BY <2>1 DEF End
  <2>3. Parts(b, n) = <<t1>>
    BY <1>2 DEF Parts
  <2> HIDE DEF t1
  <2> QED
    BY <2>1, <2>2, <2>3
<1> QED
  BY <1>1, <1>2

\* A block gives way to one, or to two.
IsOne(new, list, k, t) ==
    /\ new \in Seq(Block) /\ Len(new) = Len(list) /\ new[k] = t
    /\ \A i \in 1..Len(list) : i # k => new[i] = list[i]

LEMMA OneFacts ==
    ASSUME NEW list \in Seq(Block), NEW k \in 1..Len(list), NEW t \in Block
    PROVE  IsOne(Splice(list, k, <<t>>), list, k, t)
<1> DEFINE mid == <<t>>
           new == Splice(list, k, mid)
<1>0. Len(list) \in Nat /\ k \in Nat
  BY ListFacts
<1>1. mid \in Seq(Block) /\ Len(mid) = 1 /\ mid[1] = t
  OBVIOUS
<1> HIDE DEF mid
<1>2. /\ new \in Seq(Block) /\ Len(new) = Len(list) - 1 + Len(mid)
      /\ \A i \in 1..(k - 1) : new[i] = list[i]
      /\ \A i \in 1..Len(mid) : new[k - 1 + i] = mid[i]
      /\ \A i \in 1..(Len(list) - k) : new[k - 1 + Len(mid) + i] = list[k + i]
  BY <1>1, SpliceFacts DEF IsSplice
<1> HIDE DEF new
<1>3. new[k] = t
  <2>1. 1 \in 1..Len(mid) /\ k - 1 + 1 = k
    BY <1>0, <1>1
  <2> QED
    BY <1>1, <1>2, <2>1, Zenon
<1>4. ASSUME NEW i \in 1..Len(list), i > k PROVE new[i] = list[i]
  <2>1. i - k \in 1..(Len(list) - k) /\ k - 1 + Len(mid) + (i - k) = i /\ k + (i - k) = i
    BY <1>0, <1>1, <1>4
  <2> QED
    BY <1>2, <2>1, Zenon
<1>5. ASSUME NEW i \in 1..Len(list), i < k PROVE new[i] = list[i]
  <2>1. i \in 1..(k - 1)
    BY <1>0, <1>5
  <2> QED
    BY <1>2, <2>1, Zenon
<1>6. Len(new) = Len(list)
  BY <1>0, <1>1, <1>2
<1>7. \A i \in 1..Len(list) : i > k \/ i < k \/ i = k
  BY <1>0
<1> QED
  BY <1>2, <1>3, <1>4, <1>5, <1>6, <1>7, Zenon DEF IsOne, new, mid

IsTwo(new, list, k, t, r) ==
    /\ new \in Seq(Block) /\ Len(new) = Len(list) + 1 /\ new[k] = t /\ new[k + 1] = r
    /\ \A i \in 1..(k - 1) : new[i] = list[i]
    /\ \A i \in (k + 1)..Len(list) : new[i + 1] = list[i]

LEMMA TwoFacts ==
    ASSUME NEW list \in Seq(Block), NEW k \in 1..Len(list), NEW t \in Block, NEW r \in Block
    PROVE  IsTwo(Splice(list, k, <<t, r>>), list, k, t, r)
<1> DEFINE mid == <<t, r>>
           new == Splice(list, k, mid)
<1>0. Len(list) \in Nat /\ k \in Nat
  BY ListFacts
<1>1. mid \in Seq(Block) /\ Len(mid) = 2 /\ mid[1] = t /\ mid[2] = r
  OBVIOUS
<1> HIDE DEF mid
<1>2. /\ new \in Seq(Block) /\ Len(new) = Len(list) - 1 + Len(mid)
      /\ \A i \in 1..(k - 1) : new[i] = list[i]
      /\ \A i \in 1..Len(mid) : new[k - 1 + i] = mid[i]
      /\ \A i \in 1..(Len(list) - k) : new[k - 1 + Len(mid) + i] = list[k + i]
  BY <1>1, SpliceFacts DEF IsSplice
<1> HIDE DEF new
<1>3. new[k] = t /\ new[k + 1] = r
  <2>1. 1 \in 1..Len(mid) /\ 2 \in 1..Len(mid) /\ k - 1 + 1 = k /\ k - 1 + 2 = k + 1
    BY <1>0, <1>1
  <2> QED
    BY <1>1, <1>2, <2>1, Zenon
<1>4. ASSUME NEW i \in (k + 1)..Len(list) PROVE new[i + 1] = list[i]
  <2>1. i - k \in 1..(Len(list) - k) /\ k - 1 + Len(mid) + (i - k) = i + 1 /\ k + (i - k) = i
    BY <1>0, <1>1
  <2> QED
    BY <1>2, <2>1, Zenon
<1>6. Len(new) = Len(list) + 1
  BY <1>0, <1>1, <1>2
<1> QED
  BY <1>2, <1>3, <1>4, <1>6, Zenon DEF IsTwo, new, mid

\* Blocks that keep their places still cover the heap.
LEMMA SameTiling ==
    ASSUME NEW list, NEW start \in Int, NEW brk \in Int, Tiling(list, start, brk),
           NEW new \in Seq(Block), Len(new) = Len(list),
           \A i \in 1..Len(list) : new[i].at = list[i].at /\ End(new[i]) = End(list[i])
    PROVE  Tiling(new, start, brk)
<1>1. list \in Seq(Block) /\ Len(list) \in Nat /\ DOMAIN list = 1..Len(list) /\ DOMAIN new = 1..Len(list)
  BY DEF Tiling
<1>2. \A k \in 1..(Len(list) + 1) : StartOf(new, start, k) = StartOf(list, start, k)
  <2> SUFFICES ASSUME NEW k \in 1..(Len(list) + 1), k # 1 PROVE End(new[k - 1]) = End(list[k - 1])
    BY DEF StartOf
  <2>1. k - 1 \in 1..Len(list)
    BY <1>1
  <2> QED
    BY <2>1
<1>3. \A k \in 1..Len(list) : list[k].at = StartOf(list, start, k)
  BY <1>1 DEF Tiling
<1>4. \A k \in 1..Len(list) : new[k].at = StartOf(new, start, k)
  BY <1>1, <1>2, <1>3
<1>5. StartOf(new, start, Len(new) + 1) = brk
  BY <1>1, <1>2 DEF Tiling
<1> QED
  BY <1>1, <1>4, <1>5 DEF Tiling

\* malloc's list covers what the list before covered, has the same blocks in use
\* and one more; if no two neighbours behind the first that fits were free, none are.
LEMMA TakenKeeps ==
    ASSUME NEW list, NEW start \in Int, NEW brk \in Int, Tiling(list, start, brk),
           NEW n \in Nat, Fitting(list, n) # {},
           NEW k, k = First(Fitting(list, n)),
           \A i \in 2..Len(list) : i # k => ~FreePair(list, i)
    PROVE  LET new == Taken(list, n)
           IN  /\ Tiling(new, start, brk) /\ NoFreePair(new) /\ KeepsUsed(list, new)
               /\ Serves(new, list[k].at + BLOCK_HEADER_SIZE, n)
<1> DEFINE new == Taken(list, n)
<1>0. list \in Seq(Block) /\ Len(list) \in Nat /\ DOMAIN list = 1..Len(list)
  BY DEF Tiling
<1>1. k \in 1..Len(list) /\ k \in Nat /\ list[k] \in Block /\ list[k].free /\ list[k].size >= n
  BY <1>0, FittingFacts
<1>2. PICK t \in Block :
          /\ t.at = list[k].at /\ ~t.free /\ t.size >= n
          /\ \/ Parts(list[k], n) = <<t>> /\ End(t) = End(list[k])
             \/ \E r \in Block : Parts(list[k], n) = <<t, r>> /\ r.at = End(t) /\ End(r) = End(list[k])
  BY <1>1, PartsFacts
<1>3. new = Splice(list, k, Parts(list[k], n))
  BY DEF Taken, Splice
<1> HIDE DEF new
<1>4. CASE Parts(list[k], n) = <<t>> /\ End(t) = End(list[k])
  <2>1. new = Splice(list, k, <<t>>)
    BY <1>3, <1>4
  <2>2. /\ new \in Seq(Block) /\ Len(new) = Len(list) /\ new[k] = t
        /\ \A i \in 1..Len(list) : i # k => new[i] = list[i]
    BY <1>0, <1>1, <2>1, OneFacts DEF IsOne
  <2>3. DOMAIN new = 1..Len(list)
    BY <2>2
  <2>4. \A i \in 1..Len(list) : new[i].at = list[i].at /\ End(new[i]) = End(list[i])
    BY <1>2, <1>4, <2>2, Zenon
  <2>5. Tiling(new, start, brk)
    BY <2>2, <2>4, SameTiling
  <2>6. NoFreePair(new)
    <3> SUFFICES ASSUME NEW i \in 2..Len(list), FreePair(new, i) PROVE FALSE
      BY <2>2 DEF NoFreePair
    <3>1. i \in 1..Len(list) /\ i - 1 \in 1..Len(list) /\ ~new[k].free
      BY <1>0, <1>2, <2>2
    <3>2. i # k /\ i - 1 # k
      BY <3>1 DEF FreePair
    <3> QED
      BY <2>2, <3>1, <3>2 DEF FreePair
  <2>7. KeepsUsed(list, new)
    BY <1>0, <1>1, <2>2, <2>3 DEF KeepsUsed
  <2>8. Serves(new, list[k].at + BLOCK_HEADER_SIZE, n)
    BY <1>1, <1>2, <2>2, <2>3 DEF Serves
  <2> QED
    BY <2>5, <2>6, <2>7, <2>8 DEF new
<1>5. ASSUME NEW r \in Block, Parts(list[k], n) = <<t, r>>, r.at = End(t), End(r) = End(list[k])
      PROVE  /\ Tiling(new, start, brk) /\ NoFreePair(new) /\ KeepsUsed(list, new)
             /\ Serves(new, list[k].at + BLOCK_HEADER_SIZE, n)
  <2>1. new = Splice(list, k, <<t, r>>)
    BY <1>3, <1>5
  <2>2. /\ new \in Seq(Block) /\ Len(new) = Len(list) + 1 /\ new[k] = t /\ new[k + 1] = r
        /\ \A i \in 1..(k - 1) : new[i] = list[i]
        /\ \A i \in (k + 1)..Len(list) : new[i + 1] = list[i]
    <3>1. IsTwo(new, list, k, t, r)
      BY <1>0, <1>1, <1>5, <2>1, TwoFacts
    <3> QED
      BY <3>1 DEF IsTwo
  <2>3. DOMAIN new = 1..(Len(list) + 1)
    BY <2>2
  <2>4. \A i \in 1..Len(list) : list[i].at = StartOf(list, start, i)
    BY <1>0 DEF Tiling
  <2>5. \A i \in 1..k : StartOf(new, start, i) = StartOf(list, start, i)
    <3> SUFFICES ASSUME NEW i \in 1..k, i # 1 PROVE new[i - 1] = list[i - 1]
      BY DEF StartOf
    <3>1. i - 1 \in 1..(k - 1)
      BY <1>1
    <3> QED
      BY <2>2, <3>1
  <2>6. StartOf(new, start, k + 1) = End(t)
    BY <1>1, <2>2 DEF StartOf
  <2>7. \A i \in (k + 1)..(Len(list) + 1) : StartOf(new, start, i + 1) = StartOf(list, start, i)
    <3> SUFFICES ASSUME NEW i \in (k + 1)..(Len(list) + 1)
                 PROVE  End(new[i]) = End(list[i - 1])
      BY <1>0, <1>1 DEF StartOf
    <3>1. CASE i = k + 1
      BY <1>1, <1>5, <2>2, <3>1
    <3>2. CASE i # k + 1
      <4>1. i - 1 \in (k + 1)..Len(list) /\ (i - 1) + 1 = i
        BY <1>0, <1>1, <3>2
      <4> QED
        BY <2>2, <4>1
    <3> QED
      BY <3>1, <3>2
  <2>8. Tiling(new, start, brk)
    <3>1. StartOf(new, start, Len(new) + 1) = brk
      <4>1. Len(list) + 1 \in (k + 1)..(Len(list) + 1)
        BY <1>0, <1>1
      <4> QED
        BY <2>2, <2>7, <4>1 DEF Tiling
    <3>2. ASSUME NEW i \in 1..(Len(list) + 1) PROVE new[i].at = StartOf(new, start, i)
      <4>1. CASE i < k
        <5>1. i \in 1..(k - 1) /\ i \in 1..k /\ i \in 1..Len(list)
          BY <1>0, <1>1, <4>1
        <5> QED
          BY <2>2, <2>4, <2>5, <5>1
      <4>2. CASE i = k
        <5>1. i \in 1..k /\ i \in 1..Len(list)
          BY <1>1, <4>2
        <5> QED
          BY <1>2, <2>2, <2>4, <2>5, <4>2, <5>1
      <4>3. CASE i = k + 1
        BY <1>5, <2>2, <2>6, <4>3
      <4>4. CASE i > k + 1
        <5>1. i - 1 \in (k + 1)..Len(list) /\ (i - 1) + 1 = i /\ i - 1 \in 1..Len(list)
              /\ i - 1 \in (k + 1)..(Len(list) + 1)
          BY <1>0, <1>1, <4>4
        <5> QED
          BY <2>2, <2>4, <2>7, <5>1
      <4> QED
        BY <1>1, <4>1, <4>2, <4>3, <4>4
    <3> QED
      BY <2>2, <2>3, <3>1, <3>2 DEF Tiling
  <2>9. NoFreePair(new)
    <3> SUFFICES ASSUME NEW i \in 2..(Len(list) + 1), new[i - 1].free, new[i].free PROVE FALSE
      BY <2>2 DEF NoFreePair, FreePair
    <3>0. ~new[k].free
      BY <1>2, <2>2
    <3>1. CASE i < k
      <4>1. i \in 1..(k - 1) /\ i - 1 \in 1..(k - 1) /\ i \in 2..Len(list) /\ i # k
        BY <1>0, <1>1, <3>1
      <4> QED
        BY <2>2, <4>1 DEF FreePair
    <3>2. CASE i = k \/ i = k + 1
      BY <1>1, <3>0, <3>2
    <3>3. CASE i = k + 2
      <4>1. k + 1 \in (k + 1)..Len(list) /\ k + 1 \in 2..Len(list) /\ k + 1 # k /\ (k + 1) - 1 = k
            /\ (k + 1) + 1 = i
        BY <1>0, <1>1, <3>3
      <4>2. new[i] = list[k + 1]
        BY <2>2, <4>1
      <4> QED
        BY <1>1, <4>1, <4>2 DEF FreePair
    <3>4. CASE i > k + 2
      <4>1. /\ i - 1 \in (k + 1)..Len(list) /\ (i - 1) + 1 = i
            /\ (i - 1) - 1 \in (k + 1)..Len(list) /\ ((i - 1) - 1) + 1 = i - 1
            /\ i - 1 \in 2..Len(list) /\ i - 1 # k
        BY <1>0, <1>1, <3>4
      <4>2. new[i] = list[i - 1] /\ new[i - 1] = list[(i - 1) - 1]
        BY <2>2, <4>1
      <4> QED
        BY <4>1, <4>2 DEF FreePair
    <3> QED
      BY <1>1, <3>1, <3>2, <3>3, <3>4
  <2>10. KeepsUsed(list, new)
    <3> SUFFICES ASSUME NEW i \in 1..Len(list), ~list[i].free
                 PROVE  \E j \in 1..(Len(list) + 1) : new[j] = list[i]
      BY <1>0, <2>3 DEF KeepsUsed
    <3>1. i # k
      BY <1>1
    <3>2. CASE i < k
      <4>1. i \in 1..(k - 1) /\ i \in 1..(Len(list) + 1)
        BY <1>0, <1>1, <3>2
      <4> QED
        BY <2>2, <4>1
    <3>3. CASE i > k
      <4>1. i \in (k + 1)..Len(list) /\ i + 1 \in 1..(Len(list) + 1)
        BY <1>0, <1>1, <3>3
      <4> QED
        BY <2>2, <4>1
    <3> QED
      BY <1>1, <3>1, <3>2, <3>3
  <2>11. Serves(new, list[k].at + BLOCK_HEADER_SIZE, n)
    <3>1. k \in DOMAIN new
      BY <1>0, <1>1, <2>3
    <3> QED
      BY <1>2, <2>2, <3>1 DEF Serves
  <2> QED
    BY <2>8, <2>9, <2>10, <2>11
<1> QED
  <2>1. \/ Parts(list[k], n) = <<t>> /\ End(t) = End(list[k])
        \/ \E r \in Block : Parts(list[k], n) = <<t, r>> /\ r.at = End(t) /\ End(r) = End(list[k])
    BY <1>2
  <2> QED
    BY <1>4, <1>5, <2>1 DEF new
---------------------------------------------------------------------------
(* free.                                                                    *)

\* A block that takes in its free neighbour.
LEMMA JoinKeeps ==
    ASSUME NEW done, NEW start \in Int, NEW c \in Block, Tiling(done, start, c.at), NoFreePair(done),
           done # <<>>, done[Len(done)].free, c.free
    PROVE  LET new == [done EXCEPT ![Len(done)].size = @ + BLOCK_HEADER_SIZE + c.size]
           IN  /\ Tiling(new, start, End(c)) /\ NoFreePair(new) /\ new # <<>>
               /\ KeepsUsed(done, new)
<1> DEFINE m == Len(done)
           last == done[m]
           wide == [last EXCEPT !.size = @ + BLOCK_HEADER_SIZE + c.size]
           new == [done EXCEPT ![m] = wide]
<1>1. /\ done \in Seq(Block) /\ m \in Nat /\ DOMAIN done = 1..m /\ m \in 1..m /\ last \in Block
      /\ \A i \in 1..m : done[i] \in Block
  BY DEF Tiling
<1>2. c.at = End(last)
  BY <1>1 DEF Tiling, StartOf
<1>3. /\ wide \in Block /\ wide.at = last.at /\ wide.free = last.free
      /\ wide.size = last.size + BLOCK_HEADER_SIZE + c.size
  <2>1. last.size \in Nat /\ c.size \in Nat /\ BLOCK_HEADER_SIZE \in Nat
    BY <1>1, BlockFacts
  <2>2. last \in Block /\ last.size + BLOCK_HEADER_SIZE + c.size \in Nat
    BY <1>1, <2>1
  <2> HIDE DEF last
  <2> QED
    BY <2>2 DEF Block
<1>4. End(wide) = End(c)
  <2>1. /\ last.at \in Int /\ last.size \in Nat /\ c.size \in Nat /\ BLOCK_HEADER_SIZE \in Nat
    BY <1>1, BlockFacts
  <2> QED
    BY <1>2, <1>3, <2>1 DEF End
<1> HIDE DEF last, wide
<1>5. /\ new \in Seq(Block) /\ Len(new) = m /\ DOMAIN new = 1..m /\ new[m] = wide
      /\ \A i \in 1..m : i # m => new[i] = done[i]
  BY <1>1, <1>3
<1>6. [done EXCEPT ![Len(done)].size = @ + BLOCK_HEADER_SIZE + c.size] = new
  BY DEF wide, last
<1> HIDE DEF new, m
<1>7. \A i \in 1..m : StartOf(new, start, i) = StartOf(done, start, i)
  <2> SUFFICES ASSUME NEW i \in 1..m, i # 1 PROVE new[i - 1] = done[i - 1]
    BY DEF StartOf
  <2>1. i - 1 \in 1..m /\ i - 1 # m
    BY <1>1
  <2> QED
    BY <1>5, <2>1
<1>8. Tiling(new, start, End(c))
  <2>1. \A i \in 1..m : new[i].at = done[i].at
    BY <1>3, <1>5 DEF last
  <2>2. \A i \in 1..m : done[i].at = StartOf(done, start, i)
    BY <1>1 DEF Tiling
  <2>3. StartOf(new, start, Len(new) + 1) = End(c)
    BY <1>1, <1>4, <1>5 DEF StartOf
  <2> QED
    BY <1>5, <1>7, <2>1, <2>2, <2>3 DEF Tiling
<1>9. NoFreePair(new)
  <2>1. \A i \in 1..m : new[i].free = done[i].free
    BY <1>3, <1>5 DEF last
  <2> SUFFICES ASSUME NEW i \in 2..m, FreePair(new, i) PROVE FALSE
    BY <1>5 DEF NoFreePair
  <2>2. i \in 1..m /\ i - 1 \in 1..m
    BY <1>1
  <2> QED
    BY <2>1, <2>2 DEF NoFreePair, FreePair, m
<1>10. KeepsUsed(done, new)
  BY <1>1, <1>5 DEF KeepsUsed, m, last
<1>11. new # <<>>
  BY <1>1, <1>5
<1> QED
  BY <1>6, <1>8, <1>9, <1>10, <1>11

\* A block that stays by itself.
LEMMA AddKeeps ==
    ASSUME NEW done, NEW start \in Int, NEW c \in Block, Tiling(done, start, c.at), NoFreePair(done),
           done # <<>> => ~ (done[Len(done)].free /\ c.free)
    PROVE  LET new == Append(done, c)
           IN  /\ Tiling(new, start, End(c)) /\ NoFreePair(new) /\ new # <<>>
               /\ KeepsUsed(done, new) /\ \E j \in DOMAIN new : new[j] = c
<1> DEFINE m == Len(done)
           new == Append(done, c)
<1>1. done \in Seq(Block) /\ m \in Nat /\ DOMAIN done = 1..m /\ (m # 0 => done # <<>>)
  BY DEF Tiling
<1>2. /\ new \in Seq(Block) /\ Len(new) = m + 1 /\ DOMAIN new = 1..(m + 1) /\ new[m + 1] = c
      /\ \A i \in 1..m : new[i] = done[i]
  BY <1>1
<1> HIDE DEF new, m
<1>3. \A i \in 1..(m + 1) : StartOf(new, start, i) = StartOf(done, start, i)
  <2> SUFFICES ASSUME NEW i \in 1..(m + 1), i # 1 PROVE new[i - 1] = done[i - 1]
    BY DEF StartOf
  <2>1. i - 1 \in 1..m
    BY <1>1
  <2> QED
    BY <1>2, <2>1
<1>4. Tiling(new, start, End(c))
  <2>1. \A i \in 1..m : done[i].at = StartOf(done, start, i)
    BY <1>1 DEF Tiling
  <2>2. c.at = StartOf(done, start, m + 1)
    BY DEF Tiling, m
  <2>3. \A i \in 1..(m + 1) : new[i].at = StartOf(new, start, i)
    <3> SUFFICES ASSUME NEW i \in 1..(m + 1) PROVE new[i].at = StartOf(new, start, i)
      OBVIOUS
    <3>1. i \in 1..m \/ i = m + 1
      BY <1>1
    <3> QED
      BY <1>2, <1>3, <2>1, <2>2, <3>1
  <2>4. StartOf(new, start, Len(new) + 1) = End(c)
    BY <1>1, <1>2 DEF StartOf
  <2> QED
    BY <1>2, <2>3, <2>4 DEF Tiling
<1>5. NoFreePair(new)
  <2> SUFFICES ASSUME NEW i \in 2..(m + 1), new[i - 1].free, new[i].free PROVE FALSE
    BY <1>2 DEF NoFreePair, FreePair
  <2>1. CASE i = m + 1
    <3>1. m \in 1..m /\ i - 1 = m
      BY <1>1, <2>1
    <3> QED
      BY <1>1, <1>2, <2>1, <3>1 DEF m
  <2>2. CASE i # m + 1
    <3>1. i \in 2..m /\ i \in 1..m /\ i - 1 \in 1..m
      BY <1>1, <2>2
    <3> QED
      BY <1>2, <3>1 DEF NoFreePair, FreePair, m
  <2> QED
    BY <2>1, <2>2
<1>6. KeepsUsed(done, new)
  <2>1. \A i \in 1..m : i \in 1..(m + 1)
    BY <1>1
  <2> QED
    BY <1>1, <1>2, <2>1 DEF KeepsUsed
<1>7. m + 1 \in 1..(m + 1) /\ new # <<>>
  BY <1>1, <1>2
<1> QED
  BY <1>2, <1>4, <1>5, <1>6, <1>7 DEF new

\* The pass of free leaves a list that covers the same heap, with all blocks in
\* use still there and no two neighbours free.
LEMMA CoalescedKeeps ==
    ASSUME NEW list, NEW start \in Int, NEW brk \in Int, Tiling(list, start, brk)
    PROVE  LET new == Coalesced(list)
           IN  Tiling(new, start, brk) /\ NoFreePair(new) /\ KeepsUsed(list, new)
<1> DEFINE n == Len(list)
           Has(x, k) == \A i \in 1..k : ~list[i].free => \E j \in DOMAIN x : x[j] = list[i]
           A(k) == {x \in Seq(Block) :
                       /\ Tiling(x, start, StartOf(list, start, k + 1)) /\ NoFreePair(x)
                       /\ x = <<>> <=> k = 0
                       /\ Has(x, k)}
           Round(k, x) ==
               IF k > 1 /\ Joins(x[Len(x)], list[k])
               THEN [x EXCEPT ![Len(x)].size = @ + BLOCK_HEADER_SIZE + list[k].size]
               ELSE Append(x, list[k])
           G(h) == [k \in 0..n |-> IF k = 0 THEN <<>> ELSE Round(k, h[k - 1])]
           after == CHOOSE h : h = G(h)
<1>0. list \in Seq(Block) /\ n \in Nat /\ DOMAIN list = 1..n /\ \A i \in 1..n : list[i] \in Block
  BY DEF Tiling
<1>1. Coalesced(list) = after[n]
  BY DEF Coalesced
<1>2. <<>> \in A(0)
  <2>1. Tiling(<<>>, start, StartOf(list, start, 0 + 1)) /\ NoFreePair(<<>>)
    BY DEF Tiling, StartOf, NoFreePair
  <2>2. Has(<<>>, 0)
    OBVIOUS
  <2> HIDE DEF Has
  <2> QED
    BY <2>1, <2>2
<1>3. ASSUME NEW k \in 1..n, NEW x \in A(k - 1) PROVE Round(k, x) \in A(k)
  <2> DEFINE c == list[k]
             new == Round(k, x)
  <2>1. c \in Block /\ c.at = StartOf(list, start, k) /\ StartOf(list, start, k + 1) = End(c)
    BY <1>0 DEF Tiling, StartOf
  <2>2. /\ x \in Seq(Block) /\ Tiling(x, start, c.at) /\ NoFreePair(x)
        /\ x = <<>> <=> k = 1
        /\ Has(x, k - 1)
    <3>1. (k - 1) + 1 = k /\ (k - 1 = 0 <=> k = 1)
      BY <1>0
    <3> HIDE DEF Has
    <3> QED
      BY <2>1, <3>1
  <2> SUFFICES /\ Tiling(new, start, End(c)) /\ NoFreePair(new) /\ new # <<>> /\ KeepsUsed(x, new)
               /\ ~c.free => \E j \in DOMAIN new : new[j] = c
    <3> ASSUME Tiling(new, start, End(c)), NoFreePair(new), new # <<>>, KeepsUsed(x, new),
               ~c.free => \E j \in DOMAIN new : new[j] = c
        PROVE  new \in A(k)
      <4>1. Has(new, k)
        <5> SUFFICES ASSUME NEW i \in 1..k, ~list[i].free PROVE \E j \in DOMAIN new : new[j] = list[i]
          OBVIOUS
        <5>1. CASE i = k
          BY <5>1
        <5>2. CASE i # k
          <6>1. i \in 1..(k - 1)
            BY <1>0, <5>2
          <6>2. PICK j \in DOMAIN x : x[j] = list[i]
            BY <2>2, <6>1
          <6> QED
            BY <6>2 DEF KeepsUsed
        <5> QED
          BY <5>1, <5>2
      <4>2. new \in Seq(Block) /\ k # 0
        BY <1>0 DEF Tiling
      <4> HIDE DEF new, Has
      <4> QED
        BY <2>1, <4>1, <4>2
    <3> QED
      OBVIOUS
  <2>3. CASE k > 1 /\ Joins(x[Len(x)], c)
    <3>1. /\ x # <<>> /\ x[Len(x)].free /\ c.free
          /\ new = [x EXCEPT ![Len(x)].size = @ + BLOCK_HEADER_SIZE + c.size]
      BY <1>0, <2>2, <2>3 DEF Joins
    <3> HIDE DEF new, c, Has
    <3> QED
      BY <2>1, <2>2, <3>1, JoinKeeps
  <2>4. CASE ~ (k > 1 /\ Joins(x[Len(x)], c))
    <3>1. new = Append(x, c)
      BY <2>4
    <3>2. ASSUME x # <<>> PROVE ~ (x[Len(x)].free /\ c.free)
      <4>1. k > 1 /\ Len(x) # 0 /\ Len(x) \in Nat
        BY <1>0, <2>2, <3>2
      <4>2. End(x[Len(x)]) = c.at
        BY <2>2, <4>1 DEF Tiling, StartOf
      <4> QED
        BY <2>4, <4>1, <4>2 DEF Joins
    <3> HIDE DEF new, c, Has
    <3> QED
      BY <2>1, <2>2, <3>1, <3>2, AddKeeps
  <2> QED
    BY <2>3, <2>4
<1> HIDE DEF A, Round, Has
<1>4. \E h : h = G(h)
  <2> DEFINE B == [k \in 0..n |-> A(k)]
             step == [k \in 1..n |-> [x \in A(k - 1) |-> Round(k, x)]]
  <2>1. <<>> \in B[0]
    BY <1>0, <1>2
  <2>2. \A k \in 1..n : B[k - 1] = A(k - 1) /\ B[k] = A(k)
    BY <1>0
  <2>3. \A k \in 1..n : \A x \in B[k - 1] : step[k][x] \in B[k]
    BY <1>3, <2>2
  <2> HIDE DEF B, step
  <2>0. PICK g : IsHistory(g, n, <<>>, step) /\ \A k \in 0..n : g[k] \in B[k]
    BY <1>0, <2>1, <2>3, Iteration, Zenon
  <2>4. g = [k \in 0..n |-> IF k = 0 THEN <<>> ELSE step[k][g[k - 1]]]
    BY <2>0 DEF IsHistory
  <2>5. \A k \in 1..n : step[k][g[k - 1]] = Round(k, g[k - 1])
    <3> SUFFICES ASSUME NEW k \in 1..n PROVE step[k][g[k - 1]] = Round(k, g[k - 1])
      OBVIOUS
    <3>1. k - 1 \in 0..n
      BY <1>0
    <3>2. g[k - 1] \in A(k - 1)
      BY <2>2, <2>0, <3>1
    <3> QED
      BY <3>2 DEF step
  <2>6. g = G(g)
    BY <2>4, <2>5
  <2> QED
    BY <2>6
<1>5. after = G(after)
  BY <1>4
<1> HIDE DEF after
<1>6. after[0] = <<>> /\ \A k \in 1..n : after[k] = Round(k, after[k - 1])
  BY <1>0, <1>5
<1> DEFINE S == {k \in Nat : k <= n => after[k] \in A(k)}
<1>7. 0 \in S
  BY <1>2, <1>6
<1>8. \A k \in Nat : k \in S => k + 1 \in S
  <2> SUFFICES ASSUME NEW k \in Nat, k + 1 <= n, after[k] \in A(k) PROVE after[k + 1] \in A(k + 1)
    BY <1>0
  <2>1. k + 1 \in 1..n /\ (k + 1) - 1 = k
    BY <1>0
  <2> QED
    BY <1>3, <1>6, <2>1
<1>9. after[n] \in A(n)
  <2> HIDE DEF S
  <2>1. Nat \subseteq S
    BY <1>7, <1>8, NatSetInduction
  <2> QED
    BY <1>0, <2>1 DEF S
<1>10. StartOf(list, start, n + 1) = brk
  BY DEF Tiling
<1>11. Tiling(after[n], start, brk) /\ NoFreePair(after[n]) /\ Has(after[n], n)
  BY <1>9, <1>10 DEF A
<1> QED
  BY <1>0, <1>1, <1>11 DEF KeepsUsed, Has

\* Marking a block free moves none.
LEMMA FreedKeeps ==
    ASSUME NEW list, NEW start \in Int, NEW brk \in Int, Tiling(list, start, brk), NEW ptr
    PROVE  LET new == Freed(list, ptr)
           IN  /\ Tiling(new, start, brk)
               /\ \A q, n : q # ptr /\ Serves(list, q, n) => Serves(new, q, n)
<1> DEFINE new == Freed(list, ptr)
           n == Len(list)
           Mark(b) == IF b.at + BLOCK_HEADER_SIZE = ptr THEN [b EXCEPT !.free = TRUE] ELSE b
<1>0. list \in Seq(Block) /\ n \in Nat /\ DOMAIN list = 1..n /\ \A i \in 1..n : list[i] \in Block
  BY DEF Tiling
<1>1. \A b \in Block : Mark(b) \in Block /\ Mark(b).at = b.at /\ Mark(b).size = b.size
  BY DEF Block
<1>2. new = [i \in 1..n |-> Mark(list[i])]
  BY <1>0 DEF Freed
<1>3. \A b \in Block : b.at + BLOCK_HEADER_SIZE # ptr => Mark(b) = b
  OBVIOUS
<1> HIDE DEF new, Mark, n
<1>4. new \in Seq(Block) /\ Len(new) = n /\ DOMAIN new = 1..n
  BY <1>0, <1>1, <1>2
<1>5. \A i \in 1..n : new[i].at = list[i].at /\ End(new[i]) = End(list[i])
  BY <1>0, <1>1, <1>2 DEF End
<1>6. Tiling(new, start, brk)
  BY <1>4, <1>5, SameTiling DEF n
<1>7. \A q, k : q # ptr /\ Serves(list, q, k) => Serves(new, q, k)
  BY <1>0, <1>2, <1>3, <1>4 DEF Serves
<1> QED
  BY <1>6, <1>7 DEF new

\* The last block of a heap that has grown is the only one that fits.
LEMMA GrewKeeps ==
    ASSUME NEW list, NEW start \in Int, NEW brk \in Int, Tiling(list, start, brk), NoFreePair(list),
           NEW n \in Nat, Fitting(list, n) = {}
    PROVE  LET new == Grew(list, brk, n)
               k == First(Fitting(new, n))
           IN  /\ Tiling(new, start, brk + Growth(n))
               /\ Fitting(new, n) # {} /\ k = Len(list) + 1 /\ new[k].at = brk
               /\ \A i \in 2..Len(new) : i # k => ~FreePair(new, i)
               /\ KeepsUsed(list, new)
<1> DEFINE size == Growth(n) - BLOCK_HEADER_SIZE
           c == [at |-> brk, size |-> size, free |-> TRUE]
           new == Append(list, c)
           m == Len(list)
<1>0. list \in Seq(Block) /\ m \in Nat /\ DOMAIN list = 1..m
  BY DEF Tiling
<1>1. size \in Nat /\ size >= n /\ Growth(n) = size + BLOCK_HEADER_SIZE /\ BLOCK_HEADER_SIZE \in Nat
  BY UserHeapAssumption DEF Growth
<1>2. c \in Block /\ c.at = brk /\ c.free /\ c.size = size /\ End(c) = brk + Growth(n)
  BY <1>1 DEF Block, End
<1> HIDE DEF c, size
<1>3. /\ new \in Seq(Block) /\ Len(new) = m + 1 /\ DOMAIN new = 1..(m + 1) /\ new[m + 1] = c
      /\ \A i \in 1..m : new[i] = list[i]
  BY <1>0, <1>2
<1>4. Grew(list, brk, n) = new
  BY DEF Grew, c, size
<1> HIDE DEF new, m
<1>5. \A i \in 1..(m + 1) : StartOf(new, start, i) = StartOf(list, start, i)
  <2> SUFFICES ASSUME NEW i \in 1..(m + 1), i # 1 PROVE new[i - 1] = list[i - 1]
    BY DEF StartOf
  <2>1. i - 1 \in 1..m
    BY <1>0
  <2> QED
    BY <1>3, <2>1
<1>6. Tiling(new, start, brk + Growth(n))
  <2>1. \A i \in 1..m : list[i].at = StartOf(list, start, i)
    BY <1>0 DEF Tiling
  <2>2. brk = StartOf(list, start, m + 1)
    BY DEF Tiling, m
  <2>3. \A i \in 1..(m + 1) : new[i].at = StartOf(new, start, i)
    <3> SUFFICES ASSUME NEW i \in 1..(m + 1) PROVE new[i].at = StartOf(new, start, i)
      OBVIOUS
    <3>1. i \in 1..m \/ i = m + 1
      BY <1>0
    <3> QED
      BY <1>2, <1>3, <1>5, <2>1, <2>2, <3>1
  <2>4. StartOf(new, start, Len(new) + 1) = End(c)
    BY <1>0, <1>3 DEF StartOf
  <2> QED
    BY <1>2, <1>3, <2>3, <2>4 DEF Tiling
<1>7. Fitting(new, n) = {m + 1}
  <2>1. \A i \in 1..m : i \notin Fitting(new, n)
    BY <1>0, <1>3 DEF Fitting
  <2>2. m + 1 \in Fitting(new, n)
    BY <1>0, <1>1, <1>2, <1>3 DEF Fitting
  <2>3. \A i \in Fitting(new, n) : i \in 1..(m + 1)
    BY <1>3 DEF Fitting
  <2>4. \A i \in 1..(m + 1) : i \in 1..m \/ i = m + 1
    BY <1>0
  <2> QED
    BY <2>1, <2>2, <2>3, <2>4
<1>8. First(Fitting(new, n)) = m + 1
  BY <1>0, <1>7 DEF First
<1>9. \A i \in 2..Len(new) : i # m + 1 => ~FreePair(new, i)
  <2> SUFFICES ASSUME NEW i \in 2..(m + 1), i # m + 1 PROVE ~FreePair(new, i)
    BY <1>3
  <2>1. i \in 2..m /\ i \in 1..m /\ i - 1 \in 1..m
    BY <1>0
  <2> QED
    BY <1>3, <2>1 DEF NoFreePair, FreePair, m
<1>10. KeepsUsed(list, new)
  <2>1. \A i \in 1..m : i \in 1..(m + 1)
    BY <1>0
  <2> QED
    BY <1>0, <1>3, <2>1 DEF KeepsUsed
<1> QED
  BY <1>2, <1>3, <1>4, <1>6, <1>7, <1>8, <1>9, <1>10 DEF m
---------------------------------------------------------------------------
(* The invariant.                                                           *)

HeapGood(p) ==
    /\ Tiling(blocks[p], heap[p].start, heap[p].break) /\ NoFreePair(blocks[p])
    /\ \A ptr \in DOMAIN held[p] : Serves(blocks[p], ptr, held[p][ptr])

UserTypes == blocks \in [Procs -> Seq(Block)] /\ held \in [Procs -> Fcns(Nat)]

UserGood(p) ==
    /\ proc[p] # "live" => blocks[p] = <<>> /\ held[p] = <<>>
    /\ Allocates(p) => HeapGood(p)

UserInv == UserTypes /\ \A p \in Procs : UserGood(p)

\* Blocks that are in use and still there serve what they served.
LEMMA StillServes ==
    ASSUME NEW list, NEW new, KeepsUsed(list, new), NEW q, NEW n, Serves(list, q, n)
    PROVE  Serves(new, q, n)
<1>1. PICK j \in DOMAIN list : ~list[j].free /\ list[j].at + BLOCK_HEADER_SIZE = q /\ list[j].size >= n
  BY DEF Serves
<1>2. PICK i \in DOMAIN new : new[i] = list[j]
  BY <1>1 DEF KeepsUsed
<1> QED
  BY <1>1, <1>2 DEF Serves

\* The heap of a process that exists.
LEMMA HeapOf ==
    ASSUME MemInv, NEW p \in Procs, Used(p)
    PROVE  /\ heap[p].start \in Nat /\ heap[p].break \in Int
           /\ heap[p].start <= heap[p].break /\ heap[p].break <= USER_HEAP_MAX
           /\ GoodHeap(heap[p])
<1>1. GoodHeap(heap[p])
  BY DEF MemInv, Exact
<1>2. heap[p].start \in Nat
  <2> DEFINE last == heap[p].prog.bss.at + heap[p].prog.bss.size
  <2>1. last \in Nat /\ heap[p].start = PageSize * PageUp(last)
    BY <1>1, ProgramAssumption DEF GoodHeap, HeapStart
  <2>2. PageUp(last) \in Nat
    BY <2>1, PageUpFacts
  <2> HIDE DEF last
  <2> QED
    BY <2>1, <2>2, PageAssumption
<1> QED
  BY <1>1, <1>2 DEF GoodHeap

\* An action of one process.
LEMMA OnlyMine ==
    ASSUME UserInv, NEW p \in Procs,
           \A q \in Procs \ {p} : /\ blocks'[q] = blocks[q] /\ held'[q] = held[q]
                                  /\ heap'[q] = heap[q] /\ proc'[q] = proc[q],
           UserTypes', UserGood(p)'
    PROVE  UserInv'
<1>1. ASSUME NEW q \in Procs \ {p} PROVE UserGood(q)'
  BY <1>1 DEF UserInv, UserGood, HeapGood, Allocates
<1> QED
  BY <1>1 DEF UserInv

\* A program starts with an empty list.
LEMMA UserStart ==
    ASSUME MemInv, UserInv, NEW p \in Procs, NEW prog \in Programs,
           Start(p, prog), UNCHANGED <<blocks, held>>
    PROVE  UserInv'
<1>1. CASE UNCHANGED <<heap, proc>>
  BY <1>1 DEF UserInv, UserTypes, UserGood, HeapGood, Allocates
<1>2. CASE heap' = [heap EXCEPT ![p] = Loaded(prog)] /\ proc' = [proc EXCEPT ![p] = "live"]
  <2>1. /\ heap'[p] = Loaded(prog) /\ proc'[p] = "live"
        /\ \A q \in Procs \ {p} : heap'[q] = heap[q] /\ proc'[q] = proc[q]
    BY <1>2 DEF MemInv, MemTypes
  <2>2. blocks'[p] = <<>> /\ held'[p] = <<>>
    BY DEF Start, UserInv, UserGood
  <2>3. heap'[p].start = heap'[p].break
    BY <2>1 DEF Loaded
  <2>4. Tiling(<<>>, heap'[p].start, heap'[p].break) /\ NoFreePair(<<>>)
    BY <2>3 DEF Tiling, StartOf, NoFreePair
  <2>5. HeapGood(p)'
    BY <2>2, <2>4 DEF HeapGood
  <2>6. UserTypes'
    BY DEF UserInv, UserTypes
  <2> QED
    BY <2>1, <2>5, <2>6, OnlyMine DEF UserGood
<1> QED
  BY <1>1, <1>2 DEF Start, Panic

\* The break of a program that does not allocate.
LEMMA UserSbrk ==
    ASSUME MemInv, UserInv, NEW p \in Procs, NEW delta \in Int, ~Allocates(p),
           Sbrk(p, delta), UNCHANGED <<blocks, held>>
    PROVE  UserInv'
<1>1. CASE UNCHANGED <<heap, proc>>
  BY <1>1 DEF UserInv, UserTypes, UserGood, HeapGood, Allocates
<1>2. CASE heap' = [heap EXCEPT ![p].break = NewBreak(p, delta)] /\ UNCHANGED proc
  <2>1. heap'[p].prog = heap[p].prog /\ \A q \in Procs \ {p} : heap'[q] = heap[q]
    BY <1>2 DEF MemInv, MemTypes, Heaps
  <2>2. ~Allocates(p)'
    BY <1>2, <2>1 DEF Allocates
  <2>3. UserTypes'
    BY DEF UserInv, UserTypes
  <2>4. UserGood(p)'
    BY <1>2, <2>2 DEF UserGood, UserInv
  <2> QED
    BY <1>2, <2>1, <2>3, <2>4, OnlyMine
<1> QED
  BY <1>1, <1>2 DEF Sbrk, Rebreak, Panic

\* A pointer more.
LEMMA PutServes ==
    ASSUME NEW list, NEW h \in Fcns(Nat), NEW x \in Int, NEW n \in Nat,
           \A ptr \in DOMAIN h : Serves(list, ptr, h[ptr]), Serves(list, x, n)
    PROVE  LET g == Put(h, x, n)
           IN  g \in Fcns(Nat) /\ \A ptr \in DOMAIN g : Serves(list, ptr, g[ptr])
<1> DEFINE g == Put(h, x, n)
<1>1. /\ g \in Fcns(Nat) /\ DOMAIN g = DOMAIN h \cup {x} /\ g[x] = n
      /\ \A z \in DOMAIN h : z # x => g[z] = h[z]
  BY PutFacts
<1> HIDE DEF g
<1>2. ASSUME NEW ptr \in DOMAIN g PROVE Serves(list, ptr, g[ptr])
  <2>1. CASE ptr = x
    BY <1>1, <2>1
  <2>2. CASE ptr # x
    <3>1. ptr \in DOMAIN h /\ g[ptr] = h[ptr]
      BY <1>1, <2>2
    <3>2. Serves(list, ptr, h[ptr])
      BY <3>1
    <3> QED
      BY <3>1, <3>2
  <2> QED
    BY <2>1, <2>2
<1> QED
  BY <1>1, <1>2 DEF g

\* The first block that fits is taken, of a list that covers the heap of p as it
\* is afterwards.
LEMMA TakeKeeps ==
    ASSUME UserInv, NEW p \in Procs, NEW n \in Nat, NEW list, NEW start \in Int, NEW brk \in Int,
           Tiling(list, start, brk), Fitting(list, n) # {},
           \A i \in 2..Len(list) : i # First(Fitting(list, n)) => ~FreePair(list, i),
           \A ptr \in DOMAIN held[p] : Serves(list, ptr, held[p][ptr]),
           Take(p, list, n)
    PROVE  /\ UserTypes'
           /\ Tiling(blocks'[p], start, brk) /\ NoFreePair(blocks'[p])
           /\ \A ptr \in DOMAIN held'[p] : Serves(blocks'[p], ptr, held'[p][ptr])
           /\ \A q \in Procs \ {p} : blocks'[q] = blocks[q] /\ held'[q] = held[q]
<1> DEFINE new == Taken(list, n)
           k == First(Fitting(list, n))
           x == list[k].at + BLOCK_HEADER_SIZE
           h == held[p]
           g == Put(h, x, n)
<1>0. blocks \in [Procs -> Seq(Block)] /\ held \in [Procs -> Fcns(Nat)] /\ list \in Seq(Block)
  BY DEF UserInv, UserTypes, Tiling
<1>1. /\ Tiling(new, start, brk) /\ NoFreePair(new) /\ KeepsUsed(list, new) /\ Serves(new, x, n)
  BY TakenKeeps
<1>2. x \in Int
  <2>1. list[k] \in Block
    BY <1>0, FittingFacts
  <2> QED
    BY <2>1, UserHeapAssumption DEF Block
<1>3. blocks' = [blocks EXCEPT ![p] = new] /\ held' = [held EXCEPT ![p] = g]
  BY DEF Take
<1>4. h \in Fcns(Nat) /\ \A ptr \in DOMAIN h : Serves(list, ptr, h[ptr])
  BY <1>0
<1> HIDE DEF new, x, h
<1>5. \A ptr \in DOMAIN h : Serves(new, ptr, h[ptr])
  BY <1>1, <1>4, StillServes
<1>6. g \in Fcns(Nat) /\ \A ptr \in DOMAIN g : Serves(new, ptr, g[ptr])
  BY <1>1, <1>2, <1>4, <1>5, PutServes
<1> HIDE DEF g
<1>7. new \in Seq(Block)
  BY <1>1 DEF Tiling
<1>8. /\ blocks'[p] = new /\ held'[p] = g
      /\ \A q \in Procs \ {p} : blocks'[q] = blocks[q] /\ held'[q] = held[q]
  BY <1>0, <1>3
<1>9. UserTypes'
  BY <1>0, <1>3, <1>6, <1>7 DEF UserTypes
<1> QED
  BY <1>1, <1>6, <1>8, <1>9

\* malloc, from the list as it is or with one block more.
LEMMA UserMalloc ==
    ASSUME MemInv, UserInv, NEW p \in Procs, NEW n \in Requests, malloc(p, n)
    PROVE  UserInv'
<1>0. /\ n \in Nat /\ Used(p) /\ Allocates(p) /\ HeapGood(p) /\ ~halted
      /\ heap[p].start \in Int /\ heap[p].break \in Int
  BY HeapOf, UserHeapAssumption DEF malloc, Allocates, Used, UserInv, UserGood
<1>1. CASE Fitting(blocks[p], n) # {}
  <2>1. Take(p, blocks[p], n) /\ UNCHANGED vars
    BY <1>1 DEF malloc
  <2>2. /\ Tiling(blocks[p], heap[p].start, heap[p].break)
        /\ \A i \in 2..Len(blocks[p]) : ~FreePair(blocks[p], i)
        /\ \A ptr \in DOMAIN held[p] : Serves(blocks[p], ptr, held[p][ptr])
    BY <1>0 DEF HeapGood, NoFreePair
  <2>3. /\ UserTypes'
        /\ Tiling(blocks'[p], heap[p].start, heap[p].break) /\ NoFreePair(blocks'[p])
        /\ \A ptr \in DOMAIN held'[p] : Serves(blocks'[p], ptr, held'[p][ptr])
        /\ \A q \in Procs \ {p} : blocks'[q] = blocks[q] /\ held'[q] = held[q]
    BY <1>0, <1>1, <2>1, <2>2, TakeKeeps
  <2>4. UNCHANGED <<heap, proc>>
    BY <2>1 DEF vars
  <2>5. UserGood(p)'
    BY <1>0, <2>3, <2>4 DEF UserGood, HeapGood, Allocates
  <2> QED
    BY <2>3, <2>4, <2>5, OnlyMine
<1>2. CASE Fitting(blocks[p], n) = {} /\ halted'
  <2>1. Sbrk(p, Growth(n)) /\ UNCHANGED <<blocks, held>>
    BY <1>2 DEF malloc
  <2>2. UNCHANGED <<heap, proc>>
    BY <1>0, <1>2, <2>1 DEF Sbrk, Rebreak, Panic
  <2> QED
    BY <2>1, <2>2 DEF UserInv, UserTypes, UserGood, HeapGood, Allocates
<1>3. CASE Fitting(blocks[p], n) = {} /\ ~halted'
  <2> DEFINE list == Grew(blocks[p], heap[p].break, n)
             brk == heap[p].break + Growth(n)
  <2>1. Sbrk(p, Growth(n)) /\ Take(p, list, n)
    BY <1>3 DEF malloc
  <2>2. Growth(n) \in Nat
    BY <1>0, UserHeapAssumption DEF Growth
  <2>3. NewBreak(p, Growth(n)) = brk /\ brk \in Int
    <3>1. /\ heap[p].break \in Nat /\ heap[p].break <= USER_HEAP_MAX /\ USER_HEAP_MAX \in Nat
          /\ Word \in Nat \ {0}
      BY <1>0, HeapOf, StackPages, PageAssumption
    <3>2. USER_HEAP_MAX + Growth(n) < Word
      BY <1>0, <3>1, UserHeapAssumption, RequestAssumption DEF Growth
    <3>3. brk \in 0..(Word - 1)
      BY <2>2, <3>1, <3>2
    <3> HIDE DEF brk
    <3>4. brk % Word = brk
      BY <3>1, <3>3
    <3> QED
      BY <3>3, <3>4 DEF NewBreak, brk
  <2>4. heap' = [heap EXCEPT ![p].break = brk] /\ UNCHANGED proc
    BY <1>3, <2>1, <2>3 DEF Sbrk, Rebreak, Panic
  <2>5. /\ heap'[p].break = brk /\ heap'[p].start = heap[p].start /\ heap'[p].prog = heap[p].prog
        /\ \A q \in Procs \ {p} : heap'[q] = heap[q]
    BY <2>4 DEF MemInv, MemTypes, Heaps
  <2>6. /\ Tiling(list, heap[p].start, brk) /\ Fitting(list, n) # {}
        /\ \A i \in 2..Len(list) : i # First(Fitting(list, n)) => ~FreePair(list, i)
        /\ KeepsUsed(blocks[p], list)
    BY <1>0, <1>3, GrewKeeps DEF HeapGood
  <2> HIDE DEF list, brk
  <2>7. \A ptr \in DOMAIN held[p] : Serves(list, ptr, held[p][ptr])
    BY <1>0, <2>6, StillServes DEF HeapGood
  <2>8. /\ UserTypes'
        /\ Tiling(blocks'[p], heap[p].start, brk) /\ NoFreePair(blocks'[p])
        /\ \A ptr \in DOMAIN held'[p] : Serves(blocks'[p], ptr, held'[p][ptr])
        /\ \A q \in Procs \ {p} : blocks'[q] = blocks[q] /\ held'[q] = held[q]
    BY <1>0, <2>1, <2>3, <2>6, <2>7, TakeKeeps
  <2>9. UserGood(p)'
    BY <1>0, <2>4, <2>5, <2>8 DEF UserGood, HeapGood, Allocates
  <2> QED
    BY <2>4, <2>5, <2>8, <2>9, OnlyMine
<1> QED
  BY <1>1, <1>2, <1>3

\* free.
LEMMA UserFree ==
    ASSUME UserInv, MemInv, NEW p \in Procs, NEW ptr \in DOMAIN held[p], Free(p, ptr)
    PROVE  UserInv'
<1> DEFINE list == blocks[p]
           marked == Freed(list, ptr)
           new == Coalesced(marked)
           h == held[p]
           g == [q \in DOMAIN h \ {ptr} |-> h[q]]
<1>0. /\ Used(p) /\ Allocates(p) /\ HeapGood(p) /\ UNCHANGED <<heap, proc>>
      /\ heap[p].start \in Int /\ heap[p].break \in Int
      /\ blocks \in [Procs -> Seq(Block)] /\ held \in [Procs -> Fcns(Nat)]
  BY HeapOf DEF Free, Allocates, Used, UserInv, UserGood, UserTypes, vars
<1>1. blocks' = [blocks EXCEPT ![p] = new] /\ held' = [held EXCEPT ![p] = g]
  BY DEF Free
<1>2. /\ Tiling(list, heap[p].start, heap[p].break)
      /\ \A q \in DOMAIN h : Serves(list, q, h[q])
  BY <1>0 DEF HeapGood
<1>3. /\ Tiling(marked, heap[p].start, heap[p].break)
      /\ \A q, n : q # ptr /\ Serves(list, q, n) => Serves(marked, q, n)
  BY <1>0, <1>2, FreedKeeps
<1>4. Tiling(new, heap[p].start, heap[p].break) /\ NoFreePair(new) /\ KeepsUsed(marked, new)
  BY <1>0, <1>3, CoalescedKeeps
<1>5. g \in Fcns(Nat) /\ DOMAIN g = DOMAIN h \ {ptr} /\ \A q \in DOMAIN g : g[q] = h[q]
  <2>1. h \in Fcns(Nat)
    BY <1>0
  <2> HIDE DEF h
  <2>2. PICK D \in SUBSET Int : h \in [D -> Nat]
    BY <2>1 DEF Fcns
  <2>3. g \in [D \ {ptr} -> Nat] /\ D \ {ptr} \in SUBSET Int
    BY <2>2
  <2> QED
    BY <2>3 DEF Fcns
<1> HIDE DEF new, marked, g, h
<1>6. \A q \in DOMAIN g : Serves(new, q, g[q])
  <2> SUFFICES ASSUME NEW q \in DOMAIN g PROVE Serves(new, q, g[q])
    OBVIOUS
  <2>1. q # ptr /\ g[q] = h[q] /\ Serves(list, q, h[q])
    BY <1>2, <1>5
  <2>2. Serves(marked, q, h[q])
    BY <1>3, <2>1
  <2>3. Serves(new, q, h[q])
    BY <1>4, <2>2, StillServes
  <2> QED
    BY <2>1, <2>3
<1>7. new \in Seq(Block)
  BY <1>4 DEF Tiling
<1>8. /\ blocks'[p] = new /\ held'[p] = g
      /\ \A q \in Procs \ {p} : blocks'[q] = blocks[q] /\ held'[q] = held[q]
  BY <1>0, <1>1
<1>9. UserTypes'
  BY <1>0, <1>1, <1>5, <1>7 DEF UserTypes
<1>10. UserGood(p)'
  BY <1>0, <1>4, <1>6, <1>8 DEF UserGood, HeapGood, Allocates
<1> QED
  BY <1>0, <1>8, <1>9, <1>10, OnlyMine

\* The end of a process, before and after its memory is given back.
LEMMA UserEnd ==
    ASSUME MemInv, UserInv, NEW p \in Procs,
           \/ Die(p) /\ Lose(p)
           \/ (CleanUp(p) \/ Reap(p)) /\ UNCHANGED <<blocks, held>>
    PROVE  UserInv'
<1>0. /\ blocks \in [Procs -> Seq(Block)] /\ held \in [Procs -> Fcns(Nat)]
      /\ heap \in [Procs -> Heaps] /\ proc \in [Procs -> {"none", "live", "dead"}]
  BY DEF UserInv, UserTypes, MemInv, MemTypes
<1>1. <<>> \in Seq(Block) /\ <<>> \in Fcns(Nat)
  BY NoSpaceFacts DEF NoSpace, Space
<1>2. CASE Die(p) /\ Lose(p)
  <2>1. UserTypes'
    BY <1>0, <1>1, <1>2 DEF UserTypes, Lose
  <2>2. blocks'[p] = <<>> /\ held'[p] = <<>> /\ proc'[p] = "dead"
    BY <1>0, <1>2 DEF Die, Lose
  <2>3. UserGood(p)'
    BY <2>2 DEF UserGood, Allocates
  <2>4. \A q \in Procs \ {p} : /\ blocks'[q] = blocks[q] /\ held'[q] = held[q]
                               /\ heap'[q] = heap[q] /\ proc'[q] = proc[q]
    BY <1>0, <1>2 DEF Die, Lose
  <2> QED
    BY <2>1, <2>3, <2>4, OnlyMine
<1>3. CASE (CleanUp(p) \/ Reap(p)) /\ UNCHANGED <<blocks, held>>
  <2>1. UserTypes'
    BY <1>3 DEF UserInv, UserTypes
  <2>2. /\ proc'[p] = "none" /\ proc[p] = "dead"
        /\ \A q \in Procs \ {p} : heap'[q] = heap[q] /\ proc'[q] = proc[q]
    BY <1>0, <1>3 DEF CleanUp, Reap
  <2>3. UserGood(p)'
    BY <1>3, <2>2 DEF UserGood, UserInv, Allocates
  <2> QED
    BY <1>3, <2>1, <2>2, <2>3, OnlyMine
<1> QED
  BY <1>2, <1>3

LEMMA UserInitKeeps == ASSUME UserInit PROVE UserInv
<1>1. <<>> \in Seq(Block) /\ <<>> \in Fcns(Nat)
  BY NoSpaceFacts DEF NoSpace, Space
<1> QED
  BY <1>1 DEF UserInit, Init, UserInv, UserTypes, UserGood, Allocates

LEMMA UserStepKeeps ==
    ASSUME MemInv, UserInv, [UserNext]_userVars
    PROVE  UserInv'
<1>1. CASE UNCHANGED userVars
  BY <1>1 DEF userVars, vars, UserInv, UserTypes, UserGood, HeapGood, Allocates
<1>2. ASSUME NEW p \in Procs, NEW prog \in Programs, Start(p, prog), UNCHANGED <<blocks, held>>
      PROVE  UserInv'
  BY <1>2, UserStart
<1>3. ASSUME NEW p \in Procs, NEW delta \in Deltas,
             ~Allocates(p), Sbrk(p, delta), UNCHANGED <<blocks, held>>
      PROVE  UserInv'
  BY <1>3, UserSbrk, DeltaAssumption
<1>4. ASSUME NEW p \in Procs, NEW n \in Requests, malloc(p, n) PROVE UserInv'
  BY <1>4, UserMalloc
<1>5. ASSUME NEW p \in Procs, NEW ptr \in DOMAIN held[p], Free(p, ptr) PROVE UserInv'
  BY <1>5, UserFree
<1>6. ASSUME NEW p \in Procs,
             \/ Die(p) /\ Lose(p)
             \/ (CleanUp(p) \/ Reap(p)) /\ UNCHANGED <<blocks, held>>
      PROVE  UserInv'
  BY <1>6, UserEnd
<1> QED
  BY <1>1, <1>2, <1>3, <1>4, <1>5, <1>6 DEF UserNext

\* What lies in a heap is in pages that are mapped and writable.
LEMMA InHeapIsMapped ==
    ASSUME MemInv, NEW p \in Procs, Used(p),
           NEW at \in Int, NEW size \in Nat,
           heap[p].start <= at, at + size <= heap[p].break
    PROVE  paging_validate_user_range(space[p], at, size, TRUE)
<1> SUFFICES ASSUME size # 0 PROVE paging_validate_user_range(space[p], at, size, TRUE)
  BY DEF paging_validate_user_range
<1> DEFINE h == heap[p]
           s == space[p]
           last == at + size - 1
<1>1. /\ h.start \in Nat /\ h.break \in Int /\ h.break <= USER_HEAP_MAX /\ GoodHeap(h)
      /\ USER_HEAP_MAX \in Nat /\ USER_HEAP_MAX < Word /\ Word \in Nat \ {0}
  BY HeapOf, LayoutAssumption, PageAssumption, StackPages DEF USER_HEAP_MAX
<1>2. MayWrite(h) = Writable(s)
  BY DEF MemInv, Exact
<1> HIDE DEF h, s
<1>3. (at + size) % Word = at + size /\ last % Word = last /\ last \in Nat /\ at + size >= at
      /\ last < h.break /\ at \in Nat
  <2>1. at \in Nat /\ at + size \in 0..(Word - 1) /\ last \in 0..(Word - 1) /\ last < h.break
    BY <1>1 DEF h
  <2>2. \A x \in 0..(Word - 1) : x % Word = x
    BY <1>1
  <2> QED
    BY <2>1, <2>2
<1> HIDE DEF last
<1>4. ASSUME NEW v \in PageOf(at)..PageOf(last) PROVE v \in MayWrite(h)
  <2>1. PageOf(h.start) <= PageOf(at) /\ PageOf(h.start) \in Int /\ PageOf(at) \in Int
    BY <1>1, <1>3, DivFacts DEF PageOf, h
  <2>2. PageOf(last) <= PageUp(h.break) - 1 /\ PageUp(h.break) \in Int /\ PageOf(last) \in Int
    <3>1. PageSize \in Nat \ {0} /\ last \in Int /\ h.break \in Int /\ last + PageSize <= h.break + PageSize - 1
      BY <1>1, <1>3, PageAssumption
    <3>2. PageOf(last) + 1 = (last + PageSize) \div PageSize
      BY <3>1 DEF PageOf
    <3>3. (last + PageSize) \div PageSize <= PageUp(h.break)
      <4> DEFINE x == last + PageSize
                 y == h.break + PageSize - 1
      <4>1. x \in Int /\ y \in Int /\ x <= y
        BY <3>1
      <4> HIDE DEF x, y
      <4>2. x \div PageSize <= y \div PageSize
        BY <4>1, DivFacts
      <4> QED
        BY <4>2 DEF PageUp, x, y
    <3>4. PageOf(last) \in Int /\ PageUp(h.break) \in Int
      BY <3>1, DivFacts, PageUpFacts DEF PageOf
    <3> QED
      BY <3>2, <3>3, <3>4
  <2>3. v \in HeapPages(h)
    BY <2>1, <2>2 DEF HeapPages
  <2> QED
    BY <2>3 DEF MayWrite
<1>5. \A v \in PageOf(at)..PageOf(last % Word) : v \in DOMAIN s.page /\ s.page[v].rw
  BY <1>2, <1>3, <1>4 DEF Writable
<1> QED
  BY <1>3, <1>5 DEF paging_validate_user_range, last, s

\* The blocks of a list lie between the ends of the heap that it covers.
LEMMA BlocksInside ==
    ASSUME NEW list, NEW start \in Int, NEW brk \in Int, Tiling(list, start, brk),
           NEW k \in 1..Len(list)
    PROVE  start <= list[k].at /\ End(list[k]) <= brk
<1> DEFINE m == Len(list)
           At(i) == StartOf(list, start, i)
           S == {j \in Nat : j <= m => start <= At(j + 1)}
           T == {j \in Nat : j <= m => At(m + 1 - j) <= brk}
<1>0. /\ m \in Nat /\ DOMAIN list = 1..m /\ \A i \in 1..m : list[i] \in Block
      /\ At(1) = start /\ At(m + 1) = brk
  BY DEF Tiling, StartOf
<1>1. \A i \in 1..m : At(i) = list[i].at /\ At(i + 1) = End(list[i])
  BY <1>0 DEF Tiling, StartOf
<1>2. \A i \in 1..m : At(i) \in Int /\ At(i + 1) \in Int /\ At(i) <= At(i + 1)
  <2> SUFFICES ASSUME NEW i \in 1..m
               PROVE  list[i].at \in Int /\ End(list[i]) \in Int /\ list[i].at <= End(list[i])
    BY <1>1
  <2> DEFINE b == list[i]
  <2>1. b \in Block
    BY <1>0
  <2> HIDE DEF b
  <2>2. b.at \in Int /\ End(b) \in Int /\ b.at <= End(b)
    BY <2>1, BlockFacts
  <2> QED
    BY <2>2 DEF b
<1> HIDE DEF At, m
<1>3. Nat \subseteq S
  <2>1. 0 \in S
    BY <1>0
  <2>2. \A j \in Nat : j \in S => j + 1 \in S
    <3> SUFFICES ASSUME NEW j \in Nat, j + 1 <= m, start <= At(j + 1) PROVE start <= At((j + 1) + 1)
      BY <1>0
    <3>1. j + 1 \in 1..m
      BY <1>0
    <3> QED
      BY <1>2, <3>1
  <2> HIDE DEF S
  <2> QED
    BY <2>1, <2>2, NatSetInduction
<1>4. Nat \subseteq T
  <2>1. 0 \in T
    BY <1>0
  <2>2. \A j \in Nat : j \in T => j + 1 \in T
    <3> SUFFICES ASSUME NEW j \in Nat, j + 1 <= m, At(m + 1 - j) <= brk
                 PROVE  At(m + 1 - (j + 1)) <= brk
      BY <1>0
    <3>1. m - j \in 1..m /\ (m - j) + 1 = m + 1 - j /\ m + 1 - (j + 1) = m - j
      BY <1>0
    <3>2. At(m - j) <= At((m - j) + 1) /\ At(m - j) \in Int /\ At((m - j) + 1) \in Int
      BY <1>2, <3>1
    <3>3. At(m - j) <= brk
      BY <3>1, <3>2
    <3> QED
      BY <3>1, <3>3
  <2> HIDE DEF T
  <2> QED
    BY <2>1, <2>2, NatSetInduction
<1>5. k \in 1..m
  BY DEF m
<1>6. start <= At(k)
  <2>1. k - 1 \in Nat /\ k - 1 <= m /\ (k - 1) + 1 = k
    BY <1>0, <1>5
  <2> QED
    BY <1>3, <2>1
<1>7. At(k + 1) <= brk
  <2>1. m - k \in Nat /\ m - k <= m /\ m + 1 - (m - k) = k + 1
    BY <1>0, <1>5
  <2>2. At(m + 1 - (m - k)) <= brk
    BY <1>4, <2>1
  <2> QED
    BY <2>1, <2>2
<1> QED
  BY <1>1, <1>5, <1>6, <1>7

\* The property.
LEMMA InvIsMapped == ASSUME MemInv, UserInv PROVE HeldIsMapped
<1> SUFFICES ASSUME NEW p \in Procs, Allocates(p)
             PROVE  LET list == blocks[p]
                        Starts(k) == IF k = 1 THEN heap[p].start ELSE End(list[k - 1])
                    IN  /\ \A k \in DOMAIN list : list[k].at = Starts(k)
                        /\ Starts(Len(list) + 1) = heap[p].break
                        /\ \A k \in 2..Len(list) : ~(list[k - 1].free /\ list[k].free)
                        /\ \A ptr \in DOMAIN held[p] :
                              /\ \E k \in DOMAIN list :
                                    /\ ~list[k].free /\ list[k].at + BLOCK_HEADER_SIZE = ptr
                                    /\ list[k].size >= held[p][ptr]
                              /\ paging_validate_user_range(space[p], ptr, held[p][ptr], TRUE)
  BY DEF HeldIsMapped
<1> DEFINE list == blocks[p]
           start == heap[p].start
           brk == heap[p].break
<1>0. Used(p) /\ HeapGood(p) /\ start \in Int /\ brk \in Int /\ held[p] \in Fcns(Nat)
  BY HeapOf DEF Allocates, Used, UserInv, UserGood, UserTypes
<1>1. Tiling(list, start, brk) /\ NoFreePair(list)
  BY <1>0 DEF HeapGood
<1>2. ASSUME NEW ptr \in DOMAIN held[p]
      PROVE  /\ \E k \in DOMAIN list :
                   /\ ~list[k].free /\ list[k].at + BLOCK_HEADER_SIZE = ptr
                   /\ list[k].size >= held[p][ptr]
             /\ paging_validate_user_range(space[p], ptr, held[p][ptr], TRUE)
  <2>1. Serves(list, ptr, held[p][ptr])
    BY <1>0 DEF HeapGood
  <2>2. PICK k \in DOMAIN list :
            ~list[k].free /\ list[k].at + BLOCK_HEADER_SIZE = ptr /\ list[k].size >= held[p][ptr]
    BY <2>1 DEF Serves
  <2> DEFINE b == list[k]
             n == held[p][ptr]
  <2>3. k \in 1..Len(list) /\ b \in Block
    BY <1>1 DEF Tiling
  <2>4. start <= b.at /\ End(b) <= brk
    BY <1>0, <1>1, <2>3, BlocksInside
  <2>5. n \in Nat /\ ptr = b.at + BLOCK_HEADER_SIZE /\ b.size >= n
    BY <1>0, <2>2, FcnsFacts
  <2> HIDE DEF b, n, list, start, brk
  <2>6. ptr \in Int /\ start <= ptr /\ ptr + n <= brk
    <3>1. /\ b.at \in Int /\ b.size \in Nat /\ BLOCK_HEADER_SIZE \in Nat
          /\ End(b) = b.at + BLOCK_HEADER_SIZE + b.size
      BY <2>3, BlockFacts
    <3> QED
      BY <1>0, <2>4, <2>5, <3>1
  <2>7. paging_validate_user_range(space[p], ptr, n, TRUE)
    BY <1>0, <2>5, <2>6, InHeapIsMapped DEF start, brk
  <2> QED
    BY <2>2, <2>7 DEF n, list
<1> QED
  BY <1>1, <1>2 DEF Tiling, NoFreePair, FreePair, StartOf
---------------------------------------------------------------------------
(* The theorem.                                                             *)

\* Whatever programs allocate, free and load, and however they die, the blocks of
\* malloc.c cover the heap of their program up to its break, free has joined all
\* neighbours that are free, and a pointer that malloc returned and free has not
\* taken back leads to a block in use, as large as was asked for, in pages that
\* SYS_SBRK mapped and that no other call takes away.
THEOREM MallocIsSound == UserSpec => []HeldIsMapped
<1>1. UserInit => MemInv /\ UserInv
  BY InitKeeps, UserInitKeeps DEF UserInit
<1>2. MemInv /\ UserInv /\ [UserNext]_userVars => (MemInv /\ UserInv)'
  BY UserNextIsStep, StepKeeps, UserStepKeeps
<1>3. MemInv /\ UserInv => HeldIsMapped
  BY InvIsMapped
<1> QED
  BY <1>1, <1>2, <1>3, PTL DEF UserSpec
=============================================================================
