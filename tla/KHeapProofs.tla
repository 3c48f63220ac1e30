---------------------------- MODULE KHeapProofs ----------------------------
(* Proofs about the kernel heap: however it is used, the list tiles the    *)
(* heap, holds no two free neighbours, and what the kernel owns is in used *)
(* blocks of its own.                                                      *)
EXTENDS KHeap, ListLemmas

H == BLOCK_HEADER_SIZE

HeapType ==
    /\ size \in [Addr -> Nat]
    /\ next \in [Addr -> Addr \cup {NULL}]
    /\ free \in [Addr -> BOOLEAN]
    /\ want \in [Ptr -> Nat \cup {NULL}]

\* What is held lies in used blocks of Q, under the tables sz, fr and wa.
UsedIn(Q, sz, fr, wa) ==
    \A p \in Ptr : wa[p] # NULL =>
        /\ p - H \in Q
        /\ ~fr[p - H]
        /\ 4 * sz[p - H] >= wa[p]

\* No block of Q and its successor are both free.
Joined(Q, nx, fr) == \A b \in Q : (fr[b] /\ nx[b] # NULL) => ~fr[nx[b]]

\* The state is as it should be when the blocks are those of Q.
Blocks(Q) ==
    /\ Q \subseteq Addr
    /\ Tiles(Q, size, next)
    /\ UsedIn(Q, size, free, want)
    /\ Joined(Q, next, free)

HeapInv == HeapType /\ \E Q \in SUBSET Addr : Blocks(Q)
---------------------------------------------------------------------------
LEMMA Sizes == HeapSize \in Nat /\ H \in Nat /\ H > 0 /\ HeapSize >= H /\ free_list \in Addr
BY HeaderAssumption, HeapAssumption DEF H, free_list, Addr

LEMMA WordsFacts ==
    ASSUME NEW b \in Nat
    PROVE  /\ Words(b) \in Nat
           /\ 4 * Words(b) >= b
           /\ \A s \in Nat : 4 * s >= b => s >= Words(b)
BY DEF Words

\* What a tiling says of one of its blocks.
LEMMA BlockFacts ==
    ASSUME NEW Q \in SUBSET Addr,
           NEW sz \in [Addr -> Nat],
           NEW nx, Tiles(Q, sz, nx),
           NEW b \in Q
    PROVE  /\ b \in Addr /\ b \in Nat /\ sz[b] \in Nat
           /\ nx[b] \in Q \cup {NULL}
           /\ nx[b] = NULL => b + H + sz[b] = HeapSize
           /\ nx[b] # NULL => b + H + sz[b] = nx[b] /\ nx[b] \in Addr /\ b < nx[b]
           /\ b + H + sz[b] <= HeapSize
           /\ b + H \in Ptr
<1>1. b \in Addr /\ sz[b] \in Nat
  OBVIOUS
<1>2. b \in Nat
  BY <1>1, Sizes DEF Addr
<1>3. nx[b] \in Q \cup {NULL} /\ b + H + sz[b] = IF nx[b] = NULL THEN HeapSize ELSE nx[b]
  BY DEF Tiles, H
<1>4. nx[b] # NULL => nx[b] \in Addr
  BY <1>3
<1>5. b + H + sz[b] <= HeapSize
  BY <1>3, <1>4, Sizes DEF Addr
<1>6. b + H \in Ptr
  BY <1>1, <1>2, <1>5, Sizes DEF Ptr
<1> QED
  BY <1>1, <1>2, <1>3, <1>4, <1>5, <1>6, Sizes

\* The walk of the list equation by equation.
LEMMA ListWalk ==
    ASSUME HeapType, NEW Q \in SUBSET Addr, Tiles(Q, size, next)
    PROVE  LET w == Walk(free_list, next, HeapSize) IN
           \A k \in 0..HeapSize :
              /\ w[k] \in Q \cup {NULL}
              /\ w[k] = IF k = 0 THEN free_list
                        ELSE IF w[k - 1] = NULL THEN NULL ELSE next[w[k - 1]]
<1>1. \A p \in (Q \cup {NULL}) \ {NULL} : next[p] \in Q \cup {NULL}
  BY DEF Tiles
<1>2. free_list \in Q \cup {NULL}
  BY DEF Tiles
<1> DEFINE R == Q \cup {NULL}
<1>3. NULL \in R /\ free_list \in R /\ HeapSize \in Nat /\ \A p \in R \ {NULL} : next[p] \in R
  BY <1>1, <1>2, Sizes
<1> HIDE DEF R
<1>4. LET w == Walk(free_list, next, HeapSize) IN
      \A k \in 0..HeapSize :
         /\ w[k] \in R
         /\ w[k] = IF k = 0 THEN free_list
                   ELSE IF w[k - 1] = NULL THEN NULL ELSE next[w[k - 1]]
  BY <1>3, WalkEquation
<1> QED
  BY <1>4 DEF R

\* The blocks of a tiling are those on the list.
LEMMA ListedAreTheBlocks ==
    ASSUME HeapType, NEW Q \in SUBSET Addr, Tiles(Q, size, next)
    PROVE  Listed = Q
<1> DEFINE w == Walk(free_list, next, HeapSize)
<1>1. \A k \in 0..HeapSize : /\ w[k] \in Q \cup {NULL}
                             /\ w[k] = IF k = 0 THEN free_list
                                       ELSE IF w[k - 1] = NULL THEN NULL ELSE next[w[k - 1]]
  BY ListWalk
<1> HIDE DEF w
<1>2. NULL \notin Q
  BY Sizes DEF Addr, NULL
<1>3. Listed \subseteq Q
  BY <1>1, <1>2 DEF Listed, w
<1> DEFINE Seen(k) == {w[i] : i \in 0..k}
           Upto(k) == /\ w[k] = NULL => Q \subseteq Seen(k)
                      /\ w[k] # NULL => w[k] >= k /\ \A q \in Q : q <= w[k] => q \in Seen(k)
           S == {k \in Nat : k <= HeapSize => Upto(k)}
<1>4. 0 \in S
  BY <1>1, Sizes DEF free_list, Addr, NULL
<1>5. ASSUME NEW k \in Nat, k \in S PROVE k + 1 \in S
  <2> SUFFICES ASSUME k + 1 <= HeapSize PROVE Upto(k + 1)
    OBVIOUS
  <2>1. k \in 0..HeapSize /\ k + 1 \in 0..HeapSize /\ Upto(k)
    BY <1>5, Sizes
  <2>2. Seen(k) \subseteq Seen(k + 1) /\ w[k + 1] \in Seen(k + 1)
    BY <2>1
  <2> HIDE DEF Seen
  <2>3. CASE w[k] = NULL
    BY <2>1, <2>2, <2>3, <1>1
  <2>4. CASE w[k] # NULL
    <3>5. w[k] \in Q /\ w[k + 1] \in Q \cup {NULL}
      BY <2>1, <2>4, <1>1
    <3>6. w[k + 1] = next[w[k]]
      BY <2>1, <2>4, <1>1
    <3>7. w[k] \in Int
      <4>1. Q \subseteq Addr /\ Addr \subseteq Int
        BY Sizes DEF Addr
      <4> QED
        BY <3>5, <4>1
    <3>8. w[k] >= k
      BY <2>1, <2>4
    <3>1. w[k] \in Q /\ w[k] \in Int /\ w[k] >= k /\ w[k + 1] = next[w[k]] /\ w[k + 1] \in Q \cup {NULL}
      BY <3>5, <3>6, <3>7, <3>8
    <3>2. size[w[k]] \in Nat
      BY <3>1 DEF HeapType
    <3>3. CASE next[w[k]] = NULL
      <4>1. \A q \in Q : q <= w[k]
        BY <3>1, <3>2, <3>3, Sizes DEF Tiles, Addr, H
      <4> QED
        BY <4>1, <3>1, <3>3, <2>1, <2>2, <2>4
    <3>4. CASE next[w[k]] # NULL
      <4>1. w[k] + H + size[w[k]] = next[w[k]]
        BY <3>1, <3>4 DEF Tiles, H
      <4>2. \A q \in Q : q <= w[k] \/ q >= next[w[k]]
        BY <3>1, <4>1 DEF Tiles, Addr, H
      <4>3. next[w[k]] > w[k] /\ next[w[k]] \in Int
        BY <3>1, <3>2, <4>1, Sizes
      <4> QED
        BY <4>2, <4>3, <3>1, <3>4, <2>1, <2>2, <2>4 DEF Addr
    <3> QED
      BY <3>3, <3>4
  <2> QED
    BY <2>3, <2>4
<1>6. HeapSize \in S
  BY <1>4, <1>5, Sizes, NatSetInduction
<1>7. w[HeapSize] = NULL
  <2>1. Upto(HeapSize) /\ HeapSize \in 0..HeapSize
    BY <1>6, Sizes
  <2>2. ASSUME w[HeapSize] # NULL PROVE w[HeapSize] \in 0..(HeapSize - 1)
    BY <1>1, <2>1, <2>2 DEF Addr
  <2> HIDE DEF Seen
  <2> QED
    BY <2>1, <2>2, Sizes
<1>8. Q \subseteq Seen(HeapSize)
  BY <1>6, <1>7, Sizes
<1> QED
  BY <1>2, <1>3, <1>8 DEF Listed, w
---------------------------------------------------------------------------
LEMMA InitInv == Init => HeapInv
<1> SUFFICES ASSUME Init PROVE HeapInv
  OBVIOUS
<1>1. HeapType
  BY Sizes DEF Init, HeapType, Addr, Ptr, H
<1>2. Tiles({free_list}, size, next)
  BY Sizes DEF Init, Tiles, H, Addr, free_list
<1>3. UsedIn({free_list}, size, free, want)
  BY DEF Init, UsedIn
<1>4. Joined({free_list}, next, free)
  BY Sizes DEF Init, Joined
<1> QED
  BY <1>1, <1>2, <1>3, <1>4, Sizes DEF HeapInv, Blocks

\* What first fit finds is a free block of the tiling that is large enough.
LEMMA FirstFitIsFree ==
    ASSUME HeapType, NEW Q \in SUBSET Addr, Tiles(Q, size, next),
           NEW n \in Nat, NEW b \in FirstFit(n)
    PROVE  b \in Q /\ free[b] /\ size[b] >= n
<1>1. b \in Fits(n) /\ \E k \in 0..HeapSize : b = Walk(free_list, next, HeapSize)[k]
  BY DEF FirstFit, FirstOn
<1>2. b \in Q \cup {NULL}
  BY <1>1, ListWalk
<1>3. b # NULL
  BY <1>1, Sizes DEF Fits, Addr, NULL
<1> QED
  BY <1>1, <1>2, <1>3 DEF Fits

\* Taking the whole block b.
LEMMA TakeInv ==
    ASSUME HeapType, NEW Q \in SUBSET Addr, Blocks(Q),
           NEW bytes \in Nat, NEW b \in Q, free[b], size[b] >= Words(bytes),
           free' = [free EXCEPT ![b] = FALSE],
           want' = [want EXCEPT ![b + H] = bytes],
           size' = size, next' = next
    PROVE  HeapType' /\ Blocks(Q)'
<1>1. b \in Int /\ b + H \in Ptr
  BY BlockFacts DEF Blocks, HeapType
<1>2. HeapType'
  BY <1>1 DEF HeapType
<1>3. UsedIn(Q, size', free', want')
  <2> SUFFICES ASSUME NEW p \in Ptr, want'[p] # NULL
               PROVE  p - H \in Q /\ ~free'[p - H] /\ 4 * size'[p - H] >= want'[p]
    BY DEF UsedIn
  <2>1. CASE p = b + H
    <3>1. p - H = b
      BY <2>1, <1>1, Sizes
    <3>2. 4 * size[b] >= bytes
      BY WordsFacts DEF HeapType
    <3> QED
      BY <2>1, <3>1, <3>2, <1>1 DEF HeapType
  <2>2. CASE p # b + H
    <3>1. want'[p] = want[p] /\ p - H # b
      BY <2>2, <1>1, Sizes DEF HeapType, Ptr
    <3> QED
      BY <3>1 DEF Blocks, UsedIn, HeapType
  <2> QED
    BY <2>1, <2>2
<1>4. Joined(Q, next', free')
  BY DEF Blocks, Joined, HeapType
<1> QED
  BY <1>2, <1>3, <1>4 DEF Blocks

\* Splitting the block b adds the block of the rest.
LEMMA SplitInv ==
    ASSUME HeapType, NEW Q \in SUBSET Addr, Blocks(Q),
           NEW bytes \in Nat, NEW b \in Q, free[b],
           Splits(b, Words(bytes)), Split(b, Words(bytes)),
           want' = [want EXCEPT ![b + H] = bytes]
    PROVE  HeapType' /\ \E R \in SUBSET Addr : Blocks(R)'
<1> DEFINE n == Words(bytes)
           new == b + H + n
           R == Q \cup {new}
<1>1. n \in Nat /\ 4 * n >= bytes
  BY WordsFacts
<1> HIDE DEF n
<1>2. /\ b \in Addr /\ b \in Nat /\ size[b] \in Nat
      /\ next[b] \in Q \cup {NULL}
      /\ next[b] = NULL => b + H + size[b] = HeapSize
      /\ next[b] # NULL => b + H + size[b] = next[b] /\ next[b] \in Addr
      /\ b + H + size[b] <= HeapSize
      /\ b + H \in Ptr
  BY BlockFacts DEF Blocks, HeapType
<1>3. size[b] >= n + H + 1
  BY DEF Splits, n, H
<1>4. new \in Addr /\ new \in Nat /\ new > b /\ new + H + 1 <= b + H + size[b]
  BY <1>1, <1>2, <1>3, Sizes DEF Addr
<1>5. new \notin Q
  <2> SUFFICES ASSUME new \in Q PROVE FALSE
    OBVIOUS
  <2>1. b + H + size[b] <= new
    BY <1>4 DEF Blocks, Tiles, H
  <2> QED
    BY <2>1, <1>1, <1>2, <1>4, Sizes
<1>6. /\ size' = [size EXCEPT ![b] = n, ![new] = size[b] - n - H]
      /\ next' = [next EXCEPT ![b] = new, ![new] = next[b]]
      /\ free' = [free EXCEPT ![b] = FALSE, ![new] = TRUE]
  BY DEF Split, Rest, n, H
<1> HIDE DEF new
<1>7. HeapType'
  <2>1. size[b] - n - H \in Nat
    BY <1>1, <1>2, <1>3, Sizes
  <2>2. size' \in [Addr -> Nat] /\ free' \in [Addr -> BOOLEAN]
    BY <1>1, <1>6, <2>1 DEF HeapType
  <2>3. next' \in [Addr -> Addr \cup {NULL}]
    BY <1>2, <1>4, <1>6 DEF HeapType
  <2>4. want' \in [Ptr -> Nat \cup {NULL}]
    BY <1>2 DEF HeapType
  <2> QED
    BY <2>2, <2>3, <2>4 DEF HeapType
<1>8. /\ size'[b] = n /\ size'[new] = size[b] - n - H
      /\ next'[b] = new /\ next'[new] = next[b]
      /\ ~free'[b] /\ free'[new]
      /\ \A c \in Q \ {b} : size'[c] = size[c] /\ next'[c] = next[c] /\ free'[c] = free[c]
  BY <1>2, <1>4, <1>5, <1>6 DEF HeapType
<1>9. Tiles(R, size', next')
  <2>1. ASSUME NEW c \in R
        PROVE  /\ c + H + size'[c] = IF next'[c] = NULL THEN HeapSize ELSE next'[c]
               /\ next'[c] \in R \cup {NULL}
    <3>1. CASE c = b
      BY <3>1, <1>1, <1>2, <1>4, <1>8, Sizes DEF new, NULL
    <3>2. CASE c = new
      <4>1. new + H + (size[b] - n - H) = b + H + size[b]
        BY <1>1, <1>2, Sizes DEF new
      <4> QED
        BY <3>2, <4>1, <1>2, <1>8
    <3>3. CASE c \in Q \ {b}
      <4>1. /\ next[c] \in Q \cup {NULL}
            /\ c + H + size[c] = IF next[c] = NULL THEN HeapSize ELSE next[c]
        BY <3>3 DEF Blocks, Tiles, H
      <4> QED
        BY <3>3, <4>1, <1>8
    <3> QED
      BY <3>1, <3>2, <3>3
  <2>2. ASSUME NEW c \in R, NEW d \in R, c < d
        PROVE  c + H + size'[c] <= d
    <3>0. \A x, y \in Q : x < y => x + H + size[x] <= y
      BY DEF Blocks, Tiles, H
    <3>1. /\ c \in Nat /\ d \in Nat
          /\ c \in Q => size[c] \in Nat
          /\ d \in Q => size[d] \in Nat
      <4>1. \A x \in Q : x \in Nat /\ size[x] \in Nat
        BY BlockFacts DEF Blocks, HeapType
      <4> QED
        BY <4>1, <1>4
    <3>2. CASE c = b
      <4>1. CASE d = new
        BY <3>2, <4>1, <1>1, <1>8, <1>2, Sizes DEF new
      <4>2. CASE d \in Q
        <5>1. b + H + size[b] <= d
          BY <2>2, <3>0, <3>2, <4>2
        <5> QED
          BY <5>1, <3>2, <1>1, <1>2, <1>3, <1>8, <3>1, Sizes
      <4> QED
        BY <4>1, <4>2
    <3>3. CASE c = new
      <4>1. d \in Q /\ b < d
        BY <2>2, <3>3, <1>2, <1>4, <3>1
      <4>2. b + H + size[b] <= d
        BY <4>1, <3>0
      <4> QED
        BY <3>3, <4>2, <1>1, <1>2, <1>8, <3>1, Sizes DEF new
    <3>4. CASE c \in Q \ {b} /\ d = new
      <4>1. c < b
        <5>1. CASE b < c
          <6>1. b + H + size[b] <= c
            BY <5>1, <3>0, <3>4
          <6> QED
            BY <6>1, <2>2, <3>4, <1>2, <1>4, <3>1, Sizes
        <5> QED
          BY <5>1, <3>4, <1>2, <3>1
      <4>2. c + H + size[c] <= b
        BY <4>1, <3>0, <3>4
      <4> QED
        BY <4>2, <3>4, <1>2, <1>4, <1>8, <3>1, Sizes
    <3>5. CASE c \in Q \ {b} /\ d \in Q
      BY <2>2, <3>0, <3>5, <1>8
    <3> QED
      BY <3>2, <3>3, <3>4, <3>5
  <2> QED
    BY <2>1, <2>2 DEF Tiles, H, Blocks
<1>10. UsedIn(R, size', free', want')
  <2> SUFFICES ASSUME NEW p \in Ptr, want'[p] # NULL
               PROVE  p - H \in R /\ ~free'[p - H] /\ 4 * size'[p - H] >= want'[p]
    BY DEF UsedIn
  <2>1. CASE p = b + H
    <3>1. p - H = b /\ want'[p] = bytes
      BY <2>1, <1>2, Sizes DEF HeapType
    <3> QED
      BY <3>1, <1>1, <1>8
  <2>2. CASE p # b + H
    <3>1. want'[p] = want[p] /\ p - H # b
      BY <2>2, <1>2, Sizes DEF HeapType, Ptr
    <3>2. p - H \in Q /\ ~free[p - H] /\ 4 * size[p - H] >= want[p]
      BY <3>1 DEF Blocks, UsedIn
    <3> QED
      BY <3>1, <3>2, <1>8
  <2> QED
    BY <2>1, <2>2
<1>11. Joined(R, next', free')
  <2> SUFFICES ASSUME NEW c \in R, free'[c], next'[c] # NULL
               PROVE  ~free'[next'[c]]
    BY DEF Joined
  <2>0. \A x \in Q : free[x] /\ next[x] # NULL => next[x] \in Q /\ ~free[next[x]]
    BY DEF Blocks, Tiles, Joined
  <2>1. CASE c = new
    BY <2>1, <2>0, <1>8
  <2>2. CASE c \in Q \ {b}
    BY <2>2, <2>0, <1>8
  <2> QED
    BY <2>1, <2>2, <1>8
<1> QED
  BY <1>4, <1>7, <1>9, <1>10, <1>11 DEF Blocks

LEMMA KmallocInv == ASSUME HeapInv, NEW bytes \in Requests, kmalloc(bytes) PROVE HeapInv'
<1>1. PICK Q \in SUBSET Addr : Blocks(Q)
  BY DEF HeapInv
<1>2. HeapType /\ bytes \in Nat /\ Words(bytes) \in Nat
  BY RequestAssumption, WordsFacts DEF HeapInv
<1>3. PICK b \in FirstFit(Words(bytes)) :
        /\ want' = [want EXCEPT ![b + H] = bytes]
        /\ IF Splits(b, Words(bytes))
           THEN Split(b, Words(bytes))
           ELSE free' = [free EXCEPT ![b] = FALSE] /\ UNCHANGED <<size, next>>
  BY DEF kmalloc, H
<1>4. b \in Q /\ free[b] /\ size[b] >= Words(bytes)
  BY <1>1, <1>2, FirstFitIsFree DEF Blocks
<1>5. CASE Splits(b, Words(bytes))
  BY <1>1, <1>2, <1>3, <1>4, <1>5, SplitInv DEF HeapInv
<1>6. CASE ~Splits(b, Words(bytes))
  <2>1. HeapType' /\ Blocks(Q)'
    BY <1>1, <1>2, <1>3, <1>4, <1>6, TakeInv
  <2> QED
    BY <2>1 DEF HeapInv
<1> QED
  BY <1>5, <1>6
---------------------------------------------------------------------------
(* kfree.  Behind the pass no two neighbours are free; every round moves   *)
(* the end of the block it is at.                                          *)

PassState == [curr : Addr, size : [Addr -> Nat], next : [Addr -> Addr \cup {NULL}]]

Good(h, fr, wa, Q) ==
    /\ h.curr \in Q
    /\ Tiles(Q, h.size, h.next)
    /\ UsedIn(Q, h.size, fr, wa)
    /\ \A b \in Q : (b < h.curr /\ fr[b] /\ h.next[b] # NULL) => ~fr[h.next[b]]

CurrEnd(h) == h.curr + H + h.size[h.curr]

\* A round that goes on to the next block.
LEMMA AdvanceGood ==
    ASSUME NEW fr \in [Addr -> BOOLEAN], NEW wa, NEW h \in PassState,
           NEW Q \in SUBSET Addr, Good(h, fr, wa, Q),
           h.next[h.curr] # NULL, ~Joins(h, fr),
           NEW g, g = [h EXCEPT !.curr = h.next[h.curr]]
    PROVE  g \in PassState /\ Good(g, fr, wa, Q) /\ CurrEnd(g) > CurrEnd(h)
<1> DEFINE n == h.next[h.curr]
<1>1. h.size \in [Addr -> Nat] /\ h.curr \in Q /\ Tiles(Q, h.size, h.next)
  BY DEF Good, PassState
<1>2. \A b \in Q : b \in Nat /\ h.size[b] \in Nat
  <2>1. Q \subseteq Addr /\ Addr \subseteq Nat
    BY Sizes DEF Addr
  <2> QED
    BY <1>1, <2>1
<1>3. n \in Q /\ n \in Addr /\ h.curr + H + h.size[h.curr] = n /\ h.curr < n
  <2> DEFINE sz == h.size
             nx == h.next
             at == h.curr
  <2>1. sz \in [Addr -> Nat] /\ at \in Q /\ Tiles(Q, sz, nx) /\ nx[at] # NULL
    BY <1>1
  <2> HIDE DEF sz, nx, at
  <2>2. nx[at] \in Q \cup {NULL}
    BY <2>1, BlockFacts
  <2>3. nx[at] # NULL => at + H + sz[at] = nx[at] /\ nx[at] \in Addr /\ at < nx[at]
    BY <2>1, BlockFacts
  <2> QED
    BY <2>1, <2>2, <2>3 DEF sz, nx, at
<1>4. g.curr = n /\ g.size = h.size /\ g.next = h.next /\ g \in PassState
  BY <1>3 DEF PassState
<1>5. ~(fr[h.curr] /\ fr[n])
  BY <1>3 DEF Joins, H
<1>6. \A b \in Q : b < n => b = h.curr \/ b < h.curr
  BY <1>1, <1>2, <1>3 DEF Tiles, H
<1>7. Good(g, fr, wa, Q)
  BY <1>3, <1>4, <1>5, <1>6 DEF Good
<1>8. CurrEnd(g) > CurrEnd(h)
  BY <1>2, <1>3, <1>4, Sizes DEF CurrEnd
<1> QED
  BY <1>4, <1>7, <1>8

\* A round that joins the block with the next.
LEMMA JoinGood ==
    ASSUME NEW fr \in [Addr -> BOOLEAN], NEW wa \in [Ptr -> Nat \cup {NULL}],
           NEW h \in PassState,
           NEW Q \in SUBSET Addr, Good(h, fr, wa, Q),
           h.next[h.curr] # NULL, Joins(h, fr),
           NEW g, g = [curr |-> h.curr,
                       size |-> [h.size EXCEPT ![h.curr] = @ + H + h.size[h.next[h.curr]]],
                       next |-> [h.next EXCEPT ![h.curr] = h.next[h.next[h.curr]]]]
    PROVE  /\ g \in PassState
           /\ \E R \in SUBSET Addr : Good(g, fr, wa, R)
           /\ CurrEnd(g) > CurrEnd(h)
<1> DEFINE c == h.curr
           n == h.next[h.curr]
           R == Q \ {n}
<1>1. /\ h.size \in [Addr -> Nat] /\ h.next \in [Addr -> Addr \cup {NULL}]
      /\ c \in Q /\ c \in Addr /\ Tiles(Q, h.size, h.next)
  BY DEF Good, PassState
<1>2. \A b \in Q : b \in Nat /\ h.size[b] \in Nat
  <2>1. Q \subseteq Addr /\ Addr \subseteq Nat
    BY Sizes DEF Addr
  <2> QED
    BY <1>1, <2>1
<1>3. n \in Q /\ n \in Addr /\ c + H + h.size[c] = n /\ c < n
  <2> DEFINE sz == h.size
             nx == h.next
             at == h.curr
  <2>1. sz \in [Addr -> Nat] /\ at \in Q /\ Tiles(Q, sz, nx) /\ nx[at] # NULL
    BY <1>1
  <2> HIDE DEF sz, nx, at
  <2>2. nx[at] \in Q \cup {NULL}
    BY <2>1, BlockFacts
  <2>3. nx[at] # NULL => at + H + sz[at] = nx[at] /\ nx[at] \in Addr /\ at < nx[at]
    BY <2>1, BlockFacts
  <2> QED
    BY <2>1, <2>2, <2>3 DEF sz, nx, at
<1>4. fr[c] /\ fr[n]
  BY DEF Joins
<1>5. /\ g.curr = c
      /\ g.size[c] = h.size[c] + H + h.size[n]
      /\ g.next[c] = h.next[n]
      /\ \A b \in Q \ {c} : g.size[b] = h.size[b] /\ g.next[b] = h.next[b]
  BY <1>1
<1>6. g \in PassState
  <2>1. h.size[c] + H + h.size[n] \in Nat /\ h.next[n] \in Addr \cup {NULL}
    BY <1>1, <1>2, <1>3, Sizes
  <2> QED
    BY <2>1, <1>1 DEF PassState
<1>7. CurrEnd(g) > CurrEnd(h)
  BY <1>1, <1>2, <1>3, <1>5, Sizes DEF CurrEnd
<1>8. \A b \in Q : /\ b + H + h.size[b] = IF h.next[b] = NULL THEN HeapSize ELSE h.next[b]
                   /\ h.next[b] \in Q \cup {NULL}
  BY <1>1 DEF Tiles, H
<1>9. \A b, d \in Q : b < d => b + H + h.size[b] <= d
  BY <1>1 DEF Tiles, H
<1> HIDE DEF c, n
<1>10. \A b \in Q : h.next[b] = n => b = c
  <2> SUFFICES ASSUME NEW b \in Q, h.next[b] = n, b # c PROVE FALSE
    OBVIOUS
  <2>1. b + H + h.size[b] = n /\ b \in Nat /\ c \in Nat /\ n \in Nat /\ h.size[b] \in Nat /\ h.size[c] \in Nat
    BY <1>1, <1>2, <1>3, <1>8, Sizes DEF n, NULL
  <2>2. CASE b < c
    BY <2>1, <2>2, <1>1, <1>3, <1>9
  <2>3. CASE c < b
    BY <2>1, <2>3, <1>1, <1>3, <1>9, Sizes
  <2> QED
    BY <2>1, <2>2, <2>3
<1>11. h.next[n] # n /\ c # n
  BY <1>1, <1>2, <1>3, <1>10
<1>12. Tiles(R, g.size, g.next)
  <2>1. free_list \in R
    BY <1>1, <1>2, <1>3 DEF Tiles, free_list
  <2>2. ASSUME NEW b \in R
        PROVE  /\ b + H + g.size[b] = IF g.next[b] = NULL THEN HeapSize ELSE g.next[b]
               /\ g.next[b] \in R \cup {NULL}
    <3>1. CASE b = c
      <4>1. c + H + (h.size[c] + H + h.size[n]) = n + H + h.size[n]
        BY <1>1, <1>2, <1>3, Sizes
      <4> QED
        BY <3>1, <4>1, <1>3, <1>5, <1>8, <1>11
    <3>2. CASE b # c
      BY <3>2, <1>5, <1>8, <1>10
    <3> QED
      BY <3>1, <3>2
  <2>3. ASSUME NEW b \in R, NEW d \in R, b < d
        PROVE  b + H + g.size[b] <= d
    <3>1. CASE b = c
      <4>1. n <= d
        BY <2>3, <3>1, <1>1, <1>3, <1>9
      <4>2. n < d
        BY <4>1, <1>2, <1>3
      <4>3. n + H + h.size[n] <= d
        BY <4>2, <1>3, <1>9
      <4>4. c + H + (h.size[c] + H + h.size[n]) = n + H + h.size[n]
        BY <1>1, <1>2, <1>3, Sizes
      <4> QED
        BY <3>1, <4>3, <4>4, <1>5
    <3>2. CASE b # c
      BY <2>3, <3>2, <1>5, <1>9
    <3> QED
      BY <3>1, <3>2
  <2> QED
    BY <2>1, <2>2, <2>3 DEF Tiles, H
<1>13. UsedIn(R, g.size, fr, wa)
  <2> SUFFICES ASSUME NEW p \in Ptr, wa[p] # NULL
               PROVE  p - H \in R /\ ~fr[p - H] /\ 4 * g.size[p - H] >= wa[p]
    BY DEF UsedIn
  <2>1. p - H \in Q /\ ~fr[p - H] /\ 4 * h.size[p - H] >= wa[p]
    BY DEF Good, UsedIn
  <2>2. p - H # c /\ p - H # n
    BY <2>1, <1>4
  <2> QED
    BY <2>1, <2>2, <1>5
<1>14. \A b \in R : (b < g.curr /\ fr[b] /\ g.next[b] # NULL) => ~fr[g.next[b]]
  <2>1. \A b \in Q : (b < c /\ fr[b] /\ h.next[b] # NULL) => ~fr[h.next[b]]
    BY DEF Good, c
  <2>2. ~(c < c)
    BY <1>1, <1>2
  <2> QED
    BY <2>1, <2>2, <1>5
<1>15. Good(g, fr, wa, R)
  BY <1>1, <1>5, <1>11, <1>12, <1>13, <1>14 DEF Good
<1> QED
  BY <1>6, <1>7, <1>15

LEMMA PassStepGood ==
    ASSUME NEW fr \in [Addr -> BOOLEAN], NEW wa \in [Ptr -> Nat \cup {NULL}],
           NEW h \in PassState,
           \E Q \in SUBSET Addr : Good(h, fr, wa, Q)
    PROVE  LET g == PassStep(h, fr) IN
           /\ g \in PassState
           /\ \E Q \in SUBSET Addr : Good(g, fr, wa, Q)
           /\ h.next[h.curr] = NULL => g = h
           /\ h.next[h.curr] # NULL => CurrEnd(g) > CurrEnd(h)
<1>1. PICK Q \in SUBSET Addr : Good(h, fr, wa, Q)
  OBVIOUS
<1>2. CASE h.next[h.curr] = NULL
  BY <1>1, <1>2 DEF PassStep
<1>3. CASE h.next[h.curr] # NULL /\ Joins(h, fr)
  <2>1. PassStep(h, fr) =
          [curr |-> h.curr,
           size |-> [h.size EXCEPT ![h.curr] = @ + H + h.size[h.next[h.curr]]],
           next |-> [h.next EXCEPT ![h.curr] = h.next[h.next[h.curr]]]]
    BY <1>3 DEF PassStep, H
  <2> QED
    BY <1>1, <1>3, <2>1, JoinGood
<1>4. CASE h.next[h.curr] # NULL /\ ~Joins(h, fr)
  <2>1. PassStep(h, fr) = [h EXCEPT !.curr = h.next[h.curr]]
    BY <1>4 DEF PassStep
  <2> QED
    BY <1>1, <1>4, <2>1, AdvanceGood
<1> QED
  BY <1>2, <1>3, <1>4

\* The pass as a sequence of states, each got from the one before.
LEMMA PassRounds ==
    ASSUME HeapType,
           NEW fr \in [Addr -> BOOLEAN], NEW wa \in [Ptr -> Nat \cup {NULL}],
           NEW P0 \in SUBSET Addr,
           Good([curr |-> free_list, size |-> size, next |-> next], fr, wa, P0)
    PROVE  \A k \in 0..HeapSize :
              /\ Pass(fr)[k] \in {h \in PassState : \E Q \in SUBSET Addr : Good(h, fr, wa, Q)}
              /\ Pass(fr)[k] = IF k = 0 THEN [curr |-> free_list, size |-> size, next |-> next]
                               ELSE PassStep(Pass(fr)[k - 1], fr)
<1> DEFINE G == {h \in PassState : \E Q \in SUBSET Addr : Good(h, fr, wa, Q)}
           start == [curr |-> free_list, size |-> size, next |-> next]
           Nx(h) == PassStep(h, fr)
           F(f) == [k \in 0..HeapSize |-> IF k = 0 THEN start ELSE Nx(f[k - 1])]
<1>1. Pass(fr) = CHOOSE f : f = F(f)
  BY DEF Pass
<1>2. start \in G
  BY Sizes DEF HeapType, PassState
<1>3. \A h \in G : Nx(h) \in G
  BY PassStepGood
<1>4. HeapSize \in Nat
  BY Sizes
<1> HIDE DEF G, start, Nx
<1>5. \E f \in [0..HeapSize -> G] : f = F(f)
  <2> DEFINE Upto(n, g) == g[0] = start /\ \A k \in 1..n : g[k] = Nx(g[k - 1])
             S == {n \in Nat : \E g \in [0..n -> G] : Upto(n, g)}
  <2>1. 0 \in S
    <3>1. [k \in 0..0 |-> start] \in [0..0 -> G] /\ Upto(0, [k \in 0..0 |-> start])
      BY <1>2
    <3> QED
      BY <3>1
  <2>2. \A n \in Nat : n \in S => n + 1 \in S
    <3> SUFFICES ASSUME NEW n \in Nat, NEW g \in [0..n -> G], Upto(n, g)
                 PROVE  \E f \in [0..(n + 1) -> G] : Upto(n + 1, f)
      OBVIOUS
    <3> DEFINE f == [k \in 0..(n + 1) |-> IF k = n + 1 THEN Nx(g[n]) ELSE g[k]]
    <3>1. f \in [0..(n + 1) -> G]
      BY <1>3
    <3>2. Upto(n + 1, f)
      OBVIOUS
    <3> QED
      BY <3>1, <3>2
  <2>3. HeapSize \in S
    BY <1>4, <2>1, <2>2, NatSetInduction
  <2>4. PICK g \in [0..HeapSize -> G] : Upto(HeapSize, g)
    BY <2>3
  <2>5. g = F(g)
    BY <2>4, <1>4
  <2> QED
    BY <2>5
<1> DEFINE p == Pass(fr)
<1>6. p = F(p)
  BY <1>1, <1>5
<1> HIDE DEF p
<1>7. \A k \in 0..HeapSize : p[k] = IF k = 0 THEN start ELSE Nx(p[k - 1])
  BY <1>6
<1> DEFINE S == {n \in Nat : n <= HeapSize => p[n] \in G}
<1>8. 0 \in S
  BY <1>2, <1>4, <1>7
<1>9. \A n \in Nat : n \in S => n + 1 \in S
  BY <1>3, <1>4, <1>7
<1>10. Nat \subseteq S
  BY <1>8, <1>9, NatSetInduction
<1> QED
  BY <1>4, <1>7, <1>10 DEF p, G, start, Nx

\* After HeapSize rounds the pass is at the last block.
LEMMA PassEnds ==
    ASSUME HeapType,
           NEW fr \in [Addr -> BOOLEAN], NEW wa \in [Ptr -> Nat \cup {NULL}],
           NEW P0 \in SUBSET Addr,
           Good([curr |-> free_list, size |-> size, next |-> next], fr, wa, P0)
    PROVE  LET h == Pass(fr)[HeapSize] IN
           h \in PassState /\ h.next[h.curr] = NULL /\ \E Q \in SUBSET Addr : Good(h, fr, wa, Q)
<1> DEFINE p == Pass(fr)
           G == {h \in PassState : \E Q \in SUBSET Addr : Good(h, fr, wa, Q)}
           Far(k) == p[k].next[p[k].curr] = NULL \/ CurrEnd(p[k]) >= k
           S == {k \in Nat : k <= HeapSize => Far(k)}
<1>1. \A k \in 0..HeapSize :
         /\ p[k] \in G
         /\ p[k] = IF k = 0 THEN [curr |-> free_list, size |-> size, next |-> next]
                   ELSE PassStep(p[k - 1], fr)
  BY PassRounds
<1> HIDE DEF p
<1>2. ASSUME NEW h \in G
      PROVE  /\ CurrEnd(h) \in Nat
             /\ h.next[h.curr] # NULL => CurrEnd(h) < HeapSize
  <2> PICK Q \in SUBSET Addr : Good(h, fr, wa, Q)
    OBVIOUS
  <2> DEFINE sz == h.size
             nx == h.next
             at == h.curr
  <2>1. sz \in [Addr -> Nat] /\ at \in Q /\ Tiles(Q, sz, nx)
    BY DEF Good, PassState
  <2> HIDE DEF sz, nx, at
  <2>2. nx[at] \in Q \cup {NULL} /\ at \in Nat /\ sz[at] \in Nat
    BY <2>1, BlockFacts
  <2>3. nx[at] # NULL => at + H + sz[at] = nx[at] /\ nx[at] \in Addr /\ at < nx[at]
    BY <2>1, BlockFacts
  <2> QED
    BY <2>2, <2>3, Sizes DEF sz, nx, at, CurrEnd, Addr
<1>3. 0 \in S
  <2>1. 0 \in 0..HeapSize
    BY Sizes
  <2>2. p[0] \in G
    BY <1>1, <2>1
  <2>3. CurrEnd(p[0]) >= 0
    BY <1>2, <2>2
  <2> QED
    BY <2>3
<1>4. ASSUME NEW k \in Nat, k \in S PROVE k + 1 \in S
  <2> SUFFICES ASSUME k + 1 <= HeapSize PROVE Far(k + 1)
    OBVIOUS
  <2>1. k \in 0..HeapSize /\ k + 1 \in 0..HeapSize /\ Far(k)
    BY <1>4, Sizes
  <2>2. p[k] \in G /\ p[k + 1] \in G /\ p[k + 1] = PassStep(p[k], fr)
    BY <1>1, <2>1
  <2> DEFINE h == p[k]
  <2>3. h \in PassState /\ \E Q \in SUBSET Addr : Good(h, fr, wa, Q)
    BY <2>2
  <2> HIDE DEF h
  <2>4. /\ h.next[h.curr] = NULL => PassStep(h, fr) = h
        /\ h.next[h.curr] # NULL => CurrEnd(PassStep(h, fr)) > CurrEnd(h)
    BY <2>3, PassStepGood
  <2>5. CurrEnd(p[k]) \in Nat /\ CurrEnd(p[k + 1]) \in Nat
    BY <1>2, <2>2
  <2> QED
    BY <2>1, <2>2, <2>4, <2>5 DEF h
<1>5. HeapSize \in S /\ HeapSize \in 0..HeapSize
  <2> HIDE DEF S
  <2>1. \A n \in Nat : n \in S => n + 1 \in S
    BY <1>4
  <2>2. Nat \subseteq S
    BY <1>3, <2>1, NatSetInduction
  <2> QED
    BY <2>2, Sizes
<1>6. p[HeapSize] \in G
  BY <1>1, <1>5
<1>7. p[HeapSize].next[p[HeapSize].curr] = NULL
  BY <1>2, <1>5, <1>6, Sizes
<1> QED
  BY <1>6, <1>7 DEF p

\* The pass leaves the heap tiled, what is in use in place, and no two
\* neighbours free.
LEMMA CoalesceInv ==
    ASSUME HeapType, NEW Q \in SUBSET Addr, Tiles(Q, size, next),
           NEW fr \in [Addr -> BOOLEAN],
           want' \in [Ptr -> Nat \cup {NULL}], UsedIn(Q, size, fr, want'),
           Coalesce(fr)
    PROVE  HeapInv'
<1> DEFINE start == [curr |-> free_list, size |-> size, next |-> next]
           h == Pass(fr)[HeapSize]
<1>1. Good(start, fr, want', Q)
  <2>1. free_list \in Q /\ \A b \in Q : ~(b < free_list)
    BY Sizes DEF Tiles, Addr, free_list
  <2> QED
    BY <2>1 DEF Good
<1>2. h \in PassState /\ h.next[h.curr] = NULL /\ \E R \in SUBSET Addr : Good(h, fr, want', R)
  BY <1>1, PassEnds
<1>3. size' = h.size /\ next' = h.next /\ free' = fr
  BY DEF Coalesce
<1> HIDE DEF h
<1>4. HeapType'
  BY <1>2, <1>3 DEF HeapType, PassState
<1>5. PICK R \in SUBSET Addr : Good(h, fr, want', R)
  BY <1>2
<1>6. Tiles(R, size', next') /\ UsedIn(R, size', free', want')
  BY <1>3, <1>5 DEF Good
<1>7. Joined(R, next', free')
  <2> SUFFICES ASSUME NEW b \in R, free'[b], next'[b] # NULL PROVE ~free'[next'[b]]
    BY DEF Joined
  <2>1. h.curr \in R /\ h.curr \in Nat /\ b \in Nat /\ size'[b] \in Nat
    <3>1. R \subseteq Addr /\ Addr \subseteq Nat
      BY Sizes DEF Addr
    <3> QED
      BY <3>1, <1>4, <1>5 DEF Good, HeapType
  <2>2. h.curr + H + size'[h.curr] = HeapSize /\ size'[h.curr] \in Nat
    BY <1>2, <1>3, <1>4, <1>6, <2>1 DEF Tiles, H, HeapType
  <2>3. ~(h.curr < b)
    <3>1. h.curr < b => HeapSize <= b
      BY <1>6, <2>1, <2>2 DEF Tiles, H
    <3> QED
      BY <3>1, Sizes DEF Addr
  <2>4. b # h.curr
    BY <1>2, <1>3
  <2>5. b < h.curr
    BY <2>1, <2>3, <2>4
  <2> QED
    BY <2>5, <1>3, <1>5 DEF Good
<1> QED
  BY <1>4, <1>6, <1>7 DEF HeapInv, Blocks

LEMMA KfreeInv == ASSUME HeapInv, NEW ptr \in Ptr, kfree(ptr) PROVE HeapInv'
<1>1. HeapType
  BY DEF HeapInv
<1>2. PICK Q \in SUBSET Addr : Blocks(Q)
  BY DEF HeapInv
<1>3. want[ptr] # NULL /\ want' = [want EXCEPT ![ptr] = NULL]
  BY DEF kfree
<1>4. want' \in [Ptr -> Nat \cup {NULL}]
  BY <1>1, <1>3 DEF HeapType
<1>5. \A p \in Ptr : want'[p] # NULL => p # ptr /\ want'[p] = want[p]
  BY <1>1, <1>3 DEF HeapType
<1>6. CASE UNCHANGED <<size, next, free>>
  <2>1. UsedIn(Q, size', free', want')
    BY <1>2, <1>5, <1>6 DEF Blocks, UsedIn
  <2>2. Blocks(Q)'
    BY <2>1, <1>2, <1>6 DEF Blocks
  <2> QED
    BY <2>2, <1>1, <1>4, <1>6 DEF HeapInv, HeapType
<1>7. CASE Coalesce([free EXCEPT ![ptr - H] = TRUE])
  <2> DEFINE fr == [free EXCEPT ![ptr - H] = TRUE]
  <2>1. fr \in [Addr -> BOOLEAN]
    BY <1>1 DEF HeapType
  <2>2. UsedIn(Q, size, fr, want')
    <3> SUFFICES ASSUME NEW p \in Ptr, want'[p] # NULL
                 PROVE  p - H \in Q /\ ~fr[p - H] /\ 4 * size[p - H] >= want'[p]
      BY DEF UsedIn
    <3>1. p # ptr /\ want'[p] = want[p]
      BY <1>5
    <3>2. p - H \in Q /\ ~free[p - H] /\ 4 * size[p - H] >= want[p]
      BY <1>2, <3>1 DEF Blocks, UsedIn
    <3>3. p - H # ptr - H /\ p - H \in Addr
      BY <3>1, <3>2, Sizes DEF Ptr
    <3> QED
      BY <1>1, <3>1, <3>2, <3>3 DEF HeapType
  <2> HIDE DEF fr
  <2>3. Coalesce(fr)
    BY <1>7 DEF fr
  <2> QED
    BY <1>1, <1>2, <1>4, <2>1, <2>2, <2>3, CoalesceInv DEF Blocks
<1> QED
  BY <1>6, <1>7 DEF kfree, H
---------------------------------------------------------------------------
(* The theorems.                                                           *)

LEMMA StepInv == HeapInv /\ [Next]_vars => HeapInv'
<1> SUFFICES ASSUME HeapInv, [Next]_vars PROVE HeapInv'
  OBVIOUS
<1>1. ASSUME NEW bytes \in Requests, kmalloc(bytes) PROVE HeapInv'
  BY <1>1, KmallocInv
<1>2. ASSUME NEW ptr \in Ptr, kfree(ptr) PROVE HeapInv'
  BY <1>2, KfreeInv
<1>3. CASE UNCHANGED vars
  BY <1>3 DEF vars, HeapInv, HeapType, Blocks, Tiles, UsedIn, Joined
<1> QED
  BY <1>1, <1>2, <1>3 DEF Next

\* The inductive invariant: some set of blocks tiles the heap, those in use
\* among them hold what the kernel owns, and no two neighbours are free.
THEOREM HeapInvariant == Spec => []HeapInv
<1>1. Init => HeapInv
  BY InitInv
<1>2. HeapInv /\ [Next]_vars => HeapInv'
  BY StepInv
<1> QED
  BY <1>1, <1>2, PTL DEF Spec

LEMMA InvImplies == HeapInv => Tiled /\ HeldIsUsed /\ NoFreeNeighbours
<1> SUFFICES ASSUME HeapInv PROVE Tiled /\ HeldIsUsed /\ NoFreeNeighbours
  OBVIOUS
<1>1. PICK Q \in SUBSET Addr : Blocks(Q)
  BY DEF HeapInv
<1>2. Listed = Q
  BY <1>1, ListedAreTheBlocks DEF HeapInv, Blocks
<1>3. Tiled
  BY <1>1, <1>2 DEF Blocks, Tiled
<1>4. HeldIsUsed
  BY <1>1, <1>2 DEF Blocks, UsedIn, HeldIsUsed, H
<1>5. NoFreeNeighbours
  BY <1>1, <1>2 DEF Blocks, Joined, NoFreeNeighbours
<1> QED
  BY <1>3, <1>4, <1>5

\* Whatever kmalloc splits and kfree joins, the list covers the heap exactly.
THEOREM HeapTiled == Spec => []Tiled
BY HeapInvariant, InvImplies, PTL

\* No join of kfree swallows a block whose pointer the kernel holds.
THEOREM HeldBlocksAreUsed == Spec => []HeldIsUsed
BY HeapInvariant, InvImplies, PTL

\* The one pass of kfree leaves no two neighbours free.
THEOREM HeapCoalesced == Spec => []NoFreeNeighbours
BY HeapInvariant, InvImplies, PTL

\* kmalloc hands out what does not overlap anything held.
LEMMA KmallocAllocates ==
    ASSUME HeapInv, NEW bytes \in Requests, kmalloc(bytes)
    PROVE  Abstract!Next
<1> DEFINE n == Words(bytes)
<1>1. PICK Q \in SUBSET Addr : Blocks(Q)
  BY DEF HeapInv
<1>2. HeapType /\ Tiles(Q, size, next)
  BY <1>1 DEF HeapInv, Blocks
<1>3. PICK b \in Q : /\ free[b] /\ size[b] >= n
                     /\ want' = [want EXCEPT ![b + H] = bytes]
  <2>1. PICK b \in FirstFit(n) : want' = [want EXCEPT ![b + H] = bytes]
    BY DEF kmalloc, H
  <2>2. n \in Nat
    BY RequestAssumption, WordsFacts
  <2> HIDE DEF n
  <2>3. b \in Q /\ free[b] /\ size[b] >= n
    BY <1>2, <2>1, <2>2, FirstFitIsFree
  <2> QED
    BY <2>1, <2>3
<1>4. bytes \in Nat /\ n \in Nat /\ bytes # NULL
  BY RequestAssumption, WordsFacts DEF NULL
<1>5. size \in [Addr -> Nat] /\ Q \subseteq Addr /\ Addr \subseteq Nat
  BY <1>2, Sizes DEF HeapType, Addr
<1>6. b \in Nat /\ size[b] \in Nat /\ b + H \in Ptr
  BY <1>2, <1>3, <1>5, BlockFacts
<1>7. ASSUME NEW q \in Ptr, want[q] # NULL
      PROVE  /\ q # b + H
             /\ Abstract!Range(b + H, n) \cap Abstract!Range(q, Words(want[q])) = {}
  <2> DEFINE c == q - H
             m == Words(want[q])
  <2>1. c \in Q /\ ~free[c] /\ 4 * size[c] >= want[q]
    BY <1>1, <1>7 DEF Blocks, UsedIn
  <2>2. q \in Nat /\ c \in Nat /\ q = c + H /\ size[c] \in Nat
    BY <1>5, <2>1, Sizes DEF Ptr
  <2>3. want[q] \in Nat
    BY <1>2, <1>7 DEF HeapType
  <2>4. m \in Nat /\ m <= size[c]
    BY <2>1, <2>2, <2>3, WordsFacts
  <2>5. b # c
    BY <1>3, <2>1
  <2> HIDE DEF c, m
  <2>6. b < c => b + H + size[b] <= c
    BY <1>2, <1>3, <2>1 DEF Tiles, H
  <2>7. c < b => c + H + size[c] <= b
    BY <1>2, <1>3, <2>1 DEF Tiles, H
  <2> HIDE DEF n
  <2>8. (b + H)..(b + H + n - 1) \cap q..(q + m - 1) = {}
    BY <1>3, <1>4, <1>6, <2>2, <2>4, <2>5, <2>6, <2>7, Sizes
  <2>9. q # b + H
    BY <1>6, <2>2, <2>5, Sizes
  <2> QED
    BY <2>8, <2>9 DEF Abstract!Range, m, n
<1>8. want[b + H] = NULL
  BY <1>6, <1>7
<1>9. Abstract!Alloc(b + H, n)
  <2>1. owned[b + H] = NULL
    BY <1>6, <1>8 DEF owned
  <2>2. \A q \in Ptr : owned[q] # NULL =>
           Abstract!Range(b + H, n) \cap Abstract!Range(q, owned[q]) = {}
    <3> SUFFICES ASSUME NEW q \in Ptr, owned[q] # NULL
                 PROVE  Abstract!Range(b + H, n) \cap Abstract!Range(q, owned[q]) = {}
      OBVIOUS
    <3>1. want[q] # NULL /\ owned[q] = Words(want[q])
      BY DEF owned
    <3> QED
      BY <3>1, <1>7
  <2>3. owned' = [owned EXCEPT ![b + H] = n]
    BY <1>2, <1>3, <1>4, <1>6 DEF owned, HeapType
  <2> QED
    BY <2>1, <2>2, <2>3 DEF Abstract!Alloc
<1> QED
  BY <1>6, <1>9 DEF Abstract!Next

LEMMA KfreeReleases == ASSUME HeapInv, NEW ptr \in Ptr, kfree(ptr) PROVE Abstract!Next
<1>1. want[ptr] # NULL /\ want' = [want EXCEPT ![ptr] = NULL] /\ HeapType
  BY DEF kfree, HeapInv
<1>2. owned[ptr] # NULL
  <2>1. want[ptr] \in Nat
    BY <1>1 DEF HeapType
  <2> QED
    BY <1>1, <2>1, WordsFacts DEF owned, NULL
<1>3. owned' = [owned EXCEPT ![ptr] = NULL]
  BY <1>1 DEF owned, HeapType
<1> QED
  BY <1>2, <1>3 DEF Abstract!Next, Abstract!Release

\* kmalloc and kfree implement the abstract allocator, step by step.
THEOREM HeapIsAnAllocator == Spec => ImplementsAllocator
<1>1. Init => Abstract!Init
  BY DEF Init, Abstract!Init, owned
<1>2. HeapInv /\ [Next]_vars => [Abstract!Next]_owned
  <2> SUFFICES ASSUME HeapInv, [Next]_vars PROVE [Abstract!Next]_owned
    OBVIOUS
  <2>1. CASE UNCHANGED vars
    BY <2>1 DEF vars, owned
  <2> QED
    BY <2>1, KmallocAllocates, KfreeReleases DEF Next
<1> QED
  BY <1>1, <1>2, HeapInvariant, PTL DEF Spec, ImplementsAllocator, Abstract!Spec
=============================================================================
