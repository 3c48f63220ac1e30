----------------------------- MODULE ListLemmas ----------------------------
(* Induction over the naturals, what the rounds of a loop leave, and walks *)
(* along links.                                                            *)
(*                                                                         *)
(* Induction is stated with sets: a set of naturals that holds 0 and is    *)
(* closed under successor holds them all.  The proofs about recursive      *)
(* functions use it for the set of the numbers they are right on.          *)
EXTENDS Integers, TLAPS, WellFoundedInduction, Lists

\* Every set of naturals with a member has a least one.
LEMMA LeastNat ==
    ASSUME NEW T \in SUBSET Nat, T # {}
    PROVE  \E x \in T : \A y \in T : x <= y
<1> DEFINE R == {ss \in Nat \X Nat : ss[1] < ss[2]}
<1>1. IsWellFoundedOn(OpToRel(<, Nat), Nat)
  BY NatLessThanWellFounded
<1>2. \E x \in T : \A y \in T : ~ (<<y, x>> \in OpToRel(<, Nat))
  BY <1>1, WFMin, Zenon
<1>3. OpToRel(<, Nat) = R
  BY DEF OpToRel
<1> HIDE DEF R
<1>4. PICK x \in T : \A y \in T : ~ (<<y, x>> \in R)
  BY <1>2, <1>3, Zenon
<1>5. \A y \in T : ~ (y < x)
  BY <1>4 DEF R
<1> QED
  BY <1>5

\* A set that holds 0 and with n also n + 1 holds every natural number.
LEMMA NatSetInduction ==
    ASSUME NEW S, 0 \in S, \A n \in Nat : n \in S => n + 1 \in S
    PROVE  Nat \subseteq S
<1> DEFINE T == Nat \ S
<1> SUFFICES ASSUME T # {} PROVE FALSE
  OBVIOUS
<1>1. PICK x \in T : \A y \in T : x <= y
  BY LeastNat
<1>2. x # 0 /\ x - 1 \in Nat /\ x - 1 \notin T
  BY <1>1
<1>3. x - 1 \in S /\ (x - 1) + 1 = x
  BY <1>1, <1>2
<1> QED
  BY <1>1, <1>2, <1>3

\* The states of a loop of n rounds, from the first on.
IsHistory(g, n, first, step) == g = [k \in 0..n |-> IF k = 0 THEN first ELSE step[k][g[k - 1]]]

\* A loop of n rounds whose round k leads from A[k - 1] to A[k] has a history that
\* is in A[k] after k rounds.
LEMMA Iteration ==
    ASSUME NEW n \in Nat, NEW A, NEW step, NEW first, first \in A[0],
           \A k \in 1..n : \A x \in A[k - 1] : step[k][x] \in A[k]
    PROVE  \E g : IsHistory(g, n, first, step) /\ \A k \in 0..n : g[k] \in A[k]
<1> DEFINE All == UNION {A[k] : k \in 0..n}
           Upto(i, g) == /\ g[0] = first
                         /\ \A k \in 0..i : g[k] \in A[k]
                         /\ \A k \in 1..i : g[k] = step[k][g[k - 1]]
           S == {i \in Nat : i <= n => \E g \in [0..i -> All] : Upto(i, g)}
<1>0. n \in Nat /\ \A k \in 0..n : \A x \in A[k] : x \in All
  OBVIOUS
<1> HIDE DEF All
<1>1. 0 \in S
  <2> DEFINE g == [k \in 0..0 |-> first]
  <2>1. g \in [0..0 -> All] /\ Upto(0, g)
    BY <1>0
  <2> QED
    BY <2>1
<1>2. \A i \in Nat : i \in S => i + 1 \in S
  <2> SUFFICES ASSUME NEW i \in Nat, i \in S, i + 1 <= n
               PROVE  \E f \in [0..(i + 1) -> All] : Upto(i + 1, f)
    <3> HIDE DEF Upto
    <3> QED
      OBVIOUS
  <2>0. PICK g \in [0..i -> All] : Upto(i, g)
    <3> HIDE DEF Upto
    <3> QED
      BY <1>0
  <2> DEFINE y == step[i + 1][g[i]]
             f == [k \in 0..(i + 1) |-> IF k = i + 1 THEN y ELSE g[k]]
  <2>1. i + 1 \in 1..n /\ (i + 1) - 1 = i /\ i \in 0..i
    BY <1>0
  <2>2. y \in A[i + 1]
    BY <2>0, <2>1
  <2>3. y \in All
    BY <1>0, <2>1, <2>2
  <2> HIDE DEF y
  <2>6. f \in [0..(i + 1) -> All]
    BY <2>0, <2>3
  <2>4. f[0] = first /\ \A k \in 0..(i + 1) : f[k] \in A[k]
    BY <2>0, <2>2
  <2>5. \A k \in 1..(i + 1) : f[k] = step[k][f[k - 1]]
    BY <2>0 DEF y
  <2> QED
    BY <2>4, <2>5, <2>6
<1>3. n \in S
  BY <1>0, <1>1, <1>2, NatSetInduction
<1>4. PICK g \in [0..n -> All] : Upto(n, g)
  BY <1>3
<1>5. IsHistory(g, n, first, step)
  BY <1>4 DEF IsHistory
<1> QED
  BY <1>4, <1>5
---------------------------------------------------------------------------
(* Walks along links.                                                      *)

\* A walk that starts in Q and whose links lead to Q follows the links, in Q.
LEMMA WalkEquation ==
    ASSUME NEW bound \in Nat,
           NEW Q, NULL \in Q,
           NEW start \in Q,
           NEW succ, \A p \in Q \ {NULL} : succ[p] \in Q
    PROVE  LET w == Walk(start, succ, bound) IN
           \A k \in 0..bound :
              /\ w[k] \in Q
              /\ w[k] = IF k = 0 THEN start
                        ELSE IF w[k - 1] = NULL THEN NULL ELSE succ[w[k - 1]]
<1> DEFINE Nx(x) == IF x = NULL THEN NULL ELSE succ[x]
           F(h) == [k \in 0..bound |-> IF k = 0 THEN start ELSE Nx(h[k - 1])]
<1>0. bound \in Nat
  OBVIOUS
<1>1. Walk(start, succ, bound) = CHOOSE h : h = F(h)
  BY DEF Walk
<1>2. \A x \in Q : Nx(x) \in Q
  OBVIOUS
<1> HIDE DEF Nx
<1>3. \E h : h = F(h)
  <2> DEFINE Good(n, g) == g[0] = start /\ \A k \in 1..n : g[k] = Nx(g[k - 1])
             S == {n \in Nat : \E g \in [0..n -> Q] : Good(n, g)}
  <2>1. 0 \in S
    <3>1. [k \in 0..0 |-> start] \in [0..0 -> Q] /\ Good(0, [k \in 0..0 |-> start])
      OBVIOUS
    <3> QED
      BY <3>1
  <2>2. \A n \in Nat : n \in S => n + 1 \in S
    <3> SUFFICES ASSUME NEW n \in Nat, NEW g \in [0..n -> Q], Good(n, g)
                 PROVE  \E f \in [0..(n + 1) -> Q] : Good(n + 1, f)
      OBVIOUS
    <3> DEFINE f == [k \in 0..(n + 1) |-> IF k = n + 1 THEN Nx(g[n]) ELSE g[k]]
    <3>1. f \in [0..(n + 1) -> Q]
      BY <1>2
    <3>2. Good(n + 1, f)
      OBVIOUS
    <3> QED
      BY <3>1, <3>2
  <2>3. bound \in S
    BY <1>0, <2>1, <2>2, NatSetInduction
  <2>4. PICK g \in [0..bound -> Q] : Good(bound, g)
    BY <2>3
  <2>5. g = F(g)
    BY <2>4, <1>0
  <2> QED
    BY <2>5
<1> DEFINE w == Walk(start, succ, bound)
<1>4. w = F(w)
  BY <1>1, <1>3
<1> HIDE DEF w
<1>5. \A k \in 0..bound : w[k] = IF k = 0 THEN start ELSE Nx(w[k - 1])
  BY <1>4
<1> DEFINE S == {n \in Nat : n <= bound => w[n] \in Q}
<1>6. 0 \in S
  BY <1>5, <1>0
<1>7. \A n \in Nat : n \in S => n + 1 \in S
  BY <1>5, <1>0, <1>2
<1>8. Nat \subseteq S
  BY <1>6, <1>7, NatSetInduction
<1> QED
  BY <1>5, <1>8, <1>0 DEF w, Nx

\* In particular it stays in Q.
LEMMA WalkStaysIn ==
    ASSUME NEW bound \in Nat,
           NEW Q, NULL \in Q,
           NEW start \in Q,
           NEW succ, \A p \in Q \ {NULL} : succ[p] \in Q
    PROVE  \A k \in 0..bound : Walk(start, succ, bound)[k] \in Q
BY WalkEquation

\* The members of S are numbers from 1 to n.
Numbers(S, n) == S \subseteq 1..n

\* A walk from the head of a sorted list meets exactly its members.
LEMMA SortedWalk ==
    ASSUME NEW n \in Nat, NEW S, Numbers(S, n), NEW head, NEW succ, Sorted(head, succ, S)
    PROVE  LET w == Walk(head, succ, n) IN {w[k] : k \in 0..n} \ {NULL} = S
<1> DEFINE w == Walk(head, succ, n)
           Q == S \cup {NULL}
<1>0. NULL \notin S /\ \A p \in S : p \in Int /\ 1 <= p /\ p <= n
  BY DEF NULL, Numbers
<1>1. IsLast(head, S) /\ \A p \in S : IsLast(succ[p], {q \in S : q < p})
  BY DEF Sorted
<1>2. NULL \in Q /\ head \in Q /\ \A p \in Q \ {NULL} : succ[p] \in Q
  BY <1>1 DEF IsLast
<1>3. \A k \in 0..n : /\ w[k] \in Q
                      /\ w[k] = IF k = 0 THEN head
                                ELSE IF w[k - 1] = NULL THEN NULL ELSE succ[w[k - 1]]
  <2> HIDE DEF Q
  <2> QED
    BY <1>2, WalkEquation
<1> HIDE DEF w
<1> DEFINE Met(k, q) == \E j \in 0..k : w[j] = q
           P(k) == /\ w[k] # NULL => w[k] <= n - k
                   /\ \A q \in S : Met(k, q) \/ (w[k] # NULL /\ q < w[k])
           A == {k \in Nat : k <= n => P(k)}
<1>4. \A k \in Nat : Met(k, w[k]) /\ \A q : Met(k, q) => Met(k + 1, q)
  OBVIOUS
<1>5. \A q : Met(n, q) => \E j \in 0..n : w[j] = q
  OBVIOUS
<1> HIDE DEF Met
<1>6. 0 \in A
  <2>1. w[0] = head /\ Met(0, head)
    BY <1>3, <1>4
  <2>2. CASE S = {}
    BY <1>1, <2>1, <2>2 DEF IsLast
  <2>3. CASE S # {}
    <3>1. head \in S /\ \A q \in S : q <= head
      BY <1>1, <2>3 DEF IsLast
    <3>2. \A q \in S : q = head \/ q < head
      BY <1>0, <3>1
    <3> QED
      BY <1>0, <2>1, <3>1, <3>2
  <2> QED
    BY <2>2, <2>3
<1>7. \A k \in Nat : k \in A => k + 1 \in A
  <2> SUFFICES ASSUME NEW k \in Nat, k + 1 <= n, P(k) PROVE P(k + 1)
    OBVIOUS
  <2>1. /\ k \in 0..n /\ k + 1 \in 0..n /\ w[k] \in Q
        /\ w[k + 1] = IF w[k] = NULL THEN NULL ELSE succ[w[k]]
    BY <1>3
  <2>2. CASE w[k] = NULL
    BY <1>4, <2>1, <2>2
  <2>3. CASE w[k] # NULL
    <3> DEFINE p == w[k]
               B == {q \in S : q < p}
    <3>1. p \in S /\ p <= n - k /\ w[k + 1] = succ[p]
      BY <2>1, <2>3
    <3>2. IsLast(w[k + 1], B)
      BY <1>1, <3>1
    <3>3. \A q \in S : Met(k + 1, q) \/ q \in B
      <4>1. \A q \in S : Met(k, q) \/ q < p
        BY <2>3
      <4> QED
        BY <1>4, <4>1
    <3>4. CASE B = {}
      BY <3>2, <3>3, <3>4 DEF IsLast
    <3>5. CASE B # {}
      <4>1. w[k + 1] \in S /\ w[k + 1] < p /\ \A q \in B : q <= w[k + 1]
        BY <3>2, <3>5 DEF IsLast
      <4>0. p \in Int /\ w[k + 1] \in Int
        BY <1>0, <3>1, <4>1
      <4>2. w[k + 1] <= n - (k + 1)
        BY <3>1, <4>0, <4>1
      <4>3. \A q \in S : Met(k + 1, q) \/ q < w[k + 1]
        <5> SUFFICES ASSUME NEW q \in S, ~ Met(k + 1, q) PROVE q < w[k + 1]
          OBVIOUS
        <5>1. q <= w[k + 1] /\ q # w[k + 1]
          BY <1>4, <3>3, <4>1
        <5>2. q \in Int
          BY <1>0
        <5> QED
          BY <4>0, <5>1, <5>2
      <4> QED
        BY <1>0, <4>1, <4>2, <4>3
    <3> QED
      BY <3>4, <3>5
  <2> QED
    BY <2>2, <2>3
<1>8. P(n)
  <2>1. n \in A
    <3> HIDE DEF P
    <3> QED
      BY <1>6, <1>7, NatSetInduction
  <2> QED
    BY <2>1
<1>9. w[n] = NULL
  <2>1. w[n] \in S => w[n] \in Int /\ 1 <= w[n]
    BY <1>0
  <2>2. w[n] \in Q /\ (w[n] # NULL => w[n] <= 0)
    BY <1>3, <1>8
  <2> QED
    BY <2>1, <2>2
<1>10. \A q \in S : \E j \in 0..n : w[j] = q
  BY <1>5, <1>8, <1>9
<1>11. \A k \in 0..n : w[k] \in S \cup {NULL}
  BY <1>3
<1>12. {w[k] : k \in 0..n} \ {NULL} = S
  BY <1>0, <1>10, <1>11, Zenon
<1> QED
  BY <1>12 DEF w

\* A walk among nodes none of which ends it.
LEMMA EndlessWalk ==
    ASSUME NEW n \in Nat, NEW S, NULL \notin S, NEW start \in S,
           NEW succ, \A p \in S : succ[p] \in S
    PROVE  LET w == Walk(start, succ, n) IN
           \A k \in 0..n : w[k] \in S /\ w[k] = IF k = 0 THEN start ELSE succ[w[k - 1]]
<1> DEFINE w == Walk(start, succ, n)
           Q == S \cup {NULL}
<1>1. \A k \in 0..n : /\ w[k] \in Q
                      /\ w[k] = IF k = 0 THEN start
                                ELSE IF w[k - 1] = NULL THEN NULL ELSE succ[w[k - 1]]
  <2>1. NULL \in Q /\ start \in Q /\ \A p \in Q \ {NULL} : succ[p] \in Q
    OBVIOUS
  <2> HIDE DEF Q
  <2> QED
    BY <2>1, WalkEquation
<1> HIDE DEF w
<1> DEFINE A == {k \in Nat : k <= n => w[k] # NULL}
<1>2. 0 \in A
  BY <1>1
<1>3. \A k \in Nat : k \in A => k + 1 \in A
  <2> SUFFICES ASSUME NEW k \in Nat, k + 1 <= n, w[k] # NULL PROVE w[k + 1] # NULL
    OBVIOUS
  <2>1. k \in 0..n /\ k + 1 \in 0..n /\ (k + 1) - 1 = k
    OBVIOUS
  <2>2. w[k] \in S /\ w[k + 1] = succ[w[k]]
    BY <1>1, <2>1
  <2> QED
    BY <2>2
<1>4. \A k \in Nat : k \in A
  BY <1>2, <1>3, NatSetInduction
<1>5. \A k \in 0..n : w[k] # NULL /\ (k # 0 => w[k - 1] # NULL)
  BY <1>4
<1> QED
  BY <1>1, <1>5 DEF w

\* The same walk with a step from the end back to the head, begun at any of them,
\* meets them all.
LEMMA RingWalk ==
    ASSUME NEW n \in Nat, NEW S, Numbers(S, n), NEW head, NEW succ, Sorted(head, succ, S),
           NEW ring, \A p \in S : ring[p] = IF succ[p] # NULL THEN succ[p] ELSE head,
           NEW start \in S
    PROVE  /\ \A k \in 0..n : Walk(start, ring, n)[k] \in S
           /\ \A q \in S : \E k \in 0..n : Walk(start, ring, n)[k] = q
<1> DEFINE w == Walk(start, ring, n)
<1>0. NULL \notin S /\ \A p \in S : p \in Int /\ 1 <= p /\ p <= n
  BY DEF NULL, Numbers
<1>1. head \in S /\ \A q \in S : q <= head
  BY DEF Sorted, IsLast
<1>2. \A p \in S : \/ /\ ring[p] \in S /\ ring[p] < p
                      /\ \A q \in S : q < p => q <= ring[p]
                   \/ ring[p] = head /\ \A q \in S : ~ (q < p)
  <2> SUFFICES ASSUME NEW p \in S
               PROVE  \/ /\ ring[p] \in S /\ ring[p] < p
                         /\ \A q \in S : q < p => q <= ring[p]
                      \/ ring[p] = head /\ \A q \in S : ~ (q < p)
    OBVIOUS
  <2> DEFINE Below(x) == {q \in S : q < x}
  <2>1. IsLast(succ[p], Below(p))
    BY DEF Sorted
  <2>2. CASE Below(p) = {}
    BY <2>1, <2>2 DEF IsLast
  <2>3. CASE Below(p) # {}
    BY <1>0, <2>1, <2>3 DEF IsLast
  <2> QED
    BY <2>2, <2>3
<1>3. \A p \in S : ring[p] \in S
  BY <1>1, <1>2
<1>4. \A k \in 0..n : w[k] \in S /\ w[k] = IF k = 0 THEN start ELSE ring[w[k - 1]]
  BY <1>0, <1>3, EndlessWalk
<1> HIDE DEF w
<1> DEFINE Met(k, q) == \E j \in 0..k : w[j] = q
           Down(k) == /\ w[k] <= start - k
                      /\ \A q \in S : (w[k] <= q /\ q <= start) => Met(k, q)
           Again(k) == /\ w[k] <= n + start - k
                       /\ \A q \in S : (q <= start \/ w[k] <= q) => Met(k, q)
           All(k) == \A q \in S : Met(k, q)
           P(k) == w[k] \in S /\ (Down(k) \/ Again(k) \/ All(k))
           A == {k \in Nat : k <= n => P(k)}
<1>5. \A k \in Nat : Met(k, w[k]) /\ \A q : Met(k, q) => Met(k + 1, q)
  OBVIOUS
<1>6. \A q : Met(n, q) => \E j \in 0..n : w[j] = q
  OBVIOUS
<1> HIDE DEF Met
<1>7. 0 \in A
  <2>1. w[0] = start /\ Met(0, start)
    BY <1>4, <1>5
  <2>2. \A q \in S : (start <= q /\ q <= start) => q = start
    BY <1>0
  <2>3. Down(0)
    BY <1>0, <2>1, <2>2
  <2> QED
    BY <2>1, <2>3
<1>8. \A k \in Nat : k \in A => k + 1 \in A
  <2> SUFFICES ASSUME NEW k \in Nat, k + 1 <= n, P(k) PROVE P(k + 1)
    OBVIOUS
  <2> DEFINE p == w[k]
             r == ring[p]
  <2>0. k + 1 \in 0..n /\ (k + 1) - 1 = k
    OBVIOUS
  <2>1. p \in S /\ p \in Int /\ 1 <= p /\ w[k + 1] = r
    <3>1. p \in S /\ w[k + 1] = r
      BY <1>4, <2>0
    <3> QED
      BY <1>0, <3>1
  <2>2. Met(k + 1, r) /\ \A q : Met(k, q) => Met(k + 1, q)
    BY <1>5, <2>1
  <2>3. CASE All(k)
    BY <1>1, <1>2, <2>1, <2>2, <2>3
  <2>4. CASE r \in S /\ r < p /\ \A q \in S : q < p => q <= r
    <3>2. r \in Int
      BY <1>0, <2>4
    <3>1. ASSUME NEW q \in S PROVE r <= q => q = r \/ p <= q
      <4>1. q \in Int /\ (q < p => q <= r)
        BY <1>0, <2>4
      <4> QED
        BY <2>1, <3>2, <4>1
    <3>3. CASE Down(k)
      <4>1. r <= start - (k + 1)
        BY <1>0, <2>1, <2>4, <3>2, <3>3
      <4>2. \A q \in S : (r <= q /\ q <= start) => Met(k + 1, q)
        BY <2>2, <3>1, <3>3
      <4> QED
        BY <2>1, <2>4, <4>1, <4>2
    <3>4. CASE Again(k)
      <4>1. r <= n + start - (k + 1)
        BY <1>0, <2>1, <2>4, <3>2, <3>4
      <4>2. \A q \in S : (q <= start \/ r <= q) => Met(k + 1, q)
        BY <2>2, <3>1, <3>4
      <4> QED
        BY <2>1, <2>4, <4>1, <4>2
    <3> QED
      BY <2>3, <3>3, <3>4
  <2>5. CASE r = head /\ \A q \in S : ~ (q < p)
    <3>1. \A q \in S : p <= q
      BY <1>0, <2>1, <2>5
    <3>2. CASE Down(k)
      <4>1. r <= n + start - (k + 1)
        BY <1>0, <1>1, <2>1, <2>5, <3>2
      <4>2. \A q \in S : q <= start => Met(k + 1, q)
        BY <2>2, <3>1, <3>2
      <4>3. \A q \in S : r <= q => q = r
        BY <1>0, <1>1, <2>5
      <4> QED
        BY <1>1, <2>1, <2>2, <2>5, <4>1, <4>2, <4>3
    <3>3. CASE Again(k)
      BY <1>1, <2>1, <2>2, <2>5, <3>1, <3>3
    <3> QED
      BY <2>3, <3>2, <3>3
  <2> QED
    BY <1>2, <2>1, <2>4, <2>5
<1>9. \A k \in 0..n : P(k)
  <2> HIDE DEF P
  <2>1. \A k \in Nat : k \in A
    BY <1>7, <1>8, NatSetInduction
  <2> QED
    BY <2>1
<1>10. All(n)
  <2>0. P(n)
    <3> HIDE DEF P
    <3> QED
      BY <1>9
  <2>1. P(n) /\ w[n] \in Int /\ 1 <= w[n] /\ start \in Int /\ start <= n
    BY <1>0, <2>0
  <2>2. ~ Down(n)
    BY <2>1
  <2>3. Again(n) => All(n)
    <3>1. \A q \in S : q <= start \/ start <= q
      BY <1>0
    <3>2. Again(n) => w[n] <= start
      BY <2>1
    <3>3. w[n] <= start => \A q \in S : start <= q => w[n] <= q
      BY <1>0, <2>1
    <3> QED
      BY <3>1, <3>2, <3>3
  <2> QED
    BY <2>1, <2>2, <2>3
<1>11. \A k \in 0..n : w[k] \in S
  BY <1>9
<1>12. \A q \in S : \E k \in 0..n : w[k] = q
  BY <1>6, <1>10
<1> QED
  BY <1>11, <1>12 DEF w

\* A node with a greater number than all others goes to the front.
LEMMA SortedAdd ==
    ASSUME NEW n \in Nat, NEW S, Numbers(S, n), NEW head, NEW succ, Sorted(head, succ, S),
           NEW c \in Int, \A q \in S : q < c, succ[c] = head
    PROVE  Sorted(c, succ, S \cup {c})
<1> DEFINE T == S \cup {c}
<1>0. \A p \in S : p \in Int
  BY DEF Numbers
<1>1. IsLast(c, T)
  BY <1>0 DEF IsLast
<1>2. {q \in T : q < c} = S
  BY <1>0
<1>3. \A p \in S : {q \in T : q < p} = {q \in S : q < p}
  BY <1>0
<1>4. IsLast(head, S) /\ \A p \in S : IsLast(succ[p], {q \in S : q < p})
  BY DEF Sorted
<1>5. \A p \in T : IsLast(succ[p], {q \in T : q < p})
  BY <1>2, <1>3, <1>4
<1> QED
  BY <1>1, <1>5 DEF Sorted

\* The node t is taken out.
LEMMA SortedRemove ==
    ASSUME NEW n \in Nat, NEW S, Numbers(S, n), NEW head, NEW succ, Sorted(head, succ, S),
           NEW t, t \in S, NEW link,
           \A p \in S \ {t} : link[p] = IF head # t /\ succ[p] = t THEN succ[t] ELSE succ[p]
    PROVE  Sorted(IF head = t THEN succ[t] ELSE head, link, S \ {t})
<1> DEFINE T == S \ {t}
           Below(p) == {q \in S : q < p}
           first == IF head = t THEN succ[t] ELSE head
<1>0. \A p \in S : p \in Int
  BY DEF Numbers
<1>1. head \in S /\ (\A q \in S : q <= head) /\ \A p \in S : IsLast(succ[p], Below(p))
  BY DEF Sorted, IsLast
<1>2. IsLast(first, T)
  <2>1. CASE head = t
    <3>1. Below(t) = T
      BY <1>0, <1>1, <2>1
    <3> QED
      BY <1>1, <2>1, <3>1
  <2>2. CASE head # t
    BY <1>1, <2>2 DEF IsLast
  <2> QED
    BY <2>1, <2>2
<1>3. ASSUME NEW p, p \in T PROVE IsLast(link[p], {q \in T : q < p})
  <2> DEFINE B == {q \in T : q < p}
  <2>0. p \in S /\ p # t /\ t \in S /\ p \in Int /\ t \in Int /\ B = Below(p) \ {t}
    BY <1>0, <1>3
  <2>1. IsLast(succ[p], Below(p)) /\ IsLast(succ[t], Below(t))
    BY <1>1, <2>0
  <2>2. CASE succ[p] = t
    <3>1. t \in Below(p) \/ Below(p) = {}
      BY <2>1, <2>2 DEF IsLast
    <3>2. CASE Below(p) = {}
      <4>1. t = NULL
        BY <2>1, <2>2, <3>2 DEF IsLast
      <4> QED
        BY <2>0, <4>1 DEF NULL, Numbers
    <3>3. CASE t \in Below(p)
      <4>1. t < p /\ \A q \in Below(p) : q <= t
        BY <2>1, <2>2, <3>3 DEF IsLast
      <4>2. B = Below(t)
        <5>1. ASSUME NEW q \in S PROVE (q # t /\ q < p) <=> q < t
          <6>1. q \in Int /\ (q < p => q <= t)
            BY <1>0, <4>1
          <6> QED
            BY <2>0, <4>1, <6>1
        <5> QED
          BY <5>1
      <4>3. head # t
        BY <1>1, <2>0, <4>1
      <4> QED
        BY <2>0, <2>1, <2>2, <4>2, <4>3
    <3> QED
      BY <3>1, <3>2, <3>3
  <2>3. CASE succ[p] # t
    <3>1. link[p] = succ[p]
      BY <2>0, <2>3
    <3>2. CASE Below(p) = {}
      BY <2>0, <2>1, <3>1, <3>2 DEF IsLast
    <3>3. CASE Below(p) # {}
      BY <2>0, <2>1, <2>3, <3>1, <3>3 DEF IsLast
    <3> QED
      BY <3>2, <3>3
  <2> QED
    BY <2>2, <2>3
<1> QED
  BY <1>2, <1>3 DEF Sorted

\* FirstOn finds a member of T on a walk that meets one.
LEMMA FirstOnFinds ==
    ASSUME NEW n \in Nat, NEW w, NEW T, NEW k \in 0..n, w[k] \in T
    PROVE  FirstOn(n, w, T) # {}
<1> DEFINE A == {i \in Nat : i <= n /\ w[i] \in T}
<1>1. A \in SUBSET Nat /\ A # {}
  OBVIOUS
<1>2. PICK i \in A : \A j \in A : i <= j
  BY <1>1, LeastNat
<1>3. i \in 0..n /\ w[i] \in T /\ \A j \in 0..(i - 1) : w[j] \notin T
  BY <1>2
<1> QED
  BY <1>3 DEF FirstOn
=============================================================================
