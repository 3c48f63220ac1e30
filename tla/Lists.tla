------------------------------- MODULE Lists -------------------------------
(* Singly linked lists as the kernel keeps them: a head pointer and the    *)
(* next fields of the nodes.                                               *)
LOCAL INSTANCE Integers

NULL == -1

\* The nodes a walk of at most bound steps meets, when it starts at start and
\* follows succ.
Walk(start, succ, bound) ==
    LET at[k \in 0..bound] ==
            IF k = 0 THEN start
            ELSE LET p == at[k - 1] IN IF p = NULL THEN NULL ELSE succ[p]
    IN  at

\* The first member of S on the walk w, as a set of at most one element.
FirstOn(bound, w, S) ==
    {w[k] : k \in {i \in 0..bound : /\ w[i] \in S
                                    /\ \A j \in 0..(i - 1) : w[j] \notin S}}

\* q is the greatest member of S, or NULL when there is none.
IsLast(q, S) == IF S = {} THEN q = NULL ELSE q \in S /\ \A r \in S : r <= q

\* The list that begins with head and follows succ holds the numbers of S, the
\* greatest first.
Sorted(head, succ, S) ==
    IsLast(head, S) /\ \A p \in S : IsLast(succ[p], {q \in S : q < p})
=============================================================================
