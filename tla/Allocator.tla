----------------------------- MODULE Allocator -----------------------------
(* What an allocator promises: memory it hands out overlaps no memory that *)
(* it handed out before and that was not given back.                       *)
EXTENDS Integers

CONSTANTS Ptrs, Lens, None

VARIABLE owned       \* the length of what was handed out at a pointer

Range(p, n) == p..(p + n - 1)

Init == owned = [p \in Ptrs |-> None]

Alloc(p, n) ==
    /\ owned[p] = None
    /\ \A q \in Ptrs : owned[q] # None => Range(p, n) \cap Range(q, owned[q]) = {}
    /\ owned' = [owned EXCEPT ![p] = n]

Release(p) ==
    /\ owned[p] # None
    /\ owned' = [owned EXCEPT ![p] = None]

Next == \E p \in Ptrs : Release(p) \/ \E n \in Lens : Alloc(p, n)

Spec == Init /\ [][Next]_owned
=============================================================================
