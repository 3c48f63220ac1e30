------------------------------ MODULE FileTree ------------------------------
(* What a file system promises while the power stays on: a tree of names,  *)
(* each operation one step on it.                                          *)
EXTENDS Integers, Sequences

CONSTANTS Paths, Bytes, Extents

VARIABLE tree       \* what is at each path: nothing, a directory or a file

Parent(p) == SubSeq(p, 1, Len(p) - 1)

Inside(p) == {q \in Paths : Len(q) > Len(p) /\ SubSeq(q, 1, Len(p)) = p}

None == [kind |-> "none", data |-> <<>>]
Dir == [kind |-> "dir", data |-> <<>>]
File(data) == [kind |-> "file", data |-> data]

Reachable(p) == Len(p) = 1 \/ tree[Parent(p)] = Dir

Init == tree = [p \in Paths |-> None]

\* An empty file; a directory that was there is gone with all inside it.
Empty(p) ==
    /\ Reachable(p)
    /\ tree' = [q \in Paths |-> IF q = p THEN File(<<>>)
                                ELSE IF q \in Inside(p) THEN None ELSE tree[q]]

Written(e) == {e.offset + k : k \in 1..e.len}

\* The bytes of e become b; those between the old end and e are anything.
Write(p, e, b) ==
    LET old == tree[p].data
        new == tree'[p].data
    IN
    /\ Reachable(p)
    /\ tree[p] # Dir
    /\ tree' = [tree EXCEPT ![p] = File(new)]
    /\ Len(new) = IF e.offset + e.len > Len(old) THEN e.offset + e.len ELSE Len(old)
    /\ \A i \in 1..Len(new) :
          IF i \in Written(e) THEN new[i] = b
          ELSE i <= Len(old) => new[i] = old[i]

\* A write for which there is no room: some bytes of e that the file has, from
\* the first on.
PartOfWrite(p, e, b) ==
    /\ tree[p].kind = "file"
    /\ \E n \in 0..e.len :
          tree' = [tree EXCEPT ![p].data =
                      [i \in 1..Len(@) |-> IF i \in e.offset + 1 .. e.offset + n THEN b ELSE @[i]]]

Unlink(p) ==
    /\ tree[p].kind = "file"
    /\ tree' = [tree EXCEPT ![p] = None]

Mkdir(p) ==
    /\ Reachable(p)
    /\ tree[p] = None
    /\ tree' = [tree EXCEPT ![p] = Dir]

Rmdir(p) ==
    /\ tree[p] = Dir
    /\ \A q \in Inside(p) : tree[q] = None
    /\ tree' = [tree EXCEPT ![p] = None]

Next == \E p \in Paths :
    \/ Empty(p)
    \/ Unlink(p)
    \/ Mkdir(p)
    \/ Rmdir(p)
    \/ \E e \in Extents, b \in Bytes : Write(p, e, b) \/ PartOfWrite(p, e, b)

Spec == Init /\ [][Next]_tree
=============================================================================
