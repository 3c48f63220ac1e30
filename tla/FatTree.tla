------------------------------ MODULE FatTree ------------------------------
(* Fat as its callers see it: the tree of names, with the operation that   *)
(* runs as if it were done.  The tree is a function of the state, kept in  *)
(* a variable.                                                             *)
EXTENDS Fat

\* Paths has what its paths lead through.
ASSUME PrefixAssumption == \A p \in Paths : Len(p) > 1 => SubSeq(p, 1, Len(p) - 1) \in Paths

VARIABLE tree

\* fat_stat and fat_read_file: what is at p, by the table f and the disk d.
\* The buffer is not set where the chain does not reach.
Node(f, d, p) ==
    LET dir == resolve_path(f, d.entries, p)
        l == dir_lookup(f, d.entries, dir, NameOf(p), FALSE)
        e == At(d.entries, l.slot)
        chain == ChainSeq(f, e.first)
    IN  IF dir = NULL \/ ~l.exists THEN [kind |-> "none", data |-> <<>>]
        ELSE IF e.dir THEN [kind |-> "dir", data |-> <<>>]
        ELSE [kind |-> "file",
              data |-> [i \in 1..e.size |->
                           IF cluster_size * Len(chain) < i THEN NULL
                           ELSE d.bytes[chain[1 + (i - 1) \div cluster_size]][(i - 1) % cluster_size]]]

Seen(f, d, items) ==
    LET done == Done(f, d, items) IN [p \in Paths |-> Node(done.fat, done.disk, p)]

TreeInit == Init /\ tree = Seen(fat, disk, todo)

TreeNext == Next /\ tree' = Seen(fat', disk', todo')

TreeSpec == TreeInit /\ [][TreeNext]_<<vars, tree>>

Abstract == INSTANCE FileTree

\* The operations implement those on a tree of names: a file reads as it was
\* written, no other file changes, and a full disk spoils one file at most.
ImplementsTree == Abstract!Spec
=============================================================================
