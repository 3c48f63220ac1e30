------------------------------- MODULE MCFat -------------------------------
(* Small instances of Fat for TLC.                                         *)
EXTENDS Fat

\* A name in the root may be a file or a directory with a file of its own.
MCNames == {"a", "b"}
MCPaths == {<<"a">>, <<"b">>, <<"a", "a">>}

\* A cluster and a half from the start, and one byte past a hole.
MCExtents == {[offset |-> 0, len |-> 3], [offset |-> 3, len |-> 1]}

\* The first is enough where the disk fails: its writes stop at each cluster.
MCFaultExtents == {[offset |-> 0, len |-> 3]}

\* What the operations and a restart read: the cached table, the first copy and
\* all entries, of clusters that no directory has, too, as an error can leave
\* one linked to a directory before it is zeroed.  Of an entry without a name
\* they read that it has none.
ReadEntry(e) == IF e.name \in Names THEN e ELSE [NoEntry EXCEPT !.name = e.name]

ReadState ==
    <<fat, disk.fats[1],
      [c \in Cluster \cup {Root} |-> [i \in 1..InBlock(c) |-> ReadEntry(disk.entries[c][i])]],
      op, todo, wild, late>>
=============================================================================
