----------------------------- MODULE MCFatTree -----------------------------
(* The instance of FatTree for TLC.                                        *)
EXTENDS MCFat, FatTree

InUse == {c \in Cluster : fat[c] # FAT12_FREE}

DirClusters(f) == UNION {Chain(f, d) : d \in Dirs(f, disk.entries)} \cup {Root}

\* While the power stays on, a cluster's old entries are never read, and its old
\* bytes only in the hole of a file, where the tree allows any: states that
\* differ there only are one state to TLC.
LiveState ==
    <<fat, disk.fats, [c \in DirClusters(fat) |-> disk.entries[c]], [c \in InUse |-> disk.bytes[c]],
      op, todo, wild, late, past>>
=============================================================================
