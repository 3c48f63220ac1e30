------------------------------ MODULE MCFiles ------------------------------
(* The instance of Files for TLC.                                          *)
EXTENDS Files, TLC

MCNames == {"a", "b"}
\* A directory and what is in it: with both names in it, it grows.
MCPaths == {<<"a">>, <<"a", "a">>, <<"a", "b">>}

\* One path loses its last name: it becomes that of the directory.
MCKept == [p \in MCPaths |-> IF p = <<"a", "b">> THEN <<"a">> ELSE p]

\* Directories in directories, one of them deeper than MAX_PATH_DEPTH = 2.
MCDeep == {<<"a">>, <<"a", "a">>, <<"a", "b">>, <<"a", "a", "b">>}
MCDeepKept == [p \in MCDeep |-> p]

\* Down and up, from where the process is and from the root, past the depth limit
\* and back.
MCInputs ==
    [absolute : {FALSE}, names : {<<"a">>, <<"..">>, <<"a", ".", "b", "..">>, <<"b", "..", "..">>}]
    \cup [absolute : {TRUE}, names : {<<"a", "a", "b", "..">>, <<"a", "b", "..", "..", "a">>}]

InUse == {c \in Cluster : fat[c] # FAT12_FREE}

\* What is read again: the table, the directories, the files and handles of the
\* processes that live, and which files the others hold.  States that differ
\* elsewhere only are one state to TLC.
Lives(p) == proc[p] = "live"
Alive == {s \in File : \E p \in Procs : Lives(p) /\ s \in Held(p)}

FilesState ==
    <<fat, [c \in InUse \cup {Root} |-> disk.entries[c]], wild,
      [s \in File |-> IF s \in Alive THEN open_files[s] ELSE [NoFile EXCEPT !.in_use = open_files[s].in_use]],
      fds, [p \in Procs |-> [d \in DirFd |->
               IF Lives(p) /\ dirs[p][d].in_use THEN <<dirs[p][d], listed[p][d]>> ELSE <<NoDir, Unlisted>>]],
      proc, lost, stale \cap Alive, overlong>>

\* Without reads, writes and listings.
TreeState ==
    <<fat, [c \in InUse \cup {Root} |-> disk.entries[c]], wild, cwd, proc, FreeFiles>>

\* Bound: open files and directory handles at a time.
MaxInUse == 2
FewInUse ==
    Cardinality({s \in File : open_files[s].in_use})
    + Cardinality({<<p, d>> \in Procs \X DirFd : Lives(p) /\ dirs[p][d].in_use}) <= MaxInUse

NoHandles == \A p \in Procs : FreeDirs(p) = DirFd

Symmetry == Permutations(Procs)
=============================================================================
