------------------------------ MODULE MCKHeap ------------------------------
(* Small instances of KHeap for TLC.                                       *)
EXTENDS KHeap

\* None, one, three and five words.
MCRequests == {0, 1, 11, 20}

\* An argument block (setup_user_argv) and the buffer of an empty file (file_read).
TailRequests == {0, 16}

\* The headers of joined blocks keep their last values and are never read:
\* states that differ there only are one state to TLC.
LiveState == <<[b \in Listed |-> <<size[b], next[b], free[b]>>], want>>
=============================================================================
