------------------------------ MODULE MCMemory ------------------------------
(* The instance of UserHeap for TLC: four words to a page, four pages to a *)
(* a table.  Programs at pages 1 and 2, the heap from page 3 to page 5,    *)
(* page 6 unmapped, the stack in page 7, the kernel from page 8.           *)
EXTENDS UserHeap, FiniteSets, TLC

At(at, size) == [at |-> at, size |-> size]

\* Code and data share page 1; one with a bss, one that ends within page 1.
MCPrograms == {[code |-> At(4, 3), data |-> At(7, 2), bss |-> At(9, 1), malloc |-> FALSE],
               [code |-> At(4, 4), data |-> At(8, 0), bss |-> At(8, 0), malloc |-> TRUE]}

\* Up and down, with and without a page boundary; below the start, and round
\* the end of the address space.
MCDeltas == {-16, -6, 3}

\* Within a page, over pages that may be mapped or not, into the stack and the
\* kernel, round the end of the address space.
MCRanges == {At(5, 0), At(6, 1), At(6, 4), At(10, 6), At(14, 16), At(27, 2), At(31, 2), At(44, 8)}

\* Bound: the frames of one address space are lost.
MaxLost == 6
FewLost == Cardinality(leaked) <= MaxLost

Symmetry == Permutations(Procs)
=============================================================================
