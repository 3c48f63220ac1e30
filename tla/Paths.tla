------------------------------- MODULE Paths -------------------------------
(* The paths of user programs, libc/path.c: a path that may be relative    *)
(* and hold "." and ".." becomes one that the kernel can look up.  A path  *)
(* is the sequence of its components; the lengths of names and of buffers  *)
(* are left out.                                                           *)
EXTENDS Integers, Sequences

CONSTANT MAX_PATH_DEPTH

\* Variant: ".." is kept where it should take a name away.
Stacked_KeepName(stack, c) == IF c \in {".", ".."} THEN stack ELSE Append(stack, c)

\* One component more: c goes on the stack or takes the last one off it.
Stacked(stack, c) ==
    CASE c = "." -> stack
      [] c = ".." -> IF stack = <<>> THEN stack ELSE SubSeq(stack, 1, Len(stack) - 1)
      [] OTHER -> IF Len(stack) < MAX_PATH_DEPTH THEN Append(stack, c) ELSE stack

\* The stack before the first component and after each.
Stacks(in) ==
    LET stack[k \in 0..Len(in)] == IF k = 0 THEN <<>> ELSE Stacked(stack[k - 1], in[k])
    IN  stack

path_normalize(in) == Stacks(in)[Len(in)]

\* Some name finds the stack full and is dropped.
Overflows(in) == \E k \in 1..Len(in) :
    in[k] \notin {".", ".."} /\ Len(Stacks(in)[k - 1]) = MAX_PATH_DEPTH

FromRoot(cwd, in) == IF in.absolute THEN in.names ELSE cwd \o in.names

path_resolve_cwd(cwd, in) == path_normalize(FromRoot(cwd, in))
=============================================================================
