----------------------------- MODULE MCProcess -----------------------------
(* Small instances of Process for TLC.                                     *)
EXTENDS Process

OneParent == {1}
TwoParents == {1, 2}

\* What the shipped programs do to one another.
LifeCalls == {"spawn", "wait", "exit", "fault", "kill", "yield"}
MostCalls == AllCalls \ {"yield"}
WaitCalls == {"spawn", "wait", "exit"}
LiveCalls == {"spawn", "wait", "exit", "kill", "sleep"}
=============================================================================
