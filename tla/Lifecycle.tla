----------------------------- MODULE Lifecycle -----------------------------
(* What the process table promises to programs: a process is created once, *)
(* dies once, and its record goes away once, collected by a process that   *)
(* began to wait for it while it lived and that returns only after it died.*)

CONSTANTS Procs, NoProc

VARIABLES life, waits

lvars == <<life, waits>>

LifeTypeOK ==
    /\ life \in [Procs -> {"unborn", "alive", "dead", "gone"}]
    /\ waits \in [Procs -> Procs \cup {NoProc}]

Init ==
    /\ \E A \in SUBSET Procs : life = [p \in Procs |-> IF p \in A THEN "alive" ELSE "unborn"]
    /\ waits = [p \in Procs |-> NoProc]

Create(p) ==
    /\ life[p] = "unborn"
    /\ life' = [life EXCEPT ![p] = "alive"]
    /\ UNCHANGED waits

Die(p) ==
    /\ life[p] = "alive"
    /\ life' = [life EXCEPT ![p] = "dead"]
    /\ waits' = [waits EXCEPT ![p] = NoProc]

BeginWait(p, t) ==
    /\ life[p] = "alive" /\ waits[p] = NoProc
    /\ life[t] = "alive"
    /\ waits' = [waits EXCEPT ![p] = t]
    /\ UNCHANGED life

Collect(p, t) ==
    /\ waits[p] = t
    /\ life[t] = "dead"
    /\ life' = [life EXCEPT ![t] = "gone"]
    /\ waits' = [waits EXCEPT ![p] = NoProc]

Next ==
    \/ \E p \in Procs : Create(p) \/ Die(p)
    \/ \E p, t \in Procs : BeginWait(p, t) \/ Collect(p, t)

Spec == Init /\ [][Next]_lvars
=============================================================================
