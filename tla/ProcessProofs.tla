--------------------------- MODULE ProcessProofs ---------------------------
(* Theorems about Process, for every number of processes, every set of     *)
(* parents, every ring size and tick modulus.                              *)
EXTENDS Process, ListLemmas, FiniteSetTheorems

(* What the list's pointers can hold.                                      *)

\* What process_find and the loops over the list can meet is a created process.
LEMMA ListedCreated ==
    ASSUME TypeOK, LinksCreated
    PROVE  Listed \subseteq Created
<1> DEFINE Q == Created \cup {NULL}
<1>0. MaxPid \in Nat
  BY MaxPidAssumption
<1>1. Q \in SUBSET (Pid \cup {NULL}) /\ NULL \in Q
  BY <1>0 DEF TypeOK, Created, Pid, NULL
<1>2. proc_list \in Q /\ \A p \in Pid : next[p] \in Q
  BY DEF LinksCreated
<1> HIDE DEF Q
<1>3. \A k \in 0..MaxPid : Walk(proc_list, next, MaxPid)[k] \in Q
  BY <1>0, <1>1, <1>2, WalkStaysIn
<1> QED
  BY <1>3 DEF Listed, Q

\* Created pids are pids, and idle is not among them.
LEMMA CreatedPids ==
    ASSUME TypeOK
    PROVE  /\ Created \subseteq Pid
           /\ idle_proc \notin Created
           /\ NULL \notin Pid
           /\ \A p \in Created : ~ (p >= next_pid)
BY MaxPidAssumption DEF TypeOK, Created, Pid, NULL, idle_proc

Awake(s) == s \in {"READY", "RUNNING"}

\* What schedule() leaves of the table of states st: the CPU goes to a process
\* that was READY in it, or to idle, and no other process changes its class.
Scheduled(st) ==
    /\ state' \in [Pid -> States]
    /\ curr_proc' \in Pid
    /\ \A p \in Pid : state'[p] = "RUNNING" <=> p = curr_proc'
    /\ \A p \in Pid : Awake(state'[p]) <=> Awake(st[p])
    /\ \A p \in Pid : ~ Awake(st[p]) => state'[p] = st[p]

LEMMA PickNext ==
    ASSUME NEW st, NEW n \in pick_next(st)
    PROVE  n = idle_proc \/ (n \in Pid /\ st[n] = "READY")
BY DEF pick_next, FirstOn

LEMMA ScheduleFacts ==
    ASSUME TypeOK,
           NEW st \in [Pid -> States],
           \A p \in Pid : st[p] = "RUNNING" => p = curr_proc,
           st[curr_proc] # "READY",
           Awake(st[idle_proc]),
           curr_proc = idle_proc => st[idle_proc] = "RUNNING",
           schedule(st)
    PROVE  Scheduled(st)
<1>0. idle_proc \in Pid /\ curr_proc \in Pid
  BY MaxPidAssumption DEF TypeOK, Pid, idle_proc
<1>1. PICK n \in pick_next(st) :
          /\ curr_proc' = n
          /\ state' = IF n = curr_proc THEN st
                      ELSE [st EXCEPT ![curr_proc] = IF @ = "RUNNING" THEN "READY" ELSE @,
                                      ![n] = "RUNNING"]
  BY DEF schedule
<1>2. n = idle_proc \/ (n \in Pid /\ st[n] = "READY")
  BY PickNext
<1>3. CASE n = curr_proc
  BY <1>0, <1>1, <1>2, <1>3 DEF Scheduled, Awake
<1>4. CASE n # curr_proc
  <2>1. n \in Pid /\ Awake(st[n])
    BY <1>0, <1>2 DEF Awake
  <2>2. state' = [p \in Pid |-> IF p = n THEN "RUNNING"
                                ELSE IF p = curr_proc /\ st[p] = "RUNNING" THEN "READY"
                                ELSE st[p]]
    BY <1>0, <1>1, <1>4, <2>1
  <2> QED
    BY <1>0, <1>1, <1>4, <2>1, <2>2 DEF Scheduled, Awake, States
<1> QED
  BY <1>3, <1>4
---------------------------------------------------------------------------
(* The invariant is inductive.                                             *)

LEMMA InitIInv == Init => IInv
<1> SUFFICES ASSUME Init PROVE IInv
  OBVIOUS
<1>0. /\ MaxPid \in Nat \ {0}
      /\ TickMod \in Nat \ {0}
      /\ KBD_BUFFER_SIZE \in Nat \ {0}
  BY MaxPidAssumption, SleepAssumption, BufferAssumption
<1>1. TypeOK
  <2>1. state \in [Pid -> States]
    BY <1>0 DEF Init, OnlyBoot, States
  <2>2. /\ pc \in [Pid -> Interruptible \cup InKernel]
        /\ block \in [Pid -> Blocks]
    BY DEF Init, Interruptible, Blocks
  <2>3. /\ next_pid \in 2..(MaxPid + 1)
        /\ init_proc \in Pid
        /\ tick_count \in 0..(TickMod - 1)
        /\ kbd_read_pos \in 0..(KBD_BUFFER_SIZE - 1)
        /\ kbd_write_pos \in 0..(KBD_BUFFER_SIZE - 1)
    BY <1>0 DEF Init, Pid, init_proc
  <2>4. arg \in [Pid -> Int]
    BY DEF Init, NULL
  <2> QED
    BY <2>1, <2>2, <2>3, <2>4 DEF Init, TypeOK
<1>2. /\ CurrentIsRunning /\ BornInOrder /\ IdleRuns
      /\ BlockedInCall /\ ReapsOnlyTheDead /\ CleanedUpIsOffCpu /\ FreedAreDead
  BY <1>0 DEF Init, OnlyBoot, Pid, idle_proc, init_proc, NULL, CurrentIsRunning,
              BornInOrder, IdleRuns, BlockedInCall, ReapsOnlyTheDead, Waiting,
              CleanedUpIsOffCpu, FreedAreDead
<1>3. LinksCreated
  BY <1>0 DEF Init, LinksCreated, Created, Pid, init_proc, NULL
<1> QED
  BY <1>1, <1>2, <1>3 DEF IInv

\* The running process, in an invariant state.
LEMMA Running ==
    ASSUME IInv
    PROVE  /\ curr_proc \in Pid /\ idle_proc \in Pid
           /\ state[curr_proc] = "RUNNING"
           /\ curr_proc < next_pid
           /\ target_pid[curr_proc] = NULL
           /\ curr_proc \notin freed
BY MaxPidAssumption
   DEF IInv, TypeOK, CurrentIsRunning, BornInOrder, BlockedInCall, FreedAreDead, Pid, idle_proc

LEMMA SpawnIInv == IInv /\ Spawn => IInv'
<1> SUFFICES ASSUME IInv, Spawn PROVE IInv'
  OBVIOUS
<1>1. /\ next_pid \in Pid /\ state[next_pid] = "UNBORN" /\ pc[next_pid] = "user"
      /\ next_pid # curr_proc /\ next_pid # idle_proc
      /\ target_pid[next_pid] = NULL
  BY Running DEF IInv, Spawn, process_create, BornInOrder, BlockedInCall, TypeOK, idle_proc
<1>2. TypeOK'
  <2>1. next_pid' \in 2..(MaxPid + 1) /\ arg' \in [Pid -> Int]
    BY <1>1, Running, MaxPidAssumption DEF IInv, Spawn, process_create, TypeOK, Pid
  <2>2. state' \in [Pid -> States] /\ pc' \in [Pid -> Interruptible \cup InKernel]
    BY <1>1, Running DEF IInv, Spawn, process_create, TypeOK, States, Interruptible
  <2> QED
    BY <2>1, <2>2 DEF IInv, Spawn, process_create, TypeOK, sleepVars, kbdVars
<1>3. Created' = Created \cup {next_pid}
  BY <1>1 DEF IInv, TypeOK, Created, Spawn, process_create, Pid
<1>4. LinksCreated'
  BY <1>1, <1>3, Running DEF IInv, TypeOK, LinksCreated, Spawn, process_create
<1>5. BornInOrder' /\ CurrentIsRunning' /\ IdleRuns'
  BY <1>1, Running DEF IInv, TypeOK, BornInOrder, CurrentIsRunning, IdleRuns, Spawn, process_create, Pid
<1>6. BlockedInCall' /\ CleanedUpIsOffCpu' /\ FreedAreDead'
  BY <1>1, Running DEF IInv, TypeOK, BlockedInCall, CleanedUpIsOffCpu, FreedAreDead, Spawn, process_create
<1>7. ReapsOnlyTheDead'
  BY <1>1, Running DEF IInv, TypeOK, ReapsOnlyTheDead, Waiting, LinksCreated, Created, Spawn, process_create
<1> QED
  BY <1>2, <1>4, <1>5, <1>6, <1>7 DEF IInv

LEMMA SpawnLinkIInv == IInv /\ SpawnLink => IInv'
<1> SUFFICES ASSUME IInv, SpawnLink PROVE IInv'
  OBVIOUS
<1>1. pc[curr_proc] = "link" /\ arg[curr_proc] \in Created
  BY Running DEF IInv, SpawnLink, At, LinksCreated
<1>2. next' \in [Pid -> Pid \cup {NULL}] /\ pc' \in [Pid -> Interruptible \cup InKernel]
  BY <1>1, Running DEF IInv, SpawnLink, TypeOK, Interruptible
<1>3. TypeOK'
  BY <1>2 DEF IInv, SpawnLink, TypeOK, sleepVars, kbdVars
<1>4. LinksCreated'
  BY <1>1, Running DEF IInv, TypeOK, LinksCreated, Created, SpawnLink
<1>5. BornInOrder' /\ CurrentIsRunning' /\ IdleRuns' /\ CleanedUpIsOffCpu' /\ FreedAreDead'
  BY DEF IInv, BornInOrder, CurrentIsRunning, IdleRuns, CleanedUpIsOffCpu, FreedAreDead, SpawnLink
<1>6. BlockedInCall' /\ ReapsOnlyTheDead'
  BY <1>1, Running DEF IInv, TypeOK, BlockedInCall, ReapsOnlyTheDead, Waiting, SpawnLink
<1> QED
  BY <1>3, <1>4, <1>5, <1>6 DEF IInv

LEMMA SpawnPublishIInv == IInv /\ SpawnPublish => IInv'
<1> SUFFICES ASSUME IInv, SpawnPublish PROVE IInv'
  OBVIOUS
<1>1. pc[curr_proc] = "publish" /\ arg[curr_proc] \in Created /\ arg[curr_proc] \in Pid
  BY Running, CreatedPids DEF IInv, SpawnPublish, At, LinksCreated
<1>2. /\ proc_list' \in Pid \cup {NULL}
      /\ pc' \in [Pid -> Interruptible \cup InKernel]
      /\ arg' \in [Pid -> Int]
  BY <1>1, Running DEF IInv, SpawnPublish, TypeOK, Interruptible, NULL
<1>3. TypeOK'
  BY <1>2 DEF IInv, SpawnPublish, TypeOK, sleepVars, kbdVars
<1>4. LinksCreated'
  BY <1>1, Running DEF IInv, TypeOK, LinksCreated, Created, SpawnPublish
<1>5. BornInOrder' /\ CurrentIsRunning' /\ IdleRuns' /\ CleanedUpIsOffCpu' /\ FreedAreDead'
  BY DEF IInv, BornInOrder, CurrentIsRunning, IdleRuns, CleanedUpIsOffCpu, FreedAreDead, SpawnPublish
<1>6. BlockedInCall' /\ ReapsOnlyTheDead'
  BY <1>1, Running DEF IInv, TypeOK, BlockedInCall, ReapsOnlyTheDead, Waiting, SpawnPublish
<1> QED
  BY <1>3, <1>4, <1>5, <1>6 DEF IInv

\* The death of t, by whichever of the three ways, when it wakes the set W of
\* processes blocked on it: what the table of states is afterwards.
LEMMA DeathSchedule ==
    ASSUME IInv,
           NEW t \in Created,
           NEW W \in SUBSET Pid, t \notin W,
           \A p \in W : state[p] = "BLOCKED",
           \/ t = curr_proc /\ schedule(Killed(t, W))
           \/ t # curr_proc /\ state' = Killed(t, W) /\ UNCHANGED curr_proc
    PROVE  /\ t \in Pid /\ t # idle_proc /\ t < next_pid /\ idle_proc \notin W
           /\ Killed(t, W) \in [Pid -> States]
           /\ Killed(t, W)[t] = "DEAD"
           /\ \A p \in W : Killed(t, W)[p] = "READY"
           /\ \A p \in Pid \ (W \cup {t}) : Killed(t, W)[p] = state[p]
           /\ Scheduled(Killed(t, W))
<1> DEFINE st == Killed(t, W)
<1>0. t \in Pid /\ t # idle_proc /\ t < next_pid /\ idle_proc \notin W /\ idle_proc \in Pid
  <2>1. t \in Pid /\ t # idle_proc /\ idle_proc \in Pid
    BY Running, CreatedPids DEF IInv
  <2>2. t < next_pid
    BY DEF IInv, TypeOK, Created
  <2> QED
    BY <2>1, <2>2 DEF IInv, IdleRuns
<1>1. st \in [Pid -> States]
  BY DEF IInv, TypeOK, Killed, States
<1>2. /\ st[t] = "DEAD"
      /\ \A p \in W : st[p] = "READY"
      /\ \A p \in Pid \ (W \cup {t}) : st[p] = state[p]
  BY <1>0 DEF Killed
<1> HIDE DEF st
<1>3. Scheduled(st)
  <2>1. CASE t = curr_proc /\ schedule(st)
    <3>1. /\ \A p \in Pid : st[p] = "RUNNING" => p = curr_proc
          /\ st[curr_proc] # "READY"
          /\ Awake(st[idle_proc])
          /\ curr_proc # idle_proc
      BY <1>0, <1>2, <2>1 DEF IInv, CurrentIsRunning, IdleRuns, Awake
    <3> QED
      BY <1>1, <2>1, <3>1, ScheduleFacts DEF IInv
  <2>2. CASE t # curr_proc /\ state' = st /\ UNCHANGED curr_proc
    <3>1. curr_proc \notin W
      BY Running
    <3> QED
      BY <1>0, <1>1, <1>2, <2>2, <3>1, Running DEF IInv, Scheduled, CurrentIsRunning
  <2> QED
    BY <2>1, <2>2 DEF st
<1> QED
  BY <1>0, <1>1, <1>2, <1>3 DEF st

LEMMA DeathIInv ==
    ASSUME IInv,
           NEW t \in Created,
           NEW W \in SUBSET Pid, t \notin W,
           \A p \in W : state[p] = "BLOCKED" /\ target_pid[p] = t,
           Forget(W),
           Unblock(W) \/ UNCHANGED block,
           \/ t = curr_proc /\ schedule(Killed(t, W))
           \/ t # curr_proc /\ state' = Killed(t, W) /\ UNCHANGED curr_proc,
           UNCHANGED <<listVars, cleaned_up, pc, arg, sleepVars, kbdVars, kfault>>
    PROVE  IInv'
<1> DEFINE st == Killed(t, W)
<1>0. t \in Pid /\ t # idle_proc /\ t < next_pid /\ idle_proc \notin W /\ idle_proc \in Pid
  BY DeathSchedule, Running
<1>1. st \in [Pid -> States]
  BY DeathSchedule
<1>2. /\ st[t] = "DEAD"
      /\ \A p \in W : st[p] = "READY"
      /\ \A p \in Pid \ (W \cup {t}) : st[p] = state[p]
  BY DeathSchedule
<1>3. Scheduled(st)
  BY DeathSchedule
<1> HIDE DEF st
<1>4. target_pid' \in [Pid -> Pid \cup {NULL}] /\ block' \in [Pid -> Blocks]
  BY DEF Forget, Unblock, IInv, TypeOK, Blocks
<1>5. TypeOK'
  BY <1>3, <1>4 DEF IInv, TypeOK, Scheduled, listVars, sleepVars, kbdVars
<1>6. CurrentIsRunning' /\ IdleRuns'
  BY <1>0, <1>2, <1>3 DEF IInv, IdleRuns, CurrentIsRunning, Scheduled, Awake
<1>7. BornInOrder'
  <2>1. \A p \in Pid : st[p] = "UNBORN" <=> state[p] = "UNBORN"
    <3>1. state[t] # "UNBORN"
      BY <1>0 DEF IInv, BornInOrder, TypeOK, Pid
    <3> QED
      BY <1>2, <3>1
  <2>2. \A p \in Pid : state'[p] = "UNBORN" <=> st[p] = "UNBORN"
    BY <1>3 DEF Scheduled, Awake
  <2> QED
    BY <2>1, <2>2 DEF IInv, BornInOrder, listVars
<1>8. LinksCreated'
  BY DEF IInv, LinksCreated, Created, listVars
<1>9. \A p \in W : pc[p] = "wait" /\ arg[p] = t
  BY <1>0, CreatedPids DEF IInv, BlockedInCall
<1>10. BlockedInCall'
  <2>1. \A p \in Pid : p \notin W => target_pid'[p] = target_pid[p] /\ block'[p] = block[p]
    BY DEF Forget, Unblock, IInv, TypeOK
  <2>2. \A p \in W : target_pid'[p] = NULL
    BY DEF Forget
  <2> QED
    BY <1>0, <1>1, <1>2, <1>3, <2>1, <2>2 DEF IInv, BlockedInCall, Scheduled, Awake
<1>11. ReapsOnlyTheDead'
  BY <1>0, <1>1, <1>2, <1>3, <1>9, CreatedPids
     DEF IInv, ReapsOnlyTheDead, Waiting, Scheduled, Awake, LinksCreated
<1>12. CleanedUpIsOffCpu' /\ FreedAreDead'
  BY <1>0, <1>1, <1>2, <1>3, Running
     DEF IInv, CleanedUpIsOffCpu, FreedAreDead, Scheduled, Awake, listVars, TypeOK
<1> QED
  BY <1>5, <1>6, <1>7, <1>8, <1>10, <1>11, <1>12 DEF IInv

LEMMA ExitIInv == IInv /\ Exit => IInv'
<1> SUFFICES ASSUME IInv, Exit PROVE IInv'
  OBVIOUS
<1>1. curr_proc \in Created
  BY Running DEF Exit, Does, Created, Pid, idle_proc, IInv, TypeOK
<1>2. Listed \subseteq Pid
  BY ListedCreated, CreatedPids DEF IInv
<1>3. /\ WaitersOn(curr_proc) \in SUBSET Pid
      /\ curr_proc \notin WaitersOn(curr_proc)
      /\ \A p \in WaitersOn(curr_proc) : state[p] = "BLOCKED" /\ target_pid[p] = curr_proc
  BY <1>2, Running DEF WaitersOn
<1> HIDE DEF WaitersOn
<1> QED
  BY <1>1, <1>3, DeathIInv DEF Exit

LEMMA FaultIInv == IInv /\ Fault => IInv'
<1> SUFFICES ASSUME IInv, Fault PROVE IInv'
  OBVIOUS
<1>1. curr_proc \in Created
  BY Running DEF Fault, Does, Created, Pid, idle_proc, IInv, TypeOK
<1>2. Listed \subseteq Pid
  BY ListedCreated, CreatedPids DEF IInv
<1>3. /\ FaultWaitersOn(curr_proc) \in SUBSET Pid
      /\ curr_proc \notin FaultWaitersOn(curr_proc)
      /\ \A p \in FaultWaitersOn(curr_proc) : state[p] = "BLOCKED" /\ target_pid[p] = curr_proc
  BY <1>2, Running DEF FaultWaitersOn
<1>4. UNCHANGED <<listVars, block, cleaned_up, pc, arg, sleepVars, kbdVars, kfault>>
  BY DEF Fault
<1>5. UNCHANGED block /\ UNCHANGED <<listVars, cleaned_up, pc, arg, sleepVars, kbdVars, kfault>>
  BY <1>4
<1> QED
  BY <1>1, <1>3, <1>5, DeathIInv DEF Fault

LEMMA KillIInv == ASSUME NEW t \in Pid PROVE IInv /\ Kill(t) => IInv'
<1> SUFFICES ASSUME IInv, Kill(t) PROVE IInv'
  OBVIOUS
<1>1. t \in Created /\ Listed \subseteq Pid
  BY ListedCreated, CreatedPids DEF IInv, Kill
<1> DEFINE W == WaitersOn(t) \ {t}
<1>2. /\ W \in SUBSET Pid
      /\ t \notin W
      /\ \A p \in W : state[p] = "BLOCKED" /\ target_pid[p] = t
  BY <1>1 DEF WaitersOn
<1>3. /\ Forget(W) /\ Unblock(W)
      /\ \/ t = curr_proc /\ schedule(Killed(t, W))
         \/ t # curr_proc /\ state' = Killed(t, W) /\ UNCHANGED curr_proc
      /\ UNCHANGED <<listVars, cleaned_up, pc, arg, sleepVars, kbdVars, kfault>>
  BY DEF Kill
<1> HIDE DEF W
<1> QED
  BY <1>1, <1>2, <1>3, DeathIInv

\* The current process blocks: what the table of states is afterwards.
LEMMA BlockSchedule ==
    ASSUME IInv, curr_proc # idle_proc,
           schedule([state EXCEPT ![curr_proc] = "BLOCKED"])
    PROVE  Scheduled([state EXCEPT ![curr_proc] = "BLOCKED"])
<1> DEFINE st == [state EXCEPT ![curr_proc] = "BLOCKED"]
<1>1. /\ st \in [Pid -> States]
      /\ st[curr_proc] = "BLOCKED"
      /\ \A p \in Pid \ {curr_proc} : st[p] = state[p]
  BY Running DEF IInv, TypeOK, States
<1> HIDE DEF st
<1>2. /\ \A p \in Pid : st[p] = "RUNNING" => p = curr_proc
      /\ Awake(st[idle_proc])
  BY <1>1, Running DEF IInv, CurrentIsRunning, IdleRuns, Awake
<1> QED
  BY <1>1, <1>2, ScheduleFacts DEF IInv, st

\* The current process blocks in a system call.
LEMMA BlockIInv ==
    ASSUME IInv, TypeOK',
           curr_proc # idle_proc,
           schedule([state EXCEPT ![curr_proc] = "BLOCKED"]),
           \A p \in Pid \ {curr_proc} :
               /\ block'[p] = block[p] /\ target_pid'[p] = target_pid[p]
               /\ pc'[p] = pc[p] /\ arg'[p] = arg[p],
           \/ /\ block'[curr_proc] = "PID" /\ pc'[curr_proc] = "wait"
              /\ target_pid'[curr_proc] = arg'[curr_proc] /\ arg'[curr_proc] \in Created
           \/ /\ block'[curr_proc] = "INPUT" /\ pc'[curr_proc] = "getchar"
              /\ target_pid'[curr_proc] = NULL
           \/ /\ block'[curr_proc] = "SLEEP" /\ pc'[curr_proc] = "user"
              /\ target_pid'[curr_proc] = NULL,
           UNCHANGED <<listVars, cleaned_up>>
    PROVE  IInv'
<1> DEFINE st == [state EXCEPT ![curr_proc] = "BLOCKED"]
<1>1. /\ st \in [Pid -> States]
      /\ st[curr_proc] = "BLOCKED"
      /\ \A p \in Pid \ {curr_proc} : st[p] = state[p]
  BY Running DEF IInv, TypeOK, States
<1> HIDE DEF st
<1>2. Scheduled(st)
  BY BlockSchedule DEF st
<1>3. CurrentIsRunning' /\ IdleRuns'
  BY <1>1, <1>2, Running DEF IInv, IdleRuns, CurrentIsRunning, Scheduled, Awake
<1>4. BornInOrder'
  <2>1. \A p \in Pid : state'[p] = "UNBORN" <=> state[p] = "UNBORN"
    BY <1>1, <1>2, Running DEF Scheduled, Awake
  <2> QED
    BY <2>1 DEF IInv, BornInOrder, listVars
<1>5. LinksCreated'
  BY Running DEF IInv, LinksCreated, Created, listVars
<1>6. BlockedInCall'
  BY <1>1, <1>2, Running DEF IInv, BlockedInCall, Scheduled, Awake
<1>7. ReapsOnlyTheDead'
  BY <1>1, <1>2, Running, CreatedPids
     DEF IInv, ReapsOnlyTheDead, Waiting, Scheduled, Awake, LinksCreated
<1>8. CleanedUpIsOffCpu' /\ FreedAreDead'
  BY <1>1, <1>2, Running DEF IInv, CleanedUpIsOffCpu, FreedAreDead, Scheduled, Awake, listVars, TypeOK
<1> QED
  BY <1>3, <1>4, <1>5, <1>6, <1>7, <1>8 DEF IInv

LEMMA WaitIInv == ASSUME NEW t \in Pid PROVE IInv /\ Wait(t) => IInv'
<1> SUFFICES ASSUME IInv, Wait(t) PROVE IInv'
  OBVIOUS
<1>0. curr_proc # idle_proc /\ curr_proc \in Pid
  BY Running DEF Wait, Does
<1>1. t \in Created
  BY ListedCreated DEF IInv, Wait
<1>2. state' \in [Pid -> States] /\ curr_proc' \in Pid
  BY <1>0, BlockSchedule DEF Wait, Scheduled
<1>3. /\ block' \in [Pid -> Blocks]
      /\ target_pid' \in [Pid -> Pid \cup {NULL}]
      /\ pc' \in [Pid -> Interruptible \cup InKernel]
      /\ arg' \in [Pid -> Int]
  BY <1>0 DEF IInv, TypeOK, Wait, Blocks, InKernel, Pid
<1>4. TypeOK'
  BY <1>2, <1>3 DEF IInv, TypeOK, Wait, listVars, sleepVars, kbdVars
<1>5. \A p \in Pid \ {curr_proc} :
          /\ block'[p] = block[p] /\ target_pid'[p] = target_pid[p]
          /\ pc'[p] = pc[p] /\ arg'[p] = arg[p]
  BY DEF IInv, TypeOK, Wait
<1>6. /\ block'[curr_proc] = "PID" /\ pc'[curr_proc] = "wait"
      /\ target_pid'[curr_proc] = arg'[curr_proc] /\ arg'[curr_proc] \in Created
  BY <1>0, <1>1 DEF IInv, TypeOK, Wait
<1>7. schedule([state EXCEPT ![curr_proc] = "BLOCKED"]) /\ UNCHANGED <<listVars, cleaned_up>>
  BY DEF Wait
<1> QED
  BY <1>0, <1>4, <1>5, <1>6, <1>7, BlockIInv

LEMMA SleepIInv == ASSUME NEW ms \in SleepMs PROVE IInv /\ Sleep(ms) => IInv'
<1> SUFFICES ASSUME IInv, Sleep(ms) PROVE IInv'
  OBVIOUS
<1>0. curr_proc # idle_proc /\ curr_proc \in Pid /\ pc[curr_proc] = "user"
  BY Running DEF Sleep, Does, At
<1>1. state' \in [Pid -> States] /\ curr_proc' \in Pid
  BY <1>0, BlockSchedule DEF Sleep, Scheduled
<1>2. (tick_count + ms) % TickMod \in 0..(TickMod - 1)
  BY SleepAssumption DEF IInv, TypeOK
<1>3. /\ block' \in [Pid -> Blocks]
      /\ resume_tick' \in [Pid -> (0..(TickMod - 1)) \cup {NULL}]
      /\ arg' \in [Pid -> Int]
  BY <1>0, <1>2, SleepAssumption DEF IInv, TypeOK, Sleep, Blocks
<1>4. TypeOK'
  BY <1>1, <1>3 DEF IInv, TypeOK, Sleep, listVars, kbdVars
<1>5. \A p \in Pid \ {curr_proc} :
          /\ block'[p] = block[p] /\ target_pid'[p] = target_pid[p]
          /\ pc'[p] = pc[p] /\ arg'[p] = arg[p]
  BY DEF IInv, TypeOK, Sleep
<1>6. /\ block'[curr_proc] = "SLEEP" /\ pc'[curr_proc] = "user"
      /\ target_pid'[curr_proc] = NULL
  BY <1>0, Running DEF IInv, TypeOK, Sleep
<1>7. schedule([state EXCEPT ![curr_proc] = "BLOCKED"]) /\ UNCHANGED <<listVars, cleaned_up>>
  BY DEF Sleep
<1> QED
  BY <1>0, <1>4, <1>5, <1>6, <1>7, BlockIInv

LEMMA GetcharBlockIInv == IInv /\ GetcharBlock => IInv'
<1> SUFFICES ASSUME IInv, GetcharBlock PROVE IInv'
  OBVIOUS
<1>0. curr_proc # idle_proc /\ curr_proc \in Pid
  BY Running DEF GetcharBlock, Does
<1>1. state' \in [Pid -> States] /\ curr_proc' \in Pid
  BY <1>0, BlockSchedule DEF GetcharBlock, Scheduled
<1>2. block' \in [Pid -> Blocks] /\ pc' \in [Pid -> Interruptible \cup InKernel]
  BY <1>0 DEF IInv, TypeOK, GetcharBlock, Blocks, InKernel
<1>3. TypeOK'
  BY <1>1, <1>2 DEF IInv, TypeOK, GetcharBlock, listVars, sleepVars, kbdVars
<1>4. \A p \in Pid \ {curr_proc} :
          /\ block'[p] = block[p] /\ target_pid'[p] = target_pid[p]
          /\ pc'[p] = pc[p] /\ arg'[p] = arg[p]
  BY DEF IInv, TypeOK, GetcharBlock
<1>5. /\ block'[curr_proc] = "INPUT" /\ pc'[curr_proc] = "getchar"
      /\ target_pid'[curr_proc] = NULL
  BY <1>0, Running DEF IInv, TypeOK, GetcharBlock
<1>6. schedule([state EXCEPT ![curr_proc] = "BLOCKED"]) /\ UNCHANGED <<listVars, cleaned_up>>
  BY DEF GetcharBlock
<1> QED
  BY <1>0, <1>3, <1>4, <1>5, <1>6, BlockIInv

\* A set W of processes that wait for input or for a tick becomes READY, and
\* the CPU may change hands.
LEMMA WakeIInv ==
    ASSUME IInv, TypeOK',
           NEW st \in [Pid -> States], Scheduled(st),
           NEW W \in SUBSET Pid,
           \A p \in W : /\ state[p] = "BLOCKED" /\ block[p] # "PID"
                        /\ st[p] = "READY",
           \A p \in Pid \ W : /\ st[p] = state[p]
                              /\ block'[p] = block[p] /\ arg'[p] = arg[p],
           \A p \in Pid : pc'[p] = pc[p] \/ (p = curr_proc /\ {pc[p], pc'[p]} \subseteq {"user", "hlt"}),
           \A p \in Pid : cleaned_up'[p] => cleaned_up[p] \/ state[p] = "DEAD",
           UNCHANGED <<listVars, target_pid>>
    PROVE  IInv'
<1>0. idle_proc \notin W /\ curr_proc \notin W
  BY Running DEF IInv, IdleRuns
<1>1. \A p \in W : /\ pc[p] \in {"user", "getchar"} /\ pc'[p] = pc[p]
                   /\ target_pid[p] = NULL
  BY <1>0 DEF IInv, BlockedInCall
<1>2. CurrentIsRunning' /\ IdleRuns'
  BY <1>0, Running DEF IInv, CurrentIsRunning, IdleRuns, Scheduled, Awake
<1>3. BornInOrder'
  <2>1. \A p \in Pid : state'[p] = "UNBORN" <=> state[p] = "UNBORN"
    BY DEF Scheduled, Awake
  <2> QED
    BY <2>1 DEF IInv, BornInOrder, listVars
<1>4. LinksCreated'
  <2>1. \A p \in Pid : pc'[p] \in {"link", "publish", "wait"} => p \notin W /\ pc[p] = pc'[p]
    BY <1>1
  <2> QED
    BY <2>1 DEF IInv, LinksCreated, Created, listVars
<1>5. BlockedInCall'
  <2>1. \A p \in Pid : state'[p] = "BLOCKED" => p \notin W /\ state[p] = "BLOCKED" /\ p # curr_proc
    BY Running DEF Scheduled, Awake
  <2>2. \A p \in Pid : state'[p] = "UNBORN" => p \notin W /\ state[p] = "UNBORN" /\ p # curr_proc
    BY Running DEF Scheduled, Awake
  <2>3. \A p \in Pid : Awake(state'[p]) => p \in W \/ Awake(state[p])
    BY DEF Scheduled, Awake
  <2> QED
    BY <1>1, <2>1, <2>2, <2>3 DEF IInv, BlockedInCall, Awake, TypeOK
<1>6. ReapsOnlyTheDead'
  <2> SUFFICES ASSUME NEW p \in Pid, Waiting(p)', state'[p] # "BLOCKED"
               PROVE  state'[arg'[p]] = "DEAD"
    BY DEF ReapsOnlyTheDead
  <2>1. p \notin W /\ pc[p] = "wait" /\ arg'[p] = arg[p] /\ arg[p] \in Pid
    BY <1>1, CreatedPids DEF Waiting, IInv, LinksCreated
  <2>2. state[p] # "DEAD" /\ state[p] # "BLOCKED"
    BY <2>1 DEF Waiting, Scheduled, Awake
  <2>3. state[arg[p]] = "DEAD"
    BY <2>1, <2>2 DEF Waiting, IInv, ReapsOnlyTheDead
  <2> QED
    BY <2>1, <2>3 DEF Scheduled, Awake
<1>7. CleanedUpIsOffCpu'
  BY Running DEF IInv, CleanedUpIsOffCpu, Scheduled, Awake
<1>8. FreedAreDead'
  BY DEF IInv, FreedAreDead, Scheduled, Awake, listVars, TypeOK
<1> QED
  BY <1>2, <1>3, <1>4, <1>5, <1>6, <1>7, <1>8 DEF IInv

\* An interrupt or SYS_YIELD_HLT moves pc of the running process only.
LEMMA EndHltFacts ==
    ASSUME IInv, pc' = EndHlt
    PROVE  /\ pc' \in [Pid -> Interruptible \cup InKernel]
           /\ \A p \in Pid : \/ pc'[p] = pc[p]
                             \/ p = curr_proc /\ {pc[p], pc'[p]} \subseteq {"user", "hlt"}
BY Running DEF IInv, TypeOK, EndHlt, Interruptible

LEMMA KeyIInv == IInv /\ Key => IInv'
<1> SUFFICES ASSUME IInv, Key PROVE IInv'
  OBVIOUS
<1> DEFINE W == FirstOn(MaxPid, Walk(proc_list, next, MaxPid), BlockedReaders)
           st == [p \in Pid |-> IF p \in W THEN "READY" ELSE state[p]]
<1>1. W \in SUBSET Pid /\ \A p \in W : state[p] = "BLOCKED" /\ block[p] = "INPUT"
  BY DEF FirstOn, BlockedReaders
<1>2. state' = st /\ Unblock(W) /\ pc' = EndHlt
  BY DEF Key
<1> HIDE DEF W
<1>3. /\ st \in [Pid -> States]
      /\ \A p \in W : st[p] = "READY"
      /\ \A p \in Pid \ W : st[p] = state[p] /\ block'[p] = block[p]
      /\ block' \in [Pid -> Blocks]
  BY <1>1, <1>2 DEF IInv, TypeOK, States, Blocks, Unblock
<1>4. Scheduled(st)
  BY <1>1, <1>2, <1>3, Running DEF IInv, CurrentIsRunning, Scheduled, Key
<1>5. kbd_write_pos' \in 0..(KBD_BUFFER_SIZE - 1)
  BY BufferAssumption DEF IInv, TypeOK, Key, Advance
<1>6. TypeOK'
  BY <1>2, <1>3, <1>5, EndHltFacts DEF IInv, TypeOK, Key, listVars, sleepVars
<1>7. /\ UNCHANGED <<listVars, target_pid>> /\ UNCHANGED arg
      /\ cleaned_up' = cleaned_up
  BY DEF Key
<1>8. \A p \in W : state[p] = "BLOCKED" /\ block[p] # "PID" /\ st[p] = "READY"
  BY <1>1, <1>3
<1>9. \A p \in Pid \ W : st[p] = state[p] /\ block'[p] = block[p] /\ arg'[p] = arg[p]
  BY <1>3, <1>7
<1> HIDE DEF st
<1> QED
  BY <1>1, <1>2, <1>3, <1>4, <1>6, <1>7, <1>8, <1>9, EndHltFacts, WakeIInv

LEMMA TickIInv == IInv /\ Tick => IInv'
<1> SUFFICES ASSUME IInv, Tick PROVE IInv'
  OBVIOUS
<1> DEFINE W == Due((tick_count + 1) % TickMod)
           st == [p \in Pid |-> IF p \in W THEN "READY" ELSE state[p]]
<1>1. W \in SUBSET Pid /\ \A p \in W : state[p] = "BLOCKED" /\ block[p] = "SLEEP"
  BY ListedCreated, CreatedPids DEF Due, IInv
<1>2. /\ schedule(st) /\ Unblock(W) /\ pc' = EndHlt
      /\ resume_tick' = [p \in Pid |-> IF p \in W THEN NULL ELSE resume_tick[p]]
      /\ arg' = [p \in Pid |-> IF p \in W THEN NULL ELSE arg[p]]
  BY DEF Tick
<1> HIDE DEF W
<1>3. /\ st \in [Pid -> States]
      /\ \A p \in W : st[p] = "READY"
      /\ \A p \in Pid \ W : /\ st[p] = state[p]
                            /\ block'[p] = block[p] /\ arg'[p] = arg[p]
      /\ block' \in [Pid -> Blocks]
      /\ arg' \in [Pid -> Int]
      /\ resume_tick' \in [Pid -> (0..(TickMod - 1)) \cup {NULL}]
  BY <1>1, <1>2 DEF IInv, TypeOK, States, Blocks, Unblock, NULL
<1> HIDE DEF st
<1>4. Scheduled(st)
  <2>1. curr_proc \notin W /\ idle_proc \notin W
    BY <1>1, Running DEF IInv, IdleRuns
  <2>2. /\ \A p \in Pid : st[p] = "RUNNING" => p = curr_proc
        /\ st[curr_proc] = "RUNNING"
        /\ Awake(st[idle_proc])
    BY <1>3, <2>1, Running DEF IInv, CurrentIsRunning, IdleRuns, Awake
  <2> QED
    BY <1>2, <1>3, <2>2, ScheduleFacts DEF IInv
<1>5. tick_count' \in 0..(TickMod - 1)
  BY SleepAssumption DEF IInv, TypeOK, Tick
<1>6. /\ cleaned_up' \in [Pid -> BOOLEAN]
      /\ \A p \in Pid : cleaned_up'[p] => cleaned_up[p] \/ state[p] = "DEAD"
  BY DEF IInv, TypeOK, Tick, ToClean
<1>7. UNCHANGED <<listVars, target_pid, kbdVars, kfault>>
  BY DEF Tick
<1>8. TypeOK'
  BY <1>2, <1>3, <1>4, <1>5, <1>6, <1>7, EndHltFacts
     DEF IInv, TypeOK, Scheduled, listVars, kbdVars
<1>9. \A p \in W : state[p] = "BLOCKED" /\ block[p] # "PID" /\ st[p] = "READY"
  BY <1>1, <1>3
<1> QED
  BY <1>1, <1>2, <1>3, <1>4, <1>6, <1>7, <1>8, <1>9, EndHltFacts, WakeIInv

LEMMA YieldHltIInv == IInv /\ YieldHlt => IInv'
<1> SUFFICES ASSUME IInv, YieldHlt PROVE IInv'
  OBVIOUS
<1>1. state \in [Pid -> States] /\ schedule(state)
  BY DEF IInv, TypeOK, YieldHlt
<1>2. Scheduled(state)
  <2>1. /\ \A p \in Pid : state[p] = "RUNNING" => p = curr_proc
        /\ state[curr_proc] = "RUNNING"
        /\ Awake(state[idle_proc])
    BY Running DEF IInv, CurrentIsRunning, IdleRuns, Awake
  <2> QED
    BY <1>1, <2>1, ScheduleFacts DEF IInv
<1>3. /\ pc' \in [Pid -> Interruptible \cup InKernel]
      /\ \A p \in Pid : \/ pc'[p] = pc[p]
                        \/ p = curr_proc /\ {pc[p], pc'[p]} \subseteq {"user", "hlt"}
  BY Running DEF IInv, TypeOK, YieldHlt, At, Interruptible
<1>4. UNCHANGED <<listVars, block, target_pid, cleaned_up, arg, sleepVars, kbdVars, kfault>>
  BY DEF YieldHlt
<1>5. TypeOK'
  BY <1>2, <1>3, <1>4 DEF IInv, TypeOK, Scheduled, listVars, sleepVars, kbdVars
<1> DEFINE W == {}
<1>6. /\ W \in SUBSET Pid
      /\ \A p \in W : state[p] = "BLOCKED" /\ block[p] # "PID" /\ state[p] = "READY"
      /\ \A p \in Pid \ W : /\ state[p] = state[p]
                            /\ block'[p] = block[p] /\ arg'[p] = arg[p]
      /\ \A p \in Pid : cleaned_up'[p] => cleaned_up[p] \/ state[p] = "DEAD"
      /\ UNCHANGED <<listVars, target_pid>>
  BY <1>4
<1> HIDE DEF W
<1> QED
  BY <1>1, <1>2, <1>3, <1>5, <1>6, WakeIInv

LEMMA WaitReapIInv == IInv /\ WaitReap => IInv'
<1> SUFFICES ASSUME IInv, WaitReap PROVE IInv'
  OBVIOUS
<1> DEFINE t == arg[curr_proc]
<1>1. /\ pc[curr_proc] = "wait" /\ t \in Created /\ t \in Pid
      /\ state[t] = "DEAD"
  BY Running, CreatedPids
     DEF IInv, WaitReap, At, LinksCreated, ReapsOnlyTheDead, Waiting
<1>2. next[t] \in Created \cup {NULL} /\ next[t] \in Pid \cup {NULL}
  BY <1>1 DEF IInv, LinksCreated, TypeOK
<1>3. /\ proc_list' \in {proc_list, next[t]}
      /\ \A p \in Pid : next'[p] \in {next[p], next[t]}
      /\ next' \in [Pid -> Pid \cup {NULL}]
  BY <1>1, <1>2 DEF IInv, TypeOK, WaitReap, UnlinkedHead, UnlinkedNext
<1>4. /\ pc' \in [Pid -> Interruptible \cup InKernel]
      /\ arg' \in [Pid -> Int]
      /\ freed' = freed \cup {t}
  BY Running DEF IInv, TypeOK, WaitReap, Interruptible, NULL
<1>5. TypeOK'
  BY <1>1, <1>2, <1>3, <1>4 DEF IInv, TypeOK, WaitReap, sleepVars, kbdVars
<1>6. LinksCreated'
  BY <1>1, <1>2, <1>3, Running DEF IInv, TypeOK, LinksCreated, Created, WaitReap
<1>7. BornInOrder' /\ CurrentIsRunning' /\ IdleRuns' /\ CleanedUpIsOffCpu'
  BY DEF IInv, BornInOrder, CurrentIsRunning, IdleRuns, CleanedUpIsOffCpu, WaitReap
<1>8. FreedAreDead'
  BY <1>1, <1>4 DEF IInv, FreedAreDead, WaitReap
<1>9. BlockedInCall' /\ ReapsOnlyTheDead'
  BY Running DEF IInv, TypeOK, BlockedInCall, ReapsOnlyTheDead, Waiting, WaitReap
<1> QED
  BY <1>5, <1>6, <1>7, <1>8, <1>9 DEF IInv

LEMMA WaitFaultIInv == IInv /\ WaitFault => IInv'
BY DEF IInv, WaitFault, TypeOK, listVars, sleepVars, kbdVars, BornInOrder, CurrentIsRunning,
       IdleRuns, CleanedUpIsOffCpu, FreedAreDead, BlockedInCall, ReapsOnlyTheDead, Waiting,
       LinksCreated, Created

\* The steps that only take a character from the ring, and return.
LEMMA TakeIInv ==
    ASSUME IInv, kbd_getchar, curr_proc' = curr_proc, state' = state,
           \/ UNCHANGED pc
           \/ pc[curr_proc] = "getchar" /\ pc' = [pc EXCEPT ![curr_proc] = "user"],
           UNCHANGED <<listVars, block, target_pid, cleaned_up, arg, sleepVars, kfault>>
    PROVE  IInv'
<1>1. kbd_read_pos' \in 0..(KBD_BUFFER_SIZE - 1) /\ kbd_write_pos' = kbd_write_pos
  BY BufferAssumption DEF IInv, TypeOK, kbd_getchar, Advance
<1>2. /\ pc' \in [Pid -> Interruptible \cup InKernel]
      /\ \A p \in Pid : pc'[p] = pc[p] \/ (p = curr_proc /\ pc'[p] = "user")
  BY Running DEF IInv, TypeOK, Interruptible
<1>3. TypeOK'
  BY <1>1, <1>2 DEF IInv, TypeOK, listVars, sleepVars
<1>4. /\ BornInOrder' /\ CurrentIsRunning' /\ IdleRuns'
      /\ CleanedUpIsOffCpu' /\ FreedAreDead'
  BY DEF IInv, BornInOrder, CurrentIsRunning, IdleRuns, CleanedUpIsOffCpu, FreedAreDead, listVars
<1>5. LinksCreated'
  BY <1>2 DEF IInv, LinksCreated, Created, listVars
<1>6. BlockedInCall' /\ ReapsOnlyTheDead'
  BY <1>2, Running DEF IInv, BlockedInCall, ReapsOnlyTheDead, Waiting
<1> QED
  BY <1>3, <1>4, <1>5, <1>6 DEF IInv

LEMMA GetcharIInv == IInv /\ (Getchar \/ GetcharReturn \/ GetcharNB) => IInv'
<1> SUFFICES ASSUME IInv, Getchar \/ GetcharReturn \/ GetcharNB PROVE IInv'
  OBVIOUS
<1>1. /\ kbd_getchar /\ curr_proc' = curr_proc /\ state' = state
      /\ \/ UNCHANGED pc
         \/ pc[curr_proc] = "getchar" /\ pc' = [pc EXCEPT ![curr_proc] = "user"]
      /\ UNCHANGED <<listVars, block, target_pid, cleaned_up, arg, sleepVars, kfault>>
  BY DEF Getchar, GetcharReturn, GetcharNB, At
<1> QED
  BY <1>1, TakeIInv

LEMMA NextIInv == IInv /\ [Next]_vars => IInv'
<1> SUFFICES ASSUME IInv, [Next]_vars PROVE IInv'
  OBVIOUS
<1>1. CASE UNCHANGED vars
  BY <1>1 DEF vars, IInv, TypeOK, BornInOrder, CurrentIsRunning, IdleRuns,
              CleanedUpIsOffCpu, FreedAreDead, BlockedInCall, ReapsOnlyTheDead, Waiting,
              LinksCreated, Created
<1>2. CASE Next
  BY <1>2, SpawnIInv, SpawnLinkIInv, SpawnPublishIInv, ExitIInv, FaultIInv, KillIInv,
     WaitIInv, WaitReapIInv, WaitFaultIInv, YieldHltIInv, SleepIInv, GetcharIInv,
     GetcharBlockIInv, KeyIInv, TickIInv DEF Next
<1> QED
  BY <1>1, <1>2
---------------------------------------------------------------------------
(* The theorems.                                                           *)

\* Every reachable state satisfies the inductive invariant: the conjuncts the
\* runs check for a few processes hold for any number of them.
THEOREM Invariance == Spec => []IInv
<1>1. Init => IInv
  BY InitIInv
<1>2. IInv /\ [Next]_vars => IInv'
  BY NextIInv
<1> QED
  BY <1>1, <1>2, PTL DEF Spec

\* The variables keep to their types.
THEOREM TypeCorrect == Spec => []TypeOK
<1>1. IInv => TypeOK
  BY DEF IInv
<1> QED
  BY <1>1, Invariance, PTL

\* Whatever the interleaving of system calls and interrupts, exactly the
\* process on the CPU is marked RUNNING (schedule, scheduler.c).
THEOREM OnlyCurrentRuns == Spec => []CurrentIsRunning
<1>1. IInv => CurrentIsRunning
  BY DEF IInv
<1> QED
  BY <1>1, Invariance, PTL

\* SYS_WAIT goes on to unlink and free a process only when it is DEAD, with any
\* number of waiters, of deaths by exit, fault and kill, and of interrupts.
THEOREM NeverReapsTheLiving == Spec => []ReapsOnlyTheDead
<1>1. IInv => ReapsOnlyTheDead
  BY DEF IInv
<1> QED
  BY <1>1, Invariance, PTL

\* process_cleanup never takes the stack or the address space of a process
\* that is alive or on the CPU.
THEOREM NeverCleansUpTheLiving == Spec => []CleanedUpIsOffCpu
<1>1. IInv => CleanedUpIsOffCpu
  BY DEF IInv
<1> QED
  BY <1>1, Invariance, PTL

\* schedule() leaves the processes alone that are not READY, but for idle and
\* the one that leaves the CPU.
LEMMA ScheduleKeepsDead ==
    ASSUME NEW st, DOMAIN st = Pid, st = [p \in Pid |-> st[p]], schedule(st),
           NEW p \in Pid, st[p] = "DEAD", p # idle_proc
    PROVE  state'[p] = "DEAD"
<1>1. PICK n \in pick_next(st) :
          state' = IF n = curr_proc THEN st
                   ELSE [st EXCEPT ![curr_proc] = IF @ = "RUNNING" THEN "READY" ELSE @,
                                   ![n] = "RUNNING"]
  BY DEF schedule
<1>2. n # p
  BY PickNext
<1> QED
  BY <1>1, <1>2

\* No step brings a DEAD process back: a wake-up writes BLOCKED processes only,
\* schedule() READY ones and idle, and SYS_SPAWN takes a pid not used before.
THEOREM DeathIsFinal == Spec => DeadStaysDead
<1> DEFINE Final == \A p \in Pid : state[p] = "DEAD" => state'[p] = "DEAD"
<1>1. IInv /\ [Next]_vars => Final
  <2> SUFFICES ASSUME IInv, [Next]_vars, NEW p \in Pid, state[p] = "DEAD"
               PROVE  state'[p] = "DEAD"
    OBVIOUS
  <2>0. /\ p # curr_proc /\ p # idle_proc /\ curr_proc \in Pid
        /\ state = [q \in Pid |-> state[q]]
    BY Running DEF IInv, IdleRuns, TypeOK
  <2>1. CASE Spawn
    BY <2>0, <2>1 DEF Spawn, process_create, IInv, TypeOK, BornInOrder
  <2>2. CASE SpawnLink \/ SpawnPublish \/ WaitReap \/ WaitFault
             \/ Getchar \/ GetcharReturn \/ GetcharNB \/ UNCHANGED vars
    BY <2>2 DEF SpawnLink, SpawnPublish, WaitReap, WaitFault, Getchar, GetcharReturn,
                GetcharNB, vars
  <2>3. ASSUME NEW t, NEW W, W \cap {p} = {},
               schedule(Killed(t, W)) \/ state' = Killed(t, W)
        PROVE  state'[p] = "DEAD"
    <3> DEFINE st == Killed(t, W)
    <3>1. /\ DOMAIN st = Pid /\ st = [q \in Pid |-> st[q]]
          /\ st[p] = "DEAD"
      BY <2>3 DEF Killed
    <3> HIDE DEF st
    <3>2. schedule(st) \/ state' = st
      BY <2>3 DEF st
    <3> QED
      BY <2>0, <3>1, <3>2, ScheduleKeepsDead
  <2>4. CASE Exit
    <3>1. WaitersOn(curr_proc) \cap {p} = {} /\ schedule(Killed(curr_proc, WaitersOn(curr_proc)))
      BY <2>4 DEF Exit, WaitersOn
    <3> QED
      BY <3>1, <2>3
  <2>5. CASE Fault
    <3>1. /\ FaultWaitersOn(curr_proc) \cap {p} = {}
          /\ schedule(Killed(curr_proc, FaultWaitersOn(curr_proc)))
      BY <2>5 DEF Fault, FaultWaitersOn
    <3> QED
      BY <3>1, <2>3
  <2>6. ASSUME NEW t \in Pid, Kill(t) PROVE state'[p] = "DEAD"
    <3> DEFINE W == WaitersOn(t) \ {t}
    <3>1. W \cap {p} = {}
      BY DEF WaitersOn
    <3>2. schedule(Killed(t, W)) \/ state' = Killed(t, W)
      BY <2>6 DEF Kill
    <3> HIDE DEF W
    <3> QED
      BY <2>3, <3>1, <3>2
  <2>7. ASSUME schedule([state EXCEPT ![curr_proc] = "BLOCKED"]) PROVE state'[p] = "DEAD"
    <3> DEFINE st == [state EXCEPT ![curr_proc] = "BLOCKED"]
    <3>1. DOMAIN st = Pid /\ st = [q \in Pid |-> st[q]] /\ st[p] = "DEAD"
      BY <2>0
    <3> HIDE DEF st
    <3>2. schedule(st)
      BY <2>7 DEF st
    <3> QED
      BY <2>0, <3>1, <3>2, ScheduleKeepsDead
  <2>8. CASE GetcharBlock \/ (\E t \in Pid : Wait(t)) \/ (\E ms \in SleepMs : Sleep(ms))
    BY <2>7, <2>8 DEF GetcharBlock, Wait, Sleep
  <2>9. CASE YieldHlt
    BY <2>0, <2>9, ScheduleKeepsDead DEF YieldHlt
  <2>10. CASE Key
    BY <2>10 DEF Key, FirstOn, BlockedReaders
  <2>11. CASE Tick
    <3> DEFINE st == [q \in Pid |-> IF q \in Due((tick_count + 1) % TickMod)
                                    THEN "READY" ELSE state[q]]
    <3>1. /\ DOMAIN st = Pid /\ st = [q \in Pid |-> st[q]] /\ st[p] = "DEAD"
          /\ schedule(st)
      BY <2>11 DEF Tick, Due
    <3> HIDE DEF st
    <3> QED
      BY <2>0, <3>1, ScheduleKeepsDead
  <2> QED
    BY <2>1, <2>2, <2>4, <2>5, <2>6, <2>8, <2>9, <2>10, <2>11 DEF Next
<1> QED
  BY <1>1, Invariance, PTL DEF Spec, DeadStaysDead
---------------------------------------------------------------------------
(* The process table implements Lifecycle.                                 *)

\* The value of the mapping for one process.
LifeOf(p) == IF p \in freed THEN "gone"
             ELSE IF state[p] = "UNBORN" THEN "unborn"
             ELSE IF state[p] = "DEAD" THEN "dead" ELSE "alive"

WaitsOf(p) == IF Waiting(p) THEN arg[p] ELSE NULL

LEMMA LifeValues ==
    /\ life = [p \in Pid |-> LifeOf(p)] /\ waits = [p \in Pid |-> WaitsOf(p)]
    /\ life' = [p \in Pid |-> LifeOf(p)'] /\ waits' = [p \in Pid |-> WaitsOf(p)']
BY DEF life, waits, LifeOf, WaitsOf

\* The initial states map to initial states.
LEMMA InitRefines == Init => Abstract!Init
<1> SUFFICES ASSUME Init PROVE Abstract!Init
  OBVIOUS
<1> DEFINE A == {idle_proc, init_proc}
<1>1. life = [p \in Pid |-> IF p \in A THEN "alive" ELSE "unborn"]
  BY DEF Init, life, OnlyBoot, idle_proc, init_proc
<1>2. A \in SUBSET Pid
  BY MaxPidAssumption DEF Pid, idle_proc, init_proc
<1>3. waits = [p \in Pid |-> NULL]
  BY DEF Init, waits, Waiting
<1> HIDE DEF A
<1> QED
  BY <1>1, <1>2, <1>3 DEF Abstract!Init

\* Steps that change no process's class, and no wait, are stutters.
LEMMA Stutter ==
    ASSUME \A p \in Pid : LifeOf(p)' = LifeOf(p) /\ WaitsOf(p)' = WaitsOf(p)
    PROVE  UNCHANGED Abstract!lvars
<1>1. life' = life /\ waits' = waits
  BY LifeValues
<1> QED
  BY <1>1 DEF Abstract!lvars

\* A step of the scheduler alone is a stutter.
LEMMA ScheduledStutter ==
    ASSUME IInv, NEW st, Scheduled(st), freed' = freed,
           \A p \in Pid : /\ (st[p] = "DEAD") <=> (state[p] = "DEAD")
                          /\ (st[p] = "UNBORN") <=> (state[p] = "UNBORN"),
           \A p \in Pid : (pc'[p] = "wait") <=> (pc[p] = "wait"),
           \A p \in Pid : pc[p] = "wait" => arg'[p] = arg[p]
    PROVE  UNCHANGED Abstract!lvars
<1>1. \A p \in Pid : /\ (state'[p] = "DEAD") <=> (state[p] = "DEAD")
                     /\ (state'[p] = "UNBORN") <=> (state[p] = "UNBORN")
  BY DEF Scheduled, Awake
<1>2. \A p \in Pid : LifeOf(p)' = LifeOf(p)
  BY <1>1 DEF LifeOf
<1>3. \A p \in Pid : WaitsOf(p)' = WaitsOf(p)
  BY <1>1 DEF WaitsOf, Waiting
<1> QED
  BY <1>2, <1>3, Stutter

\* SYS_SPAWN is Create.
LEMMA SpawnRefines == IInv /\ Spawn => \E p \in Pid : Abstract!Create(p)
<1> SUFFICES ASSUME IInv, Spawn PROVE Abstract!Create(next_pid)
  BY DEF Spawn, process_create
<1>1. /\ next_pid \in Pid /\ state[next_pid] = "UNBORN" /\ next_pid # curr_proc
      /\ next_pid \notin freed /\ pc[next_pid] = "user" /\ pc[curr_proc] = "user"
  BY Running DEF IInv, Spawn, process_create, Does, At, BornInOrder, TypeOK, FreedAreDead, BlockedInCall
<1>2. /\ state' = [state EXCEPT ![next_pid] = "READY"]
      /\ pc' = [pc EXCEPT ![curr_proc] = "link"]
      /\ arg' = [arg EXCEPT ![curr_proc] = next_pid]
      /\ freed' = freed
  BY DEF Spawn, process_create
<1>3. \A p \in Pid : LifeOf(p)' = IF p = next_pid THEN "alive" ELSE LifeOf(p)
  BY <1>1, <1>2 DEF LifeOf, IInv, TypeOK
<1>4. \A p \in Pid : WaitsOf(p)' = WaitsOf(p)
  BY <1>1, <1>2, Running DEF WaitsOf, Waiting, IInv, TypeOK
<1>5. life' = [life EXCEPT ![next_pid] = "alive"] /\ waits' = waits
  BY <1>3, <1>4, LifeValues
<1>6. life[next_pid] = "unborn"
  BY <1>1, LifeValues DEF LifeOf
<1> QED
  BY <1>5, <1>6 DEF Abstract!Create

\* A death is Die, or a stutter when the process was dead already.
LEMMA DeathRefines ==
    ASSUME IInv,
           NEW t \in Created,
           NEW W \in SUBSET Pid, t \notin W,
           \A p \in W : state[p] = "BLOCKED",
           \/ t = curr_proc /\ schedule(Killed(t, W))
           \/ t # curr_proc /\ state' = Killed(t, W) /\ UNCHANGED curr_proc,
           UNCHANGED <<freed, pc, arg>>
    PROVE  (\E p \in Pid : Abstract!Die(p)) \/ UNCHANGED Abstract!lvars
<1> DEFINE st == Killed(t, W)
<1>1. /\ t \in Pid /\ t < next_pid
      /\ st[t] = "DEAD"
      /\ \A p \in W : st[p] = "READY"
      /\ \A p \in Pid \ (W \cup {t}) : st[p] = state[p]
      /\ Scheduled(st)
  BY DeathSchedule
<1> HIDE DEF st
<1>2. state[t] # "UNBORN"
  BY <1>1 DEF IInv, BornInOrder, TypeOK, Pid
<1>3. CASE state[t] = "DEAD"
  <2>1. \A p \in Pid : /\ (st[p] = "DEAD") <=> (state[p] = "DEAD")
                       /\ (st[p] = "UNBORN") <=> (state[p] = "UNBORN")
    BY <1>1, <1>3
  <2> QED
    BY <1>1, <2>1, ScheduledStutter
<1>4. CASE state[t] # "DEAD"
  <2>1. \A p \in Pid : /\ (state'[p] = "DEAD") <=> (state[p] = "DEAD" \/ p = t)
                       /\ (state'[p] = "UNBORN") <=> (state[p] = "UNBORN")
    BY <1>1, <1>2 DEF Scheduled, Awake
  <2>2. t \notin freed
    BY <1>4 DEF IInv, FreedAreDead
  <2>3. \A p \in Pid : /\ LifeOf(p)' = IF p = t THEN "dead" ELSE LifeOf(p)
                       /\ WaitsOf(p)' = IF p = t THEN NULL ELSE WaitsOf(p)
    BY <1>2, <2>1, <2>2 DEF LifeOf, WaitsOf, Waiting
  <2>4. life' = [life EXCEPT ![t] = "dead"] /\ waits' = [waits EXCEPT ![t] = NULL]
    BY <2>3, LifeValues
  <2>5. life[t] = "alive"
    BY <1>1, <1>2, <1>4, <2>2, LifeValues DEF LifeOf
  <2> QED
    BY <1>1, <2>4, <2>5 DEF Abstract!Die
<1> QED
  BY <1>3, <1>4

\* SYS_WAIT is BeginWait and, when the waiter is back, Collect.
LEMMA WaitRefines ==
    ASSUME NEW t \in Pid, IInv, Wait(t)
    PROVE  Abstract!BeginWait(curr_proc, t)
<1> DEFINE st == [state EXCEPT ![curr_proc] = "BLOCKED"]
<1>0. curr_proc \in Pid /\ curr_proc # idle_proc /\ pc[curr_proc] = "user"
  BY Running DEF Wait, Does, At
<1>1. Scheduled(st)
  BY <1>0, BlockSchedule DEF Wait
<1>2. /\ st[curr_proc] = "BLOCKED"
      /\ \A p \in Pid \ {curr_proc} : st[p] = state[p]
  BY <1>0 DEF IInv, TypeOK
<1> HIDE DEF st
<1>3. \A p \in Pid : /\ (state'[p] = "DEAD") <=> (state[p] = "DEAD")
                     /\ (state'[p] = "UNBORN") <=> (state[p] = "UNBORN")
  BY <1>1, <1>2, Running DEF Scheduled, Awake
<1>4. /\ pc' = [pc EXCEPT ![curr_proc] = "wait"]
      /\ arg' = [arg EXCEPT ![curr_proc] = t]
      /\ freed' = freed
  BY DEF Wait, listVars
<1>5. \A p \in Pid : /\ LifeOf(p)' = LifeOf(p)
                     /\ WaitsOf(p)' = IF p = curr_proc THEN t ELSE WaitsOf(p)
  BY <1>0, <1>3, <1>4, Running DEF LifeOf, WaitsOf, Waiting, IInv, TypeOK
<1>6. life' = life /\ waits' = [waits EXCEPT ![curr_proc] = t]
  BY <1>5, LifeValues
<1>7. life[curr_proc] = "alive" /\ waits[curr_proc] = NULL
  BY <1>0, Running, LifeValues DEF LifeOf, WaitsOf, Waiting
<1>8. life[t] = "alive"
  <2>1. t \in Created /\ state[t] # "DEAD"
    BY ListedCreated DEF Wait, IInv
  <2>2. state[t] # "UNBORN" /\ t \notin freed
    BY <2>1, CreatedPids DEF IInv, BornInOrder, FreedAreDead
  <2> QED
    BY <2>1, <2>2, LifeValues DEF LifeOf
<1> QED
  BY <1>6, <1>7, <1>8 DEF Abstract!BeginWait

LEMMA WaitReapRefines ==
    ASSUME IInv, WaitReap
    PROVE  arg[curr_proc] \in Pid /\ Abstract!Collect(curr_proc, arg[curr_proc])
<1> DEFINE t == arg[curr_proc]
<1>1. /\ pc[curr_proc] = "wait" /\ t \in Pid
      /\ state[t] = "DEAD" /\ t \notin freed
  BY Running, CreatedPids
     DEF IInv, WaitReap, At, Intact, LinksCreated, ReapsOnlyTheDead, Waiting
<1>2. /\ state' = state /\ freed' = freed \cup {t}
      /\ pc' = [pc EXCEPT ![curr_proc] = "user"]
      /\ arg' = [arg EXCEPT ![curr_proc] = NULL]
  BY DEF WaitReap
<1> HIDE DEF t
<1>3. \A p \in Pid : /\ LifeOf(p)' = IF p = t THEN "gone" ELSE LifeOf(p)
                     /\ WaitsOf(p)' = IF p = curr_proc THEN NULL ELSE WaitsOf(p)
  BY <1>1, <1>2, Running DEF LifeOf, WaitsOf, Waiting, IInv, TypeOK
<1>4. /\ life' = [life EXCEPT ![t] = "gone"]
      /\ waits' = [waits EXCEPT ![curr_proc] = NULL]
  BY <1>3, LifeValues
<1>5. life[t] = "dead"
  BY <1>1, LifeValues DEF LifeOf
<1>6. waits[curr_proc] = t
  BY <1>1, Running, LifeValues DEF WaitsOf, Waiting, t
<1> QED
  BY <1>1, <1>4, <1>5, <1>6 DEF Abstract!Collect, t

LEMMA NextRefines == IInv /\ [Next]_vars => [Abstract!Next]_Abstract!lvars
<1> SUFFICES ASSUME IInv, [Next]_vars PROVE [Abstract!Next]_Abstract!lvars
  OBVIOUS
<1>0. Listed \subseteq Pid /\ Listed \subseteq Created
  BY ListedCreated, CreatedPids DEF IInv
<1>1. CASE Spawn
  BY <1>1, SpawnRefines DEF Abstract!Next
<1>2. ASSUME NEW t \in Created, NEW W \in SUBSET Pid, t \notin W,
             \A p \in W : state[p] = "BLOCKED",
             \/ t = curr_proc /\ schedule(Killed(t, W))
             \/ t # curr_proc /\ state' = Killed(t, W) /\ UNCHANGED curr_proc,
             UNCHANGED <<freed, pc, arg>>
      PROVE  [Abstract!Next]_Abstract!lvars
  BY <1>2, DeathRefines DEF Abstract!Next
<1>3. curr_proc # idle_proc => curr_proc \in Created
  BY Running DEF IInv, TypeOK, Created, Pid, idle_proc
<1>4. CASE Exit
  <2>1. /\ WaitersOn(curr_proc) \in SUBSET Pid /\ curr_proc \notin WaitersOn(curr_proc)
        /\ \A p \in WaitersOn(curr_proc) : state[p] = "BLOCKED"
    BY <1>0, Running DEF WaitersOn
  <2>2. /\ schedule(Killed(curr_proc, WaitersOn(curr_proc)))
        /\ UNCHANGED <<freed, pc, arg>> /\ curr_proc \in Created
    BY <1>3, <1>4 DEF Exit, Does, listVars
  <2> QED
    BY <1>2, <2>1, <2>2
<1>5. CASE Fault
  <2>1. /\ FaultWaitersOn(curr_proc) \in SUBSET Pid /\ curr_proc \notin FaultWaitersOn(curr_proc)
        /\ \A p \in FaultWaitersOn(curr_proc) : state[p] = "BLOCKED"
    BY <1>0, Running DEF FaultWaitersOn
  <2>2. /\ schedule(Killed(curr_proc, FaultWaitersOn(curr_proc)))
        /\ UNCHANGED <<freed, pc, arg>> /\ curr_proc \in Created
    BY <1>3, <1>5 DEF Fault, Does, listVars
  <2> QED
    BY <1>2, <2>1, <2>2
<1>6. ASSUME NEW t \in Pid, Kill(t) PROVE [Abstract!Next]_Abstract!lvars
  <2> DEFINE W == WaitersOn(t) \ {t}
  <2>1. W \in SUBSET Pid /\ t \notin W /\ \A p \in W : state[p] = "BLOCKED"
    BY <1>0 DEF WaitersOn
  <2>2. /\ \/ t = curr_proc /\ schedule(Killed(t, W))
           \/ t # curr_proc /\ state' = Killed(t, W) /\ UNCHANGED curr_proc
        /\ UNCHANGED <<freed, pc, arg>> /\ t \in Created
    BY <1>0, <1>6 DEF Kill, listVars
  <2> HIDE DEF W
  <2> QED
    BY <1>2, <2>1, <2>2
<1>7. ASSUME NEW t \in Pid, Wait(t) PROVE [Abstract!Next]_Abstract!lvars
  BY <1>7, WaitRefines, Running DEF Abstract!Next
<1>8. CASE WaitReap
  BY <1>8, WaitReapRefines, Running DEF Abstract!Next
<1>9. CASE SpawnLink \/ SpawnPublish \/ WaitFault \/ Getchar \/ GetcharReturn
           \/ GetcharNB \/ UNCHANGED vars
  <2>1. /\ state' = state /\ freed' = freed
        /\ \A p \in Pid : /\ (pc'[p] = "wait") <=> (pc[p] = "wait")
                          /\ pc[p] = "wait" => arg'[p] = arg[p]
    BY <1>9, Running DEF SpawnLink, SpawnPublish, WaitFault, Getchar, GetcharReturn, GetcharNB,
                         vars, listVars, At, IInv, TypeOK
  <2>2. \A p \in Pid : LifeOf(p)' = LifeOf(p) /\ WaitsOf(p)' = WaitsOf(p)
    BY <2>1 DEF LifeOf, WaitsOf, Waiting
  <2> QED
    BY <2>2, Stutter
<1>10. ASSUME schedule([state EXCEPT ![curr_proc] = "BLOCKED"]), curr_proc # idle_proc,
              freed' = freed,
              \A p \in Pid : /\ (pc'[p] = "wait") <=> (pc[p] = "wait")
                             /\ pc[p] = "wait" => arg'[p] = arg[p]
       PROVE  UNCHANGED Abstract!lvars
  <2> DEFINE st == [state EXCEPT ![curr_proc] = "BLOCKED"]
  <2>1. Scheduled(st)
    BY <1>10, BlockSchedule
  <2>2. \A p \in Pid : /\ (st[p] = "DEAD") <=> (state[p] = "DEAD")
                       /\ (st[p] = "UNBORN") <=> (state[p] = "UNBORN")
    BY Running DEF IInv, TypeOK
  <2> HIDE DEF st
  <2> QED
    BY <1>10, <2>1, <2>2, ScheduledStutter
<1>11. CASE GetcharBlock \/ \E ms \in SleepMs : Sleep(ms)
  <2>1. /\ schedule([state EXCEPT ![curr_proc] = "BLOCKED"]) /\ curr_proc # idle_proc
        /\ freed' = freed
    BY <1>11 DEF GetcharBlock, Sleep, Does, listVars
  <2>2. \A p \in Pid : /\ (pc'[p] = "wait") <=> (pc[p] = "wait")
                       /\ pc[p] = "wait" => arg'[p] = arg[p]
    BY <1>11 DEF GetcharBlock, Sleep, Does, At, IInv, TypeOK
  <2> QED
    BY <1>10, <2>1, <2>2
<1>12. CASE YieldHlt
  <2>1. Scheduled(state)
    <3>1. /\ \A p \in Pid : state[p] = "RUNNING" => p = curr_proc
          /\ state[curr_proc] = "RUNNING" /\ Awake(state[idle_proc])
          /\ state \in [Pid -> States] /\ schedule(state)
      BY <1>12, Running DEF IInv, TypeOK, CurrentIsRunning, IdleRuns, Awake, YieldHlt
    <3> QED
      BY <3>1, ScheduleFacts DEF IInv
  <2>2. /\ freed' = freed
        /\ \A p \in Pid : /\ (pc'[p] = "wait") <=> (pc[p] = "wait")
                          /\ pc[p] = "wait" => arg'[p] = arg[p]
    BY <1>12 DEF YieldHlt, At, IInv, TypeOK, listVars
  <2> QED
    BY <2>1, <2>2, ScheduledStutter
<1>13. CASE Key
  <2>1. /\ \A p \in Pid : /\ (state'[p] = "DEAD") <=> (state[p] = "DEAD")
                          /\ (state'[p] = "UNBORN") <=> (state[p] = "UNBORN")
        /\ freed' = freed /\ arg' = arg
    BY <1>13 DEF Key, FirstOn, BlockedReaders, listVars
  <2>2. \A p \in Pid : (pc'[p] = "wait") <=> (pc[p] = "wait")
    BY <1>13 DEF Key, EndHlt, IInv, TypeOK
  <2>3. \A p \in Pid : LifeOf(p)' = LifeOf(p) /\ WaitsOf(p)' = WaitsOf(p)
    BY <2>1, <2>2 DEF LifeOf, WaitsOf, Waiting
  <2> QED
    BY <2>3, Stutter
<1>14. CASE Tick
  <2> DEFINE W == Due((tick_count + 1) % TickMod)
             st == [p \in Pid |-> IF p \in W THEN "READY" ELSE state[p]]
  <2>1. W \in SUBSET Pid /\ \A p \in W : state[p] = "BLOCKED" /\ block[p] = "SLEEP"
    BY <1>0 DEF Due
  <2>2. /\ schedule(st) /\ freed' = freed /\ pc' = EndHlt
        /\ arg' = [p \in Pid |-> IF p \in W THEN NULL ELSE arg[p]]
    BY <1>14 DEF Tick, listVars
  <2> HIDE DEF W
  <2>3. /\ st \in [Pid -> States]
        /\ \A p \in W : st[p] = "READY"
        /\ \A p \in Pid \ W : st[p] = state[p]
    BY <2>1 DEF IInv, TypeOK, States
  <2> HIDE DEF st
  <2>4. curr_proc \notin W /\ idle_proc \notin W
    BY <2>1, Running DEF IInv, IdleRuns
  <2>5. Scheduled(st)
    <3>1. /\ \A p \in Pid : st[p] = "RUNNING" => p = curr_proc
          /\ st[curr_proc] = "RUNNING" /\ Awake(st[idle_proc])
      BY <2>3, <2>4, Running DEF IInv, CurrentIsRunning, IdleRuns, Awake
    <3> QED
      BY <2>2, <2>3, <3>1, ScheduleFacts DEF IInv
  <2>6. \A p \in Pid : /\ (st[p] = "DEAD") <=> (state[p] = "DEAD")
                       /\ (st[p] = "UNBORN") <=> (state[p] = "UNBORN")
    BY <2>1, <2>3
  <2>7. \A p \in Pid : (pc'[p] = "wait") <=> (pc[p] = "wait")
    BY <2>2 DEF EndHlt, IInv, TypeOK
  <2>8. \A p \in Pid : pc[p] = "wait" => arg'[p] = arg[p]
    <3>1. \A p \in W : pc[p] = "user"
      BY <2>1 DEF IInv, BlockedInCall
    <3> QED
      BY <2>1, <2>2, <3>1
  <2> QED
    BY <2>2, <2>5, <2>6, <2>7, <2>8, ScheduledStutter
<1> QED
  BY <1>1, <1>4, <1>5, <1>6, <1>7, <1>8, <1>9, <1>11, <1>12, <1>13, <1>14 DEF Next

\* Every behaviour of the process table is one of Lifecycle: a process dies
\* once and is freed once, by a SYS_WAIT that began while it was alive, for any
\* number of processes and of waiters.
THEOREM Refinement == Spec => ImplementsLifecycle
<1>1. Init => Abstract!Init
  BY InitRefines
<1>2. IInv /\ [Next]_vars => [Abstract!Next]_Abstract!lvars
  BY NextRefines
<1> QED
  BY <1>1, <1>2, Invariance, PTL DEF Spec, ImplementsLifecycle, Abstract!Spec

---------------------------------------------------------------------------
(* The list of processes while no second process disturbs scheduler_add,   *)
(* what the loops over the list reach, and what follows for waiters,        *)
(* sleepers and readers.                                                   *)

(* Who is in the table.                                                    *)

\* The list is what the table of processes says.
LEMMA ListIsTable ==
    ASSUME ListInv
    PROVE  Numbers(InTable, MaxPid) /\ MaxPid \in Nat /\ Listed = InTable
<1>1. MaxPid \in Nat /\ Numbers(InTable, MaxPid)
  BY MaxPidAssumption DEF Numbers, InTable, UserPid, Pid, idle_proc
<1>2. Sorted(proc_list, next, InTable)
  BY DEF ListInv, ListSorted
<1> HIDE DEF InTable
<1> QED
  BY <1>1, <1>2, SortedWalk DEF Listed

\* What is known of the processes in the table, and of those outside it.
LEMMA TableFacts ==
    ASSUME ListInv
    PROVE  /\ InTable \subseteq Created /\ InTable \subseteq Pid
           /\ idle_proc \notin InTable /\ idle_proc \notin UnderConstruction
           /\ UnderConstruction \subseteq Created /\ UnderConstruction \subseteq Pid
           /\ InTable \cap UnderConstruction = {}
           /\ curr_proc \notin UnderConstruction
           /\ \A p \in UnderConstruction : state[p] = "READY"
           /\ \A p \in Pid : state[p] = "BLOCKED" => p \in InTable
           /\ \A p \in InTable : state[p] # "UNBORN" /\ p \notin freed
<1>1. UnderConstruction \subseteq Created /\ \A p \in UnderConstruction : state[p] = "READY"
  BY DEF ListInv, IInv, LinksCreated, UnderConstruction, Spawning, Constructed
<1>2. /\ Created \subseteq Pid /\ idle_proc \notin Created
      /\ \A p \in Created : ~ (p >= next_pid)
      /\ state[curr_proc] = "RUNNING"
  BY CreatedPids, Running DEF ListInv, IInv
<1>3. InTable \subseteq Pid /\ idle_proc \notin InTable
  BY DEF InTable, UserPid
<1>4. ASSUME NEW p \in InTable PROVE p \in Created
  <2>1. p \in Pid /\ p # idle_proc /\ ~ (p >= next_pid)
    BY DEF ListInv, IInv, BornInOrder, InTable, UserPid
  <2> QED
    BY <2>1, MaxPidAssumption DEF ListInv, IInv, TypeOK, Created, Pid, idle_proc
<1>5. ASSUME NEW p \in Pid, state[p] = "BLOCKED" PROVE p \in InTable
  <2>1. p # idle_proc /\ p \notin freed /\ p \notin UnderConstruction
    BY <1>1, <1>5 DEF ListInv, IInv, IdleRuns, FreedAreDead
  <2> QED
    BY <1>5, <2>1 DEF InTable, UserPid
<1>6. \A p \in InTable : state[p] # "UNBORN" /\ p \notin freed /\ p \notin UnderConstruction
  BY DEF InTable
<1> QED
  BY <1>1, <1>2, <1>3, <1>4, <1>5, <1>6

\* pick_next chooses from the table, or idle.
LEMMA PickInTable ==
    ASSUME ListInv, NEW st, NEW n \in pick_next(st)
    PROVE  n \in InTable \cup {idle_proc}
<1> DEFINE Q == InTable \cup {NULL}
           w == Walk(Ring[curr_proc], Ring, MaxPid)
<1>0. MaxPid \in Nat /\ NULL \notin Pid /\ InTable \subseteq Pid /\ idle_proc \in Pid
  BY MaxPidAssumption, TableFacts, CreatedPids, Running DEF ListInv, IInv
<1>1. proc_list \in Q /\ next[idle_proc] = NULL /\ \A p \in InTable : next[p] \in Q
  BY DEF ListInv, ListSorted, Sorted, IsLast
<1>2. NULL \in Q /\ \A p \in InTable \cup {idle_proc} : Ring[p] \in Q
  BY <1>0, <1>1 DEF Ring
<1>3. curr_proc \in InTable \cup {idle_proc} /\ Q \ {NULL} = InTable
  BY <1>0 DEF ListInv, CurrentInTable
<1>4. Ring[curr_proc] \in Q /\ \A p \in Q \ {NULL} : Ring[p] \in Q
  BY <1>2, <1>3
<1> HIDE DEF Q
<1>5. \A k \in 0..MaxPid : w[k] \in Q
  BY <1>0, <1>2, <1>4, WalkStaysIn
<1> HIDE DEF w
<1>6. n = idle_proc \/ \E k \in 0..MaxPid : n = w[k] /\ w[k] \in Pid
  BY DEF pick_next, FirstOn, w
<1> QED
  BY <1>0, <1>5, <1>6 DEF Q
---------------------------------------------------------------------------
(* What a step does to the states of processes.                            *)

\* The processes of D die, those of W wake, those of B block, and the CPU stays
\* with processes of the table.
Moves(D, W, B) ==
    /\ \A p \in Pid :
        /\ state'[p] = "DEAD" <=> (state[p] = "DEAD" \/ p \in D)
        /\ state'[p] = "BLOCKED" <=> (p \in B \/ (state[p] = "BLOCKED" /\ p \notin D \cup W))
        /\ state'[p] = "UNBORN" <=> state[p] = "UNBORN"
    /\ curr_proc' \in InTable \cup {idle_proc}
    /\ \A p \in UnderConstruction : state'[p] = "READY"

\* The same of the table of states st that schedule() is given.
LEMMA ScheduledMoves ==
    ASSUME ListInv,
           NEW st, Scheduled(st), schedule(st) \/ UNCHANGED curr_proc,
           NEW D, NEW W, NEW B,
           \A p \in Pid :
               /\ st[p] = "DEAD" <=> (state[p] = "DEAD" \/ p \in D)
               /\ st[p] = "BLOCKED" <=> (p \in B \/ (state[p] = "BLOCKED" /\ p \notin D \cup W))
               /\ st[p] = "UNBORN" <=> state[p] = "UNBORN",
           \A p \in UnderConstruction : st[p] = "READY"
    PROVE  Moves(D, W, B)
<1>1. curr_proc' \in InTable \cup {idle_proc}
  <2>1. CASE schedule(st)
    BY <2>1, PickInTable DEF schedule
  <2>2. CASE UNCHANGED curr_proc
    BY <2>2 DEF ListInv, CurrentInTable
  <2> QED
    BY <2>1, <2>2
<1>2. \A p \in Pid : /\ state'[p] = "DEAD" <=> st[p] = "DEAD"
                     /\ state'[p] = "BLOCKED" <=> st[p] = "BLOCKED"
                     /\ state'[p] = "UNBORN" <=> st[p] = "UNBORN"
  BY DEF Scheduled, Awake
<1>3. ASSUME NEW p \in UnderConstruction PROVE state'[p] = "READY"
  <2>1. p \in Pid /\ p # curr_proc'
    BY <1>1, TableFacts
  <2> QED
    BY <2>1 DEF Scheduled, Awake
<1> QED
  BY <1>1, <1>2, <1>3 DEF Moves

\* A death.
LEMMA DeathMoves ==
    ASSUME ListInv,
           NEW t, t \in InTable,
           NEW W \in SUBSET InTable, t \notin W,
           \A p \in W : state[p] = "BLOCKED",
           \/ t = curr_proc /\ schedule(Killed(t, W))
           \/ t # curr_proc /\ state' = Killed(t, W) /\ UNCHANGED curr_proc
    PROVE  Moves({t}, W, {})
<1> DEFINE st == Killed(t, W)
<1>1. IInv /\ t \in Created /\ t \in Pid /\ W \in SUBSET Pid
  BY TableFacts DEF ListInv
<1>2. Scheduled(st)
  BY <1>1, DeathSchedule
<1>3. \A p \in Pid : st[p] = IF p = t THEN "DEAD" ELSE IF p \in W THEN "READY" ELSE state[p]
  BY DEF Killed
<1>4. schedule(st) \/ UNCHANGED curr_proc
  OBVIOUS
<1> HIDE DEF st
<1>5. state[t] # "UNBORN"
  BY TableFacts
<1>6. \A p \in Pid :
          /\ st[p] = "DEAD" <=> (state[p] = "DEAD" \/ p \in {t})
          /\ st[p] = "BLOCKED" <=> (p \in {} \/ (state[p] = "BLOCKED" /\ p \notin {t} \cup W))
          /\ st[p] = "UNBORN" <=> state[p] = "UNBORN"
  BY <1>3, <1>5
<1>7. \A p \in UnderConstruction : st[p] = "READY"
  BY <1>3, TableFacts
<1> QED
  BY <1>2, <1>4, <1>6, <1>7, ScheduledMoves

\* The current process blocks.
LEMMA BlockMoves ==
    ASSUME ListInv, curr_proc # idle_proc, schedule([state EXCEPT ![curr_proc] = "BLOCKED"])
    PROVE  Moves({}, {}, {curr_proc})
<1> DEFINE st == [state EXCEPT ![curr_proc] = "BLOCKED"]
<1>1. Scheduled(st)
  BY BlockSchedule DEF ListInv
<1>2. \A p \in Pid : st[p] = IF p = curr_proc THEN "BLOCKED" ELSE state[p]
  BY DEF ListInv, IInv, TypeOK
<1>3. schedule(st) \/ UNCHANGED curr_proc
  OBVIOUS
<1> HIDE DEF st
<1>4. state[curr_proc] = "RUNNING"
  BY Running DEF ListInv
<1>5. \A p \in Pid :
          /\ st[p] = "DEAD" <=> (state[p] = "DEAD" \/ p \in {})
          /\ st[p] = "BLOCKED" <=> (p \in {curr_proc} \/ (state[p] = "BLOCKED" /\ p \notin {} \cup {}))
          /\ st[p] = "UNBORN" <=> state[p] = "UNBORN"
  BY <1>2, <1>4
<1>6. \A p \in UnderConstruction : st[p] = "READY"
  BY <1>2, TableFacts
<1> QED
  BY <1>1, <1>3, <1>5, <1>6, ScheduledMoves

\* The processes of W wake, and the CPU may change hands.
LEMMA WakeMoves ==
    ASSUME ListInv,
           NEW W \in SUBSET Pid, \A p \in W : state[p] = "BLOCKED",
           NEW st, st = [p \in Pid |-> IF p \in W THEN "READY" ELSE state[p]],
           schedule(st) \/ (state' = st /\ UNCHANGED curr_proc)
    PROVE  Moves({}, W, {})
<1>1. IInv /\ curr_proc \in Pid /\ curr_proc \notin W /\ idle_proc \notin W /\ idle_proc \in Pid
  BY Running DEF ListInv, IInv, IdleRuns
<1>2. /\ st \in [Pid -> States]
      /\ \A p \in Pid : st[p] = IF p \in W THEN "READY" ELSE state[p]
  BY DEF ListInv, IInv, TypeOK, States
<1>3. schedule(st) \/ UNCHANGED curr_proc
  OBVIOUS
<1>4. Scheduled(st)
  <2>1. /\ \A p \in Pid : st[p] = "RUNNING" <=> p = curr_proc
        /\ Awake(st[idle_proc])
    BY <1>1, <1>2 DEF IInv, CurrentIsRunning, IdleRuns, Awake
  <2>2. CASE schedule(st)
    BY <1>1, <1>2, <2>1, <2>2, ScheduleFacts DEF IInv
  <2>3. CASE state' = st /\ UNCHANGED curr_proc
    BY <1>1, <1>2, <2>1, <2>3 DEF Scheduled
  <2> QED
    BY <2>2, <2>3
<1>5. \A p \in Pid :
          /\ st[p] = "DEAD" <=> (state[p] = "DEAD" \/ p \in {})
          /\ st[p] = "BLOCKED" <=> (p \in {} \/ (state[p] = "BLOCKED" /\ p \notin {} \cup W))
          /\ st[p] = "UNBORN" <=> state[p] = "UNBORN"
  BY <1>2
<1>6. \A p \in UnderConstruction : st[p] = "READY"
  BY <1>2, TableFacts
<1> QED
  BY <1>3, <1>4, <1>5, <1>6, ScheduledMoves

LEMMA ExitMoves == ListInv /\ Exit => Moves({curr_proc}, WaitersOn(curr_proc), {})
<1> SUFFICES ASSUME ListInv, Exit PROVE Moves({curr_proc}, WaitersOn(curr_proc), {})
  OBVIOUS
<1>1. curr_proc \in InTable
  BY DEF Exit, Does, ListInv, CurrentInTable
<1>2. /\ WaitersOn(curr_proc) \in SUBSET InTable /\ curr_proc \notin WaitersOn(curr_proc)
      /\ \A p \in WaitersOn(curr_proc) : state[p] = "BLOCKED"
  BY ListIsTable, Running DEF WaitersOn, ListInv
<1> HIDE DEF WaitersOn
<1> QED
  BY <1>1, <1>2, DeathMoves DEF Exit

LEMMA FaultMoves == ListInv /\ Fault => Moves({curr_proc}, FaultWaitersOn(curr_proc), {})
<1> SUFFICES ASSUME ListInv, Fault PROVE Moves({curr_proc}, FaultWaitersOn(curr_proc), {})
  OBVIOUS
<1>1. curr_proc \in InTable
  BY DEF Fault, Does, ListInv, CurrentInTable
<1>2. /\ FaultWaitersOn(curr_proc) \in SUBSET InTable
      /\ curr_proc \notin FaultWaitersOn(curr_proc)
      /\ \A p \in FaultWaitersOn(curr_proc) : state[p] = "BLOCKED"
  BY ListIsTable, Running DEF FaultWaitersOn, ListInv
<1> QED
  BY <1>1, <1>2, DeathMoves DEF Fault

LEMMA KillMoves ==
    ASSUME NEW t \in Pid PROVE ListInv /\ Kill(t) => Moves({t}, WaitersOn(t) \ {t}, {})
<1> SUFFICES ASSUME ListInv, Kill(t) PROVE Moves({t}, WaitersOn(t) \ {t}, {})
  OBVIOUS
<1> DEFINE W == WaitersOn(t) \ {t}
<1>1. /\ t \in InTable /\ W \in SUBSET InTable /\ t \notin W
      /\ \A p \in W : state[p] = "BLOCKED"
  BY ListIsTable DEF WaitersOn, Kill
<1>2. \/ t = curr_proc /\ schedule(Killed(t, W))
      \/ t # curr_proc /\ state' = Killed(t, W) /\ UNCHANGED curr_proc
  BY DEF Kill
<1> HIDE DEF W
<1> QED
  BY <1>1, <1>2, DeathMoves DEF W

\* A system call that blocks.
LEMMA CallMoves ==
    ListInv /\ ((\E t \in Pid : Wait(t)) \/ (\E ms \in SleepMs : Sleep(ms)) \/ GetcharBlock)
        => curr_proc # idle_proc /\ Moves({}, {}, {curr_proc})
BY BlockMoves DEF Wait, Sleep, GetcharBlock, Does

LEMMA KeyMoves ==
    ListInv /\ Key => Moves({}, FirstOn(MaxPid, Walk(proc_list, next, MaxPid), BlockedReaders), {})
<1> SUFFICES ASSUME ListInv, Key
             PROVE  Moves({}, FirstOn(MaxPid, Walk(proc_list, next, MaxPid), BlockedReaders), {})
  OBVIOUS
<1> DEFINE W == FirstOn(MaxPid, Walk(proc_list, next, MaxPid), BlockedReaders)
           st == [p \in Pid |-> IF p \in W THEN "READY" ELSE state[p]]
<1>1. W \in SUBSET Pid /\ \A p \in W : state[p] = "BLOCKED"
  BY DEF FirstOn, BlockedReaders
<1>2. state' = st /\ UNCHANGED curr_proc
  BY DEF Key
<1> HIDE DEF W
<1> QED
  BY <1>1, <1>2, WakeMoves DEF W

LEMMA TickMoves == ListInv /\ Tick => Moves({}, Due((tick_count + 1) % TickMod), {})
<1> SUFFICES ASSUME ListInv, Tick PROVE Moves({}, Due((tick_count + 1) % TickMod), {})
  OBVIOUS
<1> DEFINE W == Due((tick_count + 1) % TickMod)
           st == [p \in Pid |-> IF p \in W THEN "READY" ELSE state[p]]
<1>1. W \in SUBSET Pid /\ \A p \in W : state[p] = "BLOCKED"
  BY ListIsTable, TableFacts DEF Due
<1>2. schedule(st)
  BY DEF Tick
<1> HIDE DEF W
<1> QED
  BY <1>1, <1>2, WakeMoves DEF W

LEMMA YieldMoves == ListInv /\ YieldHlt => Moves({}, {}, {})
<1> SUFFICES ASSUME ListInv, YieldHlt PROVE Moves({}, {}, {})
  OBVIOUS
<1> DEFINE st == [p \in Pid |-> IF p \in {} THEN "READY" ELSE state[p]]
<1>1. st = state
  BY DEF ListInv, IInv, TypeOK
<1>2. schedule(st)
  BY <1>1 DEF YieldHlt
<1> HIDE DEF st
<1>3. {} \in SUBSET Pid /\ \A p \in {} : state[p] = "BLOCKED"
  OBVIOUS
<1> QED
  BY <1>2, <1>3, WakeMoves DEF st

\* The steps that leave every state alone.
LEMMA StillMoves == ListInv /\ UNCHANGED <<state, curr_proc>> => Moves({}, {}, {})
<1> SUFFICES ASSUME ListInv, UNCHANGED <<state, curr_proc>> PROVE Moves({}, {}, {})
  OBVIOUS
<1> QED
  BY TableFacts DEF Moves, ListInv, CurrentInTable
---------------------------------------------------------------------------
(* The list invariant is inductive.                                        *)

LEMMA InitListInv == Init => ListInv
<1> SUFFICES ASSUME Init PROVE ListInv
  OBVIOUS
<1>0. MaxPid \in Nat \ {0} /\ init_proc \in Pid /\ idle_proc \in Pid /\ init_proc # idle_proc
  BY MaxPidAssumption DEF Pid, init_proc, idle_proc
<1>1. UnderConstruction = {} /\ \A p \in Pid : ~ Spawning(p)
  BY DEF Init, UnderConstruction, Spawning
<1>2. InTable = {init_proc}
  BY <1>0, <1>1 DEF Init, OnlyBoot, InTable, UserPid
<1>3. IsLast(init_proc, {init_proc}) /\ {q \in {init_proc} : q < init_proc} = {}
  BY DEF IsLast, init_proc
<1>4. ListSorted
  BY <1>0, <1>2, <1>3 DEF Init, ListSorted, Sorted, IsLast
<1>5. CurrentInTable
  BY <1>2 DEF Init, CurrentInTable
<1>6. Constructed
  BY <1>1 DEF Constructed
<1> QED
  BY <1>4, <1>5, <1>6, InitIInv DEF ListInv

\* A step that keeps the list and does not take part in SYS_SPAWN.
LEMMA KeepsList ==
    ASSUME ListInv, IInv', NEW D, NEW W, NEW B, Moves(D, W, B),
           UNCHANGED listVars,
           \A p \in Pid : Spawning(p) \/ Spawning(p)' => pc'[p] = pc[p] /\ arg'[p] = arg[p]
    PROVE  ListInv' /\ InTable' = InTable
<1>1. /\ \A p \in Pid : Spawning(p)' <=> Spawning(p)
      /\ \A p \in Pid : Spawning(p) => pc'[p] = pc[p] /\ arg'[p] = arg[p]
  BY DEF Spawning
<1>2. UnderConstruction' = UnderConstruction
  BY <1>1 DEF UnderConstruction
<1>3. InTable' = InTable
  BY <1>2 DEF InTable, Moves, listVars, UserPid
<1>4. ListSorted'
  BY <1>3 DEF ListInv, ListSorted, listVars
<1>5. CurrentInTable'
  BY <1>3 DEF CurrentInTable, Moves
<1>6. Constructed'
  <2> SUFFICES ASSUME NEW p \in Pid, Spawning(p)'
               PROVE  /\ state'[arg'[p]] = "READY"
                      /\ \A q \in Pid \ {p} : Spawning(q)' => arg'[q] # arg'[p]
                      /\ state'[p] # "DEAD" => /\ arg'[p] = next_pid' - 1
                                               /\ pc'[p] = "publish" => next'[arg'[p]] = proc_list'
    BY DEF Constructed
  <2>1. Spawning(p) /\ pc'[p] = pc[p] /\ arg'[p] = arg[p] /\ arg[p] \in UnderConstruction
    BY <1>1 DEF UnderConstruction
  <2>2. state'[arg'[p]] = "READY"
    BY <2>1 DEF Moves
  <2>3. \A q \in Pid \ {p} : Spawning(q)' => arg'[q] # arg'[p]
    BY <1>1, <2>1 DEF ListInv, Constructed
  <2>4. state'[p] # "DEAD" => /\ arg'[p] = next_pid' - 1
                              /\ pc'[p] = "publish" => next'[arg'[p]] = proc_list'
    BY <2>1 DEF ListInv, Constructed, Moves, listVars
  <2> QED
    BY <2>2, <2>3, <2>4
<1> QED
  BY <1>3, <1>4, <1>5, <1>6 DEF ListInv

\* When a step changes the list, no other live process is inside scheduler_add.
LEMMA AloneInSpawn ==
    ASSUME Undisturbed, <<proc_list, next, next_pid>>' # <<proc_list, next, next_pid>>
    PROVE  \A p \in Pid \ {curr_proc} : Spawning(p) => state[p] = "DEAD"
BY DEF Undisturbed

LEMMA SpawnListInv == ListInv /\ Undisturbed /\ Spawn => ListInv'
<1> SUFFICES ASSUME ListInv, Undisturbed, Spawn PROVE ListInv'
  OBVIOUS
<1> DEFINE c == next_pid
<1>0. /\ IInv /\ IInv' /\ c \in Pid /\ c # idle_proc /\ state[c] = "UNBORN" /\ c \notin Created
      /\ c \in Int /\ curr_proc \in Pid /\ c # curr_proc /\ state[curr_proc] = "RUNNING"
  BY Running, CreatedPids, SpawnIInv
     DEF ListInv, IInv, Spawn, process_create, BornInOrder, TypeOK, idle_proc
<1>1. /\ pc[curr_proc] = "user" /\ proc_list' = proc_list /\ next' = next /\ freed' = freed
      /\ next_pid' = c + 1 /\ curr_proc' = curr_proc
      /\ \A p \in Pid : /\ state'[p] = IF p = c THEN "READY" ELSE state[p]
                        /\ pc'[p] = IF p = curr_proc THEN "link" ELSE pc[p]
                        /\ arg'[p] = IF p = curr_proc THEN c ELSE arg[p]
  <2>1. pc \in [Pid -> Interruptible \cup InKernel] /\ arg \in [Pid -> Int] /\ state \in [Pid -> States]
    BY <1>0 DEF IInv, TypeOK
  <2>2. /\ pc[curr_proc] = "user" /\ proc_list' = proc_list /\ next' = next /\ freed' = freed
        /\ next_pid' = c + 1 /\ curr_proc' = curr_proc
        /\ state' = [state EXCEPT ![c] = "READY"]
        /\ pc' = [pc EXCEPT ![curr_proc] = "link"]
        /\ arg' = [arg EXCEPT ![curr_proc] = c]
    BY DEF Spawn, process_create, Does, At
  <2> HIDE DEF c
  <2> QED
    BY <1>0, <2>1, <2>2
<1>2. \A p \in Pid \ {curr_proc} : Spawning(p) => state[p] = "DEAD"
  <2>1. next_pid' # next_pid
    BY <1>0, <1>1
  <2> QED
    BY <2>1, AloneInSpawn
<1>3. /\ \A p \in Pid \ {curr_proc} : /\ Spawning(p)' <=> Spawning(p)
                                      /\ arg'[p] = arg[p]
      /\ ~ Spawning(curr_proc) /\ Spawning(curr_proc)' /\ arg'[curr_proc] = c
  <2>1. \A p \in Pid \ {curr_proc} : pc'[p] = pc[p] /\ arg'[p] = arg[p]
    BY <1>1
  <2>2. /\ pc[curr_proc] = "user" /\ pc'[curr_proc] = "link" /\ arg'[curr_proc] = c
        /\ curr_proc' = curr_proc
    BY <1>0, <1>1
  <2> QED
    BY <2>1, <2>2 DEF Spawning
<1>4. UnderConstruction' = UnderConstruction \cup {c}
  <2>1. \A x : x \in UnderConstruction => x \in UnderConstruction'
    BY <1>3 DEF UnderConstruction
  <2>2. \A x : x \in UnderConstruction' => x = c \/ x \in UnderConstruction
    BY <1>3 DEF UnderConstruction
  <2>3. c \in UnderConstruction'
    BY <1>0, <1>1, <1>3 DEF UnderConstruction
  <2> QED
    BY <2>1, <2>2, <2>3
<1>5. c \notin InTable /\ c \notin UnderConstruction
  BY <1>0, TableFacts
<1>6. InTable' = InTable
  BY <1>0, <1>1, <1>4, <1>5 DEF InTable, UserPid
<1>7. ListSorted' /\ CurrentInTable'
  BY <1>1, <1>6 DEF ListInv, ListSorted, CurrentInTable
<1>8. Constructed'
  <2>1. ASSUME NEW p \in Pid, Spawning(p)', p # curr_proc
        PROVE  /\ state'[arg'[p]] = "READY" /\ state'[p] = "DEAD" /\ arg'[p] # c
               /\ \A q \in Pid \ {p} : Spawning(q)' => arg'[q] # arg'[p]
    <3>1. Spawning(p) /\ arg'[p] = arg[p] /\ arg[p] \in UnderConstruction
      BY <1>3, <2>1 DEF UnderConstruction
    <3>2. arg[p] # c /\ state[arg[p]] = "READY" /\ arg[p] \in Pid
      BY <1>5, <3>1, TableFacts
    <3>3. \A q \in Pid \ {p} : Spawning(q) => arg[q] # arg[p]
      BY <3>1 DEF ListInv, Constructed
    <3>4. \A q \in Pid \ {p} : Spawning(q)' => arg'[q] # arg'[p]
      BY <1>3, <3>1, <3>2, <3>3
    <3>5. state[p] = "DEAD" /\ p # c
      BY <1>0, <1>2, <2>1, <3>1
    <3> QED
      BY <1>1, <3>1, <3>2, <3>4, <3>5
  <2>2. /\ state'[arg'[curr_proc]] = "READY" /\ arg'[curr_proc] = next_pid' - 1
        /\ pc'[curr_proc] # "publish"
        /\ \A q \in Pid \ {curr_proc} : Spawning(q)' => arg'[q] # arg'[curr_proc]
    BY <1>0, <1>1, <1>3, <2>1
  <2> QED
    BY <2>1, <2>2 DEF Constructed
<1> QED
  BY <1>0, <1>7, <1>8 DEF ListInv

LEMMA SpawnLinkListInv == ListInv /\ SpawnLink => ListInv'
<1> SUFFICES ASSUME ListInv, SpawnLink PROVE ListInv'
  OBVIOUS
<1> DEFINE c == arg[curr_proc]
<1>0. /\ IInv /\ IInv' /\ curr_proc \in Pid /\ state[curr_proc] = "RUNNING"
      /\ Spawning(curr_proc) /\ c \in UnderConstruction
  BY Running, SpawnLinkIInv DEF ListInv, SpawnLink, At, Spawning, UnderConstruction
<1>1. c \in Pid /\ c # idle_proc /\ c \notin InTable
  BY <1>0, TableFacts
<1>2. /\ UNCHANGED <<proc_list, next_pid, freed, curr_proc, state, arg>>
      /\ \A p \in Pid : /\ pc'[p] = IF p = curr_proc THEN "publish" ELSE pc[p]
                        /\ next'[p] = IF p = c THEN proc_list ELSE next[p]
  BY <1>0, <1>1 DEF IInv, TypeOK, SpawnLink
<1>3. \A p \in Pid : Spawning(p)' <=> Spawning(p)
  BY <1>0, <1>2 DEF Spawning
<1>4. InTable' = InTable
  BY <1>2, <1>3 DEF InTable, UnderConstruction, UserPid
<1>5. ListSorted'
  <2>1. \A p \in InTable \cup {idle_proc} : next'[p] = next[p]
    BY <1>1, <1>2, TableFacts, Running DEF ListInv
  <2>2. proc_list' = proc_list
    BY <1>2
  <2> HIDE DEF InTable
  <2>3. Sorted(proc_list, next, InTable) /\ next[idle_proc] = NULL
    BY DEF ListInv, ListSorted
  <2>4. Sorted(proc_list, next', InTable)
    BY <2>1, <2>3 DEF Sorted
  <2> QED
    BY <1>4, <2>1, <2>2, <2>3, <2>4 DEF ListSorted
<1>6. CurrentInTable'
  BY <1>2, <1>4 DEF ListInv, CurrentInTable
<1>7. Constructed'
  <2>1. ASSUME NEW p \in Pid, Spawning(p)
        PROVE  /\ state[arg[p]] = "READY"
               /\ \A q \in Pid \ {p} : Spawning(q) => arg[q] # arg[p]
               /\ state[p] # "DEAD" => /\ arg[p] = next_pid - 1
                                       /\ pc'[p] = "publish" => next'[arg[p]] = proc_list
    <3>1. /\ state[arg[p]] = "READY"
          /\ \A q \in Pid \ {p} : Spawning(q) => arg[q] # arg[p]
          /\ state[p] # "DEAD" => /\ arg[p] = next_pid - 1
                                  /\ pc[p] = "publish" => next[arg[p]] = proc_list
      BY <2>1 DEF ListInv, Constructed
    <3>2. arg[p] \in Pid
      BY <2>1, TableFacts DEF UnderConstruction
    <3>3. CASE p = curr_proc
      BY <1>2, <3>1, <3>2, <3>3
    <3>4. CASE p # curr_proc
      BY <1>0, <1>2, <3>1, <3>2, <3>4
    <3> QED
      BY <3>3, <3>4
  <2> SUFFICES ASSUME NEW p \in Pid, Spawning(p)'
               PROVE  /\ state'[arg'[p]] = "READY"
                      /\ \A q \in Pid \ {p} : Spawning(q)' => arg'[q] # arg'[p]
                      /\ state'[p] # "DEAD" => /\ arg'[p] = next_pid' - 1
                                               /\ pc'[p] = "publish" => next'[arg'[p]] = proc_list'
    BY DEF Constructed
  <2>2. proc_list' = proc_list /\ next_pid' = next_pid /\ state' = state /\ arg' = arg /\ Spawning(p)
    BY <1>2, <1>3
  <2>3. \A q \in Pid \ {p} : Spawning(q)' => arg'[q] # arg'[p]
    BY <1>3, <2>1, <2>2
  <2> QED
    BY <2>1, <2>2, <2>3
<1> QED
  BY <1>0, <1>5, <1>6, <1>7 DEF ListInv

LEMMA SpawnPublishListInv ==
    ListInv /\ Undisturbed /\ SpawnPublish => ListInv' /\ InTable' = InTable \cup {arg[curr_proc]}
<1> SUFFICES ASSUME ListInv, Undisturbed, SpawnPublish
             PROVE  ListInv' /\ InTable' = InTable \cup {arg[curr_proc]}
  OBVIOUS
<1> DEFINE c == arg[curr_proc]
<1>0. /\ IInv /\ IInv' /\ curr_proc \in Pid /\ state[curr_proc] = "RUNNING"
      /\ Spawning(curr_proc) /\ pc[curr_proc] = "publish" /\ c \in UnderConstruction
  BY Running, SpawnPublishIInv DEF ListInv, SpawnPublish, At, Spawning, UnderConstruction
<1>1. c \in Pid /\ c # idle_proc /\ c \notin InTable /\ state[c] = "READY" /\ c \notin freed
  BY <1>0, TableFacts DEF IInv, FreedAreDead
<1>2. /\ UNCHANGED <<next, next_pid, freed, curr_proc, state>> /\ proc_list' = c
      /\ \A p \in Pid : /\ pc'[p] = IF p = curr_proc THEN "user" ELSE pc[p]
                        /\ arg'[p] = IF p = curr_proc THEN NULL ELSE arg[p]
  BY <1>0 DEF IInv, TypeOK, SpawnPublish
<1>3. /\ c = next_pid - 1 /\ next[c] = proc_list
      /\ \A q \in Pid \ {curr_proc} : Spawning(q) => arg[q] # c
  BY <1>0 DEF ListInv, Constructed
<1>4. \A p \in Pid : Spawning(p)' <=> Spawning(p) /\ p # curr_proc
  BY <1>0, <1>2 DEF Spawning
<1>5. UnderConstruction' = UnderConstruction \ {c}
  BY <1>0, <1>2, <1>3, <1>4 DEF UnderConstruction
<1>6. InTable' = InTable \cup {c}
  BY <1>0, <1>1, <1>2, <1>5 DEF InTable, UserPid
<1>7. Sorted(c, next, InTable \cup {c})
  <2>1. \A q \in InTable : q \in Int /\ q < c
    <3>1. next_pid \in Int /\ InTable \subseteq 1..(next_pid - 1)
      BY TableFacts DEF Created, IInv, TypeOK, ListInv
    <3> QED
      BY <1>1, <1>3, <3>1
  <2>2. Sorted(proc_list, next, InTable)
    BY DEF ListInv, ListSorted
  <2>3. c \in Int
    BY <1>0 DEF IInv, TypeOK
  <2> HIDE DEF InTable, c
  <2> QED
    BY <1>3, <2>1, <2>2, <2>3, ListIsTable, SortedAdd
<1>8. ListSorted'
  <2> HIDE DEF InTable
  <2> QED
    BY <1>2, <1>6, <1>7 DEF ListInv, ListSorted
<1>9. CurrentInTable'
  BY <1>2, <1>6 DEF ListInv, CurrentInTable
<1>10. \A p \in Pid \ {curr_proc} : Spawning(p) => state[p] = "DEAD"
  <2>1. proc_list \in InTable \cup {NULL}
    BY DEF ListInv, ListSorted, Sorted, IsLast
  <2>2. proc_list' # proc_list
    BY <1>0, <1>1, <1>2, <2>1, CreatedPids DEF IInv
  <2> QED
    BY <2>2, AloneInSpawn
<1>11. Constructed'
  <2> SUFFICES ASSUME NEW p \in Pid, Spawning(p), p # curr_proc
               PROVE  /\ state[arg[p]] = "READY" /\ state[p] = "DEAD"
                      /\ \A q \in Pid \ {p} : Spawning(q) => arg[q] # arg[p]
    BY <1>2, <1>4 DEF Constructed
  <2> QED
    BY <1>10 DEF ListInv, Constructed
<1> QED
  BY <1>0, <1>6, <1>8, <1>9, <1>11 DEF ListInv

LEMMA WaitReapListInv ==
    ListInv /\ Undisturbed /\ WaitReap => ListInv' /\ InTable' = InTable \ {arg[curr_proc]}
<1> SUFFICES ASSUME ListInv, Undisturbed, WaitReap
             PROVE  ListInv' /\ InTable' = InTable \ {arg[curr_proc]}
  OBVIOUS
<1> DEFINE t == arg[curr_proc]
<1>0. /\ IInv /\ IInv' /\ curr_proc \in Pid /\ state[curr_proc] = "RUNNING"
      /\ pc[curr_proc] = "wait" /\ t \in InTable /\ state[t] = "DEAD"
  BY Running, WaitReapIInv, ListIsTable
     DEF ListInv, WaitReap, At, IInv, ReapsOnlyTheDead, Waiting
<1>1. /\ UNCHANGED <<next_pid, curr_proc, state>>
      /\ proc_list' = UnlinkedHead(t) /\ next' = UnlinkedNext(t) /\ freed' = freed \cup {t}
      /\ \A p \in Pid : /\ pc'[p] = IF p = curr_proc THEN "user" ELSE pc[p]
                        /\ p # curr_proc => arg'[p] = arg[p]
  BY <1>0 DEF IInv, TypeOK, WaitReap
<1>2. /\ \A p \in Pid : Spawning(p)' <=> Spawning(p)
      /\ \A p \in Pid : Spawning(p) => p # curr_proc /\ arg'[p] = arg[p] /\ pc'[p] = pc[p]
  <2>1. \A p \in Pid \ {curr_proc} : pc'[p] = pc[p] /\ arg'[p] = arg[p]
    BY <1>1
  <2>2. pc[curr_proc] = "wait" /\ pc'[curr_proc] = "user"
    BY <1>0, <1>1
  <2> QED
    BY <2>1, <2>2 DEF Spawning
<1>3. UnderConstruction' = UnderConstruction
  <2>1. \A x : x \in UnderConstruction <=> x \in UnderConstruction'
    BY <1>2 DEF UnderConstruction
  <2> QED
    BY <2>1
<1>4. InTable' = InTable \ {t}
  BY <1>1, <1>3 DEF InTable, UserPid
<1>5. ListSorted'
  <2>1. proc_list' = IF proc_list = t THEN next[t] ELSE proc_list
    BY <1>1 DEF UnlinkedHead
  <2>2. \A p \in InTable \ {t} :
            next'[p] = IF proc_list # t /\ next[p] = t THEN next[t] ELSE next[p]
    BY <1>1, ListIsTable, TableFacts DEF UnlinkedNext
  <2>3. next'[idle_proc] = NULL
    <3>1. next[idle_proc] = NULL /\ t # NULL /\ idle_proc \in Pid
      BY <1>0, TableFacts, CreatedPids, Running DEF ListInv, ListSorted, IInv
    <3> QED
      BY <1>1, <3>1 DEF UnlinkedNext
  <2>4. Sorted(proc_list, next, InTable)
    BY DEF ListInv, ListSorted
  <2> HIDE DEF InTable, t
  <2>5. Sorted(IF proc_list = t THEN next[t] ELSE proc_list, next', InTable \ {t})
    BY <1>0, <2>2, <2>4, ListIsTable, SortedRemove
  <2> QED
    BY <1>4, <2>1, <2>3, <2>5 DEF ListSorted
<1>6. CurrentInTable'
  BY <1>0, <1>1, <1>4 DEF ListInv, CurrentInTable
<1>7. Constructed'
  <2>1. ASSUME NEW p \in Pid, Spawning(p)
        PROVE  /\ state[arg[p]] = "READY"
               /\ \A q \in Pid \ {p} : Spawning(q) => arg[q] # arg[p]
               /\ state[p] # "DEAD" => /\ arg[p] = next_pid - 1
                                       /\ pc[p] = "publish" => next'[arg[p]] = proc_list'
    <3>1. /\ state[arg[p]] = "READY"
          /\ \A q \in Pid \ {p} : Spawning(q) => arg[q] # arg[p]
          /\ state[p] # "DEAD" => /\ arg[p] = next_pid - 1
                                  /\ pc[p] = "publish" => next[arg[p]] = proc_list
      BY <2>1 DEF ListInv, Constructed
    <3>2. state[p] # "DEAD" => proc_list' = proc_list /\ next' = next
      <4>1. p \in Pid \ {curr_proc}
        BY <1>2, <2>1
      <4> QED
        BY <2>1, <4>1 DEF Undisturbed
    <3> QED
      BY <3>1, <3>2
  <2> SUFFICES ASSUME NEW p \in Pid, Spawning(p)'
               PROVE  /\ state'[arg'[p]] = "READY"
                      /\ \A q \in Pid \ {p} : Spawning(q)' => arg'[q] # arg'[p]
                      /\ state'[p] # "DEAD" => /\ arg'[p] = next_pid' - 1
                                               /\ pc'[p] = "publish" => next'[arg'[p]] = proc_list'
    BY DEF Constructed
  <2>2. next_pid' = next_pid /\ state' = state /\ arg'[p] = arg[p] /\ pc'[p] = pc[p] /\ Spawning(p)
    BY <1>1, <1>2
  <2>3. \A q \in Pid \ {p} : Spawning(q)' => arg'[q] # arg'[p]
    BY <1>2, <2>1, <2>2
  <2> QED
    BY <2>1, <2>2, <2>3
<1> QED
  BY <1>0, <1>4, <1>5, <1>6, <1>7 DEF ListInv

\* The steps that leave the list alone.
LEMMA OtherListInv ==
    ListInv /\ [Next]_vars /\ UNCHANGED listVars /\ ~ (Spawn \/ SpawnLink \/ SpawnPublish)
        => ListInv' /\ InTable' = InTable
<1> SUFFICES ASSUME ListInv, [Next]_vars, UNCHANGED listVars, ~ (Spawn \/ SpawnLink \/ SpawnPublish)
             PROVE  ListInv' /\ InTable' = InTable
  OBVIOUS
<1> DEFINE Bystander(p) == Spawning(p) \/ Spawning(p)' => pc'[p] = pc[p] /\ arg'[p] = arg[p]
<1>0. /\ IInv /\ IInv' /\ curr_proc \in Pid
      /\ pc \in [Pid -> Interruptible \cup InKernel] /\ arg \in [Pid -> Int]
  BY Running, NextIInv DEF ListInv, IInv, TypeOK
<1>1. ASSUME NEW D, NEW W, NEW B, Moves(D, W, B), \A p \in Pid : Bystander(p)
      PROVE  ListInv' /\ InTable' = InTable
  BY <1>0, <1>1, KeepsList
<1>2. (UNCHANGED <<pc, arg>>) => \A p \in Pid : Bystander(p)
  OBVIOUS
<1>3. CASE Exit
  BY <1>1, <1>2, <1>3, ExitMoves DEF Exit
<1>4. CASE Fault
  BY <1>1, <1>2, <1>4, FaultMoves DEF Fault
<1>5. ASSUME NEW t \in Pid, Kill(t) PROVE ListInv' /\ InTable' = InTable
  BY <1>1, <1>2, <1>5, KillMoves DEF Kill
<1>6. CASE (\E t \in Pid : Wait(t)) \/ (\E ms \in SleepMs : Sleep(ms)) \/ GetcharBlock
  <2>1. /\ pc[curr_proc] = "user" /\ pc'[curr_proc] \in {"user", "wait", "getchar"}
        /\ \A p \in Pid \ {curr_proc} : pc'[p] = pc[p] /\ arg'[p] = arg[p]
    BY <1>0, <1>6 DEF Wait, Sleep, GetcharBlock, Does, At
  <2>2. \A p \in Pid : Bystander(p)
    BY <2>1 DEF Spawning
  <2> QED
    BY <1>1, <1>6, <2>2, CallMoves
<1>7. (pc' = EndHlt) => \A p \in Pid : pc'[p] = pc[p] \/ (~ Spawning(p) /\ ~ Spawning(p)')
  BY <1>0, EndHltFacts DEF Spawning
<1>8. CASE Key
  <2>1. \A p \in Pid : Bystander(p)
    BY <1>7, <1>8 DEF Key
  <2> QED
    BY <1>1, <1>8, <2>1, KeyMoves
<1>9. CASE Tick
  <2> DEFINE W == Due((tick_count + 1) % TickMod)
  <2>1. \A p \in W : pc[p] = "user" /\ p # curr_proc
    BY ListIsTable, TableFacts, Running DEF Due, IInv, BlockedInCall, ListInv
  <2>2. /\ pc' = EndHlt
        /\ \A p \in Pid \ W : arg'[p] = arg[p]
    BY <1>9 DEF Tick
  <2>3. \A p \in W : p \in Pid => pc'[p] = "user"
    BY <1>0, <2>1, <2>2 DEF EndHlt
  <2> HIDE DEF W
  <2>4. \A p \in Pid : Bystander(p)
    BY <1>7, <2>1, <2>2, <2>3 DEF Spawning
  <2> QED
    BY <1>1, <1>9, <2>4, TickMoves
<1>10. CASE YieldHlt
  <2>1. /\ pc[curr_proc] = "user" /\ pc' = [pc EXCEPT ![curr_proc] = "hlt"] /\ arg' = arg
    BY <1>10 DEF YieldHlt, At
  <2>2. \A p \in Pid : Bystander(p)
    BY <1>0, <2>1 DEF Spawning
  <2> QED
    BY <1>1, <1>10, <2>2, YieldMoves
<1>11. CASE GetcharReturn
  <2>1. /\ pc[curr_proc] = "getchar" /\ pc' = [pc EXCEPT ![curr_proc] = "user"] /\ arg' = arg
        /\ UNCHANGED <<state, curr_proc>>
    BY <1>11 DEF GetcharReturn, At
  <2>2. \A p \in Pid : Bystander(p)
    BY <1>0, <2>1 DEF Spawning
  <2> QED
    BY <1>1, <2>1, <2>2, StillMoves
<1>12. CASE Getchar \/ GetcharNB \/ WaitFault \/ UNCHANGED vars
  <2>1. UNCHANGED <<state, curr_proc>> /\ UNCHANGED <<pc, arg>>
    BY <1>12 DEF Getchar, GetcharNB, WaitFault, vars
  <2> QED
    BY <1>1, <1>2, <2>1, StillMoves
<1>13. ~ WaitReap
  <2>1. WaitReap => arg[curr_proc] \in InTable /\ freed' = freed \cup {arg[curr_proc]}
    BY ListIsTable DEF WaitReap
  <2>2. \A p \in InTable : p \notin freed
    BY TableFacts
  <2> QED
    BY <2>1, <2>2 DEF listVars
<1> QED
  BY <1>3, <1>4, <1>5, <1>6, <1>8, <1>9, <1>10, <1>11, <1>12, <1>13 DEF Next

LEMMA NextListInv == ListInv /\ Undisturbed /\ [Next]_vars => ListInv'
<1> SUFFICES ASSUME ListInv, Undisturbed, [Next]_vars PROVE ListInv'
  OBVIOUS
<1>1. CASE Spawn \/ SpawnLink \/ SpawnPublish \/ WaitReap
  BY <1>1, SpawnListInv, SpawnLinkListInv, SpawnPublishListInv, WaitReapListInv
<1>2. CASE ~ (Spawn \/ SpawnLink \/ SpawnPublish \/ WaitReap)
  <2>1. UNCHANGED listVars
    BY <1>2 DEF Next, vars, listVars, Exit, Fault, Kill, Wait, WaitFault, YieldHlt, Sleep, Getchar,
                GetcharBlock, GetcharReturn, GetcharNB, Key, Tick
  <2> QED
    BY <1>2, <2>1, OtherListInv
<1> QED
  BY <1>1, <1>2

\* The list invariant holds when no process disturbs another's scheduler_add.
LEMMA ListInvariance == Spec /\ SpawnUndisturbed => []ListInv
<1>1. Init => ListInv
  BY InitListInv
<1>2. ListInv /\ [Next]_vars /\ [Undisturbed]_vars => ListInv'
  <2> SUFFICES ASSUME ListInv, [Next]_vars, [Undisturbed]_vars PROVE ListInv'
    OBVIOUS
  <2>1. CASE Undisturbed
    BY <2>1, NextListInv
  <2>2. CASE UNCHANGED vars
    <3>1. Undisturbed
      BY <2>2 DEF Undisturbed, vars
    <3> QED
      BY <3>1, NextListInv
  <2> QED
    BY <2>1, <2>2
<1> QED
  BY <1>1, <1>2, PTL DEF Spec, SpawnUndisturbed
---------------------------------------------------------------------------
(* The theorems.                                                           *)

\* While no process adds to the list or takes from it during the scheduler_add
\* of another, the list holds exactly the processes created and not reaped:
\* scheduler_add and proc_unlink lose none and keep none, with any number of
\* parents, deaths and timer interrupts between the two stores.
THEOREM ListIsExact == Spec /\ SpawnUndisturbed => []ListMatchesProcesses
<1>1. ListInv => ListMatchesProcesses
  BY ListIsTable DEF ListMatchesProcesses
<1> QED
  BY <1>1, ListInvariance, PTL

\* Only a parent is inside SYS_SPAWN or SYS_WAIT.
OnlyParents == \A p \in Pid : pc[p] \in {"link", "publish", "wait"} => p \in Parents

LEMMA OnlyParentsStep == IInv /\ OnlyParents /\ [Next]_vars => OnlyParents'
<1> SUFFICES ASSUME IInv, OnlyParents, [Next]_vars PROVE OnlyParents'
  OBVIOUS
<1> DEFINE Busy == {"link", "publish", "wait"}
<1>0. curr_proc \in Pid /\ pc \in [Pid -> Interruptible \cup InKernel]
  BY Running DEF IInv, TypeOK
<1>1. ASSUME NEW x, pc' = [pc EXCEPT ![curr_proc] = x],
             x \in Busy => curr_proc \in Parents \/ pc[curr_proc] \in Busy
      PROVE  OnlyParents'
  <2>1. \A p \in Pid : pc'[p] = IF p = curr_proc THEN x ELSE pc[p]
    BY <1>0, <1>1
  <2> QED
    BY <1>0, <1>1, <2>1 DEF OnlyParents
<1>2. CASE Spawn \/ SpawnLink \/ SpawnPublish \/ (\E t \in Pid : Wait(t)) \/ WaitReap \/ YieldHlt
           \/ GetcharBlock \/ GetcharReturn
  BY <1>1, <1>2 DEF Spawn, SpawnLink, SpawnPublish, Wait, WaitReap, YieldHlt, GetcharBlock,
                    GetcharReturn, At
<1>3. CASE Key \/ Tick
  <2>1. \A p \in Pid : pc'[p] \in Busy => pc[p] \in Busy
    BY <1>3, EndHltFacts DEF Key, Tick
  <2> QED
    BY <2>1 DEF OnlyParents
<1>4. CASE UNCHANGED pc
  BY <1>4 DEF OnlyParents
<1> QED
  BY <1>2, <1>3, <1>4 DEF Next, vars, Exit, Fault, Kill, Sleep, Getchar, GetcharNB, WaitFault

\* One program that spawns and waits cannot disturb itself: the hypothesis of the
\* theorems about the list is met by every run with a single parent.
THEOREM OneParentIsUndisturbed ==
    ASSUME \A p, q \in Parents : p = q
    PROVE  Spec => SpawnUndisturbed
<1>1. Init => OnlyParents
  BY DEF Init, OnlyParents
<1>2. IInv /\ OnlyParents /\ [Next]_vars => OnlyParents'
  BY OnlyParentsStep
<1>3. IInv /\ OnlyParents /\ [Next]_vars => [Undisturbed]_vars
  <2> SUFFICES ASSUME IInv, OnlyParents, Next, NEW p \in Pid \ {curr_proc}, Spawning(p)
               PROVE  UNCHANGED <<proc_list, next, next_pid>>
    BY DEF Undisturbed
  <2>1. p \in Parents
    BY DEF OnlyParents, Spawning
  <2>2. curr_proc \notin Parents
    BY <2>1
  <2>3. pc[curr_proc] \notin {"link", "publish", "wait"}
    BY <2>2, Running DEF OnlyParents
  <2>4. ~ (Spawn \/ SpawnLink \/ SpawnPublish \/ WaitReap)
    BY <2>2, <2>3 DEF Spawn, SpawnLink, SpawnPublish, WaitReap, At
  <2> QED
    BY <2>4 DEF Next, listVars, Exit, Fault, Kill, Wait, WaitFault, YieldHlt, Sleep, Getchar,
                GetcharBlock, GetcharReturn, GetcharNB, Key, Tick
<1> QED
  BY <1>1, <1>2, <1>3, Invariance, PTL DEF Spec, SpawnUndisturbed
---------------------------------------------------------------------------
(* Waiters.                                                                *)

\* A process asleep in SYS_WAIT waits for a live one.
NotLeftAsleep ==
    \A p \in Pid : (Waiting(p) /\ state[p] = "BLOCKED") => state[arg[p]] # "DEAD"

\* A step of which deaths wake all that wait for the dead.
LEMMA WaitersMove ==
    ASSUME ListInv, IInv', NotLeftAsleep,
           NEW D, NEW W, NEW B, Moves(D, W, B),
           \A p \in Pid : (state[p] = "BLOCKED" /\ pc[p] = "wait" /\ arg[p] \in D) => p \in D \cup W,
           \A p \in Pid : (p \notin B /\ state[p] = "BLOCKED" /\ pc'[p] = "wait")
                              => pc[p] = "wait" /\ arg'[p] = arg[p],
           \A p \in B : pc'[p] = "wait" => state[arg'[p]] # "DEAD" /\ arg'[p] \notin D
    PROVE  NotLeftAsleep'
<1> SUFFICES ASSUME NEW p \in Pid, pc'[p] = "wait", state'[p] = "BLOCKED"
             PROVE  state'[arg'[p]] # "DEAD"
  BY DEF NotLeftAsleep, Waiting
<1>1. arg'[p] \in Created'
  BY DEF IInv, LinksCreated
<1>2. arg'[p] \in Pid
  BY <1>1, MaxPidAssumption DEF IInv, TypeOK, Created, Pid
<1>3. CASE p \in B
  BY <1>2, <1>3 DEF Moves
<1>4. CASE p \notin B
  <2>1. state[p] = "BLOCKED" /\ p \notin D \cup W
    BY <1>4 DEF Moves
  <2>2. pc[p] = "wait" /\ arg'[p] = arg[p] /\ arg[p] \notin D
    BY <1>4, <2>1
  <2>3. state[arg[p]] # "DEAD"
    BY <2>1, <2>2 DEF NotLeftAsleep, Waiting
  <2> QED
    BY <1>2, <2>2, <2>3 DEF Moves
<1> QED
  BY <1>3, <1>4

\* A process asleep in SYS_WAIT is found by the loop over the list.
LEMMA WaiterIsFound ==
    ASSUME ListInv, NEW p \in Pid, state[p] = "BLOCKED", pc[p] = "wait"
    PROVE  p \in WaitersOn(arg[p]) /\ p \in FaultWaitersOn(arg[p])
<1>1. p \in Listed
  BY ListIsTable, TableFacts
<1>2. block[p] = "PID" /\ target_pid[p] = arg[p]
  BY DEF ListInv, IInv, BlockedInCall
<1> QED
  BY <1>1, <1>2 DEF WaitersOn, FaultWaitersOn

LEMMA WaitersStep == ListInv /\ NotLeftAsleep /\ [Next]_vars => NotLeftAsleep'
<1> SUFFICES ASSUME ListInv, NotLeftAsleep, [Next]_vars PROVE NotLeftAsleep'
  OBVIOUS
<1>0. /\ IInv /\ IInv' /\ curr_proc \in Pid /\ state[curr_proc] = "RUNNING"
      /\ pc \in [Pid -> Interruptible \cup InKernel] /\ arg \in [Pid -> Int]
      /\ state \in [Pid -> States]
  BY Running, NextIInv DEF ListInv, IInv, TypeOK
<1>1. ASSUME NEW D, NEW W, Moves(D, W, {}), UNCHANGED <<pc, arg>>,
             \A p \in Pid : (state[p] = "BLOCKED" /\ pc[p] = "wait" /\ arg[p] \in D) => p \in D \cup W
      PROVE  NotLeftAsleep'
  BY <1>0, <1>1, WaitersMove
<1>2. ASSUME Exit PROVE NotLeftAsleep'
  BY <1>1, <1>2, ExitMoves, WaiterIsFound DEF Exit
<1>3. ASSUME Fault PROVE NotLeftAsleep'
  BY <1>1, <1>3, FaultMoves, WaiterIsFound DEF Fault
<1>4. ASSUME NEW t \in Pid, Kill(t) PROVE NotLeftAsleep'
  <2>1. \A p \in Pid : (state[p] = "BLOCKED" /\ pc[p] = "wait" /\ arg[p] \in {t})
                       => p \in {t} \cup (WaitersOn(t) \ {t})
    BY WaiterIsFound
  <2>2. Moves({t}, WaitersOn(t) \ {t}, {})
    BY <1>4, KillMoves
  <2> QED
    BY <1>1, <1>4, <2>1, <2>2 DEF Kill
<1>5. ASSUME NEW t \in Pid, Wait(t) PROVE NotLeftAsleep'
  <2>1. Moves({}, {}, {curr_proc})
    BY <1>5, CallMoves
  <2>2. /\ \A p \in Pid \ {curr_proc} : pc'[p] = pc[p] /\ arg'[p] = arg[p]
        /\ arg'[curr_proc] = t /\ state[t] # "DEAD"
    BY <1>0, <1>5 DEF Wait
  <2> QED
    BY <1>0, <2>1, <2>2, WaitersMove
<1>6. ASSUME (\E ms \in SleepMs : Sleep(ms)) \/ GetcharBlock PROVE NotLeftAsleep'
  <2>1. Moves({}, {}, {curr_proc})
    BY <1>6, CallMoves
  <2>2. /\ \A p \in Pid \ {curr_proc} : pc'[p] = pc[p] /\ arg'[p] = arg[p]
        /\ pc'[curr_proc] # "wait"
    BY <1>0, <1>6 DEF Sleep, GetcharBlock, Does, At
  <2> QED
    BY <1>0, <2>1, <2>2, WaitersMove
<1>7. ASSUME NEW W, Moves({}, W, {}),
             \A p \in Pid : (state[p] = "BLOCKED" /\ pc'[p] = "wait") => pc[p] = "wait" /\ arg'[p] = arg[p]
      PROVE  NotLeftAsleep'
  BY <1>0, <1>7, WaitersMove
<1>8. (pc' = EndHlt) => \A p \in Pid : pc'[p] = "wait" => pc[p] = "wait"
  BY <1>0, EndHltFacts
<1>9. CASE Key
  BY <1>7, <1>8, <1>9, KeyMoves DEF Key
<1>10. CASE Tick
  <2> DEFINE W == Due((tick_count + 1) % TickMod)
  <2>1. \A p \in W : p \in Pid => pc[p] # "wait"
    BY <1>0 DEF Due, IInv, BlockedInCall
  <2>2. pc' = EndHlt /\ \A p \in Pid \ W : arg'[p] = arg[p]
    BY <1>10 DEF Tick
  <2>3. Moves({}, W, {})
    BY <1>10, TickMoves
  <2> HIDE DEF W
  <2> QED
    BY <1>7, <1>8, <2>1, <2>2, <2>3
<1>11. CASE YieldHlt
  <2>1. \A p \in Pid : pc'[p] = "wait" => pc[p] = "wait" /\ arg'[p] = arg[p]
    BY <1>0, <1>11 DEF YieldHlt
  <2> QED
    BY <1>7, <1>11, <2>1, YieldMoves
<1>12. CASE SpawnLink \/ SpawnPublish \/ WaitReap \/ WaitFault \/ Getchar \/ GetcharReturn \/ GetcharNB
            \/ UNCHANGED vars
  <2>1. UNCHANGED <<state, curr_proc>>
    BY <1>12 DEF SpawnLink, SpawnPublish, WaitReap, WaitFault, Getchar, GetcharReturn, GetcharNB, vars
  <2>2. \A p \in Pid : (p # curr_proc /\ pc'[p] = "wait") => pc[p] = "wait" /\ arg'[p] = arg[p]
    BY <1>0, <1>12 DEF SpawnLink, SpawnPublish, WaitReap, WaitFault, Getchar, GetcharReturn, GetcharNB, vars
  <2>3. \A p \in Pid : (state[p] = "BLOCKED" /\ pc'[p] = "wait") => pc[p] = "wait" /\ arg'[p] = arg[p]
    BY <1>0, <2>2
  <2> QED
    BY <1>7, <2>1, <2>3, StillMoves
<1>13. CASE Spawn
  <2>1. /\ \A p \in Pid \ {curr_proc} : pc'[p] = pc[p] /\ arg'[p] = arg[p]
        /\ pc'[curr_proc] = "link"
        /\ \A p \in Pid : state'[p] = state[p] \/ state'[p] = "READY"
    BY <1>0, <1>13 DEF Spawn, process_create
  <2> SUFFICES ASSUME NEW p \in Pid, pc'[p] = "wait", state'[p] = "BLOCKED"
               PROVE  state'[arg'[p]] # "DEAD"
    BY DEF NotLeftAsleep, Waiting
  <2>2. pc[p] = "wait" /\ arg'[p] = arg[p] /\ state[p] = "BLOCKED"
    BY <2>1
  <2>3. state[arg[p]] # "DEAD" /\ arg[p] \in Pid
    BY <2>2, <1>0, CreatedPids DEF NotLeftAsleep, Waiting, IInv, LinksCreated
  <2> QED
    BY <2>1, <2>2, <2>3
<1> QED
  BY <1>2, <1>3, <1>4, <1>5, <1>6, <1>9, <1>10, <1>11, <1>12, <1>13 DEF Next

\* A process stays asleep in SYS_WAIT exactly while the one it waits for lives:
\* SYS_EXIT, SYS_KILL and handle_fault each find every waiter on the list, and
\* nothing else wakes one.
THEOREM NoWaiterLeftAsleep == Spec /\ SpawnUndisturbed => []WaiterBlockedWhileTargetLives
<1>1. Init => NotLeftAsleep
  BY DEF Init, NotLeftAsleep, Waiting
<1>2. ListInv /\ NotLeftAsleep /\ [Next]_vars => NotLeftAsleep'
  BY WaitersStep
<1>3. IInv /\ NotLeftAsleep => WaiterBlockedWhileTargetLives
  BY DEF IInv, ReapsOnlyTheDead, NotLeftAsleep, WaiterBlockedWhileTargetLives
<1>4. ListInv => IInv
  BY DEF ListInv
<1> QED
  BY <1>1, <1>2, <1>3, <1>4, ListInvariance, PTL DEF Spec
---------------------------------------------------------------------------
(* The idle process.                                                       *)

\* pick_next finds a READY process of the table, from any other of them.
LEMMA PickFindsReady ==
    ASSUME ListInv, curr_proc \in InTable, NEW st, NEW p \in InTable, st[p] = "READY"
    PROVE  idle_proc \notin pick_next(st)
<1> DEFINE w == Walk(Ring[curr_proc], Ring, MaxPid)
           T == {q \in Pid : st[q] = "READY"}
<1>1. Sorted(proc_list, next, InTable) /\ InTable \subseteq Pid /\ idle_proc \notin InTable
  BY TableFacts DEF ListInv, ListSorted
<1>2. \A q \in InTable : Ring[q] = IF next[q] # NULL THEN next[q] ELSE proc_list
  BY <1>1 DEF Ring
<1>3. Ring[curr_proc] \in InTable
  BY <1>1, <1>2 DEF Sorted, IsLast
<1> HIDE DEF InTable
<1>4. /\ \A k \in 0..MaxPid : w[k] \in InTable
      /\ \A q \in InTable : \E k \in 0..MaxPid : w[k] = q
  BY <1>1, <1>2, <1>3, ListIsTable, RingWalk
<1> HIDE DEF w
<1>5. PICK k \in 0..MaxPid : w[k] = p
  BY <1>4
<1>6. w[k] \in T /\ MaxPid \in Nat
  BY <1>1, <1>5, ListIsTable
<1> HIDE DEF T
<1>7. FirstOn(MaxPid, w, T) # {}
  BY <1>6, FirstOnFinds
<1>8. idle_proc \notin FirstOn(MaxPid, w, T)
  BY <1>1, <1>4 DEF FirstOn
<1> QED
  BY <1>7, <1>8 DEF pick_next, w, T

LEMMA IdleSchedule ==
    ASSUME ListInv, curr_proc # idle_proc, NEW st, DOMAIN st = Pid, st = [p \in Pid |-> st[p]],
           schedule(st), curr_proc' = idle_proc
    PROVE  \A p \in InTable \ {curr_proc} : state'[p] # "READY"
<1>1. curr_proc \in InTable
  BY DEF ListInv, CurrentInTable
<1>2. /\ idle_proc \in pick_next(st)
      /\ state' = IF idle_proc = curr_proc THEN st
                  ELSE [st EXCEPT ![curr_proc] = IF @ = "RUNNING" THEN "READY" ELSE @,
                                  ![idle_proc] = "RUNNING"]
  BY DEF schedule
<1>3. \A p \in InTable : st[p] # "READY"
  BY <1>1, <1>2, PickFindsReady
<1>4. \A p \in InTable \ {curr_proc} : state'[p] = st[p]
  BY <1>2, TableFacts
<1> QED
  BY <1>3, <1>4

\* The steps that take the CPU away are those that call schedule().
LEMMA IdleStep ==
    ListInv /\ [Next]_vars /\ ListInv' /\ curr_proc # idle_proc /\ curr_proc' = idle_proc
        => \A p \in Listed' \ {curr_proc} : state'[p] # "READY"
<1> SUFFICES ASSUME ListInv, ListInv', [Next]_vars, curr_proc # idle_proc, curr_proc' = idle_proc
             PROVE  \A p \in Listed' \ {curr_proc} : state'[p] # "READY"
  OBVIOUS
<1>0. Listed' = InTable
  <2>1. Next
    BY DEF vars
  <2>2. UNCHANGED listVars
    BY <2>1 DEF Next, listVars, Spawn, SpawnLink, SpawnPublish, WaitReap, Exit, Fault, Kill, Wait,
                WaitFault, YieldHlt, Sleep, Getchar, GetcharBlock, GetcharReturn, GetcharNB, Key, Tick
  <2>3. Listed' = Listed /\ Listed = InTable
    BY <2>2, ListIsTable DEF Listed, listVars
  <2> QED
    BY <2>3
<1> SUFFICES \A p \in InTable \ {curr_proc} : state'[p] # "READY"
  BY <1>0
<1>1. state = [p \in Pid |-> state[p]] /\ DOMAIN state = Pid
  BY DEF ListInv, IInv, TypeOK
<1>2. ASSUME NEW t, NEW W, schedule(Killed(t, W))
      PROVE  \A p \in InTable \ {curr_proc} : state'[p] # "READY"
  <2> DEFINE st == Killed(t, W)
  <2>1. DOMAIN st = Pid /\ st = [p \in Pid |-> st[p]] /\ schedule(st)
    BY <1>2 DEF Killed
  <2> HIDE DEF st
  <2> QED
    BY <2>1, IdleSchedule
<1>3. ASSUME schedule([state EXCEPT ![curr_proc] = "BLOCKED"])
      PROVE  \A p \in InTable \ {curr_proc} : state'[p] # "READY"
  <2> DEFINE st == [state EXCEPT ![curr_proc] = "BLOCKED"]
  <2>1. DOMAIN st = Pid /\ st = [p \in Pid |-> st[p]] /\ schedule(st)
    BY <1>1, <1>3
  <2> HIDE DEF st
  <2> QED
    BY <2>1, IdleSchedule
<1>4. CASE Exit \/ Fault \/ \E t \in Pid : Kill(t)
  BY <1>2, <1>4 DEF Exit, Fault, Kill
<1>5. CASE (\E t \in Pid : Wait(t)) \/ (\E ms \in SleepMs : Sleep(ms)) \/ GetcharBlock
  BY <1>3, <1>5 DEF Wait, Sleep, GetcharBlock
<1>6. CASE YieldHlt
  BY <1>1, <1>6, IdleSchedule DEF YieldHlt
<1>7. CASE Tick
  <2> DEFINE W == Due((tick_count + 1) % TickMod)
             st == [p \in Pid |-> IF p \in W THEN "READY" ELSE state[p]]
  <2>1. DOMAIN st = Pid /\ st = [p \in Pid |-> st[p]] /\ schedule(st)
    BY <1>7 DEF Tick
  <2> HIDE DEF st
  <2> QED
    BY <2>1, IdleSchedule
<1>8. ~ (Spawn \/ SpawnLink \/ SpawnPublish \/ WaitReap \/ WaitFault \/ Getchar \/ GetcharReturn
           \/ GetcharNB \/ Key \/ UNCHANGED vars)
  BY DEF Spawn, SpawnLink, SpawnPublish, WaitReap, WaitFault, Getchar, GetcharReturn, GetcharNB, Key, vars
<1> QED
  BY <1>4, <1>5, <1>6, <1>7, <1>8 DEF Next

\* pick_next goes once round the whole list: the CPU is given to idle only when
\* no other listed process is READY, wherever in the list the search begins.
THEOREM IdleIsTheLastChoice == Spec /\ SpawnUndisturbed => IdleOnlyByDefault
<1>1. ListInv /\ ListInv' /\ [Next]_vars =>
        [(curr_proc # idle_proc /\ curr_proc' = idle_proc) =>
             \A p \in Listed' \ {curr_proc} : state'[p] # "READY"]_vars
  BY IdleStep
<1> QED
  BY <1>1, ListInvariance, PTL DEF Spec, IdleOnlyByDefault
---------------------------------------------------------------------------
(* Sleepers.                                                               *)

\* The sleep that ends at r, of a milliseconds, began at this tick.
Start(r, a) == (r - a) % TickMod

\* At tick now the sleep has not lasted its ticks yet.
InTime(now, r, a) ==
    /\ a \in 0..(TickMod - 1) /\ r \in 0..(TickMod - 1)
    /\ (now - Start(r, a)) % TickMod < SleepTicks(Start(r, a), a)

SleepersInTime == \A p \in Pid : Asleep(p) => InTime(tick_count, resume_tick[p], arg[p])

\* Counts are never more than once round apart.
LEMMA OnceRound ==
    ASSUME NEW x \in Int, -TickMod < x, x < 2 * TickMod
    PROVE  /\ TickMod \in Nat \ {0}
           /\ x % TickMod = IF x < 0 THEN x + TickMod ELSE IF x < TickMod THEN x ELSE x - TickMod
<1>0. TickMod \in Nat \ {0}
  BY SleepAssumption
<1> DEFINE s == x % TickMod
           d == x \div TickMod
<1>1. s \in 0..(TickMod - 1) /\ d \in Int /\ x = TickMod * d + s
  BY <1>0
<1> HIDE DEF s, d
<1>2. d >= 2 => TickMod * d >= 2 * TickMod
  BY <1>0, <1>1
<1>3. d <= -2 => TickMod * d <= -(2 * TickMod)
  BY <1>0, <1>1
<1>4. d \in {-1, 0, 1}
  BY <1>0, <1>1, <1>2, <1>3
<1>5. CASE d = -1
  BY <1>0, <1>1, <1>5 DEF s
<1>6. CASE d = 0
  BY <1>0, <1>1, <1>6 DEF s
<1>7. CASE d = 1
  BY <1>0, <1>1, <1>7 DEF s
<1> QED
  BY <1>4, <1>5, <1>6, <1>7

\* The sleeper begins.
LEMMA InTimeAtFirst ==
    ASSUME NEW now \in 0..(TickMod - 1), NEW a \in 0..(TickMod - 1)
    PROVE  InTime(now, (now + a) % TickMod, a)
<1> DEFINE r == (now + a) % TickMod
           s == Start(r, a)
<1>0. TickMod \in Nat \ {0}
  BY SleepAssumption
<1>1. r = IF now + a < TickMod THEN now + a ELSE now + a - TickMod
  BY <1>0, OnceRound
<1> HIDE DEF r
<1>2. r \in 0..(TickMod - 1)
  BY <1>0, <1>1
<1>3. s = IF r - a < 0 THEN r - a + TickMod ELSE r - a
  BY <1>0, <1>2, OnceRound DEF Start
<1> HIDE DEF s
<1>4. s = now
  BY <1>0, <1>1, <1>3
<1>5. (now - s) % TickMod = 0
  BY <1>0, <1>4, OnceRound
<1>6. SleepTicks(s, a) > 0
  BY <1>0, <1>4 DEF SleepTicks
<1> QED
  BY <1>2, <1>5, <1>6 DEF InTime, r, s

\* One tick later pit_handler wakes it if it has, and it is in time if not.
LEMMA InTimeNextTick ==
    ASSUME NEW now \in 0..(TickMod - 1), NEW r, NEW a, InTime(now, r, a)
    PROVE  /\ (~ ((now + 1) % TickMod >= r)) <=>
                  ((now - Start(r, a)) % TickMod) + 1 < SleepTicks(Start(r, a), a)
           /\ (~ ((now + 1) % TickMod >= r)) => InTime((now + 1) % TickMod, r, a)
<1> DEFINE later == (now + 1) % TickMod
           s == Start(r, a)
           d == (now - s) % TickMod
           e == (later - s) % TickMod
           n == SleepTicks(s, a)
<1>0. TickMod \in Nat \ {0} /\ a \in 0..(TickMod - 1) /\ r \in 0..(TickMod - 1) /\ d < n
  BY SleepAssumption DEF InTime
<1>1. later = IF now + 1 < TickMod THEN now + 1 ELSE 0
  BY <1>0, OnceRound
<1> HIDE DEF later
<1>2. s = IF r - a < 0 THEN r - a + TickMod ELSE r - a
  BY <1>0, OnceRound DEF Start
<1>3. n = IF s + a >= TickMod /\ s # TickMod - 1 THEN 1
          ELSE IF a = 0 THEN (IF s = TickMod - 1 THEN TickMod ELSE 1) ELSE a
  BY DEF SleepTicks
<1> HIDE DEF s
<1>4. s \in 0..(TickMod - 1) /\ later \in 0..(TickMod - 1)
  BY <1>0, <1>1, <1>2
<1>5. d = IF now - s < 0 THEN now - s + TickMod ELSE now - s
  BY <1>0, <1>4, OnceRound
<1>6. e = IF later - s < 0 THEN later - s + TickMod ELSE later - s
  BY <1>0, <1>4, OnceRound
<1> HIDE DEF n, d, e
<1>7. (later < r) <=> d + 1 < n
  <2>1. CASE s = TickMod - 1
    BY <1>0, <1>1, <1>2, <1>3, <1>5, <2>1
  <2>2. CASE s # TickMod - 1 /\ s + a >= TickMod
    BY <1>0, <1>1, <1>2, <1>3, <1>4, <1>5, <2>2
  <2>3. CASE s + a < TickMod /\ s # TickMod - 1
    BY <1>0, <1>1, <1>2, <1>3, <1>4, <1>5, <2>3
  <2> QED
    BY <1>0, <1>4, <2>1, <2>2, <2>3
<1>8. later < r => e = d + 1
  <2>1. n \in Nat /\ d \in Nat /\ n <= TickMod
    BY <1>0, <1>3, <1>4, <1>5
  <2>2. later < r => d + 1 < TickMod
    BY <1>0, <1>4, <1>5, <1>7, <2>1
  <2> QED
    BY <1>0, <1>1, <1>4, <1>5, <1>6, <2>2
<1>9. (~ (later >= r)) <=> later < r
  BY <1>0, <1>4
<1> QED
  BY <1>0, <1>7, <1>8, <1>9 DEF InTime, later, s, d, e, n

LEMMA SleepersStep == ListInv /\ SleepersInTime /\ [Next]_vars => SleepersInTime'
<1> SUFFICES ASSUME ListInv, SleepersInTime, [Next]_vars PROVE SleepersInTime'
  OBVIOUS
<1>0. /\ IInv /\ curr_proc \in Pid /\ state[curr_proc] = "RUNNING"
      /\ tick_count \in 0..(TickMod - 1)
      /\ pc \in [Pid -> Interruptible \cup InKernel] /\ arg \in [Pid -> Int]
      /\ block \in [Pid -> Blocks] /\ state \in [Pid -> States]
      /\ resume_tick \in [Pid -> (0..(TickMod - 1)) \cup {NULL}]
  BY Running DEF ListInv, IInv, TypeOK
<1>1. ASSUME tick_count' = tick_count,
             \A p \in Pid : Asleep(p)' => /\ Asleep(p) /\ arg'[p] = arg[p]
                                          /\ resume_tick'[p] = resume_tick[p]
      PROVE  SleepersInTime'
  BY <1>1 DEF SleepersInTime
\* A step that writes states and block fields as Moves and Unblock do.
<1>2. ASSUME NEW D, NEW W, Moves(D, W, {}), Unblock(W) \/ UNCHANGED block,
             UNCHANGED <<arg, resume_tick, tick_count>>
      PROVE  SleepersInTime'
  <2>1. \A p \in Pid : state'[p] = "BLOCKED" => state[p] = "BLOCKED" /\ p \notin W
    BY <1>2 DEF Moves
  <2>2. \A p \in Pid \ W : block'[p] = block[p]
    BY <1>0, <1>2 DEF Unblock
  <2> QED
    BY <1>1, <1>2, <2>1, <2>2 DEF Asleep
<1>3. CASE Exit
  BY <1>2, <1>3, ExitMoves DEF Exit, sleepVars
<1>4. CASE Fault
  BY <1>2, <1>4, FaultMoves DEF Fault, sleepVars
<1>5. ASSUME NEW t \in Pid, Kill(t) PROVE SleepersInTime'
  BY <1>2, <1>5, KillMoves DEF Kill, sleepVars
<1>6. CASE Key
  BY <1>2, <1>6, KeyMoves DEF Key, sleepVars
<1>7. CASE YieldHlt
  BY <1>2, <1>7, YieldMoves DEF YieldHlt, sleepVars
<1>8. CASE (\E t \in Pid : Wait(t)) \/ GetcharBlock
  <2>1. Moves({}, {}, {curr_proc})
    BY <1>8, CallMoves
  <2>2. /\ block'[curr_proc] # "SLEEP"
        /\ \A p \in Pid \ {curr_proc} : block'[p] = block[p] /\ arg'[p] = arg[p]
        /\ UNCHANGED <<resume_tick, tick_count>>
    BY <1>0, <1>8 DEF Wait, GetcharBlock, sleepVars
  <2>3. \A p \in Pid : Asleep(p)' => Asleep(p) /\ p # curr_proc
    BY <2>1, <2>2 DEF Asleep, Moves
  <2> QED
    BY <1>1, <2>2, <2>3
<1>9. ASSUME NEW ms \in SleepMs, Sleep(ms) PROVE SleepersInTime'
  <2>1. Moves({}, {}, {curr_proc})
    BY <1>9, CallMoves
  <2>2. /\ tick_count' = tick_count /\ ms \in 0..(TickMod - 1)
        /\ arg'[curr_proc] = ms /\ resume_tick'[curr_proc] = (tick_count + ms) % TickMod
        /\ \A p \in Pid \ {curr_proc} : /\ block'[p] = block[p] /\ arg'[p] = arg[p]
                                        /\ resume_tick'[p] = resume_tick[p]
    BY <1>0, <1>9, SleepAssumption DEF Sleep
  <2>3. InTime(tick_count, (tick_count + ms) % TickMod, ms)
    BY <1>0, <2>2, InTimeAtFirst
  <2>4. ASSUME NEW p \in Pid, Asleep(p)' PROVE InTime(tick_count', resume_tick'[p], arg'[p])
    <3>1. CASE p = curr_proc
      BY <2>2, <2>3, <3>1
    <3>2. CASE p # curr_proc
      <4>1. Asleep(p)
        BY <2>1, <2>2, <2>4, <3>2 DEF Asleep, Moves
      <4> QED
        BY <2>2, <3>2, <4>1 DEF SleepersInTime
    <3> QED
      BY <3>1, <3>2
  <2> QED
    BY <2>4 DEF SleepersInTime
<1>10. CASE Tick
  <2> DEFINE now == (tick_count + 1) % TickMod
             W == Due(now)
  <2>1. Moves({}, W, {}) /\ tick_count' = now
    BY <1>10, TickMoves DEF Tick
  <2>2. \A p \in Pid \ W : block'[p] = block[p] /\ arg'[p] = arg[p] /\ resume_tick'[p] = resume_tick[p]
    BY <1>10 DEF Tick, Unblock
  <2>3. ASSUME NEW p \in Pid, Asleep(p)' PROVE InTime(tick_count', resume_tick'[p], arg'[p])
    <3>1. p \notin W /\ state[p] = "BLOCKED"
      BY <2>1, <2>3 DEF Asleep, Moves
    <3>2. Asleep(p) /\ p \in Listed
      BY <2>2, <2>3, <3>1, ListIsTable, TableFacts DEF Asleep
    <3>3. ~ (now >= resume_tick[p])
      BY <3>1, <3>2 DEF Due, Asleep
    <3>4. InTime(tick_count, resume_tick[p], arg[p])
      BY <3>2 DEF SleepersInTime
    <3>5. InTime(now, resume_tick[p], arg[p])
      BY <1>0, <3>3, <3>4, InTimeNextTick
    <3> QED
      BY <2>1, <2>2, <3>1, <3>5
  <2> QED
    BY <2>3 DEF SleepersInTime
<1>11. CASE Spawn \/ SpawnLink \/ SpawnPublish \/ WaitReap \/ WaitFault \/ Getchar \/ GetcharReturn
            \/ GetcharNB \/ UNCHANGED vars
  <2>1. /\ UNCHANGED block /\ UNCHANGED resume_tick /\ UNCHANGED tick_count
        /\ \A p \in Pid \ {curr_proc} : arg'[p] = arg[p]
    BY <1>0, <1>11 DEF Spawn, SpawnLink, SpawnPublish, WaitReap, WaitFault, Getchar, GetcharReturn,
                       GetcharNB, vars, sleepVars
  <2>2. state' = state \/ (Spawn /\ state' = [state EXCEPT ![next_pid] = "READY"])
    BY <1>11 DEF Spawn, SpawnLink, SpawnPublish, WaitReap, WaitFault, Getchar, GetcharReturn,
                 GetcharNB, vars, process_create
  <2>3. \A p \in Pid : state'[p] = "BLOCKED" => state[p] = "BLOCKED" /\ p # curr_proc
    BY <1>0, <2>2
  <2> QED
    BY <1>1, <2>1, <2>3 DEF Asleep
<1> QED
  BY <1>3, <1>4, <1>5, <1>6, <1>7, <1>8, <1>9, <1>10, <1>11 DEF Next

\* A tick ends the sleeps whose ticks are over, and no others.
LEMMA SleepersEnd ==
    ASSUME ListInv, SleepersInTime, Tick, NEW p \in Pid, Asleep(p)
    PROVE  Asleep(p)' <=> Slept(p) + 1 < SleepTicks(SleepStart(p), arg[p])
<1> DEFINE now == (tick_count + 1) % TickMod
           W == Due(now)
<1>1. Moves({}, W, {}) /\ tick_count \in 0..(TickMod - 1)
  BY TickMoves DEF ListInv, IInv, TypeOK
<1>2. \A q \in Pid \ W : block'[q] = block[q]
  BY DEF Tick, Unblock
<1>3. p \in Listed
  BY ListIsTable, TableFacts DEF Asleep
<1>4. (p \notin W) <=> ~ (now >= resume_tick[p])
  BY <1>3 DEF Due, Asleep
<1>5. Asleep(p)' <=> p \notin W
  <2>1. ASSUME p \in W PROVE state'[p] # "BLOCKED"
    BY <1>1, <2>1 DEF Moves
  <2>2. ASSUME p \notin W PROVE state'[p] = "BLOCKED" /\ block'[p] = "SLEEP"
    BY <1>1, <1>2, <2>2 DEF Moves, Asleep
  <2> QED
    BY <2>1, <2>2 DEF Asleep
<1>6. InTime(tick_count, resume_tick[p], arg[p])
  BY DEF SleepersInTime
<1> HIDE DEF W
<1>7. (~ (now >= resume_tick[p])) <=> Slept(p) + 1 < SleepTicks(SleepStart(p), arg[p])
  BY <1>1, <1>6, InTimeNextTick DEF Slept, SleepStart, Start
<1> QED
  BY <1>4, <1>5, <1>7

\* pit_handler wakes every sleeper on the tick its time is up and on no earlier one,
\* for every tick modulus; where the sum with the tick count wraps the time is one
\* tick, unless it begins at the last count, where a sleep of 0 takes a whole round.
THEOREM SleepersWakeOnTime == Spec /\ SpawnUndisturbed => SleepOnTime
<1>1. Init => SleepersInTime
  BY DEF Init, SleepersInTime, Asleep
<1>2. ListInv /\ SleepersInTime /\ [Next]_vars => SleepersInTime'
  BY SleepersStep
<1>3. ListInv /\ SleepersInTime /\ [Next]_vars =>
        [Tick => \A p \in Pid : Asleep(p) =>
             (Asleep(p)' <=> Slept(p) + 1 < SleepTicks(SleepStart(p), arg[p]))]_vars
  BY SleepersEnd
<1> QED
  BY <1>1, <1>2, <1>3, ListInvariance, PTL DEF Spec, SleepOnTime
---------------------------------------------------------------------------
(* Readers.                                                                *)

\* Counting processes.
LEMMA PidCount ==
    ASSUME NEW S, NEW T, S \subseteq T, T \subseteq Pid
    PROVE  /\ Cardinality(S) \in Nat /\ Cardinality(T) \in Nat
           /\ Cardinality(S) <= Cardinality(T)
           /\ S # T => Cardinality(S) + 1 <= Cardinality(T)
<1>1. IsFiniteSet(Pid)
  BY MaxPidAssumption, FS_Interval DEF Pid
<1>2. IsFiniteSet(T)
  BY <1>1, FS_Subset
<1>3. /\ IsFiniteSet(S) /\ Cardinality(S) <= Cardinality(T)
      /\ Cardinality(S) = Cardinality(T) => S = T
  BY <1>2, FS_Subset
<1>4. Cardinality(S) \in Nat /\ Cardinality(T) \in Nat
  BY <1>2, <1>3, FS_CardinalityType
<1> QED
  BY <1>3, <1>4

\* The characters in the ring before and after one comes and one is taken.
LEMMA PendingFacts ==
    ASSUME IInv
    PROVE  /\ Pending \in 0..(KBD_BUFFER_SIZE - 1)
           /\ KbdEmpty <=> Pending = 0
           /\ kbd_write_pos' = Advance(kbd_write_pos) /\ kbd_read_pos' = kbd_read_pos
                  => Pending' \in {0, Pending + 1}
           /\ kbd_getchar => Pending' = IF KbdEmpty THEN 0 ELSE Pending - 1
           /\ UNCHANGED kbdVars => Pending' = Pending
<1>0. /\ KBD_BUFFER_SIZE \in Nat \ {0}
      /\ kbd_read_pos \in 0..(KBD_BUFFER_SIZE - 1) /\ kbd_write_pos \in 0..(KBD_BUFFER_SIZE - 1)
  BY BufferAssumption DEF IInv, TypeOK
<1>1. Pending \in 0..(KBD_BUFFER_SIZE - 1)
  BY <1>0 DEF Pending
<1>2. Pending = IF kbd_read_pos <= kbd_write_pos THEN kbd_write_pos - kbd_read_pos
                ELSE kbd_write_pos - kbd_read_pos + KBD_BUFFER_SIZE
  BY <1>0 DEF Pending
<1>3. ASSUME NEW pos \in 0..(KBD_BUFFER_SIZE - 1)
      PROVE  Advance(pos) = IF pos + 1 = KBD_BUFFER_SIZE THEN 0 ELSE pos + 1
  BY <1>0 DEF Advance
<1>4. KbdEmpty <=> Pending = 0
  BY <1>0, <1>2 DEF KbdEmpty
<1>5. ASSUME kbd_write_pos' = Advance(kbd_write_pos), kbd_read_pos' = kbd_read_pos
      PROVE  Pending' \in {0, Pending + 1}
  <2>1. kbd_write_pos' = IF kbd_write_pos + 1 = KBD_BUFFER_SIZE THEN 0 ELSE kbd_write_pos + 1
    BY <1>0, <1>3, <1>5
  <2>2. Pending' = (kbd_write_pos' - kbd_read_pos) % KBD_BUFFER_SIZE
    BY <1>5 DEF Pending
  <2> QED
    BY <1>0, <1>2, <2>1, <2>2
<1>6. ASSUME kbd_getchar PROVE Pending' = IF KbdEmpty THEN 0 ELSE Pending - 1
  <2>1. CASE KbdEmpty
    BY <1>0, <1>4, <1>6, <2>1 DEF kbd_getchar, Pending
  <2>2. CASE ~ KbdEmpty
    <3>1. /\ kbd_read_pos' = IF kbd_read_pos + 1 = KBD_BUFFER_SIZE THEN 0 ELSE kbd_read_pos + 1
          /\ kbd_write_pos' = kbd_write_pos /\ kbd_read_pos # kbd_write_pos
      BY <1>0, <1>3, <1>6, <2>2 DEF kbd_getchar, KbdEmpty
    <3>2. Pending' = (kbd_write_pos - kbd_read_pos') % KBD_BUFFER_SIZE
      BY <3>1 DEF Pending
    <3> QED
      BY <1>0, <1>2, <2>2, <3>1, <3>2
  <2> QED
    BY <2>1, <2>2
<1>7. UNCHANGED kbdVars => Pending' = Pending
  BY DEF kbdVars, Pending
<1> QED
  BY <1>1, <1>4, <1>5, <1>6, <1>7

\* A step that takes no character and puts none, and wakes or blocks no reader.
LEMMA ReadersMove ==
    ASSUME IInv, ReadersBlocked, NoCharacterWithoutReader,
           NEW D, NEW W, NEW B, Moves(D, W, B), UNCHANGED kbdVars,
           \A p \in Pid : block'[p] = "INPUT" => block[p] = "INPUT" /\ p \notin W /\ p \notin B,
           \A p \in Pid : pc[p] = "getchar" => pc'[p] = "getchar"
    PROVE  ReadersBlocked' /\ NoCharacterWithoutReader'
<1>1. ReadersBlocked'
  BY DEF ReadersBlocked, Moves
<1>2. \A p \in BlockedReaders' : p \in BlockedReaders
  BY DEF BlockedReaders, Moves
<1>3. WokenReaders \subseteq WokenReaders' /\ WokenReaders' \subseteq Pid
  BY DEF WokenReaders
<1>4. Cardinality(WokenReaders) <= Cardinality(WokenReaders') /\ Pending' = Pending
      /\ Cardinality(WokenReaders) \in Nat /\ Cardinality(WokenReaders') \in Nat /\ Pending \in Int
  BY <1>3, PidCount, PendingFacts
<1>5. BlockedReaders' # {} => Pending <= Cardinality(WokenReaders)
  BY <1>2 DEF NoCharacterWithoutReader
<1>6. BlockedReaders' # {} => Pending' <= Cardinality(WokenReaders')
  BY <1>4, <1>5
<1> QED
  BY <1>1, <1>6 DEF NoCharacterWithoutReader

ReadersServed == ReadersBlocked /\ NoCharacterWithoutReader

\* A character comes: kbd_handler wakes a reader for it, if one is blocked.
LEMMA KeyReaders == ListInv /\ ReadersServed /\ Key => ReadersServed'
<1> SUFFICES ASSUME ListInv, ReadersServed, Key PROVE ReadersServed'
  OBVIOUS
<1> DEFINE w == Walk(proc_list, next, MaxPid)
           W == FirstOn(MaxPid, w, BlockedReaders)
<1>0. /\ IInv /\ IInv' /\ block \in [Pid -> Blocks]
      /\ pc \in [Pid -> Interruptible \cup InKernel]
  BY KeyIInv DEF ListInv, IInv, TypeOK
<1>1. W \subseteq BlockedReaders
  BY DEF FirstOn
<1>2. BlockedReaders # {} => W # {}
  <2> SUFFICES ASSUME NEW r \in BlockedReaders PROVE W # {}
    OBVIOUS
  <2>1. r \in Listed
    BY ListIsTable, TableFacts DEF BlockedReaders
  <2>2. PICK k \in 0..MaxPid : w[k] = r
    BY <2>1 DEF Listed
  <2> HIDE DEF w
  <2> QED
    BY <2>2, ListIsTable, FirstOnFinds
<1>3. /\ Moves({}, W, {})
      /\ block' = [p \in Pid |-> IF p \in W THEN "NONE" ELSE block[p]]
      /\ pc' = EndHlt /\ kbd_write_pos' = Advance(kbd_write_pos) /\ kbd_read_pos' = kbd_read_pos
  BY KeyMoves DEF Key, Unblock
<1> HIDE DEF W
<1>4. \A p \in Pid : pc[p] = "getchar" => pc'[p] = "getchar"
  BY <1>0, <1>3, EndHltFacts
<1>5. \A p \in Pid : block'[p] = "INPUT" => block[p] = "INPUT" /\ p \notin W
  BY <1>3
<1>6. ReadersBlocked'
  BY <1>3, <1>5 DEF ReadersServed, ReadersBlocked, Moves
<1>7. BlockedReaders' \subseteq BlockedReaders
  BY <1>3, <1>5 DEF BlockedReaders, Moves
<1>8. WokenReaders \subseteq WokenReaders' /\ WokenReaders' \subseteq Pid
  BY <1>4, <1>5 DEF WokenReaders
<1>9. \A r \in W : r \in WokenReaders' /\ r \notin WokenReaders
  <2> SUFFICES ASSUME NEW r \in W PROVE r \in WokenReaders' /\ r \notin WokenReaders
    OBVIOUS
  <2>1. r \in Pid /\ state[r] = "BLOCKED" /\ block[r] = "INPUT"
    BY <1>1 DEF BlockedReaders
  <2>2. pc[r] = "getchar" /\ block'[r] = "NONE"
    BY <1>0, <1>3, <2>1 DEF IInv, BlockedInCall
  <2> QED
    BY <1>4, <2>1, <2>2 DEF WokenReaders
<1>10. BlockedReaders' # {} => Pending' <= Cardinality(WokenReaders')
  <2> SUFFICES ASSUME BlockedReaders' # {} PROVE Pending' <= Cardinality(WokenReaders')
    OBVIOUS
  <2>1. BlockedReaders # {} /\ WokenReaders # WokenReaders'
    BY <1>2, <1>7, <1>9
  <2>2. Pending <= Cardinality(WokenReaders)
    BY <2>1 DEF ReadersServed, NoCharacterWithoutReader
  <2>3. /\ Cardinality(WokenReaders) + 1 <= Cardinality(WokenReaders')
        /\ Cardinality(WokenReaders) \in Nat /\ Cardinality(WokenReaders') \in Nat
    BY <1>8, <2>1, PidCount
  <2>4. Pending' \in {0, Pending + 1} /\ Pending \in Int
    BY <1>0, <1>3, PendingFacts
  <2> QED
    BY <2>2, <2>3, <2>4
<1> QED
  BY <1>6, <1>10 DEF ReadersServed, NoCharacterWithoutReader

\* A character is taken.
LEMMA TakeReaders ==
    ListInv /\ ReadersServed /\ (Getchar \/ GetcharNB \/ GetcharReturn) => ReadersServed'
<1> SUFFICES ASSUME ListInv, ReadersServed, Getchar \/ GetcharNB \/ GetcharReturn
             PROVE  ReadersServed'
  OBVIOUS
<1>0. /\ IInv /\ curr_proc \in Pid /\ state[curr_proc] = "RUNNING"
      /\ pc \in [Pid -> Interruptible \cup InKernel]
  BY Running DEF ListInv, IInv, TypeOK
<1>1. UNCHANGED <<state, block>> /\ kbd_getchar
  BY DEF Getchar, GetcharNB, GetcharReturn
<1>2. ReadersBlocked' /\ BlockedReaders' = BlockedReaders
  BY <1>1 DEF ReadersServed, ReadersBlocked, BlockedReaders
<1>3. WokenReaders \subseteq Pid /\ Cardinality(WokenReaders) \in Nat
  BY PidCount DEF WokenReaders
<1>4. /\ Pending' = IF KbdEmpty THEN 0 ELSE Pending - 1
      /\ KbdEmpty <=> Pending = 0
      /\ Pending \in Nat
  BY <1>0, <1>1, PendingFacts
<1>5. Cardinality(WokenReaders') \in Nat /\ Cardinality(WokenReaders') + 1 >= Cardinality(WokenReaders)
  <2>1. CASE UNCHANGED pc
    <3>1. WokenReaders' = WokenReaders
      BY <1>1, <2>1 DEF WokenReaders
    <3> QED
      BY <1>3, <3>1
  <2>2. CASE pc' = [pc EXCEPT ![curr_proc] = "user"]
    <3>1. WokenReaders' = WokenReaders \ {curr_proc}
      BY <1>0, <1>1, <2>2 DEF WokenReaders
    <3>2. IsFiniteSet(WokenReaders)
      <4>1. IsFiniteSet(Pid)
        BY MaxPidAssumption, FS_Interval DEF Pid
      <4> QED
        BY <1>3, <4>1, FS_Subset
    <3>3. Cardinality(WokenReaders \ {curr_proc}) =
              IF curr_proc \in WokenReaders THEN Cardinality(WokenReaders) - 1
              ELSE Cardinality(WokenReaders)
      BY <3>2, FS_RemoveElement
    <3>4. Cardinality(WokenReaders \ {curr_proc}) \in Nat
      BY <1>3, PidCount
    <3> QED
      BY <1>3, <3>1, <3>3, <3>4
  <2> QED
    BY <2>1, <2>2 DEF Getchar, GetcharNB, GetcharReturn
<1>6. KbdEmpty \/ Pending - 1 >= 0
  BY <1>4
<1>7. BlockedReaders' # {} => Pending' <= Cardinality(WokenReaders')
  BY <1>2, <1>3, <1>4, <1>5, <1>6 DEF ReadersServed, NoCharacterWithoutReader
<1> QED
  BY <1>2, <1>7 DEF ReadersServed, NoCharacterWithoutReader

LEMMA ReadersStep == ListInv /\ ReadersServed /\ [Next]_vars => ReadersServed'
<1> SUFFICES ASSUME ListInv, ReadersServed, [Next]_vars PROVE ReadersServed'
  OBVIOUS
<1>0. /\ IInv /\ IInv' /\ curr_proc \in Pid /\ state[curr_proc] = "RUNNING"
      /\ block \in [Pid -> Blocks] /\ pc \in [Pid -> Interruptible \cup InKernel]
      /\ state \in [Pid -> States]
      /\ block[curr_proc] # "INPUT"
      /\ ReadersBlocked /\ NoCharacterWithoutReader
  BY Running, NextIInv DEF ListInv, IInv, TypeOK, ReadersServed, ReadersBlocked
<1>1. ASSUME NEW D, NEW W, NEW B, Moves(D, W, B), UNCHANGED kbdVars,
             \A p \in Pid : block'[p] = "INPUT" => block[p] = "INPUT" /\ p \notin W /\ p \notin B,
             \A p \in Pid : pc[p] = "getchar" => pc'[p] = "getchar"
      PROVE  ReadersServed'
  BY <1>0, <1>1, ReadersMove DEF ReadersServed
\* Deaths wake processes in SYS_WAIT.
<1>2. ASSUME NEW D, NEW W, Moves(D, W, {}), UNCHANGED <<kbdVars, pc>>,
             Unblock(W) \/ UNCHANGED block, \A p \in W : block[p] = "PID"
      PROVE  ReadersServed'
  BY <1>1, <1>2 DEF Unblock
<1>3. CASE Exit
  <2>1. \A p \in WaitersOn(curr_proc) : block[p] = "PID"
    BY DEF WaitersOn
  <2> QED
    BY <1>2, <1>3, <2>1, ExitMoves DEF Exit
<1>4. CASE Fault
  <2>1. \A p \in FaultWaitersOn(curr_proc) : block[p] = "PID"
    BY <1>0, ListIsTable, TableFacts, CreatedPids DEF FaultWaitersOn, IInv, BlockedInCall
  <2> QED
    BY <1>2, <1>4, <2>1, FaultMoves DEF Fault
<1>5. ASSUME NEW t \in Pid, Kill(t) PROVE ReadersServed'
  <2>1. \A p \in WaitersOn(t) \ {t} : block[p] = "PID"
    BY DEF WaitersOn
  <2> QED
    BY <1>2, <1>5, <2>1, KillMoves DEF Kill
<1>6. CASE (\E t \in Pid : Wait(t)) \/ (\E ms \in SleepMs : Sleep(ms))
  <2>1. /\ \A p \in Pid \ {curr_proc} : block'[p] = block[p] /\ pc'[p] = pc[p]
        /\ block'[curr_proc] # "INPUT" /\ pc[curr_proc] = "user" /\ UNCHANGED kbdVars
    BY <1>0, <1>6 DEF Wait, Sleep, Does, At
  <2> QED
    BY <1>1, <1>6, <2>1, CallMoves
<1>7. CASE GetcharBlock
  <2>1. Moves({}, {}, {curr_proc})
    BY <1>7, CallMoves
  <2>2. \A p \in Pid \ {curr_proc} : block'[p] = block[p]
    BY <1>7 DEF GetcharBlock
  <2>3. ReadersBlocked'
    BY <1>0, <2>1, <2>2 DEF ReadersBlocked, Moves
  <2>4. Pending' = 0
    BY <1>0, <1>7, PendingFacts DEF GetcharBlock
  <2>5. Cardinality(WokenReaders') \in Nat
    <3>1. WokenReaders' \subseteq Pid
      BY DEF WokenReaders
    <3> QED
      BY <3>1, PidCount
  <2> QED
    BY <2>3, <2>4, <2>5 DEF ReadersServed, NoCharacterWithoutReader
<1>8. CASE Key
  BY <1>8, KeyReaders
<1>9. CASE Tick
  <2> DEFINE W == Due((tick_count + 1) % TickMod)
  <2>1. \A p \in Pid : block'[p] = "INPUT" => block[p] = "INPUT" /\ p \notin W
    BY <1>9 DEF Tick, Unblock
  <2>2. pc' = EndHlt /\ UNCHANGED kbdVars /\ Moves({}, W, {})
    BY <1>9, TickMoves DEF Tick
  <2>3. \A p \in Pid : pc[p] = "getchar" => pc'[p] = "getchar"
    BY <1>0, <2>2, EndHltFacts
  <2> HIDE DEF W
  <2> QED
    BY <1>1, <2>1, <2>2, <2>3
<1>10. CASE YieldHlt
  <2>1. UNCHANGED <<block, kbdVars>> /\ \A p \in Pid : pc[p] = "getchar" => pc'[p] = "getchar"
    BY <1>0, <1>10 DEF YieldHlt, At
  <2> QED
    BY <1>1, <1>10, <2>1, YieldMoves
<1>11. CASE SpawnLink \/ SpawnPublish \/ WaitReap \/ WaitFault \/ UNCHANGED vars
  <2>1. UNCHANGED <<block, kbdVars>> /\ UNCHANGED <<state, curr_proc>>
    BY <1>11 DEF SpawnLink, SpawnPublish, WaitReap, WaitFault, vars, kbdVars
  <2>2. \A p \in Pid : pc[p] = "getchar" => pc'[p] = "getchar"
    BY <1>0, <1>11 DEF SpawnLink, SpawnPublish, WaitReap, WaitFault, vars, At
  <2> QED
    BY <1>1, <2>1, <2>2, StillMoves
<1>12. CASE Getchar \/ GetcharNB \/ GetcharReturn
  BY <1>12, TakeReaders
<1>13. CASE Spawn
  <2>1. /\ UNCHANGED <<block, kbdVars>>
        /\ state' = [state EXCEPT ![next_pid] = "READY"]
        /\ next_pid \in Pid /\ state[next_pid] = "UNBORN"
        /\ \A p \in Pid : pc[p] = "getchar" => pc'[p] = "getchar"
    BY <1>0, <1>13 DEF Spawn, process_create, Does, At, IInv, BornInOrder, TypeOK
  <2>2. \A p \in Pid : block[p] = "INPUT" => p # next_pid
    BY <1>0, <2>1 DEF ReadersBlocked
  <2>3. ReadersBlocked' /\ BlockedReaders' = BlockedReaders
    BY <1>0, <2>1, <2>2 DEF ReadersBlocked, BlockedReaders
  <2>4. WokenReaders \subseteq WokenReaders' /\ WokenReaders' \subseteq Pid /\ Pending' = Pending
        /\ Pending \in Int
    BY <1>0, <2>1, PendingFacts DEF WokenReaders
  <2>5. Cardinality(WokenReaders) <= Cardinality(WokenReaders')
        /\ Cardinality(WokenReaders) \in Nat /\ Cardinality(WokenReaders') \in Nat
    BY <2>4, PidCount
  <2> QED
    BY <1>0, <2>3, <2>4, <2>5 DEF ReadersServed, NoCharacterWithoutReader
<1> QED
  BY <1>3, <1>4, <1>5, <1>6, <1>7, <1>8, <1>9, <1>10, <1>11, <1>12, <1>13 DEF Next

\* No character stays in the ring while a process is blocked for one and no woken
\* reader is on its way to it, for any number of readers, keys and overflows of
\* the ring.
THEOREM NoReaderForgotten == Spec /\ SpawnUndisturbed => []NoCharacterWithoutReader
<1>1. Init => ReadersServed
  BY DEF Init, ReadersServed, ReadersBlocked, NoCharacterWithoutReader, BlockedReaders
<1>2. ListInv /\ ReadersServed /\ [Next]_vars => ReadersServed'
  BY ReadersStep
<1>3. ReadersServed => NoCharacterWithoutReader
  BY DEF ReadersServed
<1> QED
  BY <1>1, <1>2, <1>3, ListInvariance, PTL DEF Spec
=============================================================================
