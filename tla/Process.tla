------------------------------ MODULE Process ------------------------------
(***************************************************************************)
(* The process table of loaf-os: multi/process.c, multi/scheduler.c, the   *)
(* process system calls of userspace/syscalls.c, the timer interrupt       *)
(* (devices/pit.c), the keyboard interrupt (devices/kbd.c) and the fault   *)
(* handler (idt/isr.c).                                                    *)
(*                                                                         *)
(* There is one CPU.  Interrupt gates clear IF, so a system call or a      *)
(* handler is one step from its entry to the point where it switches       *)
(* context, with two exceptions that the code makes itself: copy_to_user   *)
(* ends with "sti", so SYS_SPAWN can be preempted from there until it      *)
(* returns, and SYS_YIELD_HLT executes "sti; hlt".  pc[p] says where p     *)
(* continues when it is on the CPU again.                                  *)
(***************************************************************************)
EXTENDS Integers, FiniteSets, Lists

CONSTANTS
    MaxPid,           \* bound on the pids handed out
    Parents,          \* the processes whose program calls SYS_SPAWN and SYS_WAIT
    Calls,            \* what the programs of the instance do
    SleepMs,          \* the durations they pass to SYS_SLEEP
    TickMod,          \* tick_count is counted modulo TickMod (2^32 in the code)
    KBD_BUFFER_SIZE   \* 256 in the code

AllCalls == {"spawn", "wait", "exit", "fault", "kill", "yield", "sleep",
             "getchar", "getchar_nb", "key"}

ASSUME MaxPidAssumption == MaxPid \in Nat \ {0}
ASSUME CallsAssumption == Calls \subseteq AllCalls
ASSUME SleepAssumption == TickMod \in Nat \ {0} /\ SleepMs \subseteq 0..(TickMod - 1)
ASSUME BufferAssumption == KBD_BUFFER_SIZE \in Nat \ {0}

Pid == 0..MaxPid
idle_proc == 0
init_proc == 1
UserPid == Pid \ {idle_proc}

\* NULL also stands for (uint32_t)-1 in target_pid and resume_tick.

\* Where IF is set: in the program, before hlt, and behind the sti of copy_to_user.
Interruptible == {"user", "hlt", "link", "publish"}
InKernel == {"wait", "getchar"}   \* inside a system call, IF clear

VARIABLES
    proc_list,      \* head of the list of processes
    next,           \* process_t.next
    next_pid,       \* the static counter of process.c
    curr_proc,      \* the process on the CPU
    state,          \* process_t.state
    block,          \* process_t.block
    target_pid,     \* process_t.target_pid
    resume_tick,    \* process_t.resume_tick
    cleaned_up,     \* process_t.cleaned_up
    freed,          \* the process_t records given back to the kernel heap
    pc,             \* where a process continues
    arg,            \* the argument its system call still needs (regs->ebx, or child)
    tick_count,     \* pit.c
    kbd_read_pos,   \* kbd.c
    kbd_write_pos,
    kfault          \* the kernel has dereferenced a NULL pointer: handle_fault panics

vars == <<proc_list, next, next_pid, curr_proc, state, block, target_pid,
          resume_tick, cleaned_up, freed, pc, arg, tick_count, kbd_read_pos,
          kbd_write_pos, kfault>>

listVars == <<proc_list, next, next_pid, freed>>
kbdVars == <<kbd_read_pos, kbd_write_pos>>
sleepVars == <<resume_tick, tick_count>>
---------------------------------------------------------------------------
(* The list of processes.                                                  *)

\* The processes a walk from proc_list along next meets (what process_find and
\* the loops of the handlers look through).
Listed == LET w == Walk(proc_list, next, MaxPid) IN {w[k] : k \in 0..MaxPid} \ {NULL}

\* Variant: the walk ends at the end of the list.
Ring_NoWrap == next

\* p->next ? p->next : proc_list
Ring == [p \in Pid |-> IF next[p] # NULL THEN next[p] ELSE proc_list]

\* Variant: the search always starts at the head.
pick_next_FromHead(st) ==
    LET ready == FirstOn(MaxPid, Walk(proc_list, Ring, MaxPid), {p \in Pid : st[p] = "READY"})
    IN  IF ready = {} THEN {idle_proc} ELSE ready

\* pick_next(): the first READY process after the current one, idle if there
\* is none; st is the table of states at the call.
pick_next(st) ==
    LET ready == FirstOn(MaxPid, Walk(Ring[curr_proc], Ring, MaxPid),
                         {p \in Pid : st[p] = "READY"})
    IN  IF ready = {} THEN {idle_proc} ELSE ready

\* Variant: the process that leaves the CPU keeps its state.
schedule_KeepPrev(st) ==
    \E n \in pick_next(st) :
        /\ curr_proc' = n
        /\ state' = IF n = curr_proc THEN st ELSE [st EXCEPT ![n] = "RUNNING"]

\* schedule(): gives the CPU to the process pick_next chooses.
schedule(st) ==
    \E n \in pick_next(st) :
        /\ curr_proc' = n
        /\ state' = IF n = curr_proc THEN st
                    ELSE [st EXCEPT ![curr_proc] = IF @ = "RUNNING" THEN "READY" ELSE @,
                                    ![n] = "RUNNING"]

\* Variant: only the head can be unlinked.
UnlinkedNext_HeadOnly(t) == next

\* process_t.next after proc_unlink(t), and the head.
UnlinkedNext(t) ==
    IF proc_list = t THEN next
    ELSE [p \in Pid |-> IF p \in Listed /\ next[p] = t THEN next[t] ELSE next[p]]

UnlinkedHead(t) == IF proc_list = t THEN next[t] ELSE proc_list
---------------------------------------------------------------------------
(* kmain has created idle and init, linked init and run it.                *)

OnlyBoot(booted, other) == [p \in Pid |-> IF p \in {idle_proc, init_proc} THEN booted ELSE other]

Init ==
    /\ proc_list = init_proc
    /\ next = [p \in Pid |-> NULL]
    /\ next_pid = 2
    /\ curr_proc = init_proc
    /\ state = [OnlyBoot("READY", "UNBORN") EXCEPT ![init_proc] = "RUNNING"]
    /\ block = [p \in Pid |-> "NONE"]
    /\ target_pid = [p \in Pid |-> NULL]
    /\ resume_tick = [p \in Pid |-> NULL]
    /\ cleaned_up = [p \in Pid |-> FALSE]
    /\ freed = {}
    /\ pc = [p \in Pid |-> "user"]
    /\ arg = [p \in Pid |-> NULL]
    /\ tick_count = 0
    /\ kbd_read_pos = 0
    /\ kbd_write_pos = 0
    /\ kfault = FALSE

\* The specification stops at a kernel fault, and where the list holds a
\* record that was freed: what the code does from there is undefined.
Intact == ~kfault /\ Listed \cap freed = {}

\* The current process continues at one of the points of where.
At(where) == Intact /\ pc[curr_proc] \in where

\* The current process, not idle, is in user mode and its program does c.
Does(c) ==
    /\ At({"user"})
    /\ c \in Calls
    /\ curr_proc # idle_proc
---------------------------------------------------------------------------
(* SYS_SPAWN.  process_create numbers and fills the new process; the rest  *)
(* of the call runs with interrupts enabled.                               *)

process_create ==
    /\ next_pid \in Pid
    /\ next_pid' = next_pid + 1
    /\ state' = [state EXCEPT ![next_pid] = "READY"]

Spawn ==
    /\ Does("spawn")
    /\ curr_proc \in Parents
    /\ process_create
    /\ arg' = [arg EXCEPT ![curr_proc] = next_pid]
    /\ pc' = [pc EXCEPT ![curr_proc] = "link"]
    /\ UNCHANGED <<proc_list, next, freed, curr_proc, block, target_pid,
                   cleaned_up, sleepVars, kbdVars, kfault>>

\* scheduler_add, first statement: proc->next = proc_list.
SpawnLink ==
    /\ At({"link"})
    /\ next' = [next EXCEPT ![arg[curr_proc]] = proc_list]
    /\ pc' = [pc EXCEPT ![curr_proc] = "publish"]
    /\ UNCHANGED <<proc_list, next_pid, freed, curr_proc, state, block,
                   target_pid, cleaned_up, arg, sleepVars, kbdVars, kfault>>

\* scheduler_add, second statement: proc_list = proc.
SpawnPublish ==
    /\ At({"publish"})
    /\ proc_list' = arg[curr_proc]
    /\ pc' = [pc EXCEPT ![curr_proc] = "user"]
    /\ arg' = [arg EXCEPT ![curr_proc] = NULL]
    /\ UNCHANGED <<next, next_pid, freed, curr_proc, state, block, target_pid,
                   cleaned_up, sleepVars, kbdVars, kfault>>
---------------------------------------------------------------------------
(* The ways to die: SYS_EXIT, a fault in user mode and SYS_KILL.  Each     *)
(* wakes the processes that wait for the dead one.                         *)

\* Variants: only the head is looked at; any death wakes a waiter.
WaitersOn_Head(t) == {p \in Listed \cap {proc_list} :
                        state[p] = "BLOCKED" /\ block[p] = "PID" /\ target_pid[p] = t}
WaitersOn_AnyTarget(t) == {p \in Listed : state[p] = "BLOCKED" /\ block[p] = "PID"}

WaitersOn(t) == {p \in Listed : /\ state[p] = "BLOCKED"
                                /\ block[p] = "PID"
                                /\ target_pid[p] = t}

\* Variants: a fault wakes nobody; the state of the waiter is not tested.
FaultWaitersOn_None(t) == {}
FaultWaitersOn_AnyState(t) == {p \in Listed : target_pid[p] = t}

\* handle_fault looks at target_pid alone.
FaultWaitersOn(t) == {p \in Listed : state[p] = "BLOCKED" /\ target_pid[p] = t}

\* The table of states once t is DEAD and the processes of W are awake.
Killed(t, W) ==
    [p \in Pid |-> IF p = t THEN "DEAD" ELSE IF p \in W THEN "READY" ELSE state[p]]

Forget(W) == target_pid' = [p \in Pid |-> IF p \in W THEN NULL ELSE target_pid[p]]

Unblock(W) == block' = [p \in Pid |-> IF p \in W THEN "NONE" ELSE block[p]]

Exit ==
    /\ Does("exit")
    /\ LET W == WaitersOn(curr_proc) IN
        /\ Forget(W)
        /\ Unblock(W)
        /\ schedule(Killed(curr_proc, W))
    /\ UNCHANGED <<listVars, cleaned_up, pc, arg, sleepVars, kbdVars, kfault>>

Fault ==
    /\ Does("fault")
    /\ LET W == FaultWaitersOn(curr_proc) IN
        /\ Forget(W)
        /\ schedule(Killed(curr_proc, W))
    /\ UNCHANGED <<listVars, block, cleaned_up, pc, arg, sleepVars, kbdVars, kfault>>

Kill(t) ==
    /\ Does("kill")
    /\ t \in Listed
    /\ LET W == WaitersOn(t) \ {t} IN
        /\ Forget(W)
        /\ Unblock(W)
        /\ IF t = curr_proc
           THEN schedule(Killed(t, W))
           ELSE state' = Killed(t, W) /\ UNCHANGED curr_proc
    /\ UNCHANGED <<listVars, cleaned_up, pc, arg, sleepVars, kbdVars, kfault>>
---------------------------------------------------------------------------
(* SYS_WAIT.  A call for a process that is not listed, or already DEAD,    *)
(* returns at once and changes nothing.                                    *)

Wait(t) ==
    /\ Does("wait")
    /\ curr_proc \in Parents
    /\ t \in Listed
    /\ state[t] # "DEAD"
    /\ block' = [block EXCEPT ![curr_proc] = "PID"]
    /\ target_pid' = [target_pid EXCEPT ![curr_proc] = t]
    /\ pc' = [pc EXCEPT ![curr_proc] = "wait"]
    /\ arg' = [arg EXCEPT ![curr_proc] = t]
    /\ schedule([state EXCEPT ![curr_proc] = "BLOCKED"])
    /\ UNCHANGED <<listVars, cleaned_up, sleepVars, kbdVars, kfault>>

\* Variant: the result of the second process_find is not needed.
WaitReap_Twice ==
    /\ At({"wait"})
    /\ freed' = freed \cup {arg[curr_proc]}
    /\ pc' = [pc EXCEPT ![curr_proc] = "user"]
    /\ arg' = [arg EXCEPT ![curr_proc] = NULL]
    /\ proc_list' = UnlinkedHead(arg[curr_proc])
    /\ next' = UnlinkedNext(arg[curr_proc])
    /\ UNCHANGED <<next_pid, curr_proc, state, block, target_pid, cleaned_up,
                   sleepVars, kbdVars, kfault>>

\* The waiter is on the CPU again: it looks for the process a second time,
\* unlinks it and frees its record.
WaitReap ==
    /\ At({"wait"})
    /\ LET t == arg[curr_proc] IN
        /\ t \in Listed
        /\ proc_list' = UnlinkedHead(t)
        /\ next' = UnlinkedNext(t)
        /\ freed' = freed \cup {t}
    /\ pc' = [pc EXCEPT ![curr_proc] = "user"]
    /\ arg' = [arg EXCEPT ![curr_proc] = NULL]
    /\ UNCHANGED <<next_pid, curr_proc, state, block, target_pid, cleaned_up,
                   sleepVars, kbdVars, kfault>>

\* The same, when process_find returns NULL: proc->exit_code faults.
WaitFault ==
    /\ At({"wait"})
    /\ arg[curr_proc] \notin Listed
    /\ kfault' = TRUE
    /\ UNCHANGED <<listVars, curr_proc, state, block, target_pid, cleaned_up,
                   pc, arg, sleepVars, kbdVars>>
---------------------------------------------------------------------------
(* SYS_YIELD_HLT and SYS_SLEEP.                                            *)

YieldHlt ==
    /\ At({"user"})
    /\ curr_proc = idle_proc \/ Does("yield")
    /\ pc' = [pc EXCEPT ![curr_proc] = "hlt"]
    /\ schedule(state)
    /\ UNCHANGED <<listVars, block, target_pid, cleaned_up, arg, sleepVars,
                   kbdVars, kfault>>

Sleep(ms) ==
    /\ Does("sleep")
    /\ block' = [block EXCEPT ![curr_proc] = "SLEEP"]
    /\ resume_tick' = [resume_tick EXCEPT ![curr_proc] = (tick_count + ms) % TickMod]
    /\ arg' = [arg EXCEPT ![curr_proc] = ms]
    /\ schedule([state EXCEPT ![curr_proc] = "BLOCKED"])
    /\ UNCHANGED <<listVars, target_pid, cleaned_up, pc, tick_count, kbdVars, kfault>>
---------------------------------------------------------------------------
(* The keyboard ring and SYS_GETCHAR.                                      *)

KbdEmpty == kbd_read_pos = kbd_write_pos

\* Variant: the position does not wrap.
Advance_NoWrap(pos) == pos + 1

Advance(pos) == (pos + 1) % KBD_BUFFER_SIZE

Pending == (kbd_write_pos - kbd_read_pos) % KBD_BUFFER_SIZE

\* kbd_getchar(): takes a character if there is one.
kbd_getchar ==
    /\ kbd_read_pos' = IF KbdEmpty THEN kbd_read_pos
                       ELSE Advance(kbd_read_pos)
    /\ UNCHANGED kbd_write_pos

Getchar ==
    /\ Does("getchar")
    /\ ~KbdEmpty
    /\ kbd_getchar
    /\ UNCHANGED <<listVars, curr_proc, state, block, target_pid, cleaned_up,
                   pc, arg, sleepVars, kfault>>

\* Variant: the call blocks before it looks at the ring.
GetcharBlock_Always ==
    /\ Does("getchar")
    /\ block' = [block EXCEPT ![curr_proc] = "INPUT"]
    /\ pc' = [pc EXCEPT ![curr_proc] = "getchar"]
    /\ schedule([state EXCEPT ![curr_proc] = "BLOCKED"])
    /\ UNCHANGED <<listVars, target_pid, cleaned_up, arg, sleepVars, kbdVars, kfault>>

GetcharBlock ==
    /\ Does("getchar")
    /\ KbdEmpty
    /\ block' = [block EXCEPT ![curr_proc] = "INPUT"]
    /\ pc' = [pc EXCEPT ![curr_proc] = "getchar"]
    /\ schedule([state EXCEPT ![curr_proc] = "BLOCKED"])
    /\ UNCHANGED <<listVars, target_pid, cleaned_up, arg, sleepVars, kbdVars, kfault>>

\* The woken reader tries again, once: the character may be gone.
GetcharReturn ==
    /\ At({"getchar"})
    /\ kbd_getchar
    /\ pc' = [pc EXCEPT ![curr_proc] = "user"]
    /\ UNCHANGED <<listVars, curr_proc, state, block, target_pid, cleaned_up,
                   arg, sleepVars, kfault>>

GetcharNB ==
    /\ Does("getchar_nb")
    /\ ~KbdEmpty
    /\ kbd_getchar
    /\ UNCHANGED <<listVars, curr_proc, state, block, target_pid, cleaned_up,
                   pc, arg, sleepVars, kfault>>
---------------------------------------------------------------------------
(* Interrupts.  One that arrives while the current process is in "hlt"     *)
(* ends the hlt.                                                           *)

EndHlt == [pc EXCEPT ![curr_proc] = IF @ = "hlt" THEN "user" ELSE @]

BlockedReaders == {p \in Pid : state[p] = "BLOCKED" /\ block[p] = "INPUT"}

\* IRQ 1, kbd_handler, for a scancode that has a character.
Key ==
    /\ "key" \in Calls
    /\ At(Interruptible)
    /\ kbd_write_pos' = Advance(kbd_write_pos)
    /\ LET W == FirstOn(MaxPid, Walk(proc_list, next, MaxPid), BlockedReaders) IN
        /\ state' = [p \in Pid |-> IF p \in W THEN "READY" ELSE state[p]]
        /\ Unblock(W)
    /\ pc' = EndHlt
    /\ UNCHANGED <<listVars, curr_proc, target_pid, cleaned_up, arg, sleepVars,
                   kbd_read_pos, kfault>>

\* Variant: a sleeper is due one tick late.
Due_Late(now) == {p \in Listed : /\ state[p] = "BLOCKED"
                                 /\ block[p] = "SLEEP"
                                 /\ now > resume_tick[p]}

\* The sleepers pit_handler wakes when the count becomes now.
Due(now) == {p \in Listed : /\ state[p] = "BLOCKED"
                            /\ block[p] = "SLEEP"
                            /\ now >= resume_tick[p]}

\* Variants: blocked processes are cleaned up as well; those that died while
\* they were blocked are not.
ToClean_Blocked == {p \in Listed : state[p] \in {"BLOCKED", "DEAD"} /\ p # curr_proc}
ToClean_Unblocked == {p \in Listed : state[p] = "DEAD" /\ block[p] = "NONE" /\ p # curr_proc}

\* The processes pit_handler cleans up.
ToClean == {p \in Listed : state[p] = "DEAD" /\ p # curr_proc}

\* IRQ 0: pit_handler, then schedule.
Tick ==
    /\ At(Interruptible)
    /\ tick_count' = (tick_count + 1) % TickMod
    /\ cleaned_up' = [p \in Pid |-> cleaned_up[p] \/ p \in ToClean]
    /\ LET W == Due((tick_count + 1) % TickMod) IN
        /\ Unblock(W)
        /\ resume_tick' = [p \in Pid |-> IF p \in W THEN NULL ELSE resume_tick[p]]
        /\ arg' = [p \in Pid |-> IF p \in W THEN NULL ELSE arg[p]]
        /\ schedule([p \in Pid |-> IF p \in W THEN "READY" ELSE state[p]])
    /\ pc' = EndHlt
    /\ UNCHANGED <<listVars, target_pid, kbdVars, kfault>>
---------------------------------------------------------------------------
Next ==
    \/ Spawn \/ SpawnLink \/ SpawnPublish
    \/ Exit \/ Fault \/ (\E t \in Pid : Kill(t))
    \/ (\E t \in Pid : Wait(t)) \/ WaitReap \/ WaitFault
    \/ YieldHlt \/ (\E ms \in SleepMs : Sleep(ms))
    \/ Getchar \/ GetcharBlock \/ GetcharReturn \/ GetcharNB
    \/ Key \/ Tick

Spec == Init /\ [][Next]_vars
---------------------------------------------------------------------------
(* Properties.                                                             *)

States == {"UNBORN", "READY", "RUNNING", "BLOCKED", "DEAD"}
Blocks == {"PID", "INPUT", "SLEEP", "NONE"}

\* Every variable keeps to the values the C declarations give it.
TypeOK ==
    /\ proc_list \in Pid \cup {NULL}
    /\ next \in [Pid -> Pid \cup {NULL}]
    /\ next_pid \in 2..(MaxPid + 1)
    /\ curr_proc \in Pid
    /\ state \in [Pid -> States]
    /\ block \in [Pid -> Blocks]
    /\ target_pid \in [Pid -> Pid \cup {NULL}]
    /\ resume_tick \in [Pid -> (0..(TickMod - 1)) \cup {NULL}]
    /\ cleaned_up \in [Pid -> BOOLEAN]
    /\ freed \subseteq Pid
    /\ pc \in [Pid -> Interruptible \cup InKernel]
    /\ arg \in [Pid -> Int]
    /\ tick_count \in 0..(TickMod - 1)
    /\ kbd_read_pos \in 0..(KBD_BUFFER_SIZE - 1)
    /\ kbd_write_pos \in 0..(KBD_BUFFER_SIZE - 1)
    /\ kfault \in BOOLEAN

\* The process on the CPU is the one process marked RUNNING, whatever mix of
\* system calls and interrupts led there (schedule, and the handlers that
\* write another process's state).
CurrentIsRunning == \A p \in Pid : state[p] = "RUNNING" <=> p = curr_proc

Spawning(p) == pc[p] \in {"link", "publish"}

UnderConstruction == {arg[q] : q \in {r \in Pid : Spawning(r)}}

\* The processes that were created and not reaped.
InTable == {p \in UserPid : state[p] # "UNBORN" /\ p \notin freed \cup UnderConstruction}

\* The list holds every process that was created and not reaped, and no other:
\* scheduler_add and proc_unlink lose none and keep none that was freed, also
\* when a timer interrupt comes between the two statements of scheduler_add.
ListMatchesProcesses == Listed = InTable

Waiting(p) == pc[p] = "wait" /\ state[p] # "DEAD"

\* A live process inside SYS_WAIT is blocked exactly as long as the process it
\* waits for is alive: no death leaves a waiter asleep, and no waiter goes on
\* to unlink and free a process that lives.
WaiterBlockedWhileTargetLives ==
    \A p \in Pid : Waiting(p) => (state[p] = "BLOCKED" <=> state[arg[p]] # "DEAD")

\* The half of it that no program can break: SYS_WAIT frees only the dead.
ReapsOnlyTheDead ==
    \A p \in Pid : (Waiting(p) /\ state[p] # "BLOCKED") => state[arg[p]] = "DEAD"

Asleep(p) == state[p] = "BLOCKED" /\ block[p] = "SLEEP"

\* How many ticks a sleep of ms lasts that begins at tick start.  It is ms, and one
\* for 0; but where start + ms wraps the next tick is already past it (unless that
\* tick wraps too), and a sleep of 0 at the last tick waits for the count to come round.
SleepTicks(start, ms) ==
    CASE start + ms >= TickMod /\ start # TickMod - 1 -> 1
      [] ms = 0 -> IF start = TickMod - 1 THEN TickMod ELSE 1
      [] OTHER -> ms

SleepStart(p) == (resume_tick[p] - arg[p]) % TickMod
Slept(p) == (tick_count - SleepStart(p)) % TickMod

\* pit_handler ends a sleep at the tick its length says and at no other, neither
\* early nor late, whether the 32-bit count or the sum wraps or not.
SleepOnTime ==
    [][Tick => \A p \in Pid : Asleep(p) =>
           (Asleep(p)' <=> Slept(p) + 1 < SleepTicks(SleepStart(p), arg[p]))]_vars

WokenReaders == {p \in Pid : pc[p] = "getchar" /\ block[p] # "INPUT"}

\* While a process is blocked in SYS_GETCHAR, no character waits in the ring
\* that some woken reader is not there to take (a reader that was killed
\* after kbd_handler woke it is counted: its character stays behind).
NoCharacterWithoutReader ==
    BlockedReaders # {} => Pending <= Cardinality(WokenReaders)

\* process_cleanup has taken the address space and the kernel stack of dead
\* processes only, and never of the one on the CPU.
CleanedUpIsOffCpu == \A p \in Pid : cleaned_up[p] => state[p] = "DEAD" /\ p # curr_proc

\* Death is final: no wake-up or reschedule brings a DEAD process back.
DeadStaysDead == [][\A p \in Pid : state[p] = "DEAD" => state'[p] = "DEAD"]_vars

\* The CPU goes idle only when no other listed process is READY.
IdleOnlyByDefault ==
    [][(curr_proc # idle_proc /\ curr_proc' = idle_proc) =>
          \A p \in Listed' \ {curr_proc} : state'[p] # "READY"]_vars

\* No system call makes the kernel dereference NULL: "kernel fault" (isr.c:39)
\* is never printed.
KernelNeverFaults == ~kfault

\* A reaped process has been cleaned up: what pit.c:23-27 does for every DEAD
\* process is done before SYS_WAIT frees the record that holds the resources.
ReapedIsClean == \A p \in freed : cleaned_up[p]
---------------------------------------------------------------------------
(* Refinement.                                                             *)

life == [p \in Pid |-> IF p \in freed THEN "gone"
                      ELSE IF state[p] = "UNBORN" THEN "unborn"
                      ELSE IF state[p] = "DEAD" THEN "dead" ELSE "alive"]

waits == [p \in Pid |-> IF Waiting(p) THEN arg[p] ELSE NULL]

Abstract == INSTANCE Lifecycle WITH Procs <- Pid, NoProc <- NULL

\* The process table implements Lifecycle: whatever programs do, a process dies
\* once and is freed once, by a SYS_WAIT that began while it was alive.
ImplementsLifecycle == Abstract!Spec
---------------------------------------------------------------------------
(* The inductive invariant behind the theorems of ProcessProofs.           *)

Created == 1..(next_pid - 1)

\* Pids are handed out in order.
BornInOrder == \A p \in Pid : state[p] = "UNBORN" <=> p >= next_pid

\* The list's pointers lead to created processes, and never to idle.
LinksCreated ==
    /\ proc_list \in Created \cup {NULL}
    /\ \A p \in Pid : next[p] \in Created \cup {NULL}
    /\ \A p \in Pid : pc[p] \in {"link", "publish", "wait"} => arg[p] \in Created

IdleRuns == state[idle_proc] \in {"READY", "RUNNING"}

\* A blocked process is inside the system call its block field names, and
\* target_pid is set exactly for those in SYS_WAIT.
BlockedInCall ==
    \A p \in Pid :
        /\ state[p] = "BLOCKED" =>
              \/ block[p] = "PID" /\ pc[p] = "wait" /\ target_pid[p] = arg[p]
              \/ block[p] = "INPUT" /\ pc[p] = "getchar" /\ target_pid[p] = NULL
              \/ block[p] = "SLEEP" /\ pc[p] = "user" /\ target_pid[p] = NULL
        /\ state[p] \in {"READY", "RUNNING", "UNBORN"} => target_pid[p] = NULL
        /\ state[p] = "UNBORN" => pc[p] = "user"

FreedAreDead == \A p \in freed : state[p] = "DEAD"

IInv ==
    /\ TypeOK
    /\ CurrentIsRunning
    /\ BornInOrder
    /\ LinksCreated
    /\ IdleRuns
    /\ BlockedInCall
    /\ ReapsOnlyTheDead
    /\ CleanedUpIsOffCpu
    /\ FreedAreDead

(* The list is exact as long as nobody disturbs scheduler_add.             *)

\* While a live process is preempted inside SYS_SPAWN, no other process adds to
\* the list or takes from it.  With one parent nobody else could.
Undisturbed ==
    \A p \in Pid \ {curr_proc} :
        (Spawning(p) /\ state[p] # "DEAD") => UNCHANGED <<proc_list, next, next_pid>>

SpawnUndisturbed == [][Undisturbed]_vars

\* New processes go to the front: the list runs from the last pid to the first.
ListSorted ==
    /\ Sorted(proc_list, next, InTable)
    /\ next[idle_proc] = NULL

\* Each process under construction has one that constructs it, has not run, and
\* unless that one was killed it is the last.
Constructed ==
    \A p \in Pid : Spawning(p) =>
        /\ state[arg[p]] = "READY"
        /\ \A q \in Pid \ {p} : Spawning(q) => arg[q] # arg[p]
        /\ state[p] # "DEAD" => /\ arg[p] = next_pid - 1
                                /\ pc[p] = "publish" => next[arg[p]] = proc_list

CurrentInTable == curr_proc \in InTable \cup {idle_proc}

ListInv == IInv /\ ListSorted /\ Constructed /\ CurrentInTable

\* A process that has been woken does not wait for a character any more.
ReadersBlocked == \A p \in Pid : block[p] = "INPUT" => state[p] \in {"BLOCKED", "DEAD"}
---------------------------------------------------------------------------
(* Fairness.  The PIC holds a timer interrupt until IF is set, and it has  *)
(* the highest priority there: a tick that is possible again and again is  *)
(* taken.  A process the scheduler runs again and again finishes the       *)
(* kernel code it is in.  Nothing is assumed of programs and of keys.      *)

Fairness ==
    /\ SF_vars(Tick)
    /\ WF_vars(WaitReap)
    /\ WF_vars(GetcharReturn)
    /\ \A p \in Parents :
        /\ SF_vars(curr_proc = p /\ SpawnLink)
        /\ SF_vars(curr_proc = p /\ SpawnPublish)

FairSpec == Spec /\ Fairness

\* No starvation: a READY process that is listed gets the CPU or is killed.
ReadyProcessRuns ==
    \A p \in UserPid : (p \in Listed /\ state[p] = "READY")
                        ~> state[p] \in {"RUNNING", "DEAD"}

\* SYS_SLEEP ends, also when tick_count + ms wraps around.
SleepEnds == \A p \in UserPid : Asleep(p) ~> ~Asleep(p)

\* SYS_WAIT returns once the process it waits for is dead.
WaitReturns ==
    \A p \in Parents : (Waiting(p) /\ state[arg[p]] = "DEAD") ~> ~Waiting(p)

\* The resources of a dead process are returned, or its record is freed.
DeadIsCleanedOrFreed ==
    \A p \in UserPid : (p \in Listed /\ state[p] = "DEAD") ~> (cleaned_up[p] \/ p \in freed)

\* SYS_SPAWN, though preemptible, returns: its child joins the list.
SpawnCompletes ==
    \A p \in Parents : (pc[p] = "link") ~> (pc[p] = "user" \/ state[p] = "DEAD")
=============================================================================
