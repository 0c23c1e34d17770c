------------------------------- MODULE Threads ------------------------------
(***************************************************************************)
(* Threads without a scheduler (sys/thread.c, sys/smp.c, the exit and      *)
(* clone calls of sys/syscall.c, k_cpu_sleep_all of driver/cpu/cpu.c).     *)
(* Every CPU has an idle thread and room for one task thread.  clone finds *)
(* a CPU without a task, publishes the new thread there and sends an IPI;  *)
(* the idle thread of that CPU switches to it; exit gives the CPU back.    *)
(*                                                                         *)
(* The locks of the CPUs and the smp lock are held over several steps and  *)
(* are modelled by their holder (Spinlock shows that they exclude).  The   *)
(* lock of the process only covers k_thread_create, which is one step.     *)
(* A step is the code between two accesses to state that another CPU reads *)
(* or writes at that point.  A call to a taken lock waits before its step. *)
(*                                                                         *)
(* The program: a task clones threads, waits for the word of a thread it   *)
(* cloned to become 0 (pthread_join), and exits.  A thread is named by the *)
(* word it was given as ctid, so the name stands for its tid too; clone is *)
(* called with CLONE_CHILD_SETTID and CLONE_CHILD_CLEARTID.  The argument  *)
(* errors of clone change nothing and are left out.  The futex calls are   *)
(* one step here; Futex models them.                                       *)
(***************************************************************************)
EXTENDS Integers, FiniteSets, FiniteSetsExt

CONSTANTS
  NumCores,     \* CONFIG_NUM_CORES
  Words,        \* the words the program passes as ctid, each at most once
  Cloners,      \* the tasks that call clone, a subset of Words and Main
  Main,         \* the main task
  Idle,         \* an idle thread
  NULL

ASSUME ThreadsAssumption ==
  /\ NumCores \in Nat \ {0}
  /\ Cloners \subseteq Words \cup {Main}
  /\ {Main, Idle, NULL} \cap Words = {}
  /\ Main # Idle /\ Main # NULL /\ Idle # NULL

Cpus == 0 .. NumCores - 1
Slots == 0 .. 2 * NumCores - 1

VARIABLES
  slot,         \* k_ti: struct k_thread_info
  leader,       \* pi->leader, a slot
  tiTask,       \* cpu->ti_task of each CPU, a slot
  tiIdle,       \* cpu->ti_idle of each CPU, a slot
  run,          \* the thread whose registers each CPU runs on (cpu->ti)
  running,      \* cpu->running of each CPU
  msip,         \* pending IPI of each CPU
  lockCpu,      \* the CPU that holds cpu->lock
  lockSmp,      \* the CPU that holds lock_smp
  pc,           \* where each CPU is
  loc,          \* its locals: word of the call, CPU aimed at, slot ti
  word,         \* user memory: is the word set to a tid?
  done,         \* comm->done: the host is told that the program has ended
  thr           \* history of each cloned thread

vars == <<slot, leader, tiTask, tiIdle, run, running, msip, lockCpu, lockSmp,
          pc, loc, word, done, thr>>

NoSlot == -1
NoCpu == -1
NoLoc == [w |-> NULL, tgt |-> 0, ti |-> NoSlot]

Init ==
  /\ slot = [s \in Slots |-> [avail |-> FALSE, tid |-> NULL, clear |-> FALSE, ctid |-> NULL]]
  /\ leader = NoSlot
  /\ tiTask = [c \in Cpus |-> NoSlot]
  /\ tiIdle = [c \in Cpus |-> NoSlot]
  /\ run = [c \in Cpus |-> NULL]
  /\ running = [c \in Cpus |-> TRUE]       \* k_cpu_wakeup_all is over
  /\ msip = [c \in Cpus |-> FALSE]
  /\ lockCpu = [c \in Cpus |-> NoCpu]
  /\ lockSmp = NoCpu
  /\ pc = [c \in Cpus |-> IF c = 0 THEN "init_main" ELSE "init_idle"]
  /\ loc = [c \in Cpus |-> NoLoc]
  /\ word = [w \in Words |-> FALSE]
  /\ done = FALSE
  /\ thr = [w \in Words |-> "none"]

Goto(c, from, to) ==
  /\ pc[c] = from
  /\ pc' = [pc EXCEPT ![c] = to]

\* A call is over: its locals are gone.
Back(c, from, to) == Goto(c, from, to) /\ loc' = [loc EXCEPT ![c] = NoLoc]

\* k_thread_create: the first free entry of k_ti, or NULL.
FreeSlots == {s \in Slots : ~slot[s].avail}
Created(t) == [slot EXCEPT ![Min(FreeSlots)] =
                 [avail |-> TRUE, tid |-> t, clear |-> @.clear, ctid |-> NULL]]
-----------------------------------------------------------------------------
(* Boot: k_init_leader on CPU 0, k_init_child on the others.               *)

\* init_main_thread: create the main thread and publish it.
InitMain(c) ==
  /\ Goto(c, "init_main", "init_idle")
  /\ FreeSlots # {}
  /\ slot' = Created(Main)
  /\ leader' = Min(FreeSlots)
  /\ tiTask' = [tiTask EXCEPT ![c] = Min(FreeSlots)]
  /\ UNCHANGED <<tiIdle, run, running, msip, lockCpu, lockSmp, loc, word, done, thr>>

\* init_idle_thread.  Without a free entry the CPU goes on with a NULL idle
\* thread, and faults: it does nothing more.
InitIdle(c) ==
  /\ Goto(c, "init_idle", "switch")
  /\ FreeSlots # {}
  /\ slot' = Created(Idle)
  /\ tiIdle' = [tiIdle EXCEPT ![c] = Min(FreeSlots)]
  /\ UNCHANGED <<leader, tiTask, run, running, msip, lockCpu, lockSmp, loc, word, done, thr>>

\* k_thread_context_switch_nolock: whose registers the CPU gets.
Picks(c) == IF run[c] # NULL /\ tiTask[c] # NoSlot THEN slot[tiTask[c]].tid ELSE Idle

\* k_sys_context_switch, called by an idle thread or at the end of boot.
Switch(c) ==
  /\ Goto(c, "switch", IF Picks(c) = Idle THEN "idle" ELSE "user")
  /\ lockSmp = NoCpu
  /\ run' = [run EXCEPT ![c] = Picks(c)]
  /\ thr' = [w \in Words |-> IF w = Picks(c) THEN "runs" ELSE thr[w]]
  /\ UNCHANGED <<slot, leader, tiTask, tiIdle, running, msip, lockCpu, lockSmp, loc, word, done>>
-----------------------------------------------------------------------------
(* k_thread_idle_main.  Interrupts are on.                                 *)

\* The outer test of cpu->running, the first read of ti and the inner test.
IdleTop(c) ==
  /\ Goto(c, "idle", IF ~running[c] THEN "stopped"
                     ELSE IF tiTask[c] = NoSlot THEN "wfi" ELSE "switch")
  /\ UNCHANGED <<slot, leader, tiTask, tiIdle, run, running, msip, lockCpu, lockSmp, loc,
                 word, done, thr>>

\* wfi returns for an IPI, which is taken.
IdleWake(c) ==
  /\ Goto(c, "wfi", "reread")
  /\ msip[c]
  /\ msip' = [msip EXCEPT ![c] = FALSE]
  /\ UNCHANGED <<slot, leader, tiTask, tiIdle, run, running, lockCpu, lockSmp, loc, word,
                 done, thr>>

\* wfi returns for the timer interrupt.
IdleTick(c) ==
  /\ Goto(c, "wfi", "reread")
  /\ UNCHANGED <<slot, leader, tiTask, tiIdle, run, running, msip, lockCpu, lockSmp, loc,
                 word, done, thr>>

\* Mutant: ti is not read again after wfi.
IdleRereadStale(c) ==
  /\ Goto(c, "reread", IF running[c] THEN "wfi" ELSE "switch")
  /\ UNCHANGED <<slot, leader, tiTask, tiIdle, run, running, msip, lockCpu, lockSmp, loc,
                 word, done, thr>>

\* ti is read again, and the inner test.
IdleReread(c) ==
  /\ Goto(c, "reread", IF running[c] /\ tiTask[c] = NoSlot THEN "wfi" ELSE "switch")
  /\ UNCHANGED <<slot, leader, tiTask, tiIdle, run, running, msip, lockCpu, lockSmp, loc,
                 word, done, thr>>

\* An IPI is taken anywhere else with interrupts on: in user space, or in the
\* idle loop, even between the test and wfi.
Interrupt(c) ==
  /\ pc[c] \in {"idle", "wfi", "reread", "user"}
  /\ msip[c]
  /\ msip' = [msip EXCEPT ![c] = FALSE]
  /\ UNCHANGED <<slot, leader, tiTask, tiIdle, run, running, lockCpu, lockSmp, pc, loc, word,
                 done, thr>>
-----------------------------------------------------------------------------
(* k_thread_clone.                                                         *)

\* k_smp_lock
Clone(c) ==
  /\ Goto(c, "user", "clone_scan")
  /\ run[c] \in Cloners
  /\ lockSmp = NoCpu
  /\ lockSmp' = c
  /\ \E w \in Words :
       /\ thr[w] = "none"
       /\ thr' = [thr EXCEPT ![w] = "cloning"]
       /\ loc' = [loc EXCEPT ![c].w = w]
  /\ UNCHANGED <<slot, leader, tiTask, tiIdle, run, running, msip, lockCpu, word, done>>

\* One turn of k_smp_find_idle_cpu: the CPU is busy.
CloneBusy(c) ==
  /\ pc[c] = "clone_scan"
  /\ loc[c].tgt < NumCores
  /\ tiTask[loc[c].tgt] # NoSlot
  /\ loc' = [loc EXCEPT ![c].tgt = @ + 1]
  /\ UNCHANGED <<slot, leader, tiTask, tiIdle, run, running, msip, lockCpu, lockSmp, pc, word,
                 done, thr>>

\* No idle CPU: -ENOMEM.
CloneNoCpu(c) ==
  /\ Back(c, "clone_scan", "user")
  /\ loc[c].tgt = NumCores
  /\ lockSmp' = NoCpu
  /\ thr' = [thr EXCEPT ![loc[c].w] = "none"]
  /\ UNCHANGED <<slot, leader, tiTask, tiIdle, run, running, msip, lockCpu, word, done>>

\* Mutant: the last CPU is taken without a look at its task.
CloneFoundUnchecked(c) ==
  /\ Goto(c, "clone_scan", "clone_create")
  /\ loc[c].tgt < NumCores
  /\ tiTask[loc[c].tgt] = NoSlot \/ loc[c].tgt = NumCores - 1
  /\ lockSmp' = NoCpu
  /\ UNCHANGED <<slot, leader, tiTask, tiIdle, run, running, msip, lockCpu, loc, word, done, thr>>

\* An idle CPU is found, k_smp_unlock.
CloneFound(c) ==
  /\ Goto(c, "clone_scan", "clone_create")
  /\ loc[c].tgt < NumCores
  /\ tiTask[loc[c].tgt] = NoSlot
  /\ lockSmp' = NoCpu
  /\ UNCHANGED <<slot, leader, tiTask, tiIdle, run, running, msip, lockCpu, loc, word, done, thr>>

\* k_cpu_lock of that CPU and k_thread_create.
CloneCreate(c) ==
  /\ Goto(c, "clone_create", "clone_fill")
  /\ lockCpu[loc[c].tgt] = NoCpu
  /\ FreeSlots # {}
  /\ lockCpu' = [lockCpu EXCEPT ![loc[c].tgt] = c]
  /\ slot' = Created(loc[c].w)
  /\ loc' = [loc EXCEPT ![c].ti = Min(FreeSlots)]
  /\ UNCHANGED <<leader, tiTask, tiIdle, run, running, msip, lockSmp, word, done, thr>>

\* k_thread_create returns NULL: unlock, -ENOMEM.
CloneNoSlot(c) ==
  /\ Back(c, "clone_create", "user")
  /\ lockCpu[loc[c].tgt] = NoCpu
  /\ FreeSlots = {}
  /\ thr' = [thr EXCEPT ![loc[c].w] = "none"]
  /\ UNCHANGED <<slot, leader, tiTask, tiIdle, run, running, msip, lockCpu, lockSmp, word, done>>

\* Mutant: CLONE_CHILD_SETTID is ignored.
CloneFillNoSettid(c) ==
  /\ Goto(c, "clone_fill", "clone_run")
  /\ slot' = [slot EXCEPT ![loc[c].ti].clear = TRUE, ![loc[c].ti].ctid = loc[c].w]
  /\ UNCHANGED <<leader, tiTask, tiIdle, run, running, msip, lockCpu, lockSmp, loc, word, done,
                 thr>>

\* Flags, ctid and registers of the new thread; *ctid = tid.
CloneFill(c) ==
  /\ Goto(c, "clone_fill", "clone_run")
  /\ slot' = [slot EXCEPT ![loc[c].ti].clear = TRUE, ![loc[c].ti].ctid = loc[c].w]
  /\ word' = [word EXCEPT ![loc[c].w] = TRUE]
  /\ UNCHANGED <<leader, tiTask, tiIdle, run, running, msip, lockCpu, lockSmp, loc, done, thr>>

\* k_thread_run
CloneRun(c) ==
  /\ Goto(c, "clone_run", "clone_ipi")
  /\ tiTask' = [tiTask EXCEPT ![loc[c].tgt] = loc[c].ti]
  /\ thr' = [thr EXCEPT ![loc[c].w] = "ready"]
  /\ UNCHANGED <<slot, leader, tiIdle, run, running, msip, lockCpu, lockSmp, loc, word, done>>

\* k_cpu_raise_ipi and k_cpu_unlock
CloneIpi(c) ==
  /\ Goto(c, "clone_ipi", "clone_return")
  /\ msip' = [msip EXCEPT ![loc[c].tgt] = TRUE]
  /\ lockCpu' = [lockCpu EXCEPT ![loc[c].tgt] = NoCpu]
  /\ UNCHANGED <<slot, leader, tiTask, tiIdle, run, running, lockSmp, loc, word, done, thr>>

\* What "return ti->tid" yields: the slot is read after the unlock.
CloneResult(c) == slot[loc[c].ti].tid

CloneReturn(c) ==
  /\ Back(c, "clone_return", "user")
  /\ UNCHANGED <<slot, leader, tiTask, tiIdle, run, running, msip, lockCpu, lockSmp, word, done, thr>>
-----------------------------------------------------------------------------
(* The main task joins a thread: a futex wait while its word is set.       *)

JoinSleep(c) ==
  /\ Goto(c, "user", "join")
  /\ run[c] = Main
  /\ \E w \in Words :
       /\ word[w]
       /\ loc' = [loc EXCEPT ![c].w = w]
  /\ UNCHANGED <<slot, leader, tiTask, tiIdle, run, running, msip, lockCpu, lockSmp, word, done,
                 thr>>

\* A timer interrupt ends the wfi of the futex wait: the word is looked at
\* again, and the call returns -EWOULDBLOCK once it is 0.
JoinTick(c) ==
  /\ Back(c, "join", "user")
  /\ ~word[loc[c].w]
  /\ UNCHANGED <<slot, leader, tiTask, tiIdle, run, running, msip, lockCpu, lockSmp, word, done,
                 thr>>
-----------------------------------------------------------------------------
(* k_sys_exit and k_sys_exit_group.                                        *)

\* k_cpu_lock and k_thread_stop, by a task that is not the leader or at the
\* end of exit_group.  RunsPublished shows that there is a task to stop, so
\* that the return with -EINVAL is never taken.
ExitStop(c) ==
  /\ \/ Goto(c, "user", "exit_destroy") /\ run[c] # Main
     \/ Goto(c, "exit", "exit_destroy")
  /\ lockCpu[c] = NoCpu
  /\ tiTask[c] # NoSlot
  /\ lockCpu' = [lockCpu EXCEPT ![c] = c]
  /\ loc' = [loc EXCEPT ![c] = [NoLoc EXCEPT !.ti = tiTask[c]]]
  /\ tiTask' = [tiTask EXCEPT ![c] = NoSlot]
  /\ thr' = [w \in Words |-> IF w = run[c] THEN "exits" ELSE thr[w]]
  /\ UNCHANGED <<slot, leader, tiIdle, run, running, msip, lockSmp, word, done>>

\* Mutant: the entry is wiped.
ExitDestroyWipes(c) ==
  /\ Goto(c, "exit_destroy", IF loc[c].ti = leader THEN "exit_fini" ELSE "exit_notify")
  /\ slot' = [slot EXCEPT ![loc[c].ti].avail = FALSE, ![loc[c].ti].tid = NULL]
  /\ UNCHANGED <<leader, tiTask, tiIdle, run, running, msip, lockCpu, lockSmp, loc, word, done,
                 thr>>

\* Mutant: the entry is not given back.
ExitDestroyLeaks(c) ==
  /\ Goto(c, "exit_destroy", IF loc[c].ti = leader THEN "exit_fini" ELSE "exit_notify")
  /\ UNCHANGED <<slot, leader, tiTask, tiIdle, run, running, msip, lockCpu, lockSmp, loc, word,
                 done, thr>>

\* k_thread_destroy; the leader goes on to k_fini_leader.
ExitDestroy(c) ==
  /\ Goto(c, "exit_destroy", IF loc[c].ti = leader THEN "exit_fini" ELSE "exit_notify")
  /\ slot' = [slot EXCEPT ![loc[c].ti].avail = FALSE]
  /\ UNCHANGED <<leader, tiTask, tiIdle, run, running, msip, lockCpu, lockSmp, loc, word, done,
                 thr>>

\* k_fini_leader: fini_args reports to the host; k_cpu_sleep_all begins.
ExitFini(c) ==
  /\ Goto(c, "exit_fini", "exit_sleep")
  /\ done' = TRUE
  /\ loc' = [loc EXCEPT ![c].tgt = 1]
  /\ UNCHANGED <<slot, leader, tiTask, tiIdle, run, running, msip, lockCpu, lockSmp, word, thr>>

\* Mutant: k_cpu_sleep_all sends no IPI and does not stop the last CPU.
ExitSleepShort(c) ==
  /\ Goto(c, "exit_sleep", IF loc[c].tgt < NumCores - 1 THEN "exit_sleep" ELSE "exit_notify")
  /\ running' = [running EXCEPT ![loc[c].tgt % (NumCores - 1)] = FALSE]
  /\ loc' = [loc EXCEPT ![c].tgt = @ + 1]
  /\ UNCHANGED <<slot, leader, tiTask, tiIdle, run, msip, lockCpu, lockSmp, word, done, thr>>

\* One CPU of k_cpu_sleep_all: k_cpu_sleep and the IPI, CPU 0 last and
\* without an IPI.
ExitSleep(c) ==
  /\ Goto(c, "exit_sleep", IF loc[c].tgt < NumCores THEN "exit_sleep" ELSE "exit_notify")
  /\ running' = [running EXCEPT ![loc[c].tgt % NumCores] = FALSE]
  /\ msip' = IF loc[c].tgt < NumCores THEN [msip EXCEPT ![loc[c].tgt] = TRUE] ELSE msip
  /\ loc' = [loc EXCEPT ![c].tgt = IF @ < NumCores THEN @ + 1 ELSE 0]
  /\ UNCHANGED <<slot, leader, tiTask, tiIdle, run, lockCpu, lockSmp, word, done, thr>>

\* Notify to user space: *ti->ctid = 0, read from the destroyed slot.  A
\* store through NULL reaches no word.
ExitNotify(c) ==
  LET ti == slot[loc[c].ti] IN
  /\ Goto(c, "exit_notify", IF ti.clear THEN "exit_switch_wake" ELSE "exit_switch")
  /\ word' = [w \in Words |-> word[w] /\ ~(ti.clear /\ ti.ctid = w)]
  /\ UNCHANGED <<slot, leader, tiTask, tiIdle, run, running, msip, lockCpu, lockSmp, loc, done,
                 thr>>

\* Mutant: the task goes on after its exit.
ExitSwitchStays(c) ==
  /\ \/ Back(c, "exit_switch", "user")
     \/ Goto(c, "exit_switch_wake", "exit_wake") /\ UNCHANGED loc
  /\ lockCpu' = [lockCpu EXCEPT ![c] = NoCpu]
  /\ UNCHANGED <<slot, leader, tiTask, tiIdle, run, running, msip, lockSmp, word, done, thr>>

\* k_thread_context_switch_nolock and k_cpu_unlock.  With f_wake the futex
\* wake is still to come.
ExitSwitch(c) ==
  /\ \/ Goto(c, "exit_switch", IF Picks(c) = Idle THEN "idle" ELSE "user")
        /\ loc' = [loc EXCEPT ![c] = NoLoc]
     \/ Goto(c, "exit_switch_wake", "exit_wake") /\ UNCHANGED loc
  /\ run' = [run EXCEPT ![c] = Picks(c)]
  /\ thr' = [w \in Words |-> IF w = run[c] THEN "gone"
                             ELSE IF w = Picks(c) THEN "runs" ELSE thr[w]]
  /\ lockCpu' = [lockCpu EXCEPT ![c] = NoCpu]
  /\ UNCHANGED <<slot, leader, tiTask, tiIdle, running, msip, lockSmp, word, done>>

\* k_cpu_futex_wake(ti->ctid, 1): ti is read once more.  Then back to the
\* thread of the registers, which is the idle one.
ExitWake(c) ==
  LET sleepers == {d \in Cpus : pc[d] = "join" /\ loc[d].w = slot[loc[c].ti].ctid}
      woken == IF sleepers = {} THEN {} ELSE {Min(sleepers)}
  IN
  /\ pc[c] = "exit_wake"
  /\ pc' = [d \in Cpus |-> IF d = c THEN IF run[c] = Idle THEN "idle" ELSE "user"
                           ELSE IF d \in woken THEN "user" ELSE pc[d]]
  /\ loc' = [d \in Cpus |-> IF d = c \/ d \in woken THEN NoLoc ELSE loc[d]]
  /\ UNCHANGED <<slot, leader, tiTask, tiIdle, run, running, msip, lockCpu, lockSmp, word, done,
                 thr>>

\* k_sys_exit_group of the leader: the wait for children begins.
ExitGroup(c) ==
  /\ Goto(c, "user", IF tiTask[c] = leader THEN "exit_group" ELSE "exit")
  /\ run[c] = Main
  /\ lockCpu[c] = NoCpu
  /\ loc' = [loc EXCEPT ![c].tgt = 1]
  /\ UNCHANGED <<slot, leader, tiTask, tiIdle, run, running, msip, lockCpu, lockSmp, word, done,
                 thr>>

\* Mutant: the wait leaves out the last CPU.
ExitGroupScanShort(c) ==
  /\ Goto(c, "exit_group", IF loc[c].tgt < NumCores - 1 THEN "exit_group" ELSE "exit")
  /\ loc[c].tgt < NumCores - 1 => tiTask[loc[c].tgt] = NoSlot
  /\ loc' = [loc EXCEPT ![c].tgt = @ + 1]
  /\ UNCHANGED <<slot, leader, tiTask, tiIdle, run, running, msip, lockCpu, lockSmp, word, done,
                 thr>>

\* One CPU of the wait: busy loop until it has no task.
ExitGroupScan(c) ==
  /\ Goto(c, "exit_group", IF loc[c].tgt < NumCores THEN "exit_group" ELSE "exit")
  /\ loc[c].tgt < NumCores => tiTask[loc[c].tgt] = NoSlot
  /\ loc' = [loc EXCEPT ![c].tgt = @ + 1]
  /\ UNCHANGED <<slot, leader, tiTask, tiIdle, run, running, msip, lockCpu, lockSmp, word, done,
                 thr>>
-----------------------------------------------------------------------------
Boot(c) == InitMain(c) \/ InitIdle(c) \/ Switch(c)

IdleStep(c) == IdleTop(c) \/ IdleWake(c) \/ IdleTick(c) \/ IdleReread(c)

CloneStep(c) ==
  \/ CloneBusy(c) \/ CloneNoCpu(c) \/ CloneFound(c) \/ CloneCreate(c) \/ CloneNoSlot(c)
  \/ CloneFill(c) \/ CloneRun(c) \/ CloneIpi(c) \/ CloneReturn(c)

ExitStep(c) ==
  \/ ExitDestroy(c) \/ ExitFini(c) \/ ExitSleep(c) \/ ExitNotify(c) \/ ExitSwitch(c)
  \/ ExitWake(c) \/ ExitGroupScan(c) \/ JoinTick(c)

\* What the program decides on.
UserStep(c) == Clone(c) \/ JoinSleep(c) \/ ExitStop(c) \/ ExitGroup(c)

Step(c) == Boot(c) \/ IdleStep(c) \/ CloneStep(c) \/ ExitStep(c)

Next == \E c \in Cpus : Step(c) \/ UserStep(c) \/ Interrupt(c)

\* Every CPU executes, a timer interrupt comes again and again, and every
\* task ends.
Spec ==
  /\ Init /\ [][Next]_vars
  /\ \A c \in Cpus : WF_vars(Step(c)) /\ SF_vars(ExitStop(c)) /\ SF_vars(ExitGroup(c))
-----------------------------------------------------------------------------
Live(w) == thr[w] \in {"ready", "runs"}

\* The task published on CPU c.
TaskOf(c) == IF tiTask[c] = NoSlot THEN NULL ELSE slot[tiTask[c]].tid

\* k_thread_clone never gives a CPU to two threads: a thread that has been
\* cloned and has not exited is the task of exactly one CPU, and it is that
\* CPU that runs it.
EveryThreadHasItsCpu ==
  \A w \in Words : Live(w) =>
    \E c \in Cpus : /\ TaskOf(c) = w
                   /\ \A d \in Cpus \ {c} : TaskOf(d) # w /\ run[d] # w
                   /\ thr[w] = "runs" <=> run[c] = w

\* "Limit maximum number of threads up to physical cores": there are never
\* more task threads than cores.
ThreadsWithinCores ==
  Cardinality({w \in Words : Live(w) \/ thr[w] = "exits"})
    + Cardinality({c \in Cpus : Main \in {TaskOf(c), run[c]}}) <= NumCores

\* Even when clones race, a thread runs on one CPU at a time, and a CPU that
\* runs a task has a task published, so that k_sys_exit and its like find it.
RunsPublished ==
  \A c \in Cpus :
    /\ run[c] \in Words => \A d \in Cpus \ {c} : run[d] # run[c]
    /\ run[c] \in Words \cup {Main} /\ pc[c] \in {"user", "join", "exit"} => tiTask[c] # NoSlot

\* The word a thread is joined on stays set until that thread exits: the
\* notification in k_sys_exit is for the thread that exits.
WordSetUntilExit == \A w \in Words : Live(w) => word[w]

\* k_thread_clone returns the tid of the thread it has created, although it
\* reads the tid after it has let go of the thread.
CloneReturnsOwnTid == \A c \in Cpus : pc[c] = "clone_return" => CloneResult(c) = loc[c].w

\* The 2 x N entries of k_ti suffice: whoever is about to create a thread,
\* on the way to clone or at boot, finds an entry.
SlotsSuffice ==
  \A c \in Cpus :
    \/ pc[c] \in {"init_main", "init_idle"}
    \/ pc[c] = "clone_create" /\ lockCpu[loc[c].tgt] = NoCpu
    => FreeSlots # {}

\* k_sys_exit_group waits for children: when the host is told that the
\* program has ended, no other CPU has a task.
DoneMeansNoTask == done => \A c \in Cpus \ {0} : tiTask[c] = NoSlot

\* The idle thread of the chosen CPU notices the new thread, even when the
\* IPI is taken between its test and wfi: every cloned thread runs.
ThreadStarts == \A w \in Words : thr[w] = "ready" ~> thr[w] = "runs"

\* Joins return, exit_group gets past its wait and k_cpu_sleep_all reaches
\* every CPU: in the end all CPUs have left their idle loops.
AllStop == <>(\A c \in Cpus : pc[c] = "stopped")
=============================================================================
