-------------------------- MODULE OneCreatorProofs --------------------------
(***************************************************************************)
(* More about Threads.  With one creator of threads every thread has a CPU *)
(* of its own, exit_group waits for all of them, there are no more tasks   *)
(* than cores and the entries of k_ti suffice (OneInv).  With two cores    *)
(* the word of a thread and the result of clone are right too (TwoInv).    *)
(***************************************************************************)
EXTENDS ThreadsProofs, FiniteSetTheorems

(* One creator of threads: only the main task clones, or there are two     *)
(* cores, so that a clone by the other task finds no CPU.                  *)

OneCreator == Cloners \subseteq {Main} \/ NumCores <= 2

\* CPU 0 runs the leader, and the CPU its clone has found stays without a
\* task until the new thread is published there.
Leads ==
  /\ pc[0] = "init_main" => leader = NoSlot /\ \A w \in Words : thr[w] = "none"
  /\ pc[0] # "init_main" => leader # NoSlot
  /\ run[0] \notin Words
  /\ tiTask[0] # NoSlot => tiTask[0] = leader /\ TaskOf(0) = Main
  /\ pc[0] \in Fills \cup {"clone_create"} => loc[0].tgt # 0 /\ tiTask[loc[0].tgt] = NoSlot
  /\ pc[0] \in Fills => loc[0].ti # leader
  /\ done => leader # NoSlot /\ tiTask[0] = NoSlot

\* What the loop of k_sys_exit_group has seen so far stays true.
Waited ==
  /\ pc[0] = "exit_group" => \A d \in Cpus \ {0} : d < loc[0].tgt => tiTask[d] = NoSlot
  /\ pc[0] = "exit" => \A d \in Cpus \ {0} : tiTask[d] = NoSlot

\* Another CPU runs the thread that is its task, never the leader's, and it
\* has a task only while CPU 0 has one.
ChildPcs == Pcs \ ({"init_main", "join", "exit_group", "exit", "exit_fini", "exit_sleep"}
                     \cup (Clones \ {"clone_scan"}))
Child(c) ==
  /\ pc[c] \in ChildPcs
  /\ pc[c] = "clone_scan" => NumCores <= 2
  /\ run[c] # Main /\ TaskOf(c) # Main
  /\ tiTask[c] # NoSlot => tiTask[c] # leader /\ tiTask[0] # NoSlot
  /\ pc[c] = "exit_destroy" => loc[c].ti # leader
  /\ run[c] \in Words /\ pc[c] \notin Exits => TaskOf(c) = run[c]

\* A thread that is published has a CPU.
Placed(w) ==
  /\ thr[w] = "ready" => \E c \in Cpus : TaskOf(c) = w /\ run[c] # w
  /\ thr[w] = "runs" => \E c \in Cpus : TaskOf(c) = w /\ run[c] = w

\* An entry of k_ti that is taken is somewhere: none is leaked.
SlotOwned(s) ==
  slot[s].avail => \E c \in Cpus : \/ tiIdle[c] = s
                                   \/ tiTask[c] = s
                                   \/ Holds(c) /\ loc[c].ti = s

NoIdleYet(c) == pc[c] \in Boots => tiIdle[c] = NoSlot

OneInv ==
  /\ IInv
  /\ Leads
  /\ Waited
  /\ \A c \in Cpus \ {0} : Child(c)
  /\ \A w \in Words : Placed(w)
  /\ \A s \in Slots : SlotOwned(s)
  /\ \A c \in Cpus : NoIdleYet(c)

\* A move of CPU d that leaves what it holds.
Moves(d) ==
  /\ pc[d] \notin Boots /\ pc'[d] \notin Boots
  /\ pc[d] # "exit_destroy" /\ pc'[d] # "exit_destroy"
  /\ pc'[d] \in Fills <=> pc[d] \in Fills
  /\ pc[d] \in Fills => loc'[d].ti = loc[d].ti
  /\ d = 0 =>
       /\ pc'[0] \in Fills \cup {"clone_create"} => loc'[0].tgt # 0 /\ tiTask[loc'[0].tgt] = NoSlot
       /\ pc'[0] = "exit_group" => \A e \in Cpus \ {0} : e < loc'[0].tgt => tiTask[e] = NoSlot
       /\ pc'[0] = "exit" => \A e \in Cpus \ {0} : tiTask[e] = NoSlot
  /\ d # 0 =>
       /\ pc'[d] \in ChildPcs
       /\ pc'[d] = "clone_scan" => NumCores <= 2
       /\ pc[d] \in Exits => pc'[d] \in Exits

Stays(d) == pc'[d] = pc[d] /\ loc'[d] = loc[d]

\* The types of the tables, which most steps need and nothing else of the
\* invariant.
LEMMA OneTypes ==
  ASSUME OneInv
  PROVE  /\ IInv
         /\ pc \in [Cpus -> Pcs] /\ loc \in [Cpus -> Loc] /\ run \in [Cpus -> Tids]
         /\ slot \in [Slots -> Slot] /\ thr \in [Words -> ThrStates]
         /\ word \in [Words -> BOOLEAN]
         /\ tiTask \in [Cpus -> Slots \cup {NoSlot}] /\ tiIdle \in [Cpus -> Slots \cup {NoSlot}]
BY Zenon DEF OneInv, IInv, TypeOK

\* A step that publishes and retires no thread.
LEMMA OneFrame ==
  ASSUME OneInv, IInv', UNCHANGED <<leader, tiTask, tiIdle, run>>,
         done' = done \/ (done' /\ tiTask[0] = NoSlot /\ pc[0] # "init_main"),
         \A s \in Slots : slot'[s].avail = slot[s].avail /\ slot'[s].tid = slot[s].tid,
         \A w \in Words : thr'[w] \in {"ready", "runs"} => thr'[w] = thr[w],
         thr' = thr \/ pc[0] # "init_main",
         \A d \in Cpus : Stays(d) \/ Moves(d)
  PROVE  OneInv'
<1>1. \A d \in Cpus : TaskOf(d)' = TaskOf(d)
  BY OneTypes DEF TaskOf
<1>2. 0 \in Cpus
  BY CpuFacts
<1>3. Leads'
  <2>1. CASE Stays(0)
    BY <1>1, <1>2, <2>1 DEF OneInv, Leads, Stays
  <2>2. CASE Moves(0)
    <3>1. Leads
      BY Zenon DEF OneInv
    <3> QED BY <1>1, <1>2, <2>2, <3>1 DEF Leads, Moves, Boots
  <2> QED BY <1>2, <2>1, <2>2
<1>4. Waited'
  <2>1. CASE Stays(0)
    BY <1>2, <2>1, Zenon DEF OneInv, Waited, Stays
  <2>2. CASE Moves(0)
    BY <1>2, <2>2, Zenon DEF Waited, Moves
  <2> QED BY <1>2, <2>1, <2>2
<1>5. ASSUME NEW d \in Cpus \ {0} PROVE Child(d)'
  <2>1. CASE Stays(d)
    BY <1>1, <1>2, <2>1, Zenon DEF OneInv, Child, Stays
  <2>2. CASE Moves(d)
    BY <1>1, <1>2, <2>2, Zenon DEF OneInv, Child, Moves
  <2> QED BY <2>1, <2>2, Zenon
<1>6. ASSUME NEW w \in Words PROVE Placed(w)'
  <2>1. Placed(w)
    BY Zenon DEF OneInv
  <2> QED BY <1>1, <2>1 DEF Placed
<1>7. ASSUME NEW s \in Slots PROVE SlotOwned(s)'
  <2>1. \A d \in Cpus : Holds(d) => Holds(d)' /\ loc'[d].ti = loc[d].ti
    BY DEF Stays, Moves, Holds
  <2> QED BY <2>1 DEF OneInv, SlotOwned
<1>8. ASSUME NEW d \in Cpus PROVE NoIdleYet(d)'
  BY DEF OneInv, NoIdleYet, Stays, Moves
<1> QED BY <1>3, <1>4, <1>5, <1>6, <1>7, <1>8, Zenon DEF OneInv

\* Only CPU 0 gets past the search of a clone.
LEMMA CloneOnZero ==
  ASSUME OneInv, NEW c \in Cpus, pc[c] \in Clones \ {"clone_scan"} \/ CloneFound(c)
  PROVE  c = 0
<1>1. SUFFICES ASSUME c # 0 PROVE FALSE
  OBVIOUS
<1>2. Child(c)
  BY <1>1 DEF OneInv
<1>3. CloneFound(c)
  BY <1>2 DEF Child, ChildPcs
<1>4. pc[c] = "clone_scan" /\ tiTask[loc[c].tgt] = NoSlot /\ loc[c].tgt < NumCores /\ loc[c].tgt \in Nat
  BY <1>3, OneTypes DEF CloneFound, Goto, Loc
<1>5. tiTask[c] # NoSlot /\ tiTask[0] # NoSlot /\ NumCores <= 2
  BY <1>2, <1>4, Zenon DEF OneInv, IInv, CpuOK, Child, Clones, Scans
<1>6. loc[c].tgt \in {0, c}
  BY <1>1, <1>4, <1>5, ThreadsAssumption DEF Cpus
<1> QED BY <1>4, <1>5, <1>6

\* With no thread yet, the invariant of one creator holds.
LEMMA OneInit == Init => OneInv
<1> SUFFICES ASSUME Init PROVE OneInv
  OBVIOUS
<1>1. IInv
  BY InitInv
<1>2. \A c \in Cpus : /\ tiTask[c] = NoSlot /\ tiIdle[c] = NoSlot /\ run[c] = NULL /\ TaskOf(c) = NULL
                      /\ pc[c] = IF c = 0 THEN "init_main" ELSE "init_idle"
  BY DEF Init, TaskOf
<1>3. Leads /\ Waited
  BY <1>2, CpuFacts, ThreadsAssumption DEF Init, Leads, Waited, Fills
<1>4. \A c \in Cpus \ {0} : Child(c)
  BY <1>2, ThreadsAssumption DEF Child, ChildPcs, Pcs, Boots, Clones, Scans, Fills
<1>5. (\A w \in Words : Placed(w)) /\ (\A s \in Slots : SlotOwned(s)) /\ \A c \in Cpus : NoIdleYet(c)
  BY <1>2 DEF Init, Placed, SlotOwned, NoIdleYet
<1> QED BY <1>1, <1>3, <1>4, <1>5 DEF OneInv

\* The idle threads, the user's calls and the quiet steps of an exit.
LEMMA OneQuiet ==
  ASSUME OneInv, IInv', NEW c \in Cpus,
         \/ IdleStep(c) \/ Interrupt(c) \/ JoinSleep(c) \/ JoinTick(c) \/ ExitGroup(c)
         \/ ExitGroupScan(c) \/ ExitSleep(c) \/ ExitNotify(c) \/ ExitFini(c)
  PROVE  OneInv'
<1>1. /\ UNCHANGED <<slot, leader, tiTask, tiIdle, run, thr>>
      /\ done' = done \/ ExitFini(c)
  BY DEF IdleStep, IdleTop, IdleWake, IdleTick, IdleReread, Interrupt, JoinSleep, JoinTick,
         ExitGroup, ExitGroupScan, ExitSleep, ExitNotify, ExitFini
<1>2. \A d \in Cpus \ {c} : Stays(d)
  BY OneTypes DEF Stays, Goto, Back, IdleStep, IdleTop, IdleWake, IdleTick, IdleReread,
         Interrupt, JoinSleep, JoinTick, ExitGroup, ExitGroupScan, ExitSleep, ExitNotify, ExitFini
<1>3. pc[c] \in Pcs /\ pc'[c] \in Pcs
  BY OneTypes, Zenon DEF IInv, TypeOK
<1>4. c # 0 => pc[c] \in ChildPcs /\ run[c] # Main
  BY DEF OneInv, Child
<1>5. CASE IdleStep(c) \/ Interrupt(c)
  <2>1. /\ pc[c] \in {"idle", "wfi", "reread", "user"}
        /\ pc'[c] = pc[c] \/ pc'[c] \in {"idle", "wfi", "reread", "switch", "stopped"}
    <3>1. pc \in [Cpus -> Pcs]
      BY OneTypes, Zenon
    <3> QED BY <1>5, <3>1 DEF Goto, IdleStep, IdleTop, IdleWake, IdleTick, IdleReread, Interrupt
  <2>2. Moves(c)
    BY <1>3, <1>4, <2>1, Zenon DEF Moves, Boots, Fills, ChildPcs, Exits, Clones, Scans
  <2>3. done' = done
    BY <2>1, <1>1 DEF ExitFini, Goto
  <2> QED BY <1>1, <1>2, <2>2, <2>3, OneFrame
<1>6. CASE JoinSleep(c) \/ JoinTick(c) \/ ExitGroup(c)
  <2>1. pc[c] \in {"user", "join"} /\ pc'[c] \in {"join", "user", "exit_group", "exit"}
    BY <1>6, OneTypes DEF Goto, Back, JoinSleep, JoinTick, ExitGroup
  <2>2. c = 0
    BY <1>4, <1>6 DEF Goto, Back, JoinSleep, JoinTick, ExitGroup, ChildPcs
  <2>3. tiTask[0] = leader
    BY <2>1, <2>2, Zenon DEF OneInv, IInv, CpuOK, Leads, Users
  <2>4. pc'[0] # "exit" /\ (pc'[0] = "exit_group" => loc'[0].tgt = 1)
    BY <1>6, <2>2, <2>3, OneTypes DEF Loc, Goto, Back, JoinSleep, JoinTick, ExitGroup
  <2>5. Moves(c)
    <3>1. \A e \in Cpus \ {0} : ~(e < 1)
      BY DEF Cpus
    <3>2. pc'[0] = "exit_group" => \A e \in Cpus \ {0} : e < loc'[0].tgt => tiTask[e] = NoSlot
      BY <2>4, <3>1
    <3> QED BY <2>1, <2>2, <2>4, <3>2, Zenon DEF Moves, Boots, Fills
  <2>6. done' = done
    BY <2>1, <1>1 DEF ExitFini, Goto
  <2> QED BY <1>1, <1>2, <2>5, <2>6, OneFrame
<1>7. CASE ExitGroupScan(c)
  <2>1. pc[c] = "exit_group" /\ pc'[c] \in {"exit_group", "exit"} /\ c = 0
    BY <1>4, <1>7, OneTypes DEF Goto, ExitGroupScan, ChildPcs
  <2>2. loc[0].tgt \in Nat /\ loc'[0].tgt = loc[0].tgt + 1
    BY <1>7, <2>1, OneTypes DEF Loc, ExitGroupScan
  <2>3. \A e \in Cpus \ {0} : e < loc[0].tgt => tiTask[e] = NoSlot
    BY <2>1, Zenon DEF OneInv, Waited
  <2>4. loc[0].tgt < NumCores => tiTask[loc[0].tgt] = NoSlot
    BY <1>7, <2>1 DEF ExitGroupScan
  <2>5. pc'[0] = "exit" => ~(loc[0].tgt < NumCores)
    BY <1>7, <2>1, OneTypes DEF Goto, ExitGroupScan
  <2>6. /\ pc'[0] = "exit_group" => \A e \in Cpus \ {0} : e < loc'[0].tgt => tiTask[e] = NoSlot
        /\ pc'[0] = "exit" => \A e \in Cpus \ {0} : tiTask[e] = NoSlot
    <3>1. \A e \in Cpus \ {0} : e < loc'[0].tgt => e < loc[0].tgt \/ (e = loc[0].tgt /\ e < NumCores)
      BY <2>2, ThreadsAssumption DEF Cpus
    <3>2. ~(loc[0].tgt < NumCores) => \A e \in Cpus : e < loc[0].tgt
      BY <2>2, ThreadsAssumption DEF Cpus
    <3> QED BY <2>3, <2>4, <2>5, <3>1, <3>2, Zenon
  <2>7. Moves(c)
    BY <2>1, <2>6, Zenon DEF Moves, Boots, Fills
  <2>8. done' = done
    BY <2>1, <1>1 DEF ExitFini, Goto
  <2> QED BY <1>1, <1>2, <2>7, <2>8, OneFrame
<1>8. CASE ExitSleep(c) \/ ExitNotify(c) \/ ExitFini(c)
  <2>1. /\ pc[c] \in {"exit_sleep", "exit_notify", "exit_fini"}
        /\ pc'[c] \in {"exit_sleep", "exit_notify", "exit_switch", "exit_switch_wake"}
        /\ pc[c] = "exit_notify" => pc'[c] \in {"exit_switch", "exit_switch_wake"}
    BY <1>8, OneTypes DEF Goto, ExitSleep, ExitNotify, ExitFini
  <2>2. Moves(c)
    BY <1>3, <1>4, <2>1 DEF Moves, Boots, Fills, ChildPcs, Exits, Clones, Scans
  <2>3. done' = done \/ (done' /\ tiTask[0] = NoSlot /\ pc[0] # "init_main")
    <3>1. CASE ExitFini(c)
      <4>1. c = 0 /\ pc[0] = "exit_fini" /\ done'
        BY <1>4, <3>1 DEF ExitFini, Goto, ChildPcs
      <4> QED BY <4>1, CpuFacts, Zenon DEF OneInv, IInv, CpuOK, Exits
    <3> QED BY <1>1, <3>1
  <2> QED BY <1>1, <1>2, <2>2, <2>3, OneFrame
<1> QED BY <1>5, <1>6, <1>7, <1>8

\* The last step of an exit wakes a join, which only the main task makes.
LEMMA OneExitWake ==
  ASSUME OneInv, IInv', NEW c \in Cpus, ExitWake(c)
  PROVE  OneInv'
<1>1. UNCHANGED <<slot, leader, tiTask, tiIdle, run, thr, done>>
  BY DEF ExitWake
<1>2. pc[c] = "exit_wake" /\ pc'[c] = "idle"
  BY ThreadsAssumption, Zenon DEF ExitWake, OneInv, IInv, CpuOK, Idles
<1>3. \A d \in Cpus \ {c} : Stays(d) \/ (pc[d] = "join" /\ pc'[d] = "user")
  <2>1. TAKE d \in Cpus \ {c}
  <2> DEFINE sleepers == {e \in Cpus : pc[e] = "join" /\ loc[e].w = slot[loc[c].ti].ctid}
             woken == IF sleepers = {} THEN {} ELSE {Min(sleepers)}
  <2>2. woken \subseteq sleepers
    <3>1. sleepers \in SUBSET Nat
      BY CpuFacts, Zenon
    <3>2. sleepers # {} => Min(sleepers) \in sleepers
      BY <3>1, LeastNat, Zenon DEF Min
    <3> QED BY <3>2, Zenon
  <2>3. /\ pc'[d] = IF d \in woken THEN "user" ELSE pc[d]
        /\ loc'[d] = IF d \in woken THEN NoLoc ELSE loc[d]
    BY Zenon DEF ExitWake
  <2>4. d \in sleepers => pc[d] = "join"
    OBVIOUS
  <2> HIDE DEF sleepers, woken
  <2> QED BY <2>2, <2>3, <2>4 DEF Stays
<1>4. \A d \in Cpus : pc[d] = "join" => d = 0
  BY DEF OneInv, Child, ChildPcs
<1>5. \A d \in Cpus : Stays(d) \/ Moves(d)
  BY <1>2, <1>3, <1>4 DEF Moves, Boots, Fills, Exits, ChildPcs, Pcs, Idles, Clones, Scans
<1> QED BY <1>1, <1>5, OneFrame

\* A clone that has not published its thread, or no longer looks at it.
LEMMA OneCloneQuiet ==
  ASSUME OneCreator, OneInv, IInv', NEW c \in Cpus,
         \/ Clone(c) \/ CloneBusy(c) \/ CloneNoCpu(c) \/ CloneFound(c) \/ CloneNoSlot(c)
         \/ CloneFill(c) \/ CloneIpi(c) \/ CloneReturn(c)
  PROVE  OneInv'
<1>1. UNCHANGED <<leader, tiTask, tiIdle, run, done>>
  BY DEF Clone, CloneBusy, CloneNoCpu, CloneFound, CloneNoSlot, CloneFill, CloneIpi, CloneReturn
<1>2. \A d \in Cpus \ {c} : Stays(d)
  BY OneTypes DEF Stays, Goto, Back, Clone, CloneBusy, CloneNoCpu, CloneFound,
         CloneNoSlot, CloneFill, CloneIpi, CloneReturn
<1>3. \A s \in Slots : slot'[s].avail = slot[s].avail /\ slot'[s].tid = slot[s].tid
  <2>1. CASE CloneFill(c)
    BY <2>1, OneTypes DEF CloneFill, Slot
  <2>2. CASE ~CloneFill(c)
    BY <2>2 DEF Clone, CloneBusy, CloneNoCpu, CloneFound, CloneNoSlot, CloneIpi, CloneReturn
  <2> QED BY <2>1, <2>2
<1>4. \A w \in Words : thr'[w] \in {"ready", "runs"} => thr'[w] = thr[w]
  BY OneTypes DEF Clone, CloneBusy, CloneNoCpu, CloneFound, CloneNoSlot, CloneFill,
         CloneIpi, CloneReturn
<1>5. pc[c] \in Clones \cup {"user"}
  BY DEF Goto, Back, Clone, CloneBusy, CloneNoCpu, CloneFound, CloneNoSlot, CloneFill, CloneIpi,
         CloneReturn, Clones, Scans, Fills
<1>6. tiTask[c] # NoSlot /\ tiTask[0] # NoSlot /\ pc[0] # "init_main"
  <2>1. tiTask[c] # NoSlot
    BY <1>5, Zenon DEF OneInv, IInv, CpuOK, Users
  <2> QED BY <2>1, Zenon DEF OneInv, Child, Leads
<1>7. Moves(c)
  <2>1. CASE Clone(c)
    <3>1. pc[c] = "user" /\ pc'[c] = "clone_scan"
      BY <2>1, OneTypes DEF Clone, Goto
    <3>2. c # 0 => NumCores <= 2
      BY <2>1 DEF Clone, OneCreator, OneInv, Child
    <3> QED BY <3>1, <3>2 DEF Moves, Boots, Fills, ChildPcs, Exits, Clones, Scans, Pcs
  <2>2. CASE CloneBusy(c) \/ CloneNoCpu(c)
    <3>1. pc[c] = "clone_scan" /\ pc'[c] \in {"clone_scan", "user"}
      BY <2>2, OneTypes DEF CloneBusy, CloneNoCpu, Goto, Back
    <3>2. c # 0 => NumCores <= 2
      BY <3>1 DEF OneInv, Child
    <3> QED BY <3>1, <3>2 DEF Moves, Boots, Fills, ChildPcs, Exits, Clones, Scans, Pcs, Users
  <2>3. CASE CloneFound(c)
    <3>1. pc[c] = "clone_scan" /\ pc'[c] = "clone_create" /\ loc' = loc /\ tiTask[loc[c].tgt] = NoSlot
      BY <2>3, OneTypes, Zenon DEF CloneFound, Goto
    <3>2. c = 0
      BY <2>3, CloneOnZero
    <3> QED BY <1>6, <3>1, <3>2, Zenon DEF Moves, Boots, Fills
  <2>4. CASE CloneFill(c)
    <3>1. pc[c] = "clone_fill" /\ pc'[c] = "clone_run" /\ loc' = loc
      BY <2>4, OneTypes DEF CloneFill, Goto
    <3>2. c = 0
      BY <3>1, CloneOnZero DEF Clones, Scans, Fills
    <3> QED BY <3>1, <3>2 DEF Moves, Boots, Fills, OneInv, Leads
  <2>5. CASE CloneNoSlot(c) \/ CloneIpi(c) \/ CloneReturn(c)
    <3>1. /\ pc[c] \in {"clone_create", "clone_ipi", "clone_return"}
          /\ pc'[c] \in {"user", "clone_return"}
      BY <2>5, OneTypes, Zenon DEF CloneNoSlot, CloneIpi, CloneReturn, Goto, Back
    <3>2. c = 0
      BY <3>1, CloneOnZero DEF Clones, Scans, Fills
    <3> QED BY <3>1, <3>2 DEF Moves, Boots, Fills
  <2> QED BY <2>1, <2>2, <2>3, <2>4, <2>5
<1> QED BY <1>1, <1>2, <1>3, <1>4, <1>6, <1>7, OneFrame, Zenon

\* The tasks of the CPUs are not touched by a new entry of k_ti.
LEMMA OldTasks ==
  ASSUME IInv, FreeSlots # {}, NEW t \in Tids, slot' = Created(t)
  PROVE  \A d \in Cpus : tiTask'[d] = tiTask[d] => TaskOf(d)' = TaskOf(d)
<1>1. \A d \in Cpus : tiTask[d] # NoSlot => tiTask[d] \in Slots /\ slot[tiTask[d]].avail
  BY TaskEntry
<1> QED BY <1>1, NewEntry, Zenon DEF TaskOf

\* k_init_leader creates the main thread while no CPU has a task.
LEMMA OneInitMain ==
  ASSUME OneInv, IInv', NEW c \in Cpus, InitMain(c)
  PROVE  OneInv'
<1>1. PICK s0 \in Slots : s0 = Min(FreeSlots)
  BY FirstFree DEF InitMain
<1>2. pc[c] = "init_main" /\ pc'[c] = "init_idle" /\ c = 0
  <2>1. pc[c] = "init_main" /\ pc'[c] = "init_idle"
    BY OneTypes, Zenon DEF InitMain, Goto
  <2>2. c # 0 => pc[c] \in ChildPcs
    BY Zenon DEF OneInv, Child
  <2> QED BY <2>1, <2>2, Zenon DEF ChildPcs
<1>3. /\ UNCHANGED <<tiIdle, run, loc, thr, done>>
      /\ leader' = s0 /\ s0 # NoSlot
      /\ tiTask'[0] = s0 /\ \A d \in Cpus \ {0} : tiTask'[d] = tiTask[d]
      /\ \A d \in Cpus \ {0} : pc'[d] = pc[d]
  <2>1. pc \in [Cpus -> Pcs] /\ tiTask \in [Cpus -> Slots \cup {NoSlot}]
    BY OneTypes, Zenon
  <2> QED BY <1>1, <1>2, <2>1, CpuFacts DEF InitMain, Goto
<1>4. slot' = Created(Main) /\ FreeSlots # {} /\ Main \in Tids
  BY DEF InitMain, Tids, Tasks
<1>5. /\ slot'[s0].avail /\ slot'[s0].tid = Main
      /\ \A s \in Slots : slot[s].avail => slot'[s] = slot[s] /\ s # s0
      /\ \A d \in Cpus : Holds(d) => loc[d].ti # s0
      /\ \A s \in Slots : slot'[s].avail => slot[s].avail \/ s = s0
  BY <1>1, <1>4, NewEntry, OneTypes, Zenon DEF Created
<1>6. /\ \A d \in Cpus : tiTask[d] = NoSlot
      /\ ~done
      /\ \A w \in Words : thr[w] = "none"
  BY <1>2, Zenon DEF OneInv, Leads, Child
<1>7. TaskOf(0)' = Main /\ \A d \in Cpus \ {0} : TaskOf(d)' = TaskOf(d)
  BY <1>3, <1>5, <1>6, Zenon DEF TaskOf
<1>8. Leads' /\ Waited'
  BY <1>2, <1>3, <1>6, <1>7 DEF OneInv, Leads, Waited, Fills
<1>9. ASSUME NEW d \in Cpus \ {0} PROVE Child(d)'
  <2>1. pc[d] = "exit_destroy" => loc[d].ti # s0
    BY <1>5 DEF Holds
  <2> QED BY <1>3, <1>6, <1>7, <2>1, Zenon DEF OneInv, Child
<1>10. ASSUME NEW w \in Words PROVE Placed(w)'
  BY <1>3, <1>6 DEF Placed
<1>11. ASSUME NEW s \in Slots PROVE SlotOwned(s)'
  <2>1. \A d \in Cpus : Holds(d) => Holds(d)'
    BY <1>2, <1>3 DEF Holds, Fills
  <2> QED BY <1>3, <1>5, <1>6, <2>1, CpuFacts DEF OneInv, SlotOwned
<1>12. ASSUME NEW d \in Cpus PROVE NoIdleYet(d)'
  BY <1>2, <1>3 DEF OneInv, NoIdleYet, Boots
<1> QED BY <1>8, <1>9, <1>10, <1>11, <1>12 DEF OneInv

\* init_idle_thread takes an entry for a CPU that had no idle thread.
LEMMA OneInitIdle ==
  ASSUME OneInv, IInv', NEW c \in Cpus, InitIdle(c)
  PROVE  OneInv'
<1>1. PICK s0 \in Slots : s0 = Min(FreeSlots)
  BY FirstFree DEF InitIdle
<1>2. pc[c] = "init_idle" /\ pc'[c] = "switch" /\ \A d \in Cpus \ {c} : pc'[d] = pc[d]
  <2>1. pc \in [Cpus -> Pcs]
    BY OneTypes, Zenon
  <2> QED BY <2>1 DEF InitIdle, Goto
<1>3. /\ UNCHANGED <<leader, tiTask, run, loc, thr, done>>
      /\ tiIdle'[c] = s0 /\ \A d \in Cpus \ {c} : tiIdle'[d] = tiIdle[d]
  BY <1>1, OneTypes DEF InitIdle
<1>4. slot' = Created(Idle) /\ FreeSlots # {} /\ Idle \in Tids
  BY DEF InitIdle, Tids
<1>5. \A s \in Slots : slot'[s].avail => slot[s].avail \/ s = s0
  BY <1>1, <1>4, NewEntry, OneTypes, Zenon DEF Created
<1>6. \A d \in Cpus : TaskOf(d)' = TaskOf(d)
  BY <1>3, <1>4, OldTasks, Zenon DEF OneInv
<1>7. Leads' /\ Waited'
  BY <1>2, <1>3, <1>6, CpuFacts, Zenon DEF OneInv, Leads, Waited, Fills
<1>8. ASSUME NEW d \in Cpus \ {0} PROVE Child(d)'
  BY <1>2, <1>3, <1>6, Zenon DEF OneInv, Child, ChildPcs, Pcs, Clones, Scans, Fills, Exits
<1>9. ASSUME NEW w \in Words PROVE Placed(w)'
  <2>1. Placed(w)
    BY Zenon DEF OneInv
  <2> QED BY <1>3, <1>6, <2>1, Zenon DEF Placed
<1>10. ASSUME NEW s \in Slots PROVE SlotOwned(s)'
  <2>1. \A d \in Cpus : Holds(d) => Holds(d)'
    BY <1>2 DEF Holds, Fills
  <2>2. tiIdle[c] # s
    BY <1>2, CpuFacts DEF OneInv, NoIdleYet, Boots
  <2> QED BY <1>3, <1>5, <2>1, <2>2 DEF OneInv, SlotOwned
<1>11. ASSUME NEW d \in Cpus PROVE NoIdleYet(d)'
  BY <1>2, <1>3, Zenon DEF OneInv, NoIdleYet, Boots
<1> QED BY <1>7, <1>8, <1>9, <1>10, <1>11 DEF OneInv

\* An idle thread switches to the task of its own CPU.
LEMMA OneSwitch ==
  ASSUME OneInv, IInv', NEW c \in Cpus, Switch(c)
  PROVE  OneInv'
<1>1. /\ pc[c] = "switch" /\ pc'[c] \in {"idle", "user"} /\ run'[c] = Picks(c)
      /\ UNCHANGED <<slot, leader, tiTask, tiIdle, loc, done>>
      /\ \A d \in Cpus \ {c} : pc'[d] = pc[d] /\ run'[d] = run[d]
      /\ thr' = [w \in Words |-> IF w = Picks(c) THEN "runs" ELSE thr[w]]
  BY OneTypes, Zenon DEF Switch, Goto
<1>2. run[c] \in {NULL, Idle}
  BY <1>1, Zenon DEF OneInv, IInv, CpuOK
<1>3. /\ Picks(c) = TaskOf(c) \/ Picks(c) = Idle
      /\ Idle \notin Words /\ Idle # Main /\ Main \notin Words /\ NULL \notin Words
  BY ThreadsAssumption, Zenon DEF Picks, TaskOf
<1>4. \A d \in Cpus : TaskOf(d)' = TaskOf(d)
  BY <1>1 DEF TaskOf
<1>5. TaskOf(0) \in {NULL, Main}
  BY DEF OneInv, Leads, TaskOf
<1>6. pc[0] = "init_main" => Picks(c) \notin Words
  <2>1. tiTask[c] # NoSlot => tiTask[0] # NoSlot
    BY Zenon DEF OneInv, Child
  <2> QED BY <1>3, <2>1, Zenon DEF OneInv, Leads, TaskOf
<1>7. pc'[0] = "init_main" => pc[0] = "init_main"
  BY <1>1, CpuFacts, Zenon
<1>8. Leads'
  <2>1. run'[0] \notin Words
    <3>1. run[0] \notin Words
      BY Zenon DEF OneInv, Leads
    <3> QED BY <1>1, <1>3, <1>5, <3>1, CpuFacts
  <2>2. /\ pc'[0] \in Fills \cup {"clone_create"} => pc[0] \in Fills \cup {"clone_create"}
        /\ pc'[0] \in Fills => pc[0] \in Fills
        /\ pc'[0] # "init_main" => pc[0] # "init_main"
    BY <1>1, CpuFacts, Zenon DEF Fills
  <2>3. pc'[0] = "init_main" => \A w \in Words : thr'[w] = "none"
    BY <1>1, <1>6, <1>7 DEF OneInv, Leads
  <2> QED BY <1>1, <1>4, <1>7, <2>1, <2>2, <2>3, CpuFacts, Zenon DEF OneInv, Leads
<1>9. Waited'
  BY <1>1, CpuFacts DEF OneInv, Waited
<1>10. ASSUME NEW d \in Cpus \ {0} PROVE Child(d)'
  BY <1>1, <1>3, <1>4 DEF OneInv, Child, ChildPcs, Pcs, Idles, Users, Clones, Scans, Fills
<1>11. ASSUME NEW w \in Words PROVE Placed(w)'
  <2>1. CASE w = Picks(c)
    BY <1>1, <1>3, <1>4, <2>1, Zenon DEF Placed
  <2>2. CASE w # Picks(c)
    <3>1. \A d \in Cpus : run'[d] = w <=> run[d] = w
      BY <1>1, <1>2, <1>3, <2>2
    <3>2. Placed(w)
      BY Zenon DEF OneInv
    <3>3. thr'[w] = thr[w]
      BY <1>1, <2>2, Zenon
    <3> QED BY <1>4, <3>1, <3>2, <3>3, Zenon DEF Placed
  <2> QED BY <2>1, <2>2
<1>12. ASSUME NEW s \in Slots PROVE SlotOwned(s)'
  <2>1. \A d \in Cpus : Holds(d) => Holds(d)'
    BY <1>1 DEF Holds, Fills
  <2> QED BY <1>1, <2>1 DEF OneInv, SlotOwned
<1>13. ASSUME NEW d \in Cpus PROVE NoIdleYet(d)'
  BY <1>1, Zenon DEF OneInv, NoIdleYet, Boots
<1> QED BY <1>8, <1>9, <1>10, <1>11, <1>12, <1>13 DEF OneInv

\* The new entry is not the leader's, and CPU 0 has it in its hands.
LEMMA OneCloneCreate ==
  ASSUME OneInv, IInv', NEW c \in Cpus, CloneCreate(c)
  PROVE  OneInv'
<1>1. PICK s0 \in Slots : s0 = Min(FreeSlots)
  BY FirstFree DEF CloneCreate
<1>2. /\ pc[c] = "clone_create" /\ pc'[c] = "clone_fill"
      /\ \A d \in Cpus \ {c} : pc'[d] = pc[d] /\ loc'[d] = loc[d]
      /\ UNCHANGED <<leader, tiTask, tiIdle, run, thr, done>>
      /\ loc'[c].ti = s0 /\ loc'[c].tgt = loc[c].tgt
  BY <1>1, OneTypes DEF CloneCreate, Goto, Loc
<1>3. c = 0
  BY <1>2, CloneOnZero DEF Clones, Scans
<1>4. slot' = Created(loc[c].w) /\ FreeSlots # {} /\ loc[c].w \in Tids
  BY <1>2 DEF CloneCreate, Tids, Tasks, OneInv, IInv, CpuOK, Scans
<1>5. /\ \A s \in Slots : slot'[s].avail => slot[s].avail \/ s = s0
      /\ \A d \in Cpus : tiTask[d] # s0
  BY <1>1, <1>4, NewEntry, OneTypes, Zenon DEF Created
<1>6. \A d \in Cpus : TaskOf(d)' = TaskOf(d)
  BY <1>2, <1>4, OldTasks, Zenon DEF OneInv
<1>7. tiTask[0] = leader
  BY <1>2, <1>3, Zenon DEF OneInv, IInv, CpuOK, Clones, Scans, Leads
<1>8. Leads' /\ Waited'
  BY <1>2, <1>3, <1>5, <1>6, <1>7 DEF OneInv, Leads, Waited, Fills
<1>9. ASSUME NEW d \in Cpus \ {0} PROVE Child(d)'
  BY <1>2, <1>3, <1>6, Zenon DEF OneInv, Child
<1>10. ASSUME NEW w \in Words PROVE Placed(w)'
  <2>1. Placed(w)
    BY Zenon DEF OneInv
  <2> QED BY <1>2, <1>6, <2>1 DEF Placed
<1>11. ASSUME NEW s \in Slots PROVE SlotOwned(s)'
  <2>1. Holds(c)' /\ ~Holds(c) /\ \A d \in Cpus \ {c} : Holds(d) => Holds(d)' /\ loc'[d] = loc[d]
    BY <1>2 DEF Holds, Fills
  <2> QED BY <1>2, <1>5, <2>1 DEF OneInv, SlotOwned
<1>12. ASSUME NEW d \in Cpus PROVE NoIdleYet(d)'
  BY <1>2, Zenon DEF OneInv, NoIdleYet, Boots
<1> QED BY <1>8, <1>9, <1>10, <1>11, <1>12 DEF OneInv

\* The new thread becomes the task of the CPU that was found.
LEMMA OneCloneRun ==
  ASSUME OneInv, IInv', NEW c \in Cpus, CloneRun(c)
  PROVE  OneInv'
<1>1. pc[c] = "clone_run" /\ pc'[c] = "clone_ipi" /\ \A d \in Cpus \ {c} : pc'[d] = pc[d]
  BY OneTypes, Zenon DEF CloneRun, Goto
<1>2. c = 0
  BY <1>1, CloneOnZero DEF Clones, Scans, Fills
<1>3. PICK t \in Cpus, s0 \in Slots, w0 \in Words :
        t = loc[0].tgt /\ s0 = loc[0].ti /\ w0 = loc[0].w
  BY <1>1, <1>2, Zenon DEF OneInv, IInv, CpuOK, Scans, Fills, Holds
<1>4. /\ UNCHANGED <<slot, leader, tiIdle, run, loc, done>>
      /\ tiTask'[t] = s0 /\ \A d \in Cpus \ {t} : tiTask'[d] = tiTask[d]
      /\ thr' = [thr EXCEPT ![w0] = "ready"]
  BY <1>2, <1>3, OneTypes, Zenon DEF CloneRun
<1>5. t # 0 /\ tiTask[t] = NoSlot /\ s0 # leader /\ slot[s0].tid = w0 /\ s0 # NoSlot
  BY <1>1, <1>2, <1>3, CpuFacts, Zenon DEF OneInv, Leads, IInv, CpuOK, Fills
<1>6. TaskOf(t)' = w0 /\ TaskOf(t) = NULL /\ \A d \in Cpus \ {t} : TaskOf(d)' = TaskOf(d)
  BY <1>4, <1>5 DEF TaskOf
<1>7. tiTask[0] # NoSlot /\ ~done
  BY <1>1, <1>2, Zenon DEF OneInv, IInv, CpuOK, Clones, Scans, Fills, Leads
<1>8. thr[w0] = "cloning" /\ \A d \in Cpus : run[d] # w0 /\ TaskOf(d) # w0
  <2>1. thr[w0] = "cloning"
    BY <1>1, <1>2, <1>3, Zenon DEF OneInv, IInv, CpuOK, Scans, Fills
  <2> QED BY <2>1, Zenon DEF OneInv, IInv, NotYet
<1>9. NULL \notin Words /\ Main \notin Words
  BY ThreadsAssumption
<1>10. Leads' /\ Waited'
  BY <1>1, <1>2, <1>4, <1>5, <1>6, <1>7, Zenon DEF OneInv, Leads, Waited, Fills
<1>11. ASSUME NEW d \in Cpus \ {0} PROVE Child(d)'
  BY <1>1, <1>2, <1>4, <1>5, <1>6, <1>7, <1>9 DEF OneInv, Child
<1>12. ASSUME NEW w \in Words PROVE Placed(w)'
  <2>1. CASE w = w0
    BY <1>4, <1>6, <1>8, <2>1, Zenon DEF Placed, OneInv, IInv, TypeOK
  <2>2. CASE w # w0
    <3>1. Placed(w)
      BY Zenon DEF OneInv
    <3>2. thr'[w] = thr[w] /\ run' = run
      BY <1>4, <2>2, OneTypes, Zenon
    <3>3. \A d \in Cpus : TaskOf(d) = w => TaskOf(d)' = w
      BY <1>6, <1>9
    <3> QED BY <3>1, <3>2, <3>3, Zenon DEF Placed
  <2> QED BY <2>1, <2>2
<1>13. ASSUME NEW s \in Slots PROVE SlotOwned(s)'
  <2>1. \A d \in Cpus \ {0} : Holds(d) => Holds(d)'
    BY <1>1, <1>2 DEF Holds
  <2>2. CASE s = s0
    BY <1>4, <2>2, Zenon DEF SlotOwned
  <2>3. CASE s # s0 /\ slot[s].avail
    <3>1. PICK d \in Cpus : tiIdle[d] = s \/ tiTask[d] = s \/ (Holds(d) /\ loc[d].ti = s)
      BY <2>3 DEF OneInv, SlotOwned
    <3>2. tiTask[d] = s => tiTask'[d] = s
      BY <1>4, <1>5, CpuFacts
    <3>3. Holds(d) /\ loc[d].ti = s => Holds(d)'
      BY <1>3, <2>1, <2>3
    <3> QED BY <1>4, <3>1, <3>2, <3>3 DEF SlotOwned
  <2> QED BY <1>4, <2>2, <2>3, Zenon DEF SlotOwned
<1>14. ASSUME NEW d \in Cpus PROVE NoIdleYet(d)'
  BY <1>1, <1>4 DEF OneInv, NoIdleYet, Boots
<1> QED BY <1>10, <1>11, <1>12, <1>13, <1>14 DEF OneInv

\* A task retires.  The leader does so only when no other CPU has a task.
LEMMA OneExitStop ==
  ASSUME OneInv, IInv', NEW c \in Cpus, ExitStop(c)
  PROVE  OneInv'
<1>1. /\ pc[c] \in {"user", "exit"} /\ pc'[c] = "exit_destroy"
      /\ pc[c] = "user" => run[c] # Main
      /\ \A d \in Cpus \ {c} : pc'[d] = pc[d] /\ loc'[d] = loc[d] /\ tiTask'[d] = tiTask[d]
      /\ UNCHANGED <<slot, leader, tiIdle, run, done>>
      /\ tiTask[c] # NoSlot /\ tiTask'[c] = NoSlot
      /\ thr' = [w \in Words |-> IF w = run[c] THEN "exits" ELSE thr[w]]
  BY OneTypes DEF ExitStop, Goto
<1>2. loc'[c].ti = tiTask[c]
  BY OneTypes DEF ExitStop, NoLoc
<1>3. TaskOf(c)' = NULL /\ \A d \in Cpus \ {c} : TaskOf(d)' = TaskOf(d)
  BY <1>1 DEF TaskOf
<1>4. run[c] \in Tasks /\ NULL \notin Words /\ Main \notin Words /\ NULL # Main
  BY <1>1, ThreadsAssumption, Zenon DEF OneInv, IInv, CpuOK, Users
<1>5. c = 0 => pc[0] = "exit" /\ \A d \in Cpus \ {0} : tiTask[d] = NoSlot
  BY <1>1, <1>4 DEF OneInv, Leads, Waited, Tasks
<1>6. TaskOf(c) \in Words => TaskOf(c) = run[c]
  <2>1. CASE c = 0
    BY <1>1, <1>4, <2>1, Zenon DEF OneInv, Leads
  <2>2. CASE c # 0
    BY <1>1, <1>4, <2>2, Zenon DEF OneInv, Child, Tasks, Exits
  <2> QED BY <2>1, <2>2
<1>7. pc[0] # "init_main"
  BY <1>1, Zenon DEF OneInv, Leads, Child
<1>8. Leads'
  <2>1. CASE c = 0
    BY <1>1, <1>3, <2>1, Zenon DEF OneInv, Leads, Fills
  <2>2. CASE c # 0
    <3>1. /\ pc'[0] = pc[0] /\ loc'[0] = loc[0] /\ tiTask'[0] = tiTask[0] /\ TaskOf(0)' = TaskOf(0)
          /\ UNCHANGED <<leader, run, done>>
      BY <1>1, <1>3, <2>2, CpuFacts, Zenon
    <3>2. pc[0] \in Fills \cup {"clone_create"} => tiTask'[loc[0].tgt] = NoSlot
      <4>1. pc[0] \in Fills \cup {"clone_create"} => loc[0].tgt \in Cpus /\ tiTask[loc[0].tgt] = NoSlot
        BY CpuFacts, Zenon DEF OneInv, Leads, IInv, CpuOK
      <4> QED BY <1>1, <4>1, Zenon
    <3> QED BY <1>7, <3>1, <3>2 DEF OneInv, Leads
  <2> QED BY <2>1, <2>2
<1>9. Waited'
  <2>1. \A d \in Cpus : tiTask[d] = NoSlot => tiTask'[d] = NoSlot
    BY <1>1, Zenon
  <2> QED BY <1>1, <2>1, CpuFacts, Zenon DEF OneInv, Waited
<1>10. ASSUME NEW d \in Cpus \ {0} PROVE Child(d)'
  <2>0. Child(d)
    BY DEF OneInv
  <2>1. CASE d = c
    BY <1>1, <1>2, <1>3, <1>4, <2>0, <2>1, Zenon DEF Child, Exits, ChildPcs, Pcs, Clones, Scans, Fills
  <2>2. CASE d # c
    <3>1. tiTask'[d] # NoSlot => tiTask'[0] # NoSlot
      BY <1>1, <1>5, <2>0, <2>2, CpuFacts, Zenon DEF Child
    <3> QED BY <1>1, <1>3, <2>0, <2>2, <3>1 DEF Child
  <2> QED BY <2>1, <2>2
<1>11. ASSUME NEW w \in Words PROVE Placed(w)'
  <2>1. CASE w = run[c]
    BY <1>1, <2>1, Zenon DEF Placed
  <2>2. CASE w # run[c]
    BY <1>1, <1>3, <1>6, <2>2 DEF OneInv, Placed
  <2> QED BY <2>1, <2>2
<1>12. ASSUME NEW s \in Slots PROVE SlotOwned(s)'
  <2>1. Holds(c)' /\ ~Holds(c) /\ \A d \in Cpus \ {c} : Holds(d) => Holds(d)' /\ loc'[d] = loc[d]
    BY <1>1, Zenon DEF Holds, Fills
  <2>2. SlotOwned(s)
    BY Zenon DEF OneInv
  <2> QED BY <1>1, <1>2, <2>1, <2>2, Zenon DEF SlotOwned
<1>13. ASSUME NEW d \in Cpus PROVE NoIdleYet(d)'
  BY <1>1 DEF OneInv, NoIdleYet, Boots
<1> QED BY <1>8, <1>9, <1>10, <1>11, <1>12, <1>13 DEF OneInv

\* k_thread_destroy frees the entry that the CPU has in its hands.
LEMMA OneExitDestroy ==
  ASSUME OneInv, IInv', NEW c \in Cpus, ExitDestroy(c)
  PROVE  OneInv'
<1>1. /\ pc[c] = "exit_destroy" /\ pc'[c] \in {"exit_fini", "exit_notify"}
      /\ loc[c].ti # leader => pc'[c] = "exit_notify"
      /\ \A d \in Cpus \ {c} : pc'[d] = pc[d]
      /\ UNCHANGED <<leader, tiTask, tiIdle, run, loc, done, thr>>
      /\ slot' = [slot EXCEPT ![loc[c].ti].avail = FALSE]
  BY OneTypes DEF ExitDestroy, Goto
<1>2. /\ loc[c].ti \in Slots
      /\ ~slot'[loc[c].ti].avail
      /\ \A s \in Slots : slot'[s].tid = slot[s].tid /\ (s # loc[c].ti => slot'[s] = slot[s])
  <2>1. loc[c].ti \in Slots
    <3>1. CpuOK(c)
      BY OneTypes, Zenon DEF IInv
    <3> QED BY <1>1, <3>1, Zenon DEF CpuOK, Holds
  <2>2. slot \in [Slots -> Slot]
    BY OneTypes, Zenon
  <2>3. slot'[loc[c].ti] = [slot[loc[c].ti] EXCEPT !.avail = FALSE]
    BY <1>1, <2>1, <2>2, Zenon
  <2>4. slot[loc[c].ti] \in Slot
    BY <2>1, <2>2, Zenon
  <2>5. ~slot'[loc[c].ti].avail /\ slot'[loc[c].ti].tid = slot[loc[c].ti].tid
    BY <2>3, <2>4 DEF Slot
  <2>6. \A s \in Slots : s # loc[c].ti => slot'[s] = slot[s]
    BY <1>1, <2>1, <2>2, Zenon
  <2> QED BY <2>1, <2>5, <2>6, Zenon
<1>3. \A d \in Cpus : TaskOf(d)' = TaskOf(d)
  BY <1>1, <1>2, OneTypes DEF TaskOf
<1>4. Leads' /\ Waited'
  BY <1>1, <1>3, CpuFacts DEF OneInv, Leads, Waited, Fills
<1>5. ASSUME NEW d \in Cpus \ {0} PROVE Child(d)'
  BY <1>1, <1>3 DEF OneInv, Child, ChildPcs, Pcs, Clones, Scans, Fills, Exits
<1>6. ASSUME NEW w \in Words PROVE Placed(w)'
  BY <1>1, <1>3 DEF OneInv, Placed
<1>7. ASSUME NEW s \in Slots PROVE SlotOwned(s)'
  <2>1. \A d \in Cpus \ {c} : Holds(d) => Holds(d)'
    BY <1>1 DEF Holds
  <2> QED BY <1>1, <1>2, <2>1 DEF OneInv, SlotOwned
<1>8. ASSUME NEW d \in Cpus PROVE NoIdleYet(d)'
  BY <1>1 DEF OneInv, NoIdleYet, Boots
<1> QED BY <1>4, <1>5, <1>6, <1>7, <1>8 DEF OneInv

\* The CPU of a task that has exited is idle and can be found again.
LEMMA OneExitSwitch ==
  ASSUME OneInv, IInv', NEW c \in Cpus, ExitSwitch(c)
  PROVE  OneInv'
<1>1. /\ pc[c] \in {"exit_switch", "exit_switch_wake"} /\ pc'[c] \in {"idle", "exit_wake"}
      /\ run[c] \in Tasks /\ tiTask[c] = NoSlot
      /\ run' = [run EXCEPT ![c] = Idle]
      /\ thr' = [w \in Words |-> IF w = run[c] THEN "gone" ELSE thr[w]]
  BY ExitToIdle DEF OneInv
<1>2. \A d \in Cpus \ {c} : pc'[d] = pc[d] /\ loc'[d] = loc[d]
  <2>1. pc \in [Cpus -> Pcs] /\ loc \in [Cpus -> Loc]
    BY OneTypes, Zenon
  <2> QED BY <2>1 DEF ExitSwitch, Goto
<1>3. UNCHANGED <<slot, leader, tiTask, tiIdle, done>>
  BY DEF ExitSwitch
<1>4. run'[c] = Idle /\ (\A d \in Cpus \ {c} : run'[d] = run[d]) /\ Idle \notin Words /\ Idle # Main
  BY <1>1, ThreadsAssumption, OneTypes
<1>5. (\A d \in Cpus : TaskOf(d)' = TaskOf(d)) /\ TaskOf(c) \notin Words
  BY <1>1, <1>3, ThreadsAssumption DEF TaskOf
<1>6. pc[0] = "init_main" => run[c] \notin Words
  BY <1>1 DEF OneInv, Leads, IInv, NotYet
<1>7. Leads'
  <2>1. pc'[0] = "init_main" => \A w \in Words : thr'[w] = "none"
    BY <1>1, <1>2, <1>6, CpuFacts, Zenon DEF OneInv, Leads
  <2>2. CASE c = 0
    BY <1>1, <1>3, <1>4, <1>5, <2>1, <2>2 DEF OneInv, Leads, Fills
  <2>3. CASE c # 0
    BY <1>2, <1>3, <1>4, <1>5, <2>1, <2>3, CpuFacts, Zenon DEF OneInv, Leads
  <2> QED BY <2>2, <2>3
<1>8. Waited'
  BY <1>1, <1>2, <1>3, CpuFacts, Zenon DEF OneInv, Waited
<1>9. ASSUME NEW d \in Cpus \ {0} PROVE Child(d)'
  BY <1>1, <1>2, <1>3, <1>4, <1>5, Zenon DEF OneInv, Child, ChildPcs, Pcs, Idles, Clones, Scans, Fills
<1>10. ASSUME NEW w \in Words PROVE Placed(w)'
  <2>1. CASE w = run[c]
    BY <1>1, <2>1, Zenon DEF Placed
  <2>2. CASE w # run[c]
    <3>1. Placed(w)
      BY Zenon DEF OneInv
    <3>2. thr'[w] = thr[w]
      BY <1>1, <2>2, Zenon
    <3>3. \A d \in Cpus : run'[d] = w <=> run[d] = w
      BY <1>4, <2>2
    <3> QED BY <1>5, <3>1, <3>2, <3>3, Zenon DEF Placed
  <2> QED BY <2>1, <2>2
<1>11. ASSUME NEW s \in Slots PROVE SlotOwned(s)'
  <2>1. \A d \in Cpus : Holds(d) => Holds(d)' /\ loc'[d] = loc[d]
    BY <1>1, <1>2, Zenon DEF Holds, Fills
  <2> QED BY <1>3, <2>1, Zenon DEF OneInv, SlotOwned
<1>12. ASSUME NEW d \in Cpus PROVE NoIdleYet(d)'
  BY <1>1, <1>2, <1>3, Zenon DEF OneInv, NoIdleYet, Boots
<1> QED BY <1>7, <1>8, <1>9, <1>10, <1>11, <1>12 DEF OneInv

\* With one creator every step keeps the invariant.
LEMMA OneNext ==
  ASSUME OneCreator
  PROVE  OneInv /\ [Next]_vars => OneInv'
<1> SUFFICES ASSUME OneInv, [Next]_vars PROVE OneInv'
  OBVIOUS
<1>1. IInv'
  BY InvNext DEF OneInv
<1>2. ASSUME NEW c \in Cpus, Step(c) \/ UserStep(c) \/ Interrupt(c) PROVE OneInv'
  BY <1>1, <1>2, OneQuiet, OneExitWake, OneCloneQuiet, OneInitMain, OneInitIdle, OneSwitch,
     OneCloneCreate, OneCloneRun, OneExitStop, OneExitDestroy, OneExitSwitch
     DEF Step, Boot, CloneStep, ExitStep, UserStep
<1>3. CASE UNCHANGED vars
  <2>1. UNCHANGED <<slot, leader, tiTask, tiIdle, run, pc, loc, done, thr>>
    BY <1>3 DEF vars
  <2>2. \A d \in Cpus : Stays(d)
    BY <2>1, Zenon DEF Stays
  <2> QED BY <1>1, <2>1, <2>2, OneFrame
<1> QED BY <1>2, <1>3 DEF Next

\* The inductive invariant of the programs with one creator.
THEOREM OneCreatorInvariant ==
  ASSUME OneCreator
  PROVE  Spec => []OneInv
  BY OneInit, OneNext, PTL DEF Spec

\* With one creator, k_thread_clone gives no CPU to two threads: a thread
\* that is not over is the task of exactly one CPU, and no other runs it.
THEOREM OneCreatorGivesCpu ==
  ASSUME OneCreator
  PROVE  Spec => []EveryThreadHasItsCpu
<1>1. OneInv => EveryThreadHasItsCpu
  <2> SUFFICES ASSUME OneInv, NEW w \in Words, Live(w)
               PROVE  \E c \in Cpus : /\ TaskOf(c) = w
                                      /\ \A d \in Cpus \ {c} : TaskOf(d) # w /\ run[d] # w
                                      /\ thr[w] = "runs" <=> run[c] = w
    BY DEF EveryThreadHasItsCpu
  <2>1. PICK c \in Cpus : TaskOf(c) = w /\ (thr[w] = "runs" <=> run[c] = w)
    BY DEF OneInv, Placed, Live
  <2> QED BY <2>1, Zenon DEF OneInv, IInv, Apart
<1> QED BY <1>1, OneCreatorInvariant, PTL

\* With one creator, k_sys_exit_group has waited for all children when the
\* host is told that the program has ended.
THEOREM OneCreatorDone ==
  ASSUME OneCreator
  PROVE  Spec => []DoneMeansNoTask
<1>1. OneInv => DoneMeansNoTask
  BY DEF OneInv, Leads, Child, DoneMeansNoTask
<1> QED BY <1>1, OneCreatorInvariant, PTL

\* The places that refer to an entry of k_ti: place c is the idle thread of
\* CPU c; place N + c is its task, the task it is retiring, or the new one
\* that CPU 0 is preparing for it.
Places == 0 .. 2 * NumCores - 1
Refers(p, s) ==
  \/ p \in Cpus /\ tiIdle[p] = s
  \/ /\ p - NumCores \in Cpus
     /\ \/ tiTask[p - NumCores] = s
        \/ pc[p - NumCores] = "exit_destroy" /\ loc[p - NumCores].ti = s
        \/ pc[0] \in Fills /\ loc[0].tgt = p - NumCores /\ loc[0].ti = s

\* A place refers to one entry.
LEMMA RefersOnce ==
  ASSUME OneInv, NEW p \in Places, NEW s \in Slots, NEW t \in Slots, Refers(p, s), Refers(p, t)
  PROVE  s = t
<1>1. CASE p \in Cpus
  <2>1. p - NumCores \notin Cpus
    BY <1>1, ThreadsAssumption DEF Cpus
  <2> QED BY <2>1 DEF Refers
<1>2. CASE p \notin Cpus
  <2>1. PICK d \in Cpus : d = p - NumCores
    BY <1>2 DEF Refers
  <2>2. pc[0] \in Fills /\ loc[0].tgt = d => d # 0 /\ tiTask[d] = NoSlot /\ lockCpu[d] = 0
    BY CpuFacts, Zenon DEF OneInv, Leads, IInv, CpuOK
  <2>3. pc[d] = "exit_destroy" => tiTask[d] = NoSlot /\ lockCpu[d] = d
    BY Zenon DEF OneInv, IInv, CpuOK, Exits
  <2>4. ASSUME NEW u \in Slots, Refers(p, u)
        PROVE  \/ tiTask[d] = u
               \/ pc[d] = "exit_destroy" /\ loc[d].ti = u
               \/ pc[0] \in Fills /\ loc[0].tgt = d /\ loc[0].ti = u
    BY <1>2, <2>1, <2>4, Zenon DEF Refers
  <2> QED BY <2>2, <2>3, <2>4, CpuFacts
<1> QED BY <1>1, <1>2

\* A taken entry is referred to by a place.
LEMMA TakenIsReferred ==
  ASSUME OneInv, NEW s \in Slots, slot[s].avail
  PROVE  \E p \in Places : Refers(p, s)
<1>1. PICK d \in Cpus : tiIdle[d] = s \/ tiTask[d] = s \/ (Holds(d) /\ loc[d].ti = s)
  BY DEF OneInv, SlotOwned
<1>2. \A e \in Cpus : e \in Places /\ e + NumCores \in Places /\ (e + NumCores) - NumCores = e
  BY ThreadsAssumption DEF Cpus, Places
<1>3. CASE tiIdle[d] = s
  BY <1>2, <1>3 DEF Refers
<1>4. CASE tiTask[d] = s \/ (pc[d] = "exit_destroy" /\ loc[d].ti = s)
  <2>1. Refers(d + NumCores, s)
    BY <1>2, <1>4 DEF Refers
  <2> QED BY <1>2, <2>1
<1>5. CASE pc[d] \in Fills /\ loc[d].ti = s
  <2>1. d = 0
    BY <1>5, CloneOnZero DEF Clones, Scans, Fills
  <2>2. PICK e \in Cpus : e = loc[0].tgt
    BY <1>5, <2>1, Zenon DEF OneInv, IInv, CpuOK
  <2>3. Refers(e + NumCores, s)
    BY <1>2, <1>5, <2>1, <2>2 DEF Refers
  <2> QED BY <1>2, <2>3
<1> QED BY <1>1, <1>3, <1>4, <1>5 DEF Holds

\* A place is empty while somebody is about to create a thread for it.
LEMMA PlaceLeft ==
  ASSUME OneInv, NEW c \in Cpus,
         \/ pc[c] \in Boots
         \/ pc[c] = "clone_create" /\ lockCpu[loc[c].tgt] = NoCpu
  PROVE  \E p \in Places : \A s \in Slots : ~Refers(p, s)
<1>1. CASE pc[c] \in Boots
  <2>1. tiIdle[c] = NoSlot
    BY <1>1 DEF OneInv, NoIdleYet
  <2>2. c \in Places /\ c - NumCores \notin Cpus
    BY ThreadsAssumption DEF Cpus, Places
  <2>3. \A s \in Slots : ~Refers(c, s)
    BY <2>1, <2>2, CpuFacts DEF Refers
  <2> QED BY <2>2, <2>3
<1>2. CASE pc[c] = "clone_create" /\ lockCpu[loc[c].tgt] = NoCpu
  <2>1. c = 0
    BY <1>2, CloneOnZero DEF Clones, Scans
  <2>2. PICK d \in Cpus : d = loc[0].tgt
    BY <1>2, <2>1, Zenon DEF OneInv, IInv, CpuOK
  <2>3. tiTask[d] = NoSlot /\ pc[0] \notin Fills
    BY <1>2, <2>1, <2>2, Zenon DEF OneInv, Leads, Fills
  <2>4. pc[d] # "exit_destroy"
    BY <1>2, <2>1, <2>2, CpuFacts, Zenon DEF OneInv, IInv, CpuOK, Exits
  <2>5. d + NumCores \in Places /\ d + NumCores \notin Cpus /\ (d + NumCores) - NumCores = d
    BY ThreadsAssumption DEF Cpus, Places
  <2>6. \A s \in Slots : ~Refers(d + NumCores, s)
    BY <2>3, <2>4, <2>5, CpuFacts DEF Refers
  <2> QED BY <2>5, <2>6
<1> QED BY <1>1, <1>2, Zenon

\* With one creator, the 2 x N entries of k_ti suffice: each entry that is
\* taken has a place of its own, and the creator's place is empty.
THEOREM OneCreatorSlots ==
  ASSUME OneCreator
  PROVE  Spec => []SlotsSuffice
<1>1. OneInv => SlotsSuffice
  <2> SUFFICES ASSUME OneInv, NEW c \in Cpus,
                      \/ pc[c] \in Boots
                      \/ pc[c] = "clone_create" /\ lockCpu[loc[c].tgt] = NoCpu,
                      FreeSlots = {}
               PROVE  FALSE
    BY DEF SlotsSuffice, Boots
  <2>1. PICK p \in Places : \A s \in Slots : ~Refers(p, s)
    BY PlaceLeft
  <2>2. \A s \in Slots : slot[s].avail
    BY DEF FreeSlots
  <2> DEFINE f == [s \in Slots |-> CHOOSE q \in Places : Refers(q, s)]
  <2>3. \A s \in Slots : f[s] \in Places /\ Refers(f[s], s)
    BY <2>2, TakenIsReferred
  <2>4. f \in [Slots -> Places \ {p}]
    BY <2>1, <2>3
  <2> HIDE DEF f
  <2>5. IsFiniteSet(Places) /\ Cardinality(Places) = 2 * NumCores /\ Slots = Places
    BY FS_Interval, ThreadsAssumption DEF Slots, Places
  <2>6. IsFiniteSet(Places \ {p}) /\ Cardinality(Places \ {p}) = Cardinality(Places) - 1
    BY <2>5, FS_RemoveElement
  <2>7. PICK s \in Slots, t \in Slots : s # t /\ f[s] = f[t]
    BY <2>4, <2>5, <2>6, FS_PigeonHole, ThreadsAssumption
  <2> QED BY <2>3, <2>7, RefersOnce
<1> QED BY <1>1, OneCreatorInvariant, PTL

\* A step of CPU c.
Any(c) == Step(c) \/ UserStep(c) \/ Interrupt(c)

\* A thread that exits is still run by its CPU.
ExitsOn(w) == thr[w] = "exits" => \E c \in Cpus : run[c] = w /\ pc[c] \in Exits

\* A CPU that is in an exit stays there and keeps its thread until the
\* switch at the end.
LEMMA ExitGoesOn ==
  ASSUME OneInv, NEW c \in Cpus, Any(c), ~ExitSwitch(c), NEW d \in Cpus, pc[d] \in Exits
  PROVE  run'[d] = run[d] /\ pc'[d] \in Exits
<1>1. CASE Boot(c) \/ IdleStep(c) \/ UserStep(c) \/ Interrupt(c)
  BY <1>1, OneTypes DEF Boot, InitMain, InitIdle, Switch, IdleStep, IdleTop, IdleWake,
     IdleTick, IdleReread, UserStep, Clone, JoinSleep, ExitStop, ExitGroup, Interrupt, Goto, Exits
<1>2. CASE CloneStep(c)
  BY <1>2, OneTypes DEF CloneStep, CloneBusy, CloneNoCpu, CloneFound, CloneCreate,
     CloneNoSlot, CloneFill, CloneRun, CloneIpi, CloneReturn, Goto, Back, Exits
<1>3. CASE ExitStep(c) /\ ~ExitWake(c)
  BY <1>3, OneTypes DEF ExitStep, ExitDestroy, ExitFini, ExitSleep, ExitNotify,
     ExitGroupScan, JoinTick, Goto, Back, Exits
<1>4. CASE ExitWake(c)
  <2> DEFINE sleepers == {e \in Cpus : pc[e] = "join" /\ loc[e].w = slot[loc[c].ti].ctid}
             woken == IF sleepers = {} THEN {} ELSE {Min(sleepers)}
  <2>1. woken \subseteq sleepers
    <3>1. sleepers \in SUBSET Nat
      BY CpuFacts, Zenon
    <3>2. sleepers # {} => Min(sleepers) \in sleepers
      BY <3>1, LeastNat, Zenon DEF Min
    <3> QED BY <3>2
  <2>2. d \notin sleepers /\ d # c
    BY <1>4, Zenon DEF ExitWake, Exits
  <2>3. pc'[d] = (IF d = c THEN IF run[c] = Idle THEN "idle" ELSE "user"
                  ELSE IF d \in woken THEN "user" ELSE pc[d]) /\ run' = run
    BY <1>4, Zenon DEF ExitWake
  <2> HIDE DEF sleepers, woken
  <2> QED BY <2>1, <2>2, <2>3
<1> QED BY <1>1, <1>2, <1>3, <1>4, Zenon DEF Any, Step, ExitStep

\* Every step keeps an exiting thread on its CPU.
LEMMA ExitsOnNext ==
  ASSUME OneInv, NEW w \in Words, ExitsOn(w), NEW c \in Cpus, Any(c)
  PROVE  ExitsOn(w)'
<1>1. CASE ExitStop(c)
  <2>1. thr'[w] = (IF w = run[c] THEN "exits" ELSE thr[w]) /\ run' = run /\ pc'[c] = "exit_destroy"
    BY <1>1, OneTypes DEF ExitStop, Goto
  <2>2. CASE w = run[c]
    BY <2>1, <2>2 DEF ExitsOn, Exits
  <2>3. CASE w # run[c]
    <3>1. ~ExitSwitch(c)
      BY <1>1 DEF ExitStop, ExitSwitch, Goto, Back
    <3> QED BY <2>1, <2>3, <3>1, ExitGoesOn DEF ExitsOn
  <2> QED BY <2>2, <2>3
<1>2. CASE ExitSwitch(c)
  <2>1. thr'[w] = (IF w = run[c] THEN "gone" ELSE thr[w]) /\ \A d \in Cpus \ {c} : run'[d] = run[d]
    BY <1>2, ExitToIdle, OneTypes
  <2>2. \A d \in Cpus \ {c} : pc'[d] = pc[d]
    BY <1>2, OneTypes, Zenon DEF ExitSwitch, Goto
  <2> QED BY <2>1, <2>2 DEF ExitsOn
<1>3. CASE ~ExitStop(c) /\ ~ExitSwitch(c)
  <2>1. thr'[w] = "exits" => thr[w] = "exits"
    <3>1. CASE Boot(c) \/ IdleStep(c) \/ UserStep(c) \/ Interrupt(c)
      BY <1>3, <3>1, OneTypes DEF Boot, InitMain, InitIdle, Switch, IdleStep, IdleTop, IdleWake,
         IdleTick, IdleReread, UserStep, Clone, JoinSleep, ExitGroup, Interrupt
    <3>2. CASE CloneStep(c)
      BY <3>2, OneTypes DEF CloneStep, CloneBusy, CloneNoCpu, CloneFound, CloneCreate,
         CloneNoSlot, CloneFill, CloneRun, CloneIpi, CloneReturn
    <3>3. CASE ExitStep(c)
      BY <1>3, <3>3, OneTypes, Zenon DEF ExitStep, ExitDestroy, ExitFini, ExitSleep, ExitNotify,
         ExitGroupScan, JoinTick, ExitWake
    <3> QED BY <3>1, <3>2, <3>3 DEF Any, Step
  <2> QED BY <1>3, <2>1, ExitGoesOn, Zenon DEF ExitsOn
<1> QED BY <1>1, <1>2, <1>3

\* Each thread has a CPU other than CPU 0, and no two have the same one.
LEMMA ThreadsFit ==
  ASSUME OneInv, \A w \in Words : ExitsOn(w)
  PROVE  ThreadsWithinCores
<1> DEFINE A == {w \in Words : Live(w) \/ thr[w] = "exits"}
           B == {c \in Cpus : Main \in {TaskOf(c), run[c]}}
           C == Cpus \ {0}
           Has(c, w) == TaskOf(c) = w \/ (run[c] = w /\ tiTask[c] = NoSlot)
           f == [w \in A |-> CHOOSE c \in C : Has(c, w)]
<1>1. NULL \notin Words /\ Main \notin Words
  BY ThreadsAssumption
<1>2. \A w \in A : \E c \in C : Has(c, w)
  <2>1. TAKE w \in A
  <2>2. PICK c \in Cpus : Has(c, w)
    <3>1. CASE Live(w)
      BY <3>1 DEF Live, OneInv, Placed
    <3>2. CASE thr[w] = "exits"
      <4>1. PICK c \in Cpus : run[c] = w /\ pc[c] \in Exits
        BY <3>2 DEF ExitsOn
      <4>2. tiTask[c] = NoSlot
        BY <4>1, Zenon DEF OneInv, IInv, CpuOK
      <4> QED BY <4>1, <4>2
    <3> QED BY <3>1, <3>2
  <2>3. c # 0
    BY <1>1, <2>2 DEF OneInv, Leads, TaskOf
  <2> QED BY <2>2, <2>3
<1>3. f \in [A -> C] /\ \A w \in A : Has(f[w], w)
  BY <1>2, Zenon
<1>4. \A v, w \in A : f[v] = f[w] => v = w
  <2>1. \A c \in Cpus, v, w \in Words : Has(c, v) /\ Has(c, w) => v = w
    BY <1>1, Zenon DEF TaskOf
  <2>2. A \subseteq Words /\ C \subseteq Cpus
    OBVIOUS
  <2> HIDE DEF Has, f, A, C
  <2> QED BY <1>3, <2>1, <2>2
<1>5. IsFiniteSet(Cpus) /\ Cardinality(Cpus) = NumCores
  BY FS_Interval, ThreadsAssumption DEF Cpus
<1>6. IsFiniteSet(C) /\ Cardinality(C) = NumCores - 1
  BY <1>5, FS_RemoveElement, CpuFacts
<1>7. B \subseteq {0}
  BY DEF OneInv, Child
<1>8. Cardinality(B) \in {0, 1}
  <2>1. B = {} \/ B = {0}
    BY <1>7
  <2> QED BY <2>1, FS_EmptySet, FS_Singleton, Zenon
<1> HIDE DEF f
<1>9. Cardinality(A) \in Nat /\ Cardinality(A) <= Cardinality(C)
  <2>1. f \in Injection(A, C)
    BY <1>3, <1>4 DEF Injection, IsInjective
  <2> QED BY <1>6, <2>1, FS_Injection, FS_CardinalityType
<1>10. Cardinality(A) + Cardinality(B) <= NumCores
  BY <1>6, <1>8, <1>9, ThreadsAssumption
<1> QED BY <1>10 DEF ThreadsWithinCores

\* With one creator, "limit maximum number of threads up to physical cores"
\* holds: there are never more tasks than cores, those that are still on
\* their way out included.  Racing creators break it.
THEOREM OneCreatorWithinCores ==
  ASSUME OneCreator
  PROVE  Spec => []ThreadsWithinCores
<1> DEFINE Inv == OneInv /\ \A w \in Words : ExitsOn(w)
<1>1. Init => Inv
  BY OneInit DEF Init, ExitsOn
<1>2. Inv /\ [Next]_vars => Inv'
  <2> SUFFICES ASSUME Inv, [Next]_vars PROVE Inv'
    OBVIOUS
  <2>1. OneInv'
    BY OneNext
  <2>2. CASE Next
    <3>1. PICK c \in Cpus : Any(c)
      BY <2>2 DEF Next, Any
    <3> QED BY <2>1, <3>1, ExitsOnNext
  <2>3. CASE UNCHANGED vars
    BY <2>1, <2>3, Zenon DEF vars, ExitsOn
  <2> QED BY <2>2, <2>3
<1>3. Inv => ThreadsWithinCores
  BY ThreadsFit
<1> HIDE DEF Inv
<1> QED BY <1>1, <1>2, <1>3, PTL DEF Spec
-----------------------------------------------------------------------------
(* Two cores: a program of the main task and at most one other thread.     *)

\* The word of a thread is set before the thread is published, and stays
\* set while it is published.
WordsSet ==
  /\ pc[0] = "clone_run" => word[loc[0].w]
  /\ \A c \in Cpus : TaskOf(c) \in Words => word[TaskOf(c)]

\* The entry that the end of clone reads again is still the one of its
\* thread: the other CPU has booted, or has the thread as its task.
EntryKept ==
  pc[0] \in {"clone_ipi", "clone_return"} =>
    /\ loc[0].ti \in Slots
    /\ slot[loc[0].ti].tid = loc[0].w
    /\ loc[0].tgt \in Cpus \ {0}
    /\ pc[loc[0].tgt] \in Boots => tiTask[loc[0].tgt] = loc[0].ti

TwoInv == OneInv /\ WordsSet /\ EntryKept

\* CPU 0 gets to the end of clone by its own steps only.
LEMMA EndOfClone ==
  ASSUME OneInv, NEW c \in Cpus, Any(c), pc'[0] \in {"clone_run", "clone_ipi", "clone_return"}
  PROVE  \/ c # 0 /\ pc'[0] = pc[0] /\ loc'[0] = loc[0]
         \/ c = 0 /\ (CloneFill(0) \/ CloneRun(0) \/ CloneIpi(0))
<1>0. 0 \in Cpus
  BY CpuFacts
<1>1. CASE Boot(c) \/ IdleStep(c) \/ UserStep(c) \/ Interrupt(c)
  BY <1>0, <1>1, OneTypes DEF Boot, InitMain, InitIdle, Switch, IdleStep, IdleTop, IdleWake,
     IdleTick, IdleReread, UserStep, Clone, JoinSleep, ExitStop, ExitGroup, Interrupt, Goto
<1>2. CASE CloneStep(c)
  <2>1. CASE c # 0
    <3>1. pc'[0] = pc[0]
      BY <1>0, <1>2, <2>1, OneTypes DEF CloneStep, CloneBusy, CloneNoCpu, CloneFound,
         CloneCreate, CloneNoSlot, CloneFill, CloneRun, CloneIpi, CloneReturn, Goto, Back
    <3>2. loc'[0] = loc[0]
      BY <1>0, <1>2, <2>1, OneTypes DEF CloneStep, CloneBusy, CloneNoCpu, CloneFound,
         CloneCreate, CloneNoSlot, CloneFill, CloneRun, CloneIpi, CloneReturn, Back
    <3> QED BY <2>1, <3>1, <3>2
  <2>2. CASE c = 0 /\ ~(CloneFill(0) \/ CloneRun(0) \/ CloneIpi(0))
    <3>1. CloneBusy(0) \/ CloneNoCpu(0) \/ CloneFound(0) \/ CloneCreate(0) \/ CloneNoSlot(0) \/ CloneReturn(0)
      BY <1>2, <2>2 DEF CloneStep
    <3>2. pc'[0] \in {"clone_scan", "user", "clone_create", "clone_fill"}
      BY <1>0, <3>1, OneTypes DEF CloneBusy, CloneNoCpu, CloneFound,
         CloneCreate, CloneNoSlot, CloneReturn, Goto, Back
    <3> QED BY <3>2
  <2> QED BY <2>1, <2>2, Zenon
<1>3. CASE ExitStep(c) /\ ~ExitWake(c)
  BY <1>0, <1>3, OneTypes DEF ExitStep, ExitDestroy, ExitFini, ExitSleep, ExitNotify,
     ExitSwitch, ExitGroupScan, JoinTick, Goto, Back
<1>4. CASE ExitWake(c)
  BY <1>0, <1>4, OneTypes, Zenon DEF ExitWake
<1> QED BY <1>1, <1>2, <1>3, <1>4, Zenon DEF Any, Step, ExitStep

\* A CPU gets a thread as its task by clone only.
LEMMA TaskKept ==
  ASSUME OneInv, NEW c \in Cpus, Any(c), ~CloneRun(c), NEW d \in Cpus, TaskOf(d)' \in Words
  PROVE  TaskOf(d)' = TaskOf(d)
<1>0. Main \notin Words /\ NULL \notin Words
  BY ThreadsAssumption
<1>1. CASE InitMain(c)
  <2>1. PICK s0 \in Slots : s0 = Min(FreeSlots)
    BY <1>1, FirstFree DEF InitMain
  <2>2. slot' = Created(Main) /\ FreeSlots # {} /\ Main \in Tids /\ tiTask' = [tiTask EXCEPT ![c] = s0]
    BY <1>1, <2>1 DEF InitMain, Tids, Tasks
  <2>3. slot'[s0].tid = Main
    BY <2>1, <2>2, NewEntry, Zenon DEF OneInv
  <2>4. CASE d = c
    BY <1>0, <2>2, <2>3, <2>4, CpuFacts, OneTypes, Zenon DEF TaskOf
  <2>5. CASE d # c
    BY <2>2, <2>5, OldTasks, OneTypes
  <2> QED BY <2>4, <2>5
<1>2. CASE InitIdle(c) \/ CloneCreate(c)
  <2>1. PICK t \in Tids : slot' = Created(t) /\ FreeSlots # {} /\ tiTask' = tiTask
    <3>1. CASE InitIdle(c)
      BY <3>1 DEF InitIdle, Tids
    <3>2. CASE CloneCreate(c)
      BY <3>2 DEF CloneCreate, Goto, Tids, Tasks, OneInv, IInv, CpuOK, Scans
    <3> QED BY <1>2, <3>1, <3>2
  <2> QED BY <2>1, OldTasks DEF OneInv
<1>3. CASE ExitStop(c)
  BY <1>0, <1>3, OneTypes DEF ExitStop, TaskOf
<1>4. CASE CloneFill(c) \/ ExitDestroy(c)
  <2>1. tiTask' = tiTask /\ \A s \in Slots : slot'[s].tid = slot[s].tid
    BY <1>4, OneTypes DEF CloneFill, ExitDestroy, Slot
  <2> QED BY <2>1, OneTypes, Zenon DEF TaskOf
<1>5. CASE ~(InitMain(c) \/ InitIdle(c) \/ CloneCreate(c) \/ ExitStop(c) \/ CloneFill(c) \/ ExitDestroy(c))
  <2>1. UNCHANGED <<slot, tiTask>>
    BY <1>5, Zenon DEF Any, Step, Boot, Switch, IdleStep, IdleTop, IdleWake, IdleTick, IdleReread, Interrupt,
       UserStep, Clone, JoinSleep, ExitGroup, CloneStep, CloneBusy, CloneNoCpu, CloneFound, CloneNoSlot,
       CloneIpi, CloneReturn, ExitStep, ExitFini, ExitSleep, ExitNotify, ExitSwitch, ExitWake,
       ExitGroupScan, JoinTick
  <2> QED BY <2>1 DEF TaskOf
<1> QED BY <1>1, <1>2, <1>3, <1>4, <1>5

\* Only the notification of an exit clears a word.
LEMMA WordKept ==
  ASSUME OneInv, NEW c \in Cpus, Any(c), ~ExitNotify(c), NEW w \in Words, word[w]
  PROVE  word'[w]
<1>1. CASE CloneFill(c)
  BY <1>1, OneTypes DEF CloneFill
<1>2. CASE ~CloneFill(c)
  <2>1. UNCHANGED word
    BY <1>2, Zenon DEF Any, Step, Boot, InitMain, InitIdle, Switch, IdleStep, IdleTop, IdleWake, IdleTick,
       IdleReread, Interrupt, UserStep, Clone, JoinSleep, ExitStop, ExitGroup, CloneStep, CloneBusy,
       CloneNoCpu, CloneFound, CloneCreate, CloneNoSlot, CloneRun, CloneIpi, CloneReturn, ExitStep,
       ExitDestroy, ExitFini, ExitSleep, ExitSwitch, ExitWake, ExitGroupScan, JoinTick
  <2> QED BY <2>1
<1> QED BY <1>1, <1>2

\* On two cores no thread is published and none is about to be while a task
\* notifies its exit.
LEMMA ExitsAlone ==
  ASSUME NumCores <= 2, OneInv, NEW c \in Cpus, ExitNotify(c)
  PROVE  pc[0] # "clone_run" /\ \A d \in Cpus : TaskOf(d) \notin Words
<1>1. pc[c] = "exit_notify" /\ tiTask[c] = NoSlot /\ lockCpu[c] = c
  BY Zenon DEF ExitNotify, Goto, OneInv, IInv, CpuOK, Exits
<1>2. Main \notin Words /\ NULL \notin Words
  BY ThreadsAssumption
<1>3. TaskOf(0) \notin Words /\ TaskOf(c) \notin Words
  BY <1>1, <1>2, Zenon DEF OneInv, Leads, TaskOf
<1>4. CASE c = 0
  <2>1. \A d \in Cpus \ {0} : tiTask[d] = NoSlot
    BY <1>1, <1>4 DEF OneInv, Child
  <2> QED BY <1>1, <1>2, <1>3, <1>4, <2>1 DEF TaskOf
<1>5. CASE c # 0
  <2>1. \A d \in Cpus : d = 0 \/ d = c
    BY <1>5, ThreadsAssumption DEF Cpus
  <2>2. pc[0] = "clone_run" => loc[0].tgt \in Cpus /\ loc[0].tgt # 0 /\ lockCpu[loc[0].tgt] = 0
    BY CpuFacts, Zenon DEF OneInv, Leads, IInv, CpuOK, Fills
  <2> QED BY <1>1, <1>3, <1>5, <2>1, <2>2
<1> QED BY <1>4, <1>5

\* Every step keeps the words of the threads.
LEMMA TwoWords ==
  ASSUME NumCores <= 2, OneInv, WordsSet, NEW c \in Cpus, Any(c)
  PROVE  WordsSet'
<1>1. CASE ExitNotify(c)
  <2>1. pc[0] # "clone_run" /\ \A d \in Cpus : TaskOf(d) \notin Words
    BY <1>1, ExitsAlone
  <2>2. pc'[0] # "clone_run" /\ UNCHANGED <<slot, tiTask>>
    BY <1>1, <2>1, CpuFacts, OneTypes, Zenon DEF ExitNotify, Goto
  <2> QED BY <2>1, <2>2, Zenon DEF WordsSet, TaskOf
<1>2. CASE ~ExitNotify(c)
  <2>1. pc'[0] = "clone_run" => word'[loc'[0].w]
    <3>1. CASE CloneFill(0)
      <4>1. loc[0].w \in Words /\ loc' = loc
        BY <3>1, CpuFacts DEF CloneFill, Goto, OneInv, IInv, CpuOK, Scans, Fills
      <4> QED BY <3>1, <4>1, OneTypes DEF CloneFill
    <3>2. CASE pc[0] = "clone_run" /\ loc'[0] = loc[0]
      <4>1. loc[0].w \in Words
        BY <3>2, CpuFacts, Zenon DEF OneInv, IInv, CpuOK, Scans, Fills
      <4> QED BY <1>2, <3>2, <4>1, WordKept DEF WordsSet
    <3>3. CASE CloneRun(0) \/ CloneIpi(0)
      BY <3>3, CpuFacts, OneTypes, Zenon DEF CloneRun, CloneIpi, Goto
    <3> QED BY <3>1, <3>2, <3>3, EndOfClone
  <2>2. ASSUME NEW d \in Cpus, TaskOf(d)' \in Words PROVE word'[TaskOf(d)']
    <3>1. CASE ~CloneRun(c)
      <4>1. TaskOf(d)' = TaskOf(d)
        BY <2>2, <3>1, TaskKept
      <4> QED BY <1>2, <2>2, <4>1, WordKept, Zenon DEF WordsSet
    <3>2. CASE CloneRun(c)
      <4>1. pc[c] = "clone_run" /\ word' = word /\ slot' = slot
        BY <3>2 DEF CloneRun, Goto
      <4>2. c = 0
        BY <4>1, CloneOnZero DEF Clones, Scans, Fills
      <4>3. tiTask' = [tiTask EXCEPT ![loc[0].tgt] = loc[0].ti]
        BY <3>2, <4>2 DEF CloneRun
      <4>4. slot[loc[0].ti].tid = loc[0].w /\ loc[0].ti \in Slots
        BY <4>1, <4>2, Zenon DEF OneInv, IInv, CpuOK, Fills, Holds
      <4>5. CASE d = loc[0].tgt
        <5>1. TaskOf(d)' = loc[0].w
          BY <4>1, <4>3, <4>4, <4>5, CpuFacts, OneTypes, Zenon DEF TaskOf
        <5> QED BY <4>1, <4>2, <5>1 DEF WordsSet
      <4>6. CASE d # loc[0].tgt
        <5>1. TaskOf(d)' = TaskOf(d)
          BY <4>1, <4>3, <4>6, OneTypes DEF TaskOf
        <5> QED BY <2>2, <4>1, <5>1, Zenon DEF WordsSet
      <4> QED BY <4>5, <4>6
    <3> QED BY <3>1, <3>2
  <2> QED BY <2>1, <2>2, Zenon DEF WordsSet
<1> QED BY <1>1, <1>2

\* What another CPU does between the publication of a thread and the end of
\* the clone: a boot takes an entry, and an exit frees one, but does not
\* wipe it.
LEMMA TwoOther ==
  ASSUME OneInv, EntryKept, NEW c \in Cpus \ {0}, Any(c), NumCores <= 2,
         pc[0] \in {"clone_ipi", "clone_return"}
  PROVE  /\ slot'[loc[0].ti].tid = slot[loc[0].ti].tid
         /\ pc'[loc[0].tgt] \notin Boots
<1>1. loc[0].tgt = c /\ loc[0].ti \in Slots
  BY ThreadsAssumption DEF EntryKept, Cpus
<1>2. c \in Cpus
  OBVIOUS
<1>3. pc[c] \in ChildPcs
  BY DEF OneInv, Child
<1>4. pc'[c] \notin Boots
  <2>1. CASE Boot(c) \/ IdleStep(c) \/ UserStep(c) \/ Interrupt(c)
    BY <1>2, <1>3, <2>1, OneTypes DEF Boot, InitMain, InitIdle, Switch, IdleStep, IdleTop,
       IdleWake, IdleTick, IdleReread, UserStep, Clone, JoinSleep, ExitStop, ExitGroup, Interrupt, Goto,
       Boots, ChildPcs
  <2>2. CASE CloneStep(c)
    BY <1>2, <2>2, OneTypes DEF CloneStep, CloneBusy, CloneNoCpu, CloneFound,
       CloneCreate, CloneNoSlot, CloneFill, CloneRun, CloneIpi, CloneReturn, Goto, Back, Boots
  <2>3. CASE ExitStep(c) /\ ~ExitWake(c)
    BY <1>2, <2>3, ExitToIdle, OneTypes DEF ExitStep, ExitDestroy, ExitFini, ExitSleep,
       ExitNotify, ExitGroupScan, JoinTick, Goto, Back, Boots
  <2>4. CASE ExitWake(c)
    BY <1>2, <2>4, Zenon DEF ExitWake, Boots
  <2> QED BY <2>1, <2>2, <2>3, <2>4 DEF Any, Step, ExitStep
<1>5. slot'[loc[0].ti].tid = slot[loc[0].ti].tid
  <2>1. CASE InitIdle(c)
    <3>1. tiTask[c] = loc[0].ti /\ slot[loc[0].ti].avail
      <4>1. pc[c] \in Boots
        BY <2>1 DEF InitIdle, Goto, Boots
      <4>2. tiTask[c] = loc[0].ti
        BY <1>1, <4>1, Zenon DEF EntryKept
      <4>3. loc[0].ti # NoSlot
        BY <1>1, CpuFacts
      <4> QED BY <1>2, <4>2, <4>3, TaskEntry DEF OneInv
    <3>2. slot' = Created(Idle) /\ FreeSlots # {} /\ Idle \in Tids
      BY <2>1 DEF InitIdle, Tids
    <3> QED BY <1>1, <3>1, <3>2, NewEntry DEF OneInv
  <2>2. CASE ExitDestroy(c)
    BY <1>1, <2>2, OneTypes DEF ExitDestroy, Slot
  <2>3. CASE ~InitIdle(c) /\ ~ExitDestroy(c)
    <3>1. ~InitMain(c) /\ ~CloneCreate(c) /\ ~CloneFill(c)
      BY <1>3 DEF InitMain, CloneCreate, CloneFill, Goto, ChildPcs, Clones, Scans, Fills
    <3>2. UNCHANGED slot
      BY <2>3, <3>1, Zenon DEF Any, Step, Boot, Switch, IdleStep, IdleTop, IdleWake, IdleTick, IdleReread,
         Interrupt, UserStep, Clone, JoinSleep, ExitStop, ExitGroup, CloneStep, CloneBusy, CloneNoCpu,
         CloneFound, CloneNoSlot, CloneRun, CloneIpi, CloneReturn, ExitStep, ExitFini, ExitSleep,
         ExitNotify, ExitSwitch, ExitWake, ExitGroupScan, JoinTick
    <3> QED BY <3>2
  <2> QED BY <2>1, <2>2, <2>3, Zenon
<1> QED BY <1>1, <1>4, <1>5, Zenon

\* Every step keeps the entry that clone reads at its end.
LEMMA TwoEntry ==
  ASSUME NumCores <= 2, OneInv, EntryKept, NEW c \in Cpus, Any(c)
  PROVE  EntryKept'
<1> SUFFICES ASSUME pc'[0] \in {"clone_ipi", "clone_return"} PROVE EntryKept'
  BY DEF EntryKept
<1>1. CASE CloneRun(0)
  <2>1. pc[0] = "clone_run" /\ UNCHANGED <<slot, loc>> /\ tiTask' = [tiTask EXCEPT ![loc[0].tgt] = loc[0].ti]
    BY <1>1 DEF CloneRun, Goto
  <2>2. /\ loc[0].ti \in Slots /\ slot[loc[0].ti].tid = loc[0].w
        /\ loc[0].tgt \in Cpus \ {0}
    BY <2>1, CpuFacts, Zenon DEF OneInv, Leads, IInv, CpuOK, Fills, Holds
  <2> QED BY <2>1, <2>2, OneTypes, Zenon DEF EntryKept
<1>2. CASE CloneIpi(0)
  <2>1. /\ pc[0] = "clone_ipi" /\ UNCHANGED <<slot, loc, tiTask>>
        /\ \A d \in Cpus \ {0} : pc'[d] = pc[d]
    BY <1>2, OneTypes, Zenon DEF CloneIpi, Goto
  <2> QED BY <2>1 DEF EntryKept
<1>3. CASE CloneFill(0)
  BY <1>3, CpuFacts, OneTypes DEF CloneFill, Goto
<1>4. CASE c # 0 /\ pc'[0] = pc[0] /\ loc'[0] = loc[0]
  BY <1>4, TwoOther, Zenon DEF EntryKept
<1> QED BY <1>1, <1>2, <1>3, <1>4, EndOfClone

\* The inductive invariant of two cores.
THEOREM TwoCoresInvariant ==
  ASSUME NumCores <= 2
  PROVE  Spec => []TwoInv
<1>0. OneCreator
  BY DEF OneCreator
<1>1. Init => TwoInv
  <2>1. Init => WordsSet /\ EntryKept
    <3>1. Init => pc[0] = "init_main" /\ \A c \in Cpus : TaskOf(c) = NULL
      BY CpuFacts DEF Init, TaskOf
    <3> QED BY <3>1, ThreadsAssumption DEF WordsSet, EntryKept
  <2> QED BY <2>1, OneInit DEF TwoInv
<1>2. TwoInv /\ [Next]_vars => TwoInv'
  <2> SUFFICES ASSUME TwoInv, [Next]_vars PROVE TwoInv'
    OBVIOUS
  <2>1. OneInv'
    BY <1>0, OneNext DEF TwoInv
  <2>2. CASE Next
    <3>1. PICK c \in Cpus : Any(c)
      BY <2>2 DEF Next, Any
    <3> QED BY <2>1, <3>1, TwoWords, TwoEntry DEF TwoInv
  <2>3. CASE UNCHANGED vars
    BY <2>1, <2>3, Zenon DEF TwoInv, vars, WordsSet, EntryKept, TaskOf
  <2> QED BY <2>2, <2>3
<1> QED BY <1>1, <1>2, PTL DEF Spec

\* On two cores the word that a thread is joined on stays set until that
\* thread exits.
THEOREM TwoCoresWord ==
  ASSUME NumCores <= 2
  PROVE  Spec => []WordSetUntilExit
<1>1. TwoInv => WordSetUntilExit
  BY Zenon DEF TwoInv, WordsSet, OneInv, Placed, WordSetUntilExit, Live
<1> QED BY <1>1, TwoCoresInvariant, PTL

\* On two cores k_thread_clone returns the tid of its own thread, although
\* it reads the entry after it has let go of it.
THEOREM TwoCoresTid ==
  ASSUME NumCores <= 2
  PROVE  Spec => []CloneReturnsOwnTid
<1>1. TwoInv => CloneReturnsOwnTid
  <2> SUFFICES ASSUME TwoInv, NEW c \in Cpus, pc[c] = "clone_return" PROVE CloneResult(c) = loc[c].w
    BY DEF CloneReturnsOwnTid
  <2>1. c = 0
    BY CloneOnZero DEF TwoInv, Clones
  <2> QED BY <2>1 DEF TwoInv, EntryKept, CloneResult
<1> QED BY <1>1, TwoCoresInvariant, PTL
=============================================================================
