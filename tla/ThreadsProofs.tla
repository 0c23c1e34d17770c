---------------------------- MODULE ThreadsProofs ---------------------------
(***************************************************************************)
(* Proofs about Threads, for any number of cores and any program.  A       *)
(* thread runs on one CPU at a time even when clones race (IInv).  What    *)
(* needs more than that is in OneCreatorProofs.                            *)
(***************************************************************************)
EXTENDS Threads, WellFoundedInduction, TLAPS

Tasks == Words \cup {Main}
Tids == Tasks \cup {Idle, NULL}
ThrStates == {"none", "cloning", "ready", "runs", "exits", "gone"}

\* Where a CPU can be: in k_thread_clone up to the publication of the new
\* thread, and beyond it; with a new entry of k_ti that is not published;
\* in an exit that holds the lock of its CPU; in an idle thread.
Fills == {"clone_fill", "clone_run"}
Scans == {"clone_scan", "clone_create"} \cup Fills
Clones == Scans \cup {"clone_ipi", "clone_return"}
Exits == {"exit_destroy", "exit_fini", "exit_sleep", "exit_notify", "exit_switch",
          "exit_switch_wake"}
Boots == {"init_main", "init_idle"}
Idles == {"idle", "wfi", "reread", "stopped", "exit_wake"}
Users == {"user", "join", "exit_group", "exit"}
Pcs == Boots \cup {"switch"} \cup Idles \cup Users \cup Clones \cup Exits

Slot == [avail : BOOLEAN, tid : Tids, clear : BOOLEAN, ctid : Words \cup {NULL}]
Loc == [w : Words \cup {NULL}, tgt : Nat, ti : Slots \cup {NoSlot}]

TypeOK ==
  /\ slot \in [Slots -> Slot]
  /\ leader \in Slots \cup {NoSlot}
  /\ tiTask \in [Cpus -> Slots \cup {NoSlot}]
  /\ tiIdle \in [Cpus -> Slots \cup {NoSlot}]
  /\ run \in [Cpus -> Tids]
  /\ running \in [Cpus -> BOOLEAN]
  /\ msip \in [Cpus -> BOOLEAN]
  /\ lockCpu \in [Cpus -> Cpus \cup {NoCpu}]
  /\ lockSmp \in Cpus \cup {NoCpu}
  /\ pc \in [Cpus -> Pcs]
  /\ loc \in [Cpus -> Loc]
  /\ word \in [Words -> BOOLEAN]
  /\ done \in BOOLEAN
  /\ thr \in [Words -> ThrStates]

\* CPU c has an entry of k_ti in its hands that no CPU has as its task.
Holds(c) == pc[c] \in Fills \cup {"exit_destroy"}

\* What the place of CPU c says about its thread, its task, its locals and
\* the locks it holds.
CpuOK(c) ==
  /\ pc[c] \in Boots => run[c] = NULL
  /\ pc[c] = "switch" => run[c] \in {NULL, Idle}
  /\ pc[c] \in Idles => run[c] = Idle
  /\ pc[c] \in Users \cup Clones \cup Exits => run[c] \in Tasks
  /\ pc[c] \in Users \cup Clones => tiTask[c] # NoSlot
  /\ pc[c] \in Scans => loc[c].w \in Words /\ thr[loc[c].w] = "cloning"
  /\ pc[c] \in Fills \cup {"clone_create", "clone_ipi"} => loc[c].tgt \in Cpus
  /\ pc[c] \in Fills \cup {"clone_ipi"} => lockCpu[loc[c].tgt] = c
  /\ pc[c] \in Fills => slot[loc[c].ti].tid = loc[c].w
  /\ pc[c] \in Exits => lockCpu[c] = c /\ tiTask[c] = NoSlot
  /\ Holds(c) => /\ loc[c].ti \in Slots
                 /\ slot[loc[c].ti].avail
                 /\ loc[c].ti # tiTask[c]
  /\ tiTask[c] # NoSlot => slot[tiTask[c]].avail /\ slot[tiTask[c]].tid \in Tasks

\* Two CPUs have no entry, no word of a clone and no thread in common.
Apart(c, d) ==
  /\ tiTask[c] # NoSlot => tiTask[c] # tiTask[d]
  /\ Holds(c) => loc[c].ti # tiTask[d] /\ (Holds(d) => loc[c].ti # loc[d].ti)
  /\ pc[c] \in Scans /\ pc[d] \in Scans => loc[c].w # loc[d].w
  /\ TaskOf(c) \in Words => TaskOf(c) # TaskOf(d) /\ TaskOf(c) # run[d]
  /\ run[c] \in Words => run[c] # run[d]

\* A thread that is not published is nowhere.
NotYet(w) == thr[w] \in {"none", "cloning"} => \A c \in Cpus : run[c] # w /\ TaskOf(c) # w

\* The inductive invariant of all programs.
IInv ==
  /\ TypeOK
  /\ \A c \in Cpus : CpuOK(c)
  /\ \A c \in Cpus : \A d \in Cpus \ {c} : Apart(c, d)
  /\ \A w \in Words : NotYet(w)
-----------------------------------------------------------------------------
\* A nonempty set of numbers has a least one.
LEMMA LeastNat ==
  ASSUME NEW T \in SUBSET Nat, T # {}
  PROVE  \E x \in T : \A y \in T : x <= y
<1>1. PICK x \in T : \A y \in T : ~(<<y, x>> \in OpToRel(<, Nat))
  BY NatLessThanWellFounded, WFMin, Zenon
<1>2. \A y \in T : ~(y < x)
  BY <1>1, Zenon DEF OpToRel
<1> QED BY <1>2

\* k_thread_create finds an entry that is free.
LEMMA FirstFree ==
  ASSUME FreeSlots # {}
  PROVE  Min(FreeSlots) \in Slots /\ ~slot[Min(FreeSlots)].avail
<1>1. FreeSlots \in SUBSET Nat
  BY DEF FreeSlots, Slots
<1>2. PICK x \in FreeSlots : \A y \in FreeSlots : x <= y
  BY <1>1, LeastNat
<1>3. Min(FreeSlots) \in FreeSlots
  BY <1>2 DEF Min
<1> QED BY <1>3 DEF FreeSlots

\* CPU 0 exists, and the marks for no CPU and no entry are none.
LEMMA CpuFacts == 0 \in Cpus /\ NoCpu \notin Cpus /\ NoSlot \notin Slots /\ Cpus \subseteq Nat
  BY ThreadsAssumption DEF Cpus, Slots, NoCpu, NoSlot

\* What k_thread_clone stores in an entry keeps it an entry.
LEMMA SlotFilled ==
  ASSUME NEW r \in Slot, NEW w \in Words \cup {NULL}
  PROVE  [r EXCEPT !.clear = TRUE, !.ctid = w] \in Slot
  BY Zenon DEF Slot

\* The types hold when k_cpu_wakeup_all is over.
LEMMA InitType == Init => TypeOK
<1> SUFFICES ASSUME Init PROVE TypeOK
  OBVIOUS
<1>1. [avail |-> FALSE, tid |-> NULL, clear |-> FALSE, ctid |-> NULL] \in Slot
  BY DEF Slot, Tids
<1>2. NoLoc \in Loc
  BY DEF Loc, NoLoc
<1> QED BY <1>1, <1>2, CpuFacts, Zenon DEF Init, TypeOK, Tids, Pcs, Boots, ThrStates

\* A local of a CPU, or an entry, with a new value in one field.
LEMMA LocUpdated ==
  ASSUME loc \in [Cpus -> Loc], NEW c \in Cpus
  PROVE  /\ \A n \in Nat : [loc EXCEPT ![c].tgt = n] \in [Cpus -> Loc]
         /\ \A w \in Words : [loc EXCEPT ![c].w = w] \in [Cpus -> Loc]
         /\ \A s \in Slots : [loc EXCEPT ![c].ti = s] \in [Cpus -> Loc]
BY DEF Loc

\* An entry that is free again.
LEMMA SlotFreed ==
  ASSUME slot \in [Slots -> Slot], NEW s
  PROVE  [slot EXCEPT ![s].avail = FALSE] \in [Slots -> Slot]
BY Zenon DEF Slot

\* The types of the tables, which most steps need and nothing else of the
\* invariant.
LEMMA Types ==
  ASSUME IInv
  PROVE  /\ TypeOK
         /\ pc \in [Cpus -> Pcs] /\ loc \in [Cpus -> Loc] /\ run \in [Cpus -> Tids]
         /\ slot \in [Slots -> Slot] /\ thr \in [Words -> ThrStates]
         /\ lockCpu \in [Cpus -> Cpus \cup {NoCpu}] /\ word \in [Words -> BOOLEAN]
         /\ tiTask \in [Cpus -> Slots \cup {NoSlot}] /\ tiIdle \in [Cpus -> Slots \cup {NoSlot}]
BY Zenon DEF IInv, TypeOK

\* The boot and the switch of an idle thread keep the types.
LEMMA TypeBoot ==
  ASSUME TypeOK, NEW c \in Cpus, Boot(c)
  PROVE  TypeOK'
<1> USE DEF TypeOK
<1>1. CASE InitMain(c)
  <2>1. Min(FreeSlots) \in Slots
    BY <1>1, FirstFree DEF InitMain
  <2>2. Created(Main) \in [Slots -> Slot]
    BY <2>1 DEF Created, Slot, Tids, Tasks
  <2> QED BY <1>1, <2>1, <2>2 DEF InitMain, Goto, Pcs, Boots
<1>2. CASE InitIdle(c)
  <2>1. Min(FreeSlots) \in Slots
    BY <1>2, FirstFree DEF InitIdle
  <2>2. Created(Idle) \in [Slots -> Slot]
    BY <2>1 DEF Created, Slot, Tids, Tasks
  <2> QED BY <1>2, <2>1, <2>2 DEF InitIdle, Goto, Pcs
<1>3. CASE Switch(c)
  <2>1. Picks(c) \in Tids
    BY DEF Picks, Tids, Slot
  <2> QED BY <1>3, <2>1 DEF Switch, Goto, Pcs, Idles, Users, ThrStates
<1> QED BY <1>1, <1>2, <1>3 DEF Boot

\* The steps of k_thread_clone keep the types.
LEMMA TypeClone ==
  ASSUME TypeOK, NEW c \in Cpus, CloneStep(c) \/ Clone(c)
  PROVE  TypeOK'
<1>0. NoLoc \in Loc
  BY DEF Loc, NoLoc
<1>t. loc \in [Cpus -> Loc]
  BY Zenon DEF TypeOK
<1>u. /\ \A n \in Nat : [loc EXCEPT ![c].tgt = n] \in [Cpus -> Loc]
      /\ \A w \in Words : [loc EXCEPT ![c].w = w] \in [Cpus -> Loc]
      /\ \A s \in Slots : [loc EXCEPT ![c].ti = s] \in [Cpus -> Loc]
  BY <1>t, LocUpdated
<1>v. loc[c].tgt + 1 \in Nat
  BY <1>t DEF Loc
<1> USE DEF TypeOK, Goto, Back, Pcs, Clones, Scans, Fills, Users, ThrStates
<1>1. CASE Clone(c)
  BY <1>1, <1>u DEF Clone
<1>2. CASE CloneBusy(c)
  <2> DEFINE n == loc[c].tgt + 1
  <2>2. loc' = [loc EXCEPT ![c].tgt = n]
    BY <1>2, Zenon DEF CloneBusy
  <2>3. loc' \in [Cpus -> Loc]
    BY <1>u, <1>v, <2>2, Zenon
  <2> QED BY <1>2, <2>3, Zenon DEF CloneBusy
<1>3. CASE CloneNoCpu(c)
  BY <1>0, <1>3, Zenon DEF CloneNoCpu
<1>4. CASE CloneFound(c)
  BY <1>4 DEF CloneFound
<1>5. CASE CloneCreate(c)
  <2>1. Min(FreeSlots) \in Slots
    BY <1>5, FirstFree DEF CloneCreate
  <2>2. Created(loc[c].w) \in [Slots -> Slot]
    BY <2>1 DEF Created, Slot, Tids, Tasks, Loc
  <2>3. [loc EXCEPT ![c].ti = Min(FreeSlots)] \in [Cpus -> Loc]
    BY <1>u, <2>1, Zenon
  <2> QED BY <1>5, <2>2, <2>3, Zenon DEF CloneCreate
<1>6. CASE CloneNoSlot(c)
  BY <1>0, <1>6, Zenon DEF CloneNoSlot
<1>7. CASE CloneFill(c)
  <2>1. loc[c].w \in Words \cup {NULL}
    BY DEF Loc
  <2>2. ASSUME NEW s \in Slots
        PROVE  [slot[s] EXCEPT !.clear = TRUE, !.ctid = loc[c].w] \in Slot
    <3>1. slot[s] \in Slot
      OBVIOUS
    <3> QED BY <2>1, <3>1, SlotFilled, Zenon
  <2>3. slot' \in [Slots -> Slot]
    BY <1>7, <2>2, Zenon DEF CloneFill
  <2> QED BY <1>7, <2>3, Zenon DEF CloneFill
<1>8. CASE CloneRun(c)
  <2>1. loc[c].ti \in Slots \cup {NoSlot}
    BY DEF Loc
  <2> QED BY <1>8, <2>1, Zenon DEF CloneRun
<1>9. CASE CloneIpi(c)
  BY <1>9, Zenon DEF CloneIpi
<1>10. CASE CloneReturn(c)
  BY <1>0, <1>10 DEF CloneReturn
<1> QED BY <1>1, <1>2, <1>3, <1>4, <1>5, <1>6, <1>7, <1>8, <1>9, <1>10 DEF CloneStep

\* The idle loop and interrupts keep the types.
LEMMA TypeIdle ==
  ASSUME TypeOK, NEW c \in Cpus, IdleStep(c) \/ Interrupt(c)
  PROVE  TypeOK'
  BY Zenon DEF TypeOK, Goto, Pcs, Idles, IdleStep, Interrupt, IdleTop, IdleWake, IdleTick, IdleReread

\* The exits, the joins and the user's calls keep the types.
LEMMA TypeExit ==
  ASSUME TypeOK, NEW c \in Cpus, ExitStep(c) \/ JoinSleep(c) \/ ExitStop(c) \/ ExitGroup(c)
  PROVE  TypeOK'
<1>0. NoLoc \in Loc
  BY DEF Loc, NoLoc
<1>t. loc \in [Cpus -> Loc] /\ slot \in [Slots -> Slot]
  BY Zenon DEF TypeOK
<1>1. \A n \in Nat : [loc EXCEPT ![c].tgt = n] \in [Cpus -> Loc]
  BY <1>t, LocUpdated
<1>2. \A w \in Words : [loc EXCEPT ![c].w = w] \in [Cpus -> Loc]
  BY <1>t, LocUpdated
<1>3. loc[c].tgt \in Nat /\ NumCores \in Nat
  BY <1>t, ThreadsAssumption DEF Loc
<1>s. [slot EXCEPT ![loc[c].ti].avail = FALSE] \in [Slots -> Slot]
  BY <1>t, SlotFreed
<1> USE DEF TypeOK, Goto, Back, Pcs, Exits, Users, Idles, ThrStates
<1>4. CASE ExitDestroy(c)
  BY <1>4, <1>s DEF ExitDestroy
<1>5. CASE ExitFini(c)
  BY <1>1, <1>5, Zenon DEF ExitFini
<1>6. CASE ExitSleep(c)
  <2> DEFINE n == IF loc[c].tgt < NumCores THEN loc[c].tgt + 1 ELSE 0
  <2>1. n \in Nat
    BY <1>3
  <2>2. loc' = [loc EXCEPT ![c].tgt = n]
    BY <1>6 DEF ExitSleep
  <2> HIDE DEF n
  <2>3. loc' \in [Cpus -> Loc]
    BY <1>1, <2>1, <2>2
  <2> QED BY <1>6, <2>3, Zenon DEF ExitSleep
<1>7. CASE ExitNotify(c)
  BY <1>7 DEF ExitNotify
<1>8. CASE ExitSwitch(c)
  <2>1. Picks(c) \in Tids
    BY DEF Picks, Tids, Slot
  <2> QED BY <1>0, <1>8, <2>1 DEF ExitSwitch
<1>9. CASE ExitWake(c)
  BY <1>0, <1>9 DEF ExitWake
<1>10. CASE ExitGroupScan(c)
  <2> DEFINE n == loc[c].tgt + 1
  <2>1. n \in Nat
    BY <1>3
  <2>2. loc' = [loc EXCEPT ![c].tgt = n]
    BY <1>10 DEF ExitGroupScan
  <2> HIDE DEF n
  <2>3. loc' \in [Cpus -> Loc]
    BY <1>1, <2>1, <2>2
  <2> QED BY <1>10, <2>3 DEF ExitGroupScan
<1>11. CASE JoinTick(c)
  BY <1>0, <1>11 DEF JoinTick
<1>12. CASE JoinSleep(c)
  BY <1>2, <1>12 DEF JoinSleep
<1>13. CASE ExitStop(c)
  <2>1. [NoLoc EXCEPT !.ti = tiTask[c]] \in Loc
    BY DEF NoLoc, Loc
  <2> QED BY <1>13, <2>1 DEF ExitStop
<1>14. CASE ExitGroup(c)
  BY <1>1, <1>14, Zenon DEF ExitGroup
<1> QED BY <1>4, <1>5, <1>6, <1>7, <1>8, <1>9, <1>10, <1>11, <1>12, <1>13, <1>14 DEF ExitStep

\* The invariant holds when k_cpu_wakeup_all is over.
LEMMA InitInv == Init => IInv
<1> SUFFICES ASSUME Init PROVE IInv
  OBVIOUS
<1>1. TypeOK
  BY InitType
<1>2. ASSUME NEW c \in Cpus
      PROVE  pc[c] \in Boots /\ run[c] = NULL /\ tiTask[c] = NoSlot /\ TaskOf(c) = NULL
  BY <1>2 DEF Init, Boots, TaskOf
<1>3. NULL \notin Words
  BY ThreadsAssumption
<1>4. ASSUME NEW c \in Cpus PROVE CpuOK(c)
  BY <1>2, <1>4 DEF CpuOK, Holds, Boots, Idles, Users, Clones, Scans, Fills, Exits
<1>5. ASSUME NEW c \in Cpus, NEW d \in Cpus \ {c} PROVE Apart(c, d)
  BY <1>2, <1>3, <1>5 DEF Apart, Holds, Boots, Scans, Fills
<1>6. ASSUME NEW w \in Words PROVE NotYet(w)
  BY <1>2, <1>3, <1>6 DEF NotYet
<1> QED BY <1>1, <1>4, <1>5, <1>6 DEF IInv

\* A step of CPU c that leaves the threads alone: it moves between places,
\* may give locks back, and another CPU at most returns from its join.
LEMMA LocalStep ==
  ASSUME IInv, TypeOK', NEW c \in Cpus, UNCHANGED <<slot, tiTask, run, thr>>,
         \A d \in Cpus \ {c} : \/ pc'[d] = pc[d] /\ loc'[d] = loc[d]
                               \/ pc[d] = "join" /\ pc'[d] = "user",
         \A d \in Cpus : lockCpu[d] # c => lockCpu'[d] = lockCpu[d],
         pc'[c] \in Scans => pc[c] \in Scans /\ loc'[c].w = loc[c].w,
         Holds(c)' => Holds(c) /\ loc'[c].ti = loc[c].ti,
         CpuOK(c)'
  PROVE  IInv'
<1>1. \A d \in Cpus : TaskOf(d)' = TaskOf(d)
  BY DEF TaskOf
<1>2. ASSUME NEW d \in Cpus \ {c} PROVE CpuOK(d)'
  <2>1. CpuOK(d) /\ d # c
    BY Zenon DEF IInv
  <2>2. \A e \in Cpus : lockCpu[e] = d => lockCpu'[e] = d
    BY <2>1, Zenon
  <2>3. CASE pc'[d] = pc[d] /\ loc'[d] = loc[d]
    <3>1. /\ pc[d] \in Fills \cup {"clone_ipi"} => lockCpu'[loc[d].tgt] = d
          /\ pc[d] \in Exits => lockCpu'[d] = d
      BY <2>1, <2>2, Zenon DEF CpuOK
    <3> QED BY <2>1, <2>3, <3>1 DEF CpuOK, Holds
  <2>4. CASE pc[d] = "join" /\ pc'[d] = "user"
    <3>1. /\ "join" \in Users /\ "user" \in Users /\ "user" # "switch" /\ "user" # "clone_ipi"
          /\ "user" \notin Boots /\ "user" \notin Idles /\ "user" \notin Scans /\ "user" \notin Exits
          /\ "user" \notin Fills /\ "user" # "clone_create" /\ "user" # "exit_destroy"
      BY DEF Boots, Idles, Users, Scans, Fills, Exits
    <3> QED BY <2>1, <2>4, <3>1, Zenon DEF CpuOK, Holds
  <2> QED BY <2>3, <2>4, Zenon
<1>3. ASSUME NEW d \in Cpus
      PROVE  /\ pc'[d] \in Scans => pc[d] \in Scans /\ loc'[d].w = loc[d].w
             /\ Holds(d)' => Holds(d) /\ loc'[d].ti = loc[d].ti
  BY <1>3 DEF Holds, Scans, Fills
<1>4. ASSUME NEW d \in Cpus, NEW e \in Cpus \ {d} PROVE Apart(d, e)'
  <2>1. Apart(d, e)
    BY DEF IInv
  <2> QED BY <1>1, <1>3, <2>1, Zenon DEF Apart
<1>5. ASSUME NEW w \in Words PROVE NotYet(w)'
  BY <1>1, <1>5 DEF IInv, NotYet
<1> QED BY <1>2, <1>4, <1>5 DEF IInv

\* The idle loop and the interrupts.
LEMMA InvIdle ==
  ASSUME IInv, NEW c \in Cpus, IdleStep(c) \/ Interrupt(c)
  PROVE  IInv'
<1>1. TypeOK'
  BY TypeIdle DEF IInv
<1>2. /\ UNCHANGED <<slot, tiTask, run, thr, lockCpu, loc>>
      /\ \A d \in Cpus \ {c} : pc'[d] = pc[d]
      /\ \/ pc[c] \in Idles /\ pc'[c] \in Idles \cup {"switch"}
         \/ pc'[c] = pc[c]
  BY Types DEF IdleStep, Interrupt, IdleTop, IdleWake, IdleTick, IdleReread, Goto, Idles
<1>3. CpuOK(c)'
  BY <1>2 DEF IInv, TypeOK, CpuOK, Holds, Boots, Idles, Users, Clones, Scans, Fills, Exits
<1>4. /\ pc'[c] \in Scans => pc[c] \in Scans
      /\ Holds(c)' => Holds(c)
  BY <1>2 DEF Holds, Idles, Scans, Fills
<1> QED BY <1>1, <1>2, <1>3, <1>4, LocalStep

\* The steps of k_thread_clone that neither make nor publish a thread.
LEMMA InvCloneLocal ==
  ASSUME IInv, NEW c \in Cpus,
         CloneBusy(c) \/ CloneFound(c) \/ CloneIpi(c) \/ CloneReturn(c)
  PROVE  IInv'
<1>1. TypeOK'
  BY TypeClone DEF IInv, CloneStep
<1>2. pc[c] \in Clones /\ CpuOK(c)
  BY DEF IInv, CloneBusy, CloneFound, CloneIpi, CloneReturn, Back, Goto, Clones, Scans
<1>a. loc[c].tgt \in Nat
  BY Types DEF Loc
<1>3. /\ UNCHANGED <<slot, tiTask, run, thr>>
      /\ \A d \in Cpus \ {c} : pc'[d] = pc[d] /\ loc'[d] = loc[d]
      /\ pc'[c] \in Scans => pc[c] \in Scans /\ loc'[c].w = loc[c].w
      /\ pc'[c] \in {"clone_scan", "clone_create", "clone_return", "user"}
      /\ pc'[c] = "clone_create" => loc'[c].tgt \in Cpus
  <2> USE DEF Back, Goto, Scans
  <2>1. CASE CloneBusy(c)
    BY <2>1, Types DEF CloneBusy, Loc
  <2>2. CASE CloneFound(c)
    BY <1>a, <2>2, ThreadsAssumption, Types DEF CloneFound, Cpus
  <2>3. CASE CloneIpi(c) \/ CloneReturn(c)
    BY <2>3, Types DEF CloneIpi, CloneReturn, Fills
  <2> QED BY <2>1, <2>2, <2>3
<1>4. \A d \in Cpus : lockCpu[d] # c => lockCpu'[d] = lockCpu[d]
  BY <1>2 DEF IInv, TypeOK, CpuOK, CloneBusy, CloneFound, CloneIpi, CloneReturn, Back, Goto, Fills
<1>5. CpuOK(c)'
  BY <1>1, <1>2, <1>3, Zenon DEF TypeOK, CpuOK, Holds, Boots, Idles, Users, Clones, Scans, Fills, Exits
<1>6. ~Holds(c)'
  BY <1>3 DEF Holds, Fills
<1> QED BY <1>1, <1>3, <1>4, <1>5, <1>6, LocalStep

\* Joins, and the steps of an exit that leave the threads alone.
LEMMA InvExitLocal ==
  ASSUME IInv, NEW c \in Cpus,
         \/ JoinSleep(c) \/ JoinTick(c) \/ ExitGroup(c) \/ ExitGroupScan(c)
         \/ ExitFini(c) \/ ExitSleep(c) \/ ExitNotify(c)
  PROVE  IInv'
<1>1. TypeOK'
  BY TypeExit DEF IInv, ExitStep
<1>2. /\ UNCHANGED <<slot, tiTask, run, thr, lockCpu>>
      /\ \A d \in Cpus \ {c} : pc'[d] = pc[d] /\ loc'[d] = loc[d]
      /\ \/ pc[c] \in Users /\ pc'[c] \in Users
         \/ pc[c] \in Exits \ {"exit_destroy"} /\ pc'[c] \in Exits \ {"exit_destroy"}
  BY Types DEF Back, Goto, Users, Exits, JoinSleep, JoinTick, ExitGroup, ExitGroupScan,
         ExitFini, ExitSleep, ExitNotify
<1>3. CpuOK(c)' /\ ~Holds(c)' /\ pc'[c] \notin Scans
  BY <1>2 DEF IInv, TypeOK, CpuOK, Holds, Boots, Idles, Users, Clones, Scans, Fills, Exits
<1> QED BY <1>1, <1>2, <1>3, LocalStep, Zenon

\* The wake at the end of an exit: the CPU is on its idle thread by then.
LEMMA InvExitWake ==
  ASSUME IInv, NEW c \in Cpus, ExitWake(c)
  PROVE  IInv'
<1>1. TypeOK'
  BY TypeExit DEF IInv, ExitStep
<1>2. pc[c] = "exit_wake" /\ run[c] = Idle
  BY DEF IInv, CpuOK, ExitWake, Idles
<1>a. PICK woken \in SUBSET Cpus :
        /\ \A d \in woken : pc[d] = "join"
        /\ pc' = [d \in Cpus |-> IF d = c THEN IF run[c] = Idle THEN "idle" ELSE "user"
                                 ELSE IF d \in woken THEN "user" ELSE pc[d]]
        /\ loc' = [d \in Cpus |-> IF d = c \/ d \in woken THEN NoLoc ELSE loc[d]]
  <2> DEFINE sleepers == {d \in Cpus : pc[d] = "join" /\ loc[d].w = slot[loc[c].ti].ctid}
             woken == IF sleepers = {} THEN {} ELSE {Min(sleepers)}
  <2>1. sleepers \in SUBSET Nat /\ sleepers \subseteq Cpus
    BY CpuFacts, Zenon
  <2>2. woken \subseteq sleepers
    <3>1. CASE sleepers # {}
      <4>1. PICK x \in sleepers : \A y \in sleepers : x <= y
        BY <2>1, <3>1, LeastNat, Zenon
      <4>2. Min(sleepers) \in sleepers
        BY <4>1 DEF Min
      <4> QED BY <4>2, Zenon
    <3> QED BY <3>1
  <2>3. woken \in SUBSET Cpus /\ \A d \in woken : pc[d] = "join"
    BY <2>2
  <2> QED BY <2>3, Zenon DEF ExitWake
<1>3. /\ UNCHANGED <<slot, tiTask, run, thr, lockCpu>>
      /\ pc'[c] = "idle"
      /\ \A d \in Cpus \ {c} : \/ pc'[d] = pc[d] /\ loc'[d] = loc[d]
                               \/ pc[d] = "join" /\ pc'[d] = "user"
  BY <1>2, <1>a DEF ExitWake
<1>4. CpuOK(c)' /\ ~Holds(c)' /\ pc'[c] \notin Scans
  BY <1>2, <1>3 DEF IInv, TypeOK, CpuOK, Holds, Boots, Idles, Users, Clones, Scans, Fills, Exits
<1> QED BY <1>1, <1>3, <1>4, LocalStep

\* The entry of a task is in use, and by a task.
LEMMA TaskEntry ==
  ASSUME IInv
  PROVE  \A d \in Cpus :
           /\ tiTask[d] \in Slots \cup {NoSlot}
           /\ tiTask[d] # NoSlot => /\ tiTask[d] \in Slots /\ slot[tiTask[d]].avail
                                    /\ slot[tiTask[d]].tid \in Tasks
<1>1. \A d \in Cpus : tiTask[d] \in Slots \cup {NoSlot}
  BY Types
<1> QED BY <1>1, Zenon DEF IInv, CpuOK

\* k_thread_clone takes a word that is not in use, or gives it up.
LEMMA InvCloneWord ==
  ASSUME IInv, NEW c \in Cpus, Clone(c) \/ CloneNoCpu(c) \/ CloneNoSlot(c)
  PROVE  IInv'
<1>1. TypeOK'
  BY TypeClone DEF IInv, CloneStep
<1>2. /\ UNCHANGED <<slot, tiTask, run, lockCpu>>
      /\ \A d \in Cpus \ {c} : pc'[d] = pc[d] /\ loc'[d] = loc[d]
  BY Types DEF Back, Goto, Clone, CloneNoCpu, CloneNoSlot
<1>3. \A d \in Cpus : TaskOf(d)' = TaskOf(d)
  BY <1>2 DEF TaskOf
<1>4. PICK w \in Words :
        /\ \A v \in Words \ {w} : thr'[v] = thr[v]
        /\ thr[w] \in {"none", "cloning"} /\ thr'[w] \in {"none", "cloning"}
        /\ \A d \in Cpus \ {c} : pc[d] \in Scans => loc[d].w # w
        /\ \/ pc[c] = "user" /\ pc'[c] = "clone_scan" /\ loc'[c].w = w /\ thr'[w] = "cloning"
           \/ pc[c] \in Scans /\ pc'[c] = "user"
  <2>1. CASE Clone(c)
    <3>1. PICK w \in Words : /\ thr[w] = "none"
                             /\ thr' = [thr EXCEPT ![w] = "cloning"]
                             /\ loc' = [loc EXCEPT ![c].w = w]
      BY <2>1, Zenon DEF Clone
    <3>2. \A d \in Cpus : pc[d] \in Scans => loc[d].w # w
      BY <3>1 DEF IInv, CpuOK
    <3>3. loc'[c].w = w
      BY <3>1, Types DEF Loc
    <3> QED BY <2>1, <3>1, <3>2, <3>3, Types DEF Clone, Goto
  <2>2. CASE CloneNoCpu(c) \/ CloneNoSlot(c)
    <3>1. pc[c] \in Scans /\ pc'[c] = "user" /\ thr' = [thr EXCEPT ![loc[c].w] = "none"]
      BY <2>2, Types DEF CloneNoCpu, CloneNoSlot, Back, Goto, Scans
    <3>2. loc[c].w \in Words /\ thr[loc[c].w] = "cloning"
      BY <3>1, Zenon DEF IInv, CpuOK
    <3>3. \A d \in Cpus \ {c} : pc[d] \in Scans => loc[d].w # loc[c].w
      BY <3>1 DEF IInv, Apart
    <3> QED BY <3>1, <3>2, <3>3, Types
  <2> QED BY <2>1, <2>2
<1>5. CpuOK(c)' /\ ~Holds(c)'
  BY <1>2, <1>4, Zenon DEF IInv, TypeOK, CpuOK, Holds, Boots, Idles, Users, Clones, Scans, Fills, Exits
<1>6. ASSUME NEW d \in Cpus \ {c} PROVE CpuOK(d)'
  <2>1. CpuOK(d)
    BY DEF IInv
  <2>2. pc[d] \in Scans => thr'[loc[d].w] = "cloning"
    BY <1>4, <2>1, Zenon DEF CpuOK
  <2>3. /\ pc'[d] = pc[d] /\ loc'[d] = loc[d] /\ run'[d] = run[d] /\ tiTask'[d] = tiTask[d]
        /\ slot' = slot /\ lockCpu' = lockCpu
    BY <1>2
  <2> QED BY <2>1, <2>2, <2>3, Zenon DEF CpuOK, Holds
<1>7. ASSUME NEW d \in Cpus, NEW e \in Cpus \ {d} PROVE Apart(d, e)'
  <2>1. Apart(d, e)
    BY DEF IInv
  <2>2. Holds(d)' => Holds(d) /\ loc'[d].ti = loc[d].ti
    BY <1>2, <1>5 DEF Holds
  <2>3. Holds(e)' => Holds(e) /\ loc'[e].ti = loc[e].ti
    BY <1>2, <1>5 DEF Holds
  <2>4. pc'[d] \in Scans /\ pc'[e] \in Scans => loc'[d].w # loc'[e].w
    BY <1>2, <1>4, <2>1 DEF Apart, Scans, Fills
  <2> QED BY <1>2, <1>3, <2>1, <2>2, <2>3, <2>4, Zenon DEF Apart
<1>8. ASSUME NEW v \in Words PROVE NotYet(v)'
  BY <1>2, <1>3, <1>4, <1>8 DEF IInv, NotYet
<1> QED BY <1>1, <1>5, <1>6, <1>7, <1>8 DEF IInv

\* k_thread_create: the new entry belongs to nobody, and every entry in use
\* stays as it is.
LEMMA NewEntry ==
  ASSUME IInv, FreeSlots # {}, NEW t \in Tids, slot' = Created(t)
  PROVE  /\ Min(FreeSlots) \in Slots
         /\ slot'[Min(FreeSlots)].avail /\ slot'[Min(FreeSlots)].tid = t
         /\ \A s \in Slots : slot[s].avail => slot'[s] = slot[s] /\ s # Min(FreeSlots)
         /\ \A d \in Cpus : tiTask[d] # Min(FreeSlots) /\ (Holds(d) => loc[d].ti # Min(FreeSlots))
<1> DEFINE s0 == Min(FreeSlots)
<1>1. s0 \in Slots /\ ~slot[s0].avail
  BY FirstFree
<1>2. slot' = [slot EXCEPT ![s0] = [avail |-> TRUE, tid |-> t, clear |-> @.clear, ctid |-> NULL]]
  BY DEF Created
<1> HIDE DEF s0
<1>3. slot'[s0].avail /\ slot'[s0].tid = t
  BY <1>1, <1>2, Types
<1>4. \A s \in Slots : slot[s].avail => slot'[s] = slot[s] /\ s # s0
  BY <1>1, <1>2, Types
<1>5. \A d \in Cpus : tiTask[d] # s0 /\ (Holds(d) => loc[d].ti # s0)
  BY <1>1, CpuFacts DEF IInv, TypeOK, CpuOK
<1> QED BY <1>1, <1>3, <1>4, <1>5 DEF s0

\* The boot of CPU c: its main thread is published, its idle thread is not.
LEMMA InvInit ==
  ASSUME IInv, NEW c \in Cpus, InitMain(c) \/ InitIdle(c)
  PROVE  IInv'
<1>1. TypeOK'
  BY TypeBoot DEF IInv, Boot
<1>2. PICK t \in {Main, Idle}, s0 \in Slots :
        /\ slot'[s0].avail /\ slot'[s0].tid = t
        /\ \A s \in Slots : slot[s].avail => slot'[s] = slot[s] /\ s # s0
        /\ \A d \in Cpus : tiTask[d] # s0 /\ (Holds(d) => loc[d].ti # s0)
        /\ t = Main => tiTask' = [tiTask EXCEPT ![c] = s0]
        /\ t = Idle => tiTask' = tiTask
  <2>1. CASE InitMain(c)
    <3>1. FreeSlots # {} /\ slot' = Created(Main) /\ Main \in Tids
      BY <2>1 DEF InitMain, Tids, Tasks
    <3>2. tiTask' = [tiTask EXCEPT ![c] = Min(FreeSlots)]
      BY <2>1 DEF InitMain
    <3> QED BY <3>1, <3>2, NewEntry, ThreadsAssumption, Zenon
  <2>2. CASE InitIdle(c)
    <3>1. FreeSlots # {} /\ slot' = Created(Idle) /\ Idle \in Tids /\ tiTask' = tiTask
      BY <2>2 DEF InitIdle, Tids, Tasks
    <3> QED BY <3>1, NewEntry, ThreadsAssumption
  <2> QED BY <2>1, <2>2
<1>3. /\ UNCHANGED <<run, thr, lockCpu, loc>>
      /\ \A d \in Cpus \ {c} : pc'[d] = pc[d] /\ tiTask'[d] = tiTask[d]
      /\ pc[c] \in Boots /\ pc'[c] \in {"init_idle", "switch"}
  BY Types DEF InitMain, InitIdle, Goto, Boots
<1>4. ~Holds(c)' /\ pc'[c] \notin Scans /\ \A d \in Cpus \ {c} : Holds(d)' <=> Holds(d)
  BY <1>3 DEF Holds, Scans, Fills
<1>5. ASSUME NEW d \in Cpus \ {c} PROVE TaskOf(d)' = TaskOf(d)
  <2>1. tiTask[d] # NoSlot => tiTask[d] \in Slots /\ slot[tiTask[d]].avail
    <3>1. CpuOK(d)
      BY Zenon DEF IInv
    <3> QED BY <3>1, Types, Zenon DEF CpuOK
  <2>2. tiTask[d] # NoSlot => slot'[tiTask[d]] = slot[tiTask[d]]
    BY <1>2, <2>1, Zenon
  <2> QED BY <1>3, <2>2, Zenon DEF TaskOf
<1>6. /\ tiTask'[c] = tiTask[c] \/ tiTask'[c] = s0
      /\ TaskOf(c)' = TaskOf(c) \/ TaskOf(c)' = Main
      /\ tiTask'[c] # NoSlot => slot'[tiTask'[c]].avail /\ slot'[tiTask'[c]].tid \in Tasks
  <2>1. CASE t = Main
    BY <1>2, <2>1, CpuFacts, Types DEF TaskOf, Tasks
  <2>2. CASE t = Idle
    <3>1. tiTask'[c] = tiTask[c] /\ (tiTask[c] # NoSlot => slot'[tiTask[c]] = slot[tiTask[c]])
      BY <1>2, <2>2, TaskEntry, ThreadsAssumption, Zenon
    <3> QED BY <3>1, TaskEntry, Zenon DEF TaskOf
  <2> QED BY <2>1, <2>2
<1>7. CpuOK(c)'
  BY <1>3, <1>4, <1>6, Zenon DEF IInv, TypeOK, CpuOK, Boots, Idles, Users, Clones, Scans, Fills, Exits
<1>8. ASSUME NEW d \in Cpus \ {c} PROVE CpuOK(d)'
  <2>1. CpuOK(d)
    BY DEF IInv
  <2>2. Holds(d) => slot'[loc[d].ti] = slot[loc[d].ti]
    BY <1>2, <2>1 DEF CpuOK
  <2>3. tiTask[d] # NoSlot => slot'[tiTask[d]] = slot[tiTask[d]]
    BY <1>2, TaskEntry, Zenon
  <2> QED BY <1>3, <1>4, <2>1, <2>2, <2>3 DEF CpuOK, Holds
<1>9. ASSUME NEW d \in Cpus, NEW e \in Cpus \ {d} PROVE Apart(d, e)'
  <2>1. Apart(d, e) /\ Main \notin Words
    BY ThreadsAssumption DEF IInv
  <2>2. TaskOf(d)' \in Words => TaskOf(d)' # TaskOf(e)' /\ TaskOf(d)' # run'[e]
    BY <1>3, <1>5, <1>6, <2>1 DEF Apart
  <2>3. tiTask'[d] # NoSlot => tiTask'[d] # tiTask'[e]
    <3>1. tiTask[d] # NoSlot => tiTask[d] # tiTask[e]
      BY <2>1, Zenon DEF Apart
    <3>2. /\ \A x \in Cpus : tiTask[x] # s0 /\ (x # c => tiTask'[x] = tiTask[x])
          /\ tiTask'[c] = tiTask[c] \/ tiTask'[c] = s0
      BY <1>2, <1>3, <1>6, Zenon
    <3> QED BY <3>1, <3>2
  <2>4. Holds(d)' => loc'[d].ti # tiTask'[e] /\ (Holds(e)' => loc'[d].ti # loc'[e].ti)
    <3>1. Holds(d)' => d # c /\ Holds(d)
      BY <1>4, Zenon
    <3>2. Holds(e)' => Holds(e)
      BY <1>4, Zenon
    <3>3. Holds(d) => loc[d].ti # tiTask[e] /\ (Holds(e) => loc[d].ti # loc[e].ti)
      BY <2>1, Zenon DEF Apart
    <3>4. loc' = loc /\ (tiTask'[e] = tiTask[e] \/ tiTask'[e] = s0)
      BY <1>3, <1>6, Zenon
    <3>5. Holds(d) => loc[d].ti # s0
      BY <1>2, Zenon
    <3> QED BY <3>1, <3>2, <3>3, <3>4, <3>5, Zenon
  <2>5. pc'[d] \in Scans /\ pc'[e] \in Scans => loc'[d].w # loc'[e].w
    BY <1>3, <1>4, <2>1 DEF Apart
  <2> QED BY <1>3, <2>1, <2>2, <2>3, <2>4, <2>5, Zenon DEF Apart
<1>10. ASSUME NEW w \in Words PROVE NotYet(w)'
  <2>1. Main # w
    BY ThreadsAssumption
  <2> QED BY <1>3, <1>5, <1>6, <2>1 DEF IInv, NotYet
<1> QED BY <1>1, <1>7, <1>8, <1>9, <1>10 DEF IInv

\* k_thread_clone makes the new thread; the lock of the CPU was free.
LEMMA InvCloneCreate ==
  ASSUME IInv, NEW c \in Cpus, CloneCreate(c)
  PROVE  IInv'
<1>1. TypeOK'
  BY TypeClone DEF IInv, CloneStep
<1>2. /\ pc[c] = "clone_create" /\ pc'[c] = "clone_fill"
      /\ UNCHANGED <<tiTask, run, thr>>
      /\ \A d \in Cpus \ {c} : pc'[d] = pc[d] /\ loc'[d] = loc[d]
      /\ FreeSlots # {} /\ slot' = Created(loc[c].w)
      /\ lockCpu[loc[c].tgt] = NoCpu /\ lockCpu' = [lockCpu EXCEPT ![loc[c].tgt] = c]
  BY Types DEF CloneCreate, Goto
<1>3. loc'[c].ti = Min(FreeSlots) /\ loc'[c].w = loc[c].w /\ loc'[c].tgt = loc[c].tgt
  BY Types DEF Loc, CloneCreate
<1>4. loc[c].w \in Words /\ thr[loc[c].w] = "cloning" /\ loc[c].tgt \in Cpus
  BY <1>2 DEF IInv, CpuOK, Scans
<1>5. PICK s0 \in Slots :
        /\ loc'[c].ti = s0
        /\ slot'[s0].avail /\ slot'[s0].tid = loc[c].w
        /\ \A s \in Slots : slot[s].avail => slot'[s] = slot[s] /\ s # s0
        /\ \A d \in Cpus : tiTask[d] # s0 /\ (Holds(d) => loc[d].ti # s0)
  <2>1. loc[c].w \in Tids
    BY <1>4 DEF Tids, Tasks
  <2> QED BY <1>2, <1>3, <2>1, NewEntry
<1>6. \A d \in Cpus : lockCpu[d] # NoCpu => lockCpu'[d] = lockCpu[d]
  BY <1>2, <1>4, Types
<1>7. lockCpu'[loc'[c].tgt] = c
  BY <1>2, <1>3, <1>4, Types, Zenon
<1>8. \A d \in Cpus : TaskOf(d)' = TaskOf(d)
  BY <1>2, <1>5, TaskEntry, Zenon DEF TaskOf
<1>9. CpuOK(c)'
  <2>1. tiTask[c] # NoSlot /\ run[c] \in Tasks
    BY <1>2, Zenon DEF IInv, CpuOK, Clones, Scans
  <2>2. /\ slot'[tiTask[c]].avail /\ slot'[tiTask[c]].tid \in Tasks
        /\ loc'[c].ti \in Slots /\ loc'[c].ti # tiTask[c] /\ slot'[loc'[c].ti].avail
        /\ slot'[loc'[c].ti].tid = loc'[c].w
    BY <1>3, <1>5, <2>1, TaskEntry, Zenon
  <2>3. loc'[c].w \in Words /\ thr'[loc'[c].w] = "cloning" /\ loc'[c].tgt \in Cpus
    BY <1>2, <1>3, <1>4, Zenon
  <2> QED BY <1>2, <1>7, <2>1, <2>2, <2>3, Zenon
          DEF CpuOK, Holds, Boots, Idles, Users, Clones, Scans, Fills, Exits
<1>10. ASSUME NEW d \in Cpus \ {c} PROVE CpuOK(d)'
  <2>1. CpuOK(d)
    BY DEF IInv
  <2>2. Holds(d) => slot'[loc[d].ti] = slot[loc[d].ti]
    BY <1>5, <2>1 DEF CpuOK
  <2>3. tiTask[d] # NoSlot => slot'[tiTask[d]] = slot[tiTask[d]]
    BY <1>5, TaskEntry, Zenon
  <2>4. /\ pc[d] \in Fills \cup {"clone_ipi"} => lockCpu'[loc[d].tgt] = d
        /\ pc[d] \in Exits => lockCpu'[d] = d
    BY <1>6, <2>1, CpuFacts, Zenon DEF CpuOK
  <2>5. pc'[d] = pc[d] /\ loc'[d] = loc[d] /\ run' = run /\ tiTask' = tiTask /\ thr' = thr
    BY <1>2
  <2> QED BY <2>1, <2>2, <2>3, <2>4, <2>5, Zenon DEF CpuOK, Holds
<1>11. ASSUME NEW d \in Cpus, NEW e \in Cpus \ {d} PROVE Apart(d, e)'
  <2>1. Apart(d, e)
    BY DEF IInv
  <2>2. \A x \in Cpus \ {c} : Holds(x)' <=> Holds(x)
    BY <1>2 DEF Holds
  <2>3. Holds(d)' => loc'[d].ti # tiTask'[e] /\ (Holds(e)' => loc'[d].ti # loc'[e].ti)
    <3>1. Holds(d) => loc[d].ti # tiTask[e] /\ (Holds(e) => loc[d].ti # loc[e].ti)
      BY <2>1, Zenon DEF Apart
    <3>2. /\ tiTask' = tiTask /\ loc'[c].ti = s0 /\ \A x \in Cpus \ {c} : loc'[x] = loc[x]
          /\ \A x \in Cpus : tiTask[x] # s0 /\ (Holds(x) => loc[x].ti # s0)
      BY <1>2, <1>5, Zenon
    <3> QED BY <2>2, <3>1, <3>2
  <2>4. pc'[d] \in Scans /\ pc'[e] \in Scans => loc'[d].w # loc'[e].w
    BY <1>2, <1>3, <2>1 DEF Apart, Scans
  <2> QED BY <1>2, <1>8, <2>1, <2>3, <2>4 DEF Apart
<1>12. ASSUME NEW w \in Words PROVE NotYet(w)'
  BY <1>2, <1>8 DEF IInv, NotYet
<1> QED BY <1>1, <1>9, <1>10, <1>11, <1>12 DEF IInv

\* Flags and ctid of the new entry.
LEMMA InvCloneFill ==
  ASSUME IInv, NEW c \in Cpus, CloneFill(c)
  PROVE  IInv'
<1>1. TypeOK'
  BY TypeClone DEF IInv, CloneStep
<1>2. /\ pc[c] = "clone_fill" /\ pc'[c] = "clone_run"
      /\ UNCHANGED <<tiTask, run, thr, lockCpu, loc>>
      /\ \A d \in Cpus \ {c} : pc'[d] = pc[d]
  BY Types DEF CloneFill, Goto
<1>3. \A s \in Slots : slot'[s].avail = slot[s].avail /\ slot'[s].tid = slot[s].tid
  BY Types DEF Slot, CloneFill
<1>4. \A d \in Cpus : TaskOf(d)' = TaskOf(d) /\ (Holds(d)' <=> Holds(d))
  BY <1>2, <1>3, Types DEF TaskOf, Holds, Fills
<1>5. ASSUME NEW d \in Cpus PROVE CpuOK(d)'
  <2>1. CpuOK(d)
    BY DEF IInv
  <2>2. tiTask[d] \in Slots \cup {NoSlot}
    BY Types
  <2>3. CASE d = c
    BY <1>2, <1>3, <1>4, <2>1, <2>2, <2>3, Zenon
       DEF CpuOK, Holds, Boots, Idles, Users, Clones, Scans, Fills, Exits
  <2>4. CASE d # c
    BY <1>2, <1>3, <1>4, <2>1, <2>2, <2>4 DEF CpuOK, Holds
  <2> QED BY <2>3, <2>4
<1>6. ASSUME NEW d \in Cpus, NEW e \in Cpus \ {d} PROVE Apart(d, e)'
  <2>1. Apart(d, e)
    BY DEF IInv
  <2>2. \A x \in Cpus : pc'[x] \in Scans <=> pc[x] \in Scans
    BY <1>2 DEF Scans, Fills
  <2> QED BY <1>2, <1>4, <2>1, <2>2, Zenon DEF Apart
<1>7. ASSUME NEW w \in Words PROVE NotYet(w)'
  BY <1>2, <1>4, Zenon DEF IInv, NotYet
<1> QED BY <1>1, <1>5, <1>6, <1>7 DEF IInv

\* k_thread_run publishes the new thread, whose word nobody else has.
LEMMA InvCloneRun ==
  ASSUME IInv, NEW c \in Cpus, CloneRun(c)
  PROVE  IInv'
<1>1. TypeOK'
  BY TypeClone DEF IInv, CloneStep
<1>2. /\ pc[c] = "clone_run" /\ pc'[c] = "clone_ipi"
      /\ UNCHANGED <<slot, run, lockCpu, loc>>
      /\ \A d \in Cpus \ {c} : pc'[d] = pc[d]
      /\ tiTask' = [tiTask EXCEPT ![loc[c].tgt] = loc[c].ti]
      /\ thr' = [thr EXCEPT ![loc[c].w] = "ready"]
  BY Types DEF CloneRun, Goto
<1>3. PICK t \in Cpus, s0 \in Slots, w0 \in Words :
        t = loc[c].tgt /\ s0 = loc[c].ti /\ w0 = loc[c].w
  BY <1>2, Zenon DEF IInv, CpuOK, Holds, Fills, Scans
<1>4. /\ thr[w0] = "cloning" /\ lockCpu[t] = c
      /\ slot[s0].avail /\ slot[s0].tid = w0
      /\ \A d \in Cpus : tiTask[d] # s0 /\ run[d] # w0 /\ TaskOf(d) # w0
      /\ \A d \in Cpus \ {c} : /\ Holds(d) => loc[d].ti # s0
                               /\ pc[d] \in Scans => loc[d].w # w0
  <2>1. CpuOK(c) /\ \A d \in Cpus \ {c} : Apart(c, d)
    BY DEF IInv
  <2>2. thr[w0] = "cloning" /\ lockCpu[t] = c /\ slot[s0].avail /\ slot[s0].tid = w0
    BY <1>2, <1>3, <2>1 DEF CpuOK, Holds, Fills, Scans
  <2>3. \A d \in Cpus : tiTask[d] # s0
    BY <1>2, <1>3, <2>1 DEF CpuOK, Apart, Holds, Fills
  <2>4. \A d \in Cpus : run[d] # w0 /\ TaskOf(d) # w0
    BY <2>2 DEF IInv, NotYet
  <2>5. \A d \in Cpus \ {c} : /\ Holds(d) => loc[d].ti # s0
                              /\ pc[d] \in Scans => loc[d].w # w0
    BY <1>2, <1>3, <2>1, Zenon DEF Apart, Holds, Fills, Scans
  <2> QED BY <2>2, <2>3, <2>4, <2>5
<1>5. /\ tiTask'[t] = s0 /\ \A d \in Cpus \ {t} : tiTask'[d] = tiTask[d]
      /\ thr'[w0] = "ready" /\ \A w \in Words \ {w0} : thr'[w] = thr[w]
  <2>1. tiTask' = [tiTask EXCEPT ![t] = s0] /\ thr' = [thr EXCEPT ![w0] = "ready"]
    BY <1>2, <1>3, Zenon
  <2>2. tiTask \in [Cpus -> Slots \cup {NoSlot}] /\ thr \in [Words -> ThrStates]
    BY Types, Zenon
  <2> QED BY <2>1, <2>2
<1>6. TaskOf(t)' = w0 /\ \A d \in Cpus \ {t} : TaskOf(d)' = TaskOf(d)
  <2>1. s0 # NoSlot /\ slot' = slot
    BY <1>2, CpuFacts, Zenon
  <2>2. TaskOf(t)' = w0
    BY <1>4, <1>5, <2>1, Zenon DEF TaskOf
  <2>3. \A d \in Cpus \ {t} : TaskOf(d)' = TaskOf(d)
    BY <1>5, <2>1, Zenon DEF TaskOf
  <2> QED BY <2>2, <2>3
<1>7. ~Holds(c)' /\ pc'[c] \notin Scans /\ \A d \in Cpus \ {c} : Holds(d)' <=> Holds(d)
  BY <1>2 DEF Holds, Scans, Fills
<1>8. pc[t] \notin Exits
  BY <1>2, <1>4, Zenon DEF IInv, CpuOK, Exits
<1>9. ASSUME NEW d \in Cpus PROVE CpuOK(d)'
  <2>1. CpuOK(d)
    BY DEF IInv
  <2>2. tiTask'[d] # NoSlot => slot'[tiTask'[d]].avail /\ slot'[tiTask'[d]].tid \in Tasks
    BY <1>2, <1>4, <1>5, <2>1, Zenon DEF CpuOK, Tasks
  <2>3. pc[d] \in Users \cup Clones => tiTask'[d] # NoSlot
    BY <1>5, <2>1, CpuFacts, Zenon DEF CpuOK
  <2>4. CASE d = c
    BY <1>2, <1>3, <1>7, <2>1, <2>2, <2>3, <2>4, Zenon
       DEF CpuOK, Holds, Boots, Idles, Users, Clones, Scans, Fills, Exits
  <2>5. CASE d # c
    <3>1. pc[d] \in Scans => thr'[loc[d].w] = "cloning"
      BY <1>4, <1>5, <2>1, <2>5, Zenon DEF CpuOK
    <3>2. Holds(d) => loc[d].ti # tiTask'[d]
      <4>1. Holds(d) => loc[d].ti # tiTask[d] /\ loc[d].ti # s0
        BY <1>4, <2>1, <2>5, Zenon DEF CpuOK
      <4> QED BY <1>5, <4>1, Zenon
    <3>3. pc[d] \in Exits => tiTask'[d] = NoSlot
      BY <1>5, <1>8, <2>1, Zenon DEF CpuOK
    <3> QED BY <1>2, <1>7, <2>1, <2>2, <2>3, <2>5, <3>1, <3>2, <3>3, Zenon DEF CpuOK
  <2> QED BY <2>4, <2>5
<1>10. ASSUME NEW d \in Cpus, NEW e \in Cpus \ {d} PROVE Apart(d, e)'
  <2>1. Apart(d, e)
    BY DEF IInv
  <2>2. TaskOf(d)' \in Words => TaskOf(d)' # TaskOf(e)' /\ TaskOf(d)' # run'[e]
    <3>1. TaskOf(d) \in Words => TaskOf(d) # TaskOf(e) /\ TaskOf(d) # run[e]
      BY <2>1, Zenon DEF Apart
    <3>2. run' = run /\ \A x \in Cpus : run[x] # w0 /\ TaskOf(x) # w0
      BY <1>2, <1>4, Zenon
    <3> QED BY <1>6, <3>1, <3>2
  <2>3. tiTask'[d] # NoSlot => tiTask'[d] # tiTask'[e]
    <3>1. tiTask[d] # NoSlot => tiTask[d] # tiTask[e]
      BY <2>1, Zenon DEF Apart
    <3>2. \A x \in Cpus : tiTask[x] # s0
      BY <1>4, Zenon
    <3> QED BY <1>5, <3>1, <3>2
  <2>4. Holds(d)' => loc'[d].ti # tiTask'[e] /\ (Holds(e)' => loc'[d].ti # loc'[e].ti)
    <3>1. Holds(d) => loc[d].ti # tiTask[e] /\ (Holds(e) => loc[d].ti # loc[e].ti)
      BY <2>1, Zenon DEF Apart
    <3>2. loc' = loc /\ \A x \in Cpus \ {c} : Holds(x) => loc[x].ti # s0
      BY <1>2, <1>4, Zenon
    <3>3. \A x \in Cpus : Holds(x)' => Holds(x) /\ x # c
      BY <1>7, Zenon
    <3> QED BY <1>5, <3>1, <3>2, <3>3
  <2>5. pc'[d] \in Scans /\ pc'[e] \in Scans => loc'[d].w # loc'[e].w
    BY <1>2, <1>7, <2>1 DEF Apart
  <2> QED BY <1>2, <2>1, <2>2, <2>3, <2>4, <2>5, Zenon DEF Apart
<1>11. ASSUME NEW w \in Words PROVE NotYet(w)'
  <2>1. NotYet(w)
    BY DEF IInv
  <2>2. CASE w = w0
    BY <1>5, <2>2 DEF NotYet
  <2>3. CASE w # w0
    BY <1>2, <1>5, <1>6, <2>1, <2>3, Zenon DEF NotYet
  <2> QED BY <2>2, <2>3
<1> QED BY <1>1, <1>9, <1>10, <1>11 DEF IInv

\* The switch of an idle thread to the task of its CPU, if it has one.
LEMMA InvSwitch ==
  ASSUME IInv, NEW c \in Cpus, Switch(c)
  PROVE  IInv'
<1>1. TypeOK'
  BY TypeBoot DEF IInv, Boot
<1>2. /\ pc[c] = "switch" /\ pc'[c] = IF Picks(c) = Idle THEN "idle" ELSE "user"
      /\ UNCHANGED <<slot, tiTask, lockCpu, loc>>
      /\ \A d \in Cpus \ {c} : pc'[d] = pc[d] /\ run'[d] = run[d]
      /\ run'[c] = Picks(c)
      /\ thr' = [w \in Words |-> IF w = Picks(c) THEN "runs" ELSE thr[w]]
  BY Types DEF Switch, Goto
<1>3. /\ Picks(c) \in Tasks => tiTask[c] # NoSlot /\ TaskOf(c) = Picks(c)
      /\ Picks(c) \in Tasks \/ Picks(c) = Idle
      /\ Idle \notin Tasks
  BY ThreadsAssumption, Zenon DEF Picks, TaskOf, IInv, CpuOK, Tasks
<1>4. \A d \in Cpus : TaskOf(d)' = TaskOf(d)
  BY <1>2 DEF TaskOf
<1>5. \A d \in Cpus \ {c} : Picks(c) \in Words => TaskOf(d) # Picks(c) /\ run[d] # Picks(c)
  BY <1>3 DEF IInv, Apart, Tasks
<1>6. Picks(c) \in Words => thr[Picks(c)] \notin {"none", "cloning"}
  BY <1>3 DEF IInv, NotYet, Tasks
<1>7. CpuOK(c)' /\ ~Holds(c)' /\ pc'[c] \notin Scans
  BY <1>2, <1>3, Zenon DEF IInv, TypeOK, CpuOK, Holds, Boots, Idles, Users, Clones, Scans, Fills, Exits
<1>8. ASSUME NEW d \in Cpus \ {c} PROVE CpuOK(d)'
  <2>1. CpuOK(d)
    BY DEF IInv
  <2>2. pc[d] \in Scans => thr'[loc[d].w] = "cloning"
    BY <1>2, <1>6, <2>1, Zenon DEF CpuOK
  <2> QED BY <1>2, <2>1, <2>2, Zenon DEF CpuOK, Holds
<1>9. ASSUME NEW d \in Cpus, NEW e \in Cpus \ {d} PROVE Apart(d, e)'
  <2>1. Apart(d, e)
    BY DEF IInv
  <2>2. \A x \in Cpus : /\ Holds(x)' => Holds(x)
                        /\ pc'[x] \in Scans => pc[x] \in Scans
    BY <1>2, <1>7 DEF Holds
  <2>3. TaskOf(d)' \in Words => TaskOf(d)' # TaskOf(e)' /\ TaskOf(d)' # run'[e]
    BY <1>2, <1>3, <1>4, <1>5, <2>1 DEF Apart
  <2>4. run'[d] \in Words => run'[d] # run'[e]
    BY <1>2, <1>5, <2>1 DEF Apart
  <2> QED BY <1>2, <2>1, <2>2, <2>3, <2>4, Zenon DEF Apart
<1>10. ASSUME NEW w \in Words PROVE NotYet(w)'
  BY <1>2, <1>4 DEF IInv, NotYet
<1> QED BY <1>1, <1>7, <1>8, <1>9, <1>10 DEF IInv

\* A task stops itself.
LEMMA InvExitStop ==
  ASSUME IInv, NEW c \in Cpus, ExitStop(c)
  PROVE  IInv'
<1>1. TypeOK'
  BY TypeExit DEF IInv
<1>2. /\ pc[c] \in {"user", "exit"} /\ pc'[c] = "exit_destroy"
      /\ UNCHANGED <<slot, run>>
      /\ \A d \in Cpus \ {c} : /\ pc'[d] = pc[d] /\ loc'[d] = loc[d]
                               /\ tiTask'[d] = tiTask[d] /\ lockCpu'[d] = lockCpu[d]
      /\ lockCpu[c] = NoCpu /\ lockCpu'[c] = c
      /\ tiTask[c] \in Slots /\ tiTask'[c] = NoSlot
      /\ thr' = [w \in Words |-> IF w = run[c] THEN "exits" ELSE thr[w]]
  BY Types DEF ExitStop, Goto
<1>3. loc'[c].ti = tiTask[c]
  BY Types DEF ExitStop, NoLoc
<1>4. TaskOf(c)' = NULL /\ NULL \notin Words /\ \A d \in Cpus \ {c} : TaskOf(d)' = TaskOf(d)
  BY <1>2, ThreadsAssumption DEF TaskOf
<1>5. run[c] \in Tasks /\ slot[tiTask[c]].avail
  BY <1>2, CpuFacts DEF IInv, CpuOK, Users
<1>6. run[c] \in Words => thr[run[c]] \notin {"none", "cloning"}
  BY DEF IInv, NotYet
<1>7. CpuOK(c)' /\ Holds(c)' /\ ~Holds(c) /\ pc'[c] \notin Scans
  BY <1>2, <1>3, <1>5, CpuFacts, Zenon
     DEF IInv, TypeOK, CpuOK, Holds, Boots, Idles, Users, Clones, Scans, Fills, Exits
<1>8. ASSUME NEW d \in Cpus \ {c} PROVE CpuOK(d)'
  <2>1. CpuOK(d)
    BY DEF IInv
  <2>2. pc[d] \in Scans => thr'[loc[d].w] = "cloning"
    BY <1>2, <1>6, <2>1 DEF CpuOK
  <2>3. pc[d] \in Fills \cup {"clone_ipi"} => lockCpu'[loc[d].tgt] = d
    BY <1>2, <2>1, CpuFacts, Zenon DEF CpuOK
  <2> QED BY <1>2, <2>1, <2>2, <2>3, Zenon DEF CpuOK, Holds
<1>9. ASSUME NEW d \in Cpus, NEW e \in Cpus \ {d} PROVE Apart(d, e)'
  <2>1. Apart(d, e) /\ Apart(e, d)
    BY DEF IInv
  <2>2. \A x \in Cpus \ {c} : Holds(x)' <=> Holds(x)
    BY <1>2, Zenon DEF Holds
  <2>3. TaskOf(d)' \in Words => TaskOf(d)' # TaskOf(e)' /\ TaskOf(d)' # run'[e]
    BY <1>2, <1>4, <2>1, Zenon DEF Apart
  <2>4. tiTask'[d] # NoSlot => tiTask'[d] # tiTask'[e]
    BY <1>2, <2>1, Zenon DEF Apart
  <2>5. Holds(d)' => loc'[d].ti # tiTask'[e] /\ (Holds(e)' => loc'[d].ti # loc'[e].ti)
    <3>1. CASE d = c
      BY <1>2, <1>3, <2>1, <2>2, <3>1, CpuFacts DEF Apart
    <3>2. CASE e = c
      <4>1. Holds(d) => loc[d].ti \in Slots
        BY Zenon DEF IInv, CpuOK
      <4> QED BY <1>2, <1>3, <2>1, <2>2, <3>2, <4>1, CpuFacts, Zenon DEF Apart
    <3>3. CASE d # c /\ e # c
      BY <1>2, <2>1, <2>2, <3>3, Zenon DEF Apart
    <3> QED BY <3>1, <3>2, <3>3
  <2>6. pc'[d] \in Scans /\ pc'[e] \in Scans => loc'[d].w # loc'[e].w
    BY <1>2, <1>7, <2>1, Zenon DEF Apart
  <2> QED BY <1>2, <2>1, <2>3, <2>4, <2>5, <2>6, Zenon DEF Apart
<1>10. ASSUME NEW w \in Words PROVE NotYet(w)'
  <2>1. NotYet(w)
    BY DEF IInv
  <2>2. thr'[w] \in {"none", "cloning"} => thr[w] \in {"none", "cloning"}
    BY <1>2
  <2> QED BY <1>2, <1>4, <2>1, <2>2, Zenon DEF NotYet
<1> QED BY <1>1, <1>7, <1>8, <1>9, <1>10 DEF IInv

\* The entry of the task is free from here on, and no CPU refers to it as a
\* task or as a new one.
LEMMA InvExitDestroy ==
  ASSUME IInv, NEW c \in Cpus, ExitDestroy(c)
  PROVE  IInv'
<1>1. TypeOK'
  BY TypeExit DEF IInv, ExitStep
<1>2. /\ pc[c] = "exit_destroy" /\ pc'[c] \in {"exit_fini", "exit_notify"}
      /\ UNCHANGED <<tiTask, run, thr, lockCpu, loc>>
      /\ \A d \in Cpus \ {c} : pc'[d] = pc[d]
      /\ slot' = [slot EXCEPT ![loc[c].ti].avail = FALSE]
  BY Types DEF ExitDestroy, Goto
<1>3. \A s \in Slots : slot'[s].tid = slot[s].tid /\ (s # loc[c].ti => slot'[s] = slot[s])
  BY <1>2, Types DEF Slot
<1>4. \A d \in Cpus : tiTask[d] # loc[c].ti /\ (d # c /\ Holds(d) => loc[d].ti # loc[c].ti)
  BY <1>2 DEF IInv, CpuOK, Apart, Holds
<1>5. \A d \in Cpus : TaskOf(d)' = TaskOf(d)
  BY <1>2, <1>3, Types DEF TaskOf
<1>6. CpuOK(c)' /\ ~Holds(c)' /\ pc'[c] \notin Scans
  BY <1>2 DEF IInv, TypeOK, CpuOK, Holds, Boots, Idles, Users, Clones, Scans, Fills, Exits
<1>7. ASSUME NEW d \in Cpus \ {c} PROVE CpuOK(d)'
  <2>1. CpuOK(d) /\ tiTask[d] \in Slots \cup {NoSlot}
    BY Types, Zenon DEF IInv
  <2>2. Holds(d) => slot'[loc[d].ti] = slot[loc[d].ti]
    BY <1>3, <1>4, <2>1, Zenon DEF CpuOK
  <2>3. tiTask[d] # NoSlot => slot'[tiTask[d]] = slot[tiTask[d]]
    BY <1>3, <1>4, <2>1, Zenon
  <2> QED BY <1>2, <2>1, <2>2, <2>3, Zenon DEF CpuOK, Holds
<1>8. ASSUME NEW d \in Cpus, NEW e \in Cpus \ {d} PROVE Apart(d, e)'
  <2>1. Apart(d, e)
    BY DEF IInv
  <2>2. \A x \in Cpus : /\ Holds(x)' => Holds(x)
                        /\ pc'[x] \in Scans => pc[x] \in Scans
    BY <1>2, <1>6 DEF Holds
  <2> QED BY <1>2, <1>5, <2>1, <2>2 DEF Apart
<1>9. ASSUME NEW w \in Words PROVE NotYet(w)'
  BY <1>2, <1>5 DEF IInv, NotYet
<1> QED BY <1>1, <1>6, <1>7, <1>8, <1>9 DEF IInv

\* The end of an exit: the CPU kept its lock, so no new task was published
\* on it, and it goes back to its idle thread.
LEMMA ExitToIdle ==
  ASSUME IInv, NEW c \in Cpus, ExitSwitch(c)
  PROVE  /\ pc[c] \in {"exit_switch", "exit_switch_wake"} /\ pc'[c] \in {"idle", "exit_wake"}
         /\ run[c] \in Tasks /\ tiTask[c] = NoSlot /\ lockCpu[c] = c
         /\ run' = [run EXCEPT ![c] = Idle]
         /\ thr' = [w \in Words |-> IF w = run[c] THEN "gone" ELSE thr[w]]
<1>1. pc[c] \in {"exit_switch", "exit_switch_wake"}
  BY DEF ExitSwitch, Goto
<1>2. run[c] \in Tasks /\ tiTask[c] = NoSlot /\ lockCpu[c] = c
  BY <1>1 DEF IInv, CpuOK, Exits
<1>3. Picks(c) = Idle /\ Idle \notin Words
  BY <1>2, ThreadsAssumption DEF Picks
<1>4. pc'[c] \in {"idle", "exit_wake"}
  BY <1>3, Types DEF ExitSwitch, Goto
<1> QED BY <1>1, <1>2, <1>3, <1>4, Zenon DEF ExitSwitch

\* The invariant after the switch at the end of an exit.
LEMMA InvExitSwitch ==
  ASSUME IInv, NEW c \in Cpus, ExitSwitch(c)
  PROVE  IInv'
<1>1. TypeOK'
  BY TypeExit DEF IInv, ExitStep
<1>2. /\ UNCHANGED <<slot, tiTask>>
      /\ \A d \in Cpus \ {c} : /\ pc'[d] = pc[d] /\ loc'[d] = loc[d] /\ run'[d] = run[d]
                               /\ lockCpu'[d] = lockCpu[d]
      /\ pc'[c] \in {"idle", "exit_wake"} /\ run'[c] = Idle
      /\ run[c] \in Tasks /\ tiTask[c] = NoSlot /\ lockCpu[c] = c
      /\ thr' = [w \in Words |-> IF w = run[c] THEN "gone" ELSE thr[w]]
      /\ Idle \notin Words
  <2>1. /\ pc'[c] \in {"idle", "exit_wake"} /\ run' = [run EXCEPT ![c] = Idle]
        /\ run[c] \in Tasks /\ tiTask[c] = NoSlot /\ lockCpu[c] = c
        /\ thr' = [w \in Words |-> IF w = run[c] THEN "gone" ELSE thr[w]]
    BY ExitToIdle, Zenon
  <2>2. \A d \in Cpus \ {c} : pc'[d] = pc[d] /\ loc'[d] = loc[d]
    BY Types DEF ExitSwitch, Goto
  <2>3. UNCHANGED <<slot, tiTask>> /\ lockCpu' = [lockCpu EXCEPT ![c] = NoCpu]
    BY DEF ExitSwitch
  <2> QED BY <2>1, <2>2, <2>3, ThreadsAssumption, Types, Zenon
<1>3. \A d \in Cpus : TaskOf(d)' = TaskOf(d)
  BY <1>2 DEF TaskOf
<1>4. run[c] \in Words => thr[run[c]] \notin {"none", "cloning"}
  BY DEF IInv, NotYet
<1>5. CpuOK(c)' /\ ~Holds(c)' /\ pc'[c] \notin Scans
  BY <1>2, Zenon DEF IInv, TypeOK, CpuOK, Holds, Boots, Idles, Users, Clones, Scans, Fills, Exits
<1>6. ASSUME NEW d \in Cpus \ {c} PROVE CpuOK(d)'
  <2>1. CpuOK(d)
    BY DEF IInv
  <2>2. pc[d] \in Scans => thr'[loc[d].w] = "cloning"
    BY <1>2, <1>4, <2>1 DEF CpuOK
  <2>3. pc[d] \in Fills \cup {"clone_ipi"} => lockCpu'[loc[d].tgt] = d
    BY <1>2, <2>1 DEF CpuOK
  <2> QED BY <1>2, <2>1, <2>2, <2>3, Zenon DEF CpuOK, Holds
<1>7. ASSUME NEW d \in Cpus, NEW e \in Cpus \ {d} PROVE Apart(d, e)'
  <2>1. Apart(d, e)
    BY DEF IInv
  <2>2. \A x \in Cpus : /\ Holds(x)' => Holds(x) /\ loc'[x].ti = loc[x].ti
                        /\ pc'[x] \in Scans => pc[x] \in Scans /\ loc'[x].w = loc[x].w
    BY <1>2, <1>5, Zenon DEF Holds
  <2> QED BY <1>2, <1>3, <2>1, <2>2, Zenon DEF Apart
<1>8. ASSUME NEW w \in Words PROVE NotYet(w)'
  <2>1. NotYet(w)
    BY DEF IInv
  <2>2. thr'[w] \in {"none", "cloning"} => thr[w] \in {"none", "cloning"}
    BY <1>2
  <2> QED BY <1>2, <1>3, <2>1, <2>2, Zenon DEF NotYet
<1> QED BY <1>1, <1>5, <1>6, <1>7, <1>8 DEF IInv

\* A step of nobody keeps the invariant.
LEMMA InvStutter == IInv /\ UNCHANGED vars => IInv'
<1> SUFFICES ASSUME IInv, UNCHANGED vars PROVE IInv'
  OBVIOUS
<1>1. UNCHANGED <<slot, leader, tiTask, tiIdle, run, running, msip>>
      /\ UNCHANGED <<lockCpu, lockSmp, pc, loc, word, done, thr>>
  BY DEF vars
<1>2. TypeOK'
  BY <1>1, Types, Zenon DEF TypeOK
<1>3. ASSUME NEW c \in Cpus PROVE CpuOK(c)' /\ (Holds(c)' <=> Holds(c)) /\ TaskOf(c)' = TaskOf(c)
  BY <1>1, Zenon DEF IInv, CpuOK, Holds, TaskOf
<1>4. ASSUME NEW c \in Cpus, NEW d \in Cpus \ {c} PROVE Apart(c, d)'
  BY <1>1, <1>3, Zenon DEF IInv, Apart
<1>5. ASSUME NEW w \in Words PROVE NotYet(w)'
  BY <1>1, <1>3, Zenon DEF IInv, NotYet
<1> QED BY <1>2, <1>3, <1>4, <1>5 DEF IInv

\* Every step keeps the invariant of all programs.
LEMMA InvNext == IInv /\ [Next]_vars => IInv'
<1>1. ASSUME IInv, NEW c \in Cpus, Step(c) \/ UserStep(c) \/ Interrupt(c) PROVE IInv'
  BY <1>1, InvIdle, InvCloneLocal, InvExitLocal, InvExitWake, InvCloneWord, InvInit,
     InvCloneCreate, InvCloneFill, InvCloneRun, InvSwitch, InvExitStop, InvExitDestroy,
     InvExitSwitch
     DEF Step, Boot, CloneStep, ExitStep, UserStep
<1> QED BY <1>1, InvStutter DEF Next

\* The inductive invariant holds in every behaviour, whichever tasks clone.
THEOREM ThreadsInvariant == Spec => []IInv
  BY InitInv, InvNext, PTL DEF Spec

\* A thread runs on one CPU at a time, and a CPU that runs a task has one
\* published, so that k_sys_exit finds what it stops; even when clones race.
THEOREM ThreadsRunsPublished == Spec => []RunsPublished
<1>1. IInv => RunsPublished
  BY Zenon DEF IInv, CpuOK, Apart, RunsPublished, Users
<1> QED BY <1>1, ThreadsInvariant, PTL
=============================================================================
