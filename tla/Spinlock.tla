------------------------------ MODULE Spinlock ------------------------------
(***************************************************************************)
(* The spinlock every other lock of the runtime is made of: lock_smp, the  *)
(* lock of each CPU device, of the process and of the console (sys/lock.c).*)
(* "val" is swapped with 1 until 0 comes back; "id" then names the owning  *)
(* hart.  Unlock clears "id" first and releases "val" last.                *)
(*                                                                         *)
(* Every memory access that another hart can observe is a step of its own. *)
(***************************************************************************)
EXTENDS Integers

CONSTANT LockHarts          \* physical ids of the harts that contend for the lock

ASSUME LockHartsAreIds == LockHarts \subseteq Nat

VARIABLES
  val,                  \* lock->val
  id,                   \* lock->id
  lockPc                    \* where each hart is

lockVars == <<val, id, lockPc>>

NoHart == -1

\* Every lock lies in .bss and none is passed to k_spinlock_init, so id starts
\* as 0, which is also the id of a hart; k_arch_gen_spinlock_init would have
\* stored NoHart.
LockInit ==
  /\ val = 0
  /\ id \in {0, NoHart}
  /\ lockPc = [h \in LockHarts |-> "out"]

LockGoto(h, from, to) ==
  /\ lockPc[h] = from
  /\ lockPc' = [lockPc EXCEPT ![h] = to]

\* A hart calls k_spinlock_lock and starts to spin.
Call(h) ==
  /\ LockGoto(h, "out", "spin")
  /\ UNCHANGED <<val, id>>

\* Mutant: trylock reads val and stores 1 without an atomic exchange, so the
\* stale 0 of one hart survives the store of another.
TrylockNotAtomic(h) ==
  /\ val' = 1
  /\ LockGoto(h, "spin", "setid") \/ (val = 1 /\ LockGoto(h, "spin", "spin"))
  /\ UNCHANGED id

\* k_arch_gen_spinlock_trylock: the exchange returns the old value, and the
\* loop of k_arch_gen_spinlock_lock goes on while that is 1.
Trylock(h) ==
  /\ val' = 1
  /\ LockGoto(h, "spin", IF val = 0 THEN "setid" ELSE "spin")
  /\ UNCHANGED id

\* The owner records itself: lock->id = k_cpu_get_current_id_phys().
SetId(h) ==
  /\ LockGoto(h, "setid", "in")
  /\ id' = h
  /\ UNCHANGED val

\* k_arch_gen_spinlock_unlock, first store.
ClearId(h) ==
  /\ LockGoto(h, "in", "release")
  /\ id' = NoHart
  /\ UNCHANGED val

\* Mutant: unlock forgets to store 0.
ReleaseNothing(h) ==
  /\ LockGoto(h, "release", "out")
  /\ UNCHANGED <<val, id>>

\* k_arch_gen_spinlock_unlock, second store (the one that frees the lock).
Release(h) ==
  /\ LockGoto(h, "release", "out")
  /\ val' = 0
  /\ UNCHANGED id

LockStep(h) == Trylock(h) \/ SetId(h) \/ ClearId(h) \/ Release(h)

LockNext == \E h \in LockHarts : Call(h) \/ LockStep(h)

\* A hart that entered the lock code keeps executing it; nothing makes the
\* exchange of one hart win, so no stronger fairness is assumed.
LockSpec == LockInit /\ [][LockNext]_lockVars /\ \A h \in LockHarts : WF_lockVars(LockStep(h))

-----------------------------------------------------------------------------
LockTypeOK ==
  /\ val \in {0, 1}
  /\ id \in LockHarts \cup {0, NoHart}
  /\ lockPc \in [LockHarts -> {"out", "spin", "setid", "in", "release"}]

\* The hart got 0 from the exchange and has not yet stored 0 back.
Holds(h) == lockPc[h] \in {"setid", "in", "release"}

\* Two harts are never both past the exchange of k_arch_gen_spinlock_lock
\* and before the last store of k_arch_gen_spinlock_unlock.
MutualExclusion == \A g, h \in LockHarts : Holds(g) /\ Holds(h) => g = h

\* While a hart is inside its critical section lock->id names that hart: the
\* id store of an unlock never lands after the id store of the next owner.
OwnerRecorded == \A h \in LockHarts : lockPc[h] = "in" => id = h

\* When harts spin on the lock one of them always gets it: the exchange of a
\* losing hart, which also stores 1, never leaves the lock taken by nobody.
SomeoneEnters == (\E h \in LockHarts : lockPc[h] = "spin") ~> (\E h \in LockHarts : Holds(h))

\* The inductive invariant behind the two safety properties: val is 1
\* exactly while some hart holds the lock, and id names a hart only while
\* that hart is in its critical section (or is the 0 of .bss).
LockInv ==
  /\ LockTypeOK
  /\ MutualExclusion
  /\ OwnerRecorded
  /\ val = 1 <=> \E h \in LockHarts : Holds(h)
  /\ \A h \in LockHarts \ {0} : id = h => lockPc[h] = "in"
=============================================================================
