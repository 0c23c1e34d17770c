---------------------------- MODULE StartProofs -----------------------------
(***************************************************************************)
(* Proofs about the start, for any number of cores, any chip, any numbering*)
(* of its harts and any set of harts that contend for a lock: the spinlock *)
(* excludes, the handshake gives every core its own stacks, and no hart is *)
(* in the lock code when the main hart clears the lock.  And for any      *)
(* command line that fits: the C library finds in the frame that init_args *)
(* made what the host passed.                                              *)
(***************************************************************************)
EXTENDS Start, WellFoundedInduction, TLAPS

-----------------------------------------------------------------------------
(* The spinlock.                                                           *)

(***************************************************************************)
(* LockInv is inductive: every access of the lock code (sys/lock.c) keeps it.*)
(***************************************************************************)
LEMMA LockInvInductive == LockInv /\ [LockNext]_lockVars => LockInv'
<1> SUFFICES ASSUME LockInv, [LockNext]_lockVars PROVE LockInv'
  OBVIOUS
<1> USE LockHartsAreIds DEF LockInv, LockTypeOK, MutualExclusion, OwnerRecorded, Holds, NoHart
<1>1. ASSUME NEW h \in LockHarts, Call(h) PROVE LockInv'
  BY <1>1 DEF Call, LockGoto
<1>2. ASSUME NEW h \in LockHarts, Trylock(h) PROVE LockInv'
  <2>1. CASE val = 0
    BY <1>2, <2>1 DEF Trylock, LockGoto
  <2>2. CASE val = 1
    BY <1>2, <2>2 DEF Trylock, LockGoto
  <2> QED
    BY <2>1, <2>2
<1>3. ASSUME NEW h \in LockHarts, SetId(h) PROVE LockInv'
  BY <1>3 DEF SetId, LockGoto
<1>4. ASSUME NEW h \in LockHarts, ClearId(h) PROVE LockInv'
  BY <1>4 DEF ClearId, LockGoto
<1>5. ASSUME NEW h \in LockHarts, Release(h) PROVE LockInv'
  BY <1>5 DEF Release, LockGoto
<1>6. CASE UNCHANGED lockVars
  BY <1>6 DEF lockVars
<1> QED
  BY <1>1, <1>2, <1>3, <1>4, <1>5, <1>6 DEF LockNext, LockStep

(***************************************************************************)
(* The strengthened invariant holds of every behaviour of the lock.        *)
(***************************************************************************)
THEOREM SpinlockInvariant == LockSpec => []LockInv
<1>1. LockInit => LockInv
  BY LockHartsAreIds
     DEF LockInit, LockInv, LockTypeOK, MutualExclusion, OwnerRecorded, Holds, NoHart
<1> QED
  BY <1>1, LockInvInductive, PTL DEF LockSpec

(***************************************************************************)
(* Between the successful exchange of k_arch_gen_spinlock_lock and the     *)
(* last store of k_arch_gen_spinlock_unlock a hart is alone.               *)
(***************************************************************************)
THEOREM SpinlockExcludes == LockSpec => []MutualExclusion
<1>1. LockInv => MutualExclusion
  BY DEF LockInv
<1> QED
  BY <1>1, SpinlockInvariant, PTL

(***************************************************************************)
(* lock->id always names the hart inside the critical section.             *)
(***************************************************************************)
THEOREM SpinlockOwner == LockSpec => []OwnerRecorded
<1>1. LockInv => OwnerRecorded
  BY DEF LockInv
<1> QED
  BY <1>1, SpinlockInvariant, PTL
-----------------------------------------------------------------------------
(* The handshake.                                                          *)

\* A CPU other than CPU 0 has a sub hart.
LEMMA SubHart ==
  ASSUME NEW c \in Cpus, c # 0
  PROVE  HartOf[c] \in Subs
<1>1. 0 \in Cpus
  BY BootAssumption DEF Cpus
<1> QED BY <1>1, BootAssumption DEF Subs

\* Whatever k_boot_proc and .bss hold at power on, the invariant holds.
LEMMA BootInit == Init => IInv
<1> SUFFICES ASSUME Init PROVE IInv
  OBVIOUS
<1>1. 0 \in Cpus
  BY BootAssumption DEF Cpus
<1>2. TypeOK
  BY <1>1 DEF Init, TypeOK
<1>3. \A h \in Subs : spc[h] = "reset"
  BY DEF Init
<1>4. \A c \in Cpus \ {0} : ~(c < cur)
  BY BootAssumption DEF Init, Cpus
<1> QED BY <1>2, <1>3, <1>4 DEF Init, IInv, Cleared, Waking, Loading, OwnStacks

\* The main hart keeps the invariant: it changes the stack pointers only
\* when no hart is loading them.
LEMMA MainStep == IInv /\ Main => IInv'
<1> SUFFICES ASSUME IInv, Main PROVE IInv'
  OBVIOUS
<1> USE DEF IInv, TypeOK, Cleared, Waking, Loading, OwnStacks
<1>0. 0 \in Cpus
  BY BootAssumption DEF Cpus
<1>1. CASE MainReset
  BY <1>1 DEF MainReset
<1>2. CASE MainInit
  <2>1. \A c \in Cpus \ {0} : ~(c < 1)
    BY BootAssumption DEF Cpus
  <2>2. TypeOK'
    BY <1>0, <1>2, Zenon DEF MainInit
  <2>3. \A h \in Subs : ~Loading(h) /\ spc' = spc
    BY <1>2 DEF MainInit
  <2>4. proc' = NoProc /\ mpc' = "next" /\ cur' = 1 /\ UNCHANGED <<idleOf, intrOf>>
    BY <1>2 DEF MainInit
  <2> QED BY <2>1, <2>2, <2>3, <2>4
<1>3. CASE MainPrepare
  <2>1. cur \in Cpus
    BY <1>3, BootAssumption DEF MainPrepare, Cpus
  <2> QED BY <1>3, <2>1, ZenonT(30) DEF MainPrepare
<1>4. CASE MainTest
  BY <1>4 DEF MainTest
<1>5. CASE MainStore
  <2>1. cur \in Cpus
    BY <1>5, BootAssumption DEF MainStore, Cpus
  <2> QED BY <1>5, <2>1, BootAssumption DEF MainStore
<1>6. CASE MainClear
  <2>1. \A c \in Cpus : c < cur + 1 => c < cur \/ c = cur
    BY BootAssumption DEF Cpus
  <2> QED BY <1>6, <2>1 DEF MainClear
<1>7. CASE MainLeader
  BY <1>7 DEF MainLeader
<1> QED BY <1>1, <1>2, <1>3, <1>4, <1>5, <1>6, <1>7 DEF Main

\* So does a sub hart: it leaves its spin loop only when it is the one named.
LEMMA SubStep ==
  ASSUME IInv, NEW h \in Subs, Sub(h)
  PROVE  IInv'
<1>a. \A c \in Cpus \ {0} : HartOf[c] \in Subs
  BY SubHart
<1>b. Waking => cur \in Cpus \ {0}
  BY BootAssumption DEF IInv, TypeOK, Waking, Cpus
<1> USE <1>a, <1>b DEF IInv, TypeOK, Cleared, Waking, Loading, OwnStacks, SubGoto
<1>1. CASE SubReset(h)
  BY <1>1 DEF SubReset
<1>2. CASE SubNamed(h)
  <2>1. h # NoProc
    BY BootAssumption DEF Subs, NoProc
  <2>2. Waking /\ h = HartOf[cur]
    BY <1>2, <2>1 DEF SubNamed
  <2>3. ~done
    BY <1>2, <2>2 DEF SubNamed
  <2> QED BY <1>2, <2>2, <2>3 DEF SubNamed
<1>3. CASE SubLoadIdle(h)
  BY <1>3 DEF SubLoadIdle
<1>4. CASE SubLoadIntr(h)
  BY <1>4 DEF SubLoadIntr
<1>5. CASE SubAnswer(h)
  BY <1>5 DEF SubAnswer
<1> QED BY <1>1, <1>2, <1>3, <1>4, <1>5 DEF Sub

\* The handshake keeps its invariant forever.
THEOREM BootInvariant == Spec => []IInv
<1>1. IInv /\ [Next]_vars => IInv'
  <2> SUFFICES ASSUME IInv, [Next]_vars PROVE IInv'
    OBVIOUS
  <2>1. CASE Next
    BY <2>1, MainStep, SubStep DEF Next
  <2>2. CASE UNCHANGED vars
    BY <2>2 DEF vars, IInv, TypeOK, Cleared, Waking, Loading, OwnStacks
  <2> QED BY <2>1, <2>2
<1> QED BY BootInit, <1>1, PTL DEF Spec

\* No hart ever runs on the stacks of another CPU.
THEOREM BootOwnStacks == Spec => []OwnStacks
<1>1. IInv => OwnStacks
  BY DEF IInv
<1> QED BY BootInvariant, <1>1, PTL

\* The main hart starts the program only after every core has its stacks.
THEOREM BootLeaderAfterChildren == Spec => []LeaderAfterChildren
<1>1. IInv => LeaderAfterChildren
  <2>1. ASSUME IInv, mpc = "leader", NEW c \in Cpus \ {0} PROVE c < cur
    BY <2>1, BootAssumption DEF IInv, TypeOK, Cpus
  <2> QED BY <2>1 DEF IInv, LeaderAfterChildren
<1> QED BY BootInvariant, <1>1, PTL
-----------------------------------------------------------------------------
(* Both together.                                                          *)

\* The main hart takes its locks after the clearing, as the sub harts do.
LEMMA LocksAfterClearing ==
  ASSUME StartInv, NEW h \in LockHarts, TakesLocks(h)
  PROVE  mpc \notin {"reset", "init"}
<1>1. h = MainHart \/ h \in Subs
  BY StartAssumption DEF MainHart, Subs
<1> QED BY <1>1 DEF TakesLocks, StartInv

\* The handshake alone: a step of a hart that leaves the lock alone.
LEMMA HandshakeKeeps ==
  ASSUME StartInv, UNCHANGED lockVars,
         (Main /\ mpc # "init") \/ \E h \in Subs : Sub(h)
  PROVE  StartInv'
<1>1. IInv'
  BY MainStep, SubStep DEF StartInv
<1>2. mpc' \in {"reset", "init"} => mpc \in {"reset", "init"}
  <2>1. CASE Main
    BY <2>1 DEF Main, MainReset, MainInit, MainPrepare, MainTest, MainStore, MainClear, MainLeader
  <2>2. CASE \E h \in Subs : Sub(h)
    BY <2>2 DEF Sub, SubReset, SubNamed, SubLoadIdle, SubLoadIntr, SubAnswer
  <2> QED BY <2>1, <2>2
<1>3. mpc' \notin {"reset", "init"} => mpc \notin {"reset", "init"}
  <2>1. CASE Main /\ mpc # "init"
    BY <2>1 DEF Main, MainReset, MainInit, MainPrepare, MainTest, MainStore, MainClear, MainLeader
  <2>2. CASE \E h \in Subs : Sub(h)
    BY <2>2 DEF Sub, SubReset, SubNamed, SubLoadIdle, SubLoadIntr, SubAnswer
  <2> QED BY <2>1, <2>2
<1>4. mpc' \in {"reset", "init"} => \A h \in Subs : spc'[h] # "child"
  <2>1. CASE Main
    <3>1. spc' = spc
      BY <2>1 DEF Main, MainReset, MainInit, MainPrepare, MainTest, MainStore, MainClear, MainLeader
    <3> QED BY <1>2, <3>1 DEF StartInv
  <2>2. ASSUME NEW g \in Subs, Sub(g), mpc' \in {"reset", "init"}, NEW h \in Subs
        PROVE  spc'[h] # "child"
    <3>1. ~SubAnswer(g)
      BY <1>2, <2>2 DEF SubAnswer, SubGoto, StartInv, IInv, Loading, Waking
    <3>2. spc'[h] = "child" => spc[h] = "child"
      BY <2>2, <3>1 DEF Sub, SubReset, SubNamed, SubLoadIdle, SubLoadIntr, SubGoto, StartInv, IInv,
         TypeOK
    <3> QED BY <1>2, <2>2, <3>2 DEF StartInv
  <2> QED BY <2>1, <2>2
<1>5. LockInv => LockInv'
  BY DEF lockVars, LockInv, LockTypeOK, MutualExclusion, OwnerRecorded, Holds
<1>6. LockSoundOnceCleared'
  BY <1>3, <1>5 DEF StartInv, LockSoundOnceCleared
<1>7. lockPc' = lockPc
  BY DEF lockVars
<1> QED BY <1>1, <1>2, <1>4, <1>6, <1>7 DEF StartInv

\* clear_bss finds no hart in the lock code, and leaves the lock in order.
LEMMA ClearingKeeps ==
  ASSUME StartInv, ClearBss
  PROVE  StartInv'
<1>1. IInv'
  BY MainStep DEF StartInv, ClearBss, Main
<1>2. mpc' = "next" /\ val' = 0 /\ id' = 0 /\ lockPc' = [h \in LockHarts |-> "out"]
  BY DEF ClearBss, MainInit, StartInv
<1>3. LockInv'
  BY <1>2 DEF LockInv, LockTypeOK, MutualExclusion, OwnerRecorded, Holds
<1> QED BY <1>1, <1>2, <1>3 DEF StartInv, LockSoundOnceCleared

\* The lock code runs after the clearing only, and keeps the lock in order.
LEMMA LockingKeeps ==
  ASSUME StartInv, NEW h \in LockHarts, Locking(h)
  PROVE  StartInv'
<1>1. mpc \notin {"reset", "init"} /\ UNCHANGED vars
  BY LocksAfterClearing DEF Locking
<1>2. LockInv'
  BY <1>1, LockInvInductive DEF StartInv, LockSoundOnceCleared, Locking, LockNext
<1>3. IInv'
  BY <1>1 DEF StartInv, vars, IInv, TypeOK, Cleared, Waking, Loading, OwnStacks
<1> QED BY <1>1, <1>2, <1>3 DEF StartInv, LockSoundOnceCleared, vars

\* The invariant of the start, whatever .bss holds at power on and in which
\* order the harts leave reset.
THEOREM StartInvariant == StartSpec => []StartInv
<1>1. StartInit => StartInv
  BY BootInit DEF StartInit, StartInv, Init, LockSoundOnceCleared
<1>2. StartInv /\ [StartNext]_startVars => StartInv'
  <2> SUFFICES ASSUME StartInv, [StartNext]_startVars PROVE StartInv'
    OBVIOUS
  <2>1. CASE BootMain \/ \E h \in Subs : BootSub(h)
    BY <2>1, HandshakeKeeps, ClearingKeeps DEF BootMain, BootSub
  <2>2. CASE \E h \in LockHarts : Locking(h)
    BY <2>2, LockingKeeps
  <2>3. CASE LeaderArgs \/ UNCHANGED startVars
    <3>1. UNCHANGED <<vars, lockVars>>
      BY <2>3 DEF LeaderArgs, startVars
    <3> QED BY <3>1 DEF vars, lockVars, StartInv, LockSoundOnceCleared, IInv, TypeOK, Cleared,
               Waking, Loading, OwnStacks, LockInv, LockTypeOK, MutualExclusion, OwnerRecorded, Holds
  <2> QED BY <2>1, <2>2, <2>3 DEF StartNext
<1> QED BY <1>1, <1>2, PTL DEF StartSpec

\* From the clearing of .bss on the lock is in order.
THEOREM StartLockSound == StartSpec => []LockSoundOnceCleared
<1>1. StartInv => LockSoundOnceCleared
  BY DEF StartInv
<1> QED BY <1>1, StartInvariant, PTL

\* No two harts hold the lock, also while the other harts are still booting
\* and although the lock holds anything at power on.
THEOREM StartExcludes == StartSpec => []MutualExclusion
<1>1. StartInv => MutualExclusion
  BY DEF StartInv, LockSoundOnceCleared, LockInv, MutualExclusion, Holds
<1> QED BY <1>1, StartInvariant, PTL
-----------------------------------------------------------------------------
(* The arguments of the program.                                           *)

\* Every set of numbers has a least one.
LEMMA LeastNat ==
  ASSUME NEW T \in SUBSET Nat, T # {}
  PROVE  \E x \in T : \A y \in T : x <= y
<1>1. PICK x \in T : \A y \in T : ~(<<y, x>> \in OpToRel(<, Nat))
  BY NatLessThanWellFounded, WFMin, Zenon
<1>2. \A y \in T : ~(y < x)
  BY <1>1, Zenon DEF OpToRel
<1> QED BY <1>2

\* Induction over a loop, for a set of numbers.
LEMMA SetInduction ==
  ASSUME NEW T, 0 \in T, \A n \in Nat : n \in T => n + 1 \in T
  PROVE  \A n \in Nat : n \in T
<1> DEFINE U == {n \in Nat : n \notin T}
<1>1. SUFFICES ASSUME U # {} PROVE FALSE
  OBVIOUS
<1>2. PICK x \in U : \A y \in U : x <= y
  BY <1>1, LeastNat, Zenon
<1>3. x \in Nat /\ x # 0 /\ x - 1 \in Nat /\ ~(x <= x - 1)
  BY <1>2
<1>4. x - 1 \in T
  BY <1>2, <1>3
<1>5. (x - 1) + 1 \in T
  BY <1>3, <1>4
<1> QED BY <1>2, <1>3, <1>5

\* The words of argv after n arguments, as long as there is room.
Taken(n) ==
  [argv |-> [i \in 0 .. MaxArgv - 1 |-> IF i < n THEN Arg(i) ELSE Junk], index |-> n]

\* add_argv puts the next argument behind those that are there.
LEMMA TakeNext ==
  ASSUME NEW n \in Nat, n < MaxArgv
  PROVE  AddArgv(Taken(n), Arg(n)) = Taken(n + 1)
<1> DEFINE v == Taken(n)
           a == [v.argv EXCEPT ![n] = Arg(n)]
<1>1. MaxArgv \in Nat
  BY ArgsAssumption DEF MaxArgv
<1>2. v.index = n /\ v.argv = [i \in 0 .. MaxArgv - 1 |-> IF i < n THEN Arg(i) ELSE Junk]
  BY DEF Taken
<1>3. AddArgv(v, Arg(n)) = [argv |-> a, index |-> n + 1]
  BY <1>1, <1>2 DEF AddArgv
<1>4. a = [i \in 0 .. MaxArgv - 1 |-> IF i < n + 1 THEN Arg(i) ELSE Junk]
  BY <1>1, <1>2
<1> QED BY <1>3, <1>4, Zenon DEF Taken

\* map_argv takes all arguments, in their order, when they fit.
LEMMA AllTaken ==
  ASSUME NEW n \in Nat, n <= MaxArgv
  PROVE  MapArgv(n) = Taken(n)
<1> DEFINE Turn(h, i) == IF i = 0 THEN Empty ELSE AddArgv(h[i - 1], Arg(i - 1))
           g == [i \in 0 .. n |-> Taken(i)]
           f == CHOOSE h : h = [i \in 0 .. n |-> Turn(h, i)]
           T == {i \in Nat : i <= n => f[i] = Taken(i)}
<1>0. MaxArgv \in Nat
  BY ArgsAssumption DEF MaxArgv
<1>1. Taken(0) = Empty
  <2>1. [i \in 0 .. MaxArgv - 1 |-> IF i < 0 THEN Arg(i) ELSE Junk] = [i \in 0 .. MaxArgv - 1 |-> Junk]
    BY <1>0
  <2> QED BY <2>1, Zenon DEF Taken, Empty
<1>2. ASSUME NEW i \in 0 .. n PROVE g[i] = Turn(g, i)
  <2>1. CASE i = 0
    BY <1>1, <2>1
  <2>2. CASE i # 0
    <3>1. i - 1 \in 0 .. n /\ i - 1 \in Nat /\ i - 1 < MaxArgv /\ (i - 1) + 1 = i
      BY <1>0, <2>2
    <3>2. AddArgv(Taken(i - 1), Arg(i - 1)) = Taken(i)
      BY <3>1, TakeNext
    <3> QED BY <2>2, <3>1, <3>2
  <2> QED BY <2>1, <2>2
<1>3. g = [i \in 0 .. n |-> Turn(g, i)]
  BY <1>2
<1>4. \E h : h = [i \in 0 .. n |-> Turn(h, i)]
  <2> HIDE DEF g
  <2> QED BY <1>3
<1>5. f = [i \in 0 .. n |-> Turn(f, i)]
  BY <1>4
<1>6. MapArgv(n) = f[n]
  BY DEF MapArgv
<1> HIDE DEF f, g
<1>7. \A i \in 0 .. n : f[i] = IF i = 0 THEN Empty ELSE AddArgv(f[i - 1], Arg(i - 1))
  BY <1>5
<1>8. 0 \in T
  BY <1>1, <1>7
<1>9. ASSUME NEW i \in Nat, i \in T PROVE i + 1 \in T
  <2>1. SUFFICES ASSUME i + 1 <= n PROVE f[i + 1] = Taken(i + 1)
    OBVIOUS
  <2>2. f[i] = Taken(i) /\ i < MaxArgv
    BY <1>0, <1>9, <2>1
  <2>3. i + 1 \in 0 .. n /\ i + 1 # 0 /\ (i + 1) - 1 = i
    BY <2>1
  <2>4. f[i + 1] = AddArgv(f[i], Arg(i))
    BY <1>7, <2>3
  <2> QED BY <2>2, <2>4, TakeNext
<1>10. n \in T
  <2> HIDE DEF T
  <2> QED BY <1>8, <1>9, SetInduction
<1> QED BY <1>6, <1>10

\* A vector of words with the place for the next one.
IsVec(v) == v.index \in Nat /\ v.argv = [i \in 0 .. MaxArgv - 1 |-> v.argv[i]]

\* add_env and add_aux store behind what is there and leave that alone.
LEMMA EnvStored ==
  ASSUME NEW v, IsVec(v), v.index < MaxArgv, NEW p
  PROVE  LET u == AddArgv(v, p) IN
         /\ IsVec(u) /\ u.index = v.index + 1
         /\ u.argv[v.index] = p
         /\ \A i \in 0 .. MaxArgv - 1 : i # v.index => u.argv[i] = v.argv[i]
<1> DEFINE a == [v.argv EXCEPT ![v.index] = p]
<1>1. MaxArgv \in Nat
  BY ArgsAssumption DEF MaxArgv
<1>2. AddArgv(v, p) = [argv |-> a, index |-> v.index + 1]
  BY <1>1 DEF AddArgv, IsVec
<1>3. a = [i \in 0 .. MaxArgv - 1 |-> IF i = v.index THEN p ELSE v.argv[i]]
  BY Zenon DEF IsVec
<1>4. v.index \in 0 .. MaxArgv - 1
  BY <1>1 DEF IsVec
<1> HIDE DEF a
<1>5. a = [i \in 0 .. MaxArgv - 1 |-> a[i]]
  BY <1>3
<1> QED BY <1>2, <1>3, <1>4, <1>5 DEF IsVec

\* add_aux stores the type and its value in two entries.
LEMMA AuxStored ==
  ASSUME NEW v, IsVec(v), v.index < MaxArgv - 1, NEW t
  PROVE  LET u == AddAux(v, t) IN
         /\ IsVec(u) /\ u.index = v.index + 2
         /\ u.argv[v.index] = Typ(t)
         /\ t # "NULL" => u.argv[v.index + 1] = Value(t)
         /\ \A i \in 0 .. v.index - 1 : u.argv[i] = v.argv[i]
<1> DEFINE x == IF t = "NULL" THEN Null ELSE Value(t)
           a == [v.argv EXCEPT ![v.index] = Typ(t), ![v.index + 1] = x]
<1>1. MaxArgv \in Nat
  BY ArgsAssumption DEF MaxArgv
<1>2. AddAux(v, t) = [argv |-> a, index |-> v.index + 2]
  <2>1. ~(v.index >= MaxArgv - 1)
    BY <1>1 DEF IsVec
  <2> QED BY <2>1, Zenon DEF AddAux
<1>3. v.index \in Nat /\ v.index \in 0 .. MaxArgv - 1 /\ v.index + 1 \in 0 .. MaxArgv - 1
      /\ v.index + 1 # v.index /\ v.index + 2 \in Nat
  BY <1>1 DEF IsVec
<1>4. a = [i \in 0 .. MaxArgv - 1 |-> IF i = v.index + 1 THEN x
                                      ELSE IF i = v.index THEN Typ(t) ELSE v.argv[i]]
  BY <1>3, Zenon DEF IsVec
<1> HIDE DEF a
<1>5. a = [i \in 0 .. MaxArgv - 1 |-> a[i]]
  BY <1>4
<1>6. a[v.index] = Typ(t) /\ a[v.index + 1] = x
  BY <1>3, <1>4
<1>7. \A i \in 0 .. v.index - 1 : a[i] = v.argv[i]
  BY <1>1, <1>3, <1>4
<1>8. AddAux(v, t).argv = a /\ AddAux(v, t).index = v.index + 2
  BY <1>2
<1>9. IsVec(AddAux(v, t))
  BY <1>3, <1>5, <1>8 DEF IsVec
<1> QED BY <1>6, <1>7, <1>8, <1>9

\* A configuration that has room for one argument and two environment
\* strings; the words of auxv are counted too short without the latter.
Roomy == CommMaxArgs >= 1 /\ CommMaxEnvs >= 2

\* The arguments that init_args has before the environment.
LEMMA ArgsNamed ==
  ASSUME NEW n \in Nat, n <= CommMaxArgs, Roomy
  PROVE  LET args == Named(MapArgv(n)) IN
         /\ IsVec(args)
         /\ args.index = IF n = 0 THEN 1 ELSE n
         /\ n = 0 => args.argv[0] = KernelName
         /\ n # 0 => \A i \in 0 .. n - 1 : args.argv[i] = Arg(i)
<1>1. MaxArgv \in Nat /\ n < MaxArgv /\ 0 \in 0 .. MaxArgv - 1
  BY ArgsAssumption DEF MaxArgv, Roomy
<1>2. MapArgv(n) = Taken(n)
  BY <1>1, AllTaken
<1> DEFINE v == Taken(n)
<1>3. v.index = n /\ v.argv = [i \in 0 .. MaxArgv - 1 |-> IF i < n THEN Arg(i) ELSE Junk]
  BY DEF Taken
<1>v. Named(MapArgv(n)) = Named(v)
  BY <1>2
<1> HIDE DEF v
<1>4. IsVec(v)
  BY <1>3 DEF IsVec
<1>5. CASE n # 0
  <2>1. Named(v) = v
    BY <1>3, <1>5 DEF Named
  <2>2. \A i \in 0 .. n - 1 : v.argv[i] = Arg(i)
    BY <1>1, <1>3
  <2> QED BY <1>v, <1>3, <1>4, <1>5, <2>1, <2>2, Zenon
<1>6. CASE n = 0
  <2> DEFINE a == [v.argv EXCEPT ![0] = KernelName]
  <2>1. Named(v) = [argv |-> a, index |-> 1]
    BY <1>3, <1>6 DEF Named
  <2>2. a = [i \in 0 .. MaxArgv - 1 |-> IF i = 0 THEN KernelName ELSE v.argv[i]]
    BY <1>4, Zenon DEF IsVec
  <2> HIDE DEF a
  <2>3. a = [i \in 0 .. MaxArgv - 1 |-> a[i]] /\ a[0] = KernelName
    BY <1>1, <2>2
  <2> QED BY <1>v, <1>6, <2>1, <2>3 DEF IsVec
<1> QED BY <1>5, <1>6

\* The frame is what the C library expects, whatever the program header.
LEMMA FrameIsRead ==
  ASSUME NEW n \in Nat, n <= CommMaxArgs, NEW valid \in BOOLEAN, Roomy
  PROVE  LET f == InitArgs(n, valid) IN
         ReadsArgs(f, n) /\ ReadsNoEnv(f) /\ ReadsAux(f, AuxTypes(valid))
<1> DEFINE args == Named(MapArgv(n))
           c == args.index
           v == AfterArgv(args)
           v0 == AddArgv(v, Null)
           v1 == AddAux(v0, "RANDOM")
           v2 == AddAux(v1, "PAGESZ")
           v3 == AddAux(v2, "PHENT")
           v4 == AddAux(v3, "PHNUM")
           v5 == AddAux(v4, "PHDR")
           v6 == AddAux(v5, "NULL")
           w3 == AddAux(v2, "NULL")
           f == InitArgs(n, valid)
<1>1. IsVec(args) /\ c \in Nat /\ c >= 1 /\ c + 14 <= MaxArgv /\ MaxArgv \in Nat
  <2>1. IsVec(args) /\ c = IF n = 0 THEN 1 ELSE n
    BY ArgsNamed
  <2> HIDE DEF c, args
  <2> QED BY <2>1, ArgsAssumption DEF Roomy, MaxArgv
<1>2. /\ n = 0 => c = 1 /\ args.argv[0] = KernelName
      /\ n # 0 => c = n /\ \A i \in 0 .. n - 1 : args.argv[i] = Arg(i)
  BY ArgsNamed
<1>3. f = [argc |-> c, argv |-> IF valid THEN v6.argv ELSE w3.argv]
  BY DEF InitArgs, AddAuxs
<1> HIDE DEF args, c
<1>4. IsVec(v) /\ v.index = c + 1 /\ v.argv = args.argv
  BY <1>1 DEF IsVec, AfterArgv, c
<1> HIDE DEF v
<1>5. /\ IsVec(v0) /\ v0.index = c + 2 /\ v0.argv[c + 1] = Null
      /\ \A i \in 0 .. c : v0.argv[i] = args.argv[i]
  BY <1>1, <1>4, EnvStored
<1> HIDE DEF v0
<1>6. /\ IsVec(v1) /\ v1.index = c + 4
      /\ v1.argv[c + 2] = Typ("RANDOM") /\ v1.argv[c + 3] = Value("RANDOM")
      /\ \A i \in 0 .. c + 1 : v1.argv[i] = v0.argv[i]
  BY <1>1, <1>5, AuxStored
<1> HIDE DEF v1
<1>7. /\ IsVec(v2) /\ v2.index = c + 6
      /\ v2.argv[c + 4] = Typ("PAGESZ") /\ v2.argv[c + 5] = Value("PAGESZ")
      /\ \A i \in 0 .. c + 3 : v2.argv[i] = v1.argv[i]
  BY <1>1, <1>6, AuxStored
<1> HIDE DEF v2
<1>8. /\ w3.argv[c + 6] = Typ("NULL")
      /\ \A i \in 0 .. c + 5 : w3.argv[i] = v2.argv[i]
  BY <1>1, <1>7, AuxStored
<1> HIDE DEF w3
<1>9. /\ IsVec(v3) /\ v3.index = c + 8
      /\ v3.argv[c + 6] = Typ("PHENT") /\ v3.argv[c + 7] = Value("PHENT")
      /\ \A i \in 0 .. c + 5 : v3.argv[i] = v2.argv[i]
  BY <1>1, <1>7, AuxStored
<1> HIDE DEF v3
<1>10. /\ IsVec(v4) /\ v4.index = c + 10
       /\ v4.argv[c + 8] = Typ("PHNUM") /\ v4.argv[c + 9] = Value("PHNUM")
       /\ \A i \in 0 .. c + 7 : v4.argv[i] = v3.argv[i]
  BY <1>1, <1>9, AuxStored
<1> HIDE DEF v4
<1>11. /\ IsVec(v5) /\ v5.index = c + 12
       /\ v5.argv[c + 10] = Typ("PHDR") /\ v5.argv[c + 11] = Value("PHDR")
       /\ \A i \in 0 .. c + 9 : v5.argv[i] = v4.argv[i]
  BY <1>1, <1>10, AuxStored
<1> HIDE DEF v5
<1>12. /\ v6.argv[c + 12] = Typ("NULL")
       /\ \A i \in 0 .. c + 11 : v6.argv[i] = v5.argv[i]
  BY <1>1, <1>11, AuxStored
<1> HIDE DEF v6
<1>13. f.argc = c /\ f.argv = IF valid THEN v6.argv ELSE w3.argv
  BY <1>3
<1> HIDE DEF f
<1>14. /\ \A i \in 0 .. c : f.argv[i] = args.argv[i]
       /\ f.argv[c + 1] = Null
       /\ f.argv[c + 2] = Typ("RANDOM") /\ f.argv[c + 3] = Value("RANDOM")
       /\ f.argv[c + 4] = Typ("PAGESZ") /\ f.argv[c + 5] = Value("PAGESZ")
  <2>1. /\ \A i \in 0 .. c : v2.argv[i] = args.argv[i]
        /\ v2.argv[c + 1] = Null
        /\ v2.argv[c + 2] = Typ("RANDOM") /\ v2.argv[c + 3] = Value("RANDOM")
    BY <1>1, <1>5, <1>6, <1>7
  <2>2. \A i \in 0 .. c + 5 : f.argv[i] = v2.argv[i]
    <3>1. \A i \in 0 .. c + 5 : v6.argv[i] = v2.argv[i]
      BY <1>1, <1>9, <1>10, <1>11, <1>12
    <3> QED BY <1>8, <1>13, <3>1
  <2> QED BY <1>1, <1>7, <2>1, <2>2
<1>15. ~valid => f.argv[c + 6] = Typ("NULL")
  BY <1>8, <1>13
<1>16. valid => /\ f.argv[c + 6] = Typ("PHENT") /\ f.argv[c + 7] = Value("PHENT")
                /\ f.argv[c + 8] = Typ("PHNUM") /\ f.argv[c + 9] = Value("PHNUM")
                /\ f.argv[c + 10] = Typ("PHDR") /\ f.argv[c + 11] = Value("PHDR")
                /\ f.argv[c + 12] = Typ("NULL")
  BY <1>1, <1>9, <1>10, <1>11, <1>12, <1>13
<1>17. ReadsArgs(f, n)
  BY <1>1, <1>2, <1>13, <1>14 DEF ReadsArgs
<1>18. ReadsNoEnv(f)
  BY <1>13, <1>14 DEF ReadsNoEnv
<1>19. EnvEnd(f) = c + 1
  <2> DEFINE P(i) == f.argv[i] = Null /\ \A j \in f.argc + 1 .. i - 1 : f.argv[j] # Null
  <2>1. c + 1 \in f.argc + 1 .. MaxArgv - 1 /\ P(c + 1)
    BY <1>1, <1>13, <1>14
  <2>2. ASSUME NEW i \in f.argc + 1 .. MaxArgv - 1, P(i) PROVE i = c + 1
    BY <1>1, <1>13, <1>14, <2>2
  <2> HIDE DEF P
  <2>3. (CHOOSE i \in f.argc + 1 .. MaxArgv - 1 : P(i)) = c + 1
    BY <2>1, <2>2
  <2> QED BY <2>3 DEF P, EnvEnd
<1>20. ReadsAux(f, AuxTypes(valid))
  <2> DEFINE types == AuxTypes(valid)
  <2>1. SUFFICES ASSUME NEW k \in DOMAIN types
                 PROVE  LET i == c + 2 * k IN
                        /\ i + 1 < MaxArgv
                        /\ f.argv[i] = Typ(types[k])
                        /\ types[k] # "NULL" => f.argv[i + 1] = Value(types[k])
    <3>1. \A k \in DOMAIN types : EnvEnd(f) + 2 * k - 1 = c + 2 * k
      BY <1>1, <1>19 DEF AuxTypes
    <3> QED BY <2>1, <3>1 DEF ReadsAux
  <2>2. CASE valid
    <3>1. types = <<"RANDOM", "PAGESZ", "PHENT", "PHNUM", "PHDR", "NULL">>
      BY <2>2 DEF AuxTypes
    <3>2. k \in 1 .. 6
      BY <3>1
    <3>3. k = 1 \/ k = 2 \/ k = 3 \/ k = 4 \/ k = 5 \/ k = 6
      BY <3>2
    <3>4. /\ types[1] = "RANDOM" /\ types[2] = "PAGESZ" /\ types[3] = "PHENT"
          /\ types[4] = "PHNUM" /\ types[5] = "PHDR" /\ types[6] = "NULL"
      BY <3>1
    <3> HIDE DEF types
    <3>5. CASE k = 1 \/ k = 2
      BY <1>1, <1>14, <3>4, <3>5
    <3>6. CASE k = 3 \/ k = 4
      BY <1>1, <1>16, <2>2, <3>4, <3>6
    <3>7. CASE k = 5 \/ k = 6
      BY <1>1, <1>16, <2>2, <3>4, <3>7
    <3> QED BY <3>3, <3>5, <3>6, <3>7
  <2>3. CASE ~valid
    <3>1. types = <<"RANDOM", "PAGESZ", "NULL">>
      BY <2>3 DEF AuxTypes
    <3>2. k \in 1 .. 3
      BY <3>1
    <3>3. k = 1 \/ k = 2 \/ k = 3
      BY <3>2
    <3> QED BY <1>1, <1>14, <1>15, <2>3, <3>1, <3>3
  <2> QED BY <2>2, <2>3
<1> QED BY <1>17, <1>18, <1>20 DEF f

\* For every number of arguments that the configuration allows, the C library
\* finds all of them, the empty environment and all auxiliary vectors with
\* their end, inside the words that init_args sets aside.
THEOREM StartFrameReadable ==
  ASSUME Roomy
  PROVE  StartSpec => []FrameReadable
<1>1. StartInit => FrameReadable
  BY DEF StartInit, FrameReadable, NoFrame
<1>2. FrameReadable /\ [StartNext]_startVars => FrameReadable'
  <2> SUFFICES ASSUME FrameReadable, [StartNext]_startVars PROVE FrameReadable'
    OBVIOUS
  <2>1. CASE frame' = frame
    BY <2>1, Zenon DEF FrameReadable
  <2>2. CASE LeaderArgs
    <3>1. PICK n \in ArgCounts, valid \in BOOLEAN :
            frame' = [made |-> TRUE, n |-> n, valid |-> valid, words |-> InitArgs(n, valid)]
      BY <2>2, Zenon DEF LeaderArgs
    <3>2. n \in Nat
      BY ArgsAssumption
    <3>3. frame'.n = n /\ frame'.valid = valid /\ frame'.words = InitArgs(n, valid)
      BY <3>1
    <3> QED BY <3>2, <3>3, FrameIsRead DEF FrameReadable
  <2>3. frame' = frame \/ LeaderArgs
    BY DEF StartNext, startVars, BootMain, BootSub, ClearBss, Locking
  <2> QED BY <2>1, <2>2, <2>3
<1> QED BY <1>1, <1>2, PTL DEF StartSpec
=============================================================================
