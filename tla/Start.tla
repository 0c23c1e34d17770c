------------------------------- MODULE Start --------------------------------
(***************************************************************************)
(* The boot handshake and the first use of the locks.  A sub hart prints   *)
(* its greeting under k_pri_lock as soon as it has answered, while the     *)
(* main hart is still waking the others; the main hart takes locks again   *)
(* once k_cpu_wakeup_all is over (k_init_leader, k_init_child).  The locks *)
(* lie in .bss, which holds anything until the main hart clears it: a hart *)
(* that took a lock before that would lose it to the clearing.  When all   *)
(* CPUs are up, the main hart lays out the arguments of the program.       *)
(***************************************************************************)
EXTENDS Boot, Spinlock, Args

ASSUME StartAssumption == LockHarts \subseteq Harts

VARIABLE frame          \* the words for the program, and what they were made of

NoFrame == [made |-> FALSE]

startVars == <<vars, lockVars, frame>>

MainHart == HartOf[0]

\* The hart runs C code that may take a lock.
TakesLocks(h) == IF h = MainHart THEN mpc = "leader" ELSE spc[h] = "child"

StartInit ==
  /\ Init
  /\ val \in {0, 1}
  /\ id \in LockHarts \cup {0, NoHart}
  /\ lockPc = [h \in LockHarts |-> "out"]
  /\ frame = NoFrame

\* clear_bss clears the lock word and its id as well.
ClearBss ==
  /\ MainInit
  /\ val' = 0
  /\ id' = 0
  /\ UNCHANGED <<lockPc, frame>>

BootMain == (Main /\ mpc # "init" /\ UNCHANGED <<lockVars, frame>>) \/ ClearBss

BootSub(h) == Sub(h) /\ UNCHANGED <<lockVars, frame>>

Locking(h) == TakesLocks(h) /\ (Call(h) \/ LockStep(h)) /\ UNCHANGED <<vars, frame>>

\* k_init_leader goes on with init_args.
LeaderArgs ==
  /\ mpc = "leader"
  /\ frame = NoFrame
  /\ \E n \in ArgCounts, valid \in BOOLEAN :
       frame' = [made |-> TRUE, n |-> n, valid |-> valid, words |-> InitArgs(n, valid)]
  /\ UNCHANGED <<vars, lockVars>>

StartNext == BootMain \/ (\E h \in Subs : BootSub(h)) \/ (\E h \in LockHarts : Locking(h))
             \/ LeaderArgs

\* The fairness of the parts: every hart leaves reset and executes.
StartSpec ==
  /\ StartInit /\ [][StartNext]_startVars
  /\ WF_startVars(BootMain)
  /\ \A h \in Subs : WF_startVars(BootSub(h))
  /\ \A h \in LockHarts : WF_startVars(LockStep(h) /\ UNCHANGED <<vars, frame>>)

\* From the clearing of .bss on the lock is in order: no hart is in the lock
\* code before the clearing, whatever the order the harts leave reset in.
LockSoundOnceCleared == mpc \notin {"reset", "init"} => LockInv

\* The C library, which has only argc and the address of argv, finds in the
\* words of init_args every argument the host has passed, up to the number
\* the configuration allows, no environment, and all auxiliary vectors with
\* their end, inside the words that are set aside for them.
FrameReadable ==
  frame.made /\ frame.n <= CommMaxArgs =>
    /\ ReadsArgs(frame.words, frame.n)
    /\ ReadsNoEnv(frame.words)
    /\ ReadsAux(frame.words, AuxTypes(frame.valid))

\* The inductive invariant of the start: until .bss is cleared no sub hart has
\* reached C code and nobody is in the lock code, and from then on the lock is
\* in order.
StartInv ==
  /\ IInv
  /\ mpc \in {"reset", "init"} => \A h \in Subs : spc[h] # "child"
  /\ mpc \in {"reset", "init"} => lockPc = [h \in LockHarts |-> "out"]
  /\ LockSoundOnceCleared
=============================================================================
