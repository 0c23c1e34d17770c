-------------------------------- MODULE Boot --------------------------------
(***************************************************************************)
(* Bringing up the cores (arch/riscv/start.S, driver/cpu/riscv.c,          *)
(* k_cpu_wakeup_all of driver/cpu/cpu.c).  All harts come out of reset at  *)
(* any time and in any order.  The main hart names one sub hart after the  *)
(* other in k_boot_proc; the named hart loads its two stack pointers and   *)
(* answers in k_boot_done.  Every hart, however late, writes -1 to         *)
(* k_boot_proc when it leaves reset.                                       *)
(***************************************************************************)
EXTENDS Integers

CONSTANTS
  NumCores,     \* CONFIG_NUM_CORES
  Harts,        \* the harts of the chip, by hart id
  HartOf        \* cpu->id_phys of each CPU; CPU 0 is CONFIG_MAIN_CORE

Cpus == 0 .. NumCores - 1

ASSUME BootAssumption ==
  /\ NumCores \in Nat \ {0}
  /\ Harts \subseteq Nat
  /\ HartOf \in [Cpus -> Harts]
  /\ \A c, d \in Cpus : HartOf[c] = HartOf[d] => c = d

Subs == Harts \ {HartOf[0]}
NoProc == -1

VARIABLES
  proc,         \* k_boot_proc
  spIdle,       \* k_boot_sp_idle: the CPU whose idle stack it is
  spIntr,       \* k_boot_sp_intr: the CPU whose interrupt stack it is
  done,         \* k_boot_done
  mpc,          \* where the main hart is
  cur,          \* i of k_cpu_wakeup_all
  spc,          \* where each sub hart is
  idleOf,       \* the idle stack each sub hart runs on
  intrOf        \* and its interrupt stack (xscratch)

vars == <<proc, spIdle, spIntr, done, mpc, cur, spc, idleOf, intrOf>>

\* k_boot_proc is not initialised by the loader; the others are in .bss,
\* which the main hart clears later.
Init ==
  /\ proc \in Harts \cup {NoProc}
  /\ spIdle \in Cpus
  /\ spIntr \in Cpus
  /\ done \in BOOLEAN
  /\ mpc = "reset"
  /\ cur = 0
  /\ spc = [h \in Subs |-> "reset"]
  /\ idleOf = [h \in Subs |-> 0]
  /\ intrOf = [h \in Subs |-> 0]
-----------------------------------------------------------------------------
(* The main hart.                                                          *)

\* k_reset up to k_start_for_main.
MainReset ==
  /\ mpc = "reset"
  /\ proc' = NoProc
  /\ mpc' = "init"
  /\ UNCHANGED <<spIdle, spIntr, done, cur, spc, idleOf, intrOf>>

\* k_init_system: clear_bss.
MainInit ==
  /\ mpc = "init"
  /\ done' = FALSE
  /\ spIdle' = 0
  /\ spIntr' = 0
  /\ cur' = 1
  /\ mpc' = "next"
  /\ UNCHANGED <<proc, spc, idleOf, intrOf>>

\* Mutant: k_boot_done is left as it was.
MainPrepareKeepsDone ==
  /\ mpc = "next"
  /\ cur < NumCores
  /\ spIdle' = cur
  /\ spIntr' = cur
  /\ mpc' = "test"
  /\ UNCHANGED <<proc, done, cur, spc, idleOf, intrOf>>

\* cpu_riscv_wakeup up to its loop.
MainPrepare ==
  /\ mpc = "next"
  /\ cur < NumCores
  /\ done' = FALSE
  /\ spIdle' = cur
  /\ spIntr' = cur
  /\ mpc' = "test"
  /\ UNCHANGED <<proc, cur, spc, idleOf, intrOf>>

\* while (!k_boot_done)
MainTest ==
  /\ mpc = "test"
  /\ mpc' = IF done THEN "clear" ELSE "store"
  /\ UNCHANGED <<proc, spIdle, spIntr, done, cur, spc, idleOf, intrOf>>

\* Mutant: the logical id of the CPU is written.
MainStoreLogicalId ==
  /\ mpc = "store"
  /\ proc' = cur
  /\ mpc' = "test"
  /\ UNCHANGED <<spIdle, spIntr, done, cur, spc, idleOf, intrOf>>

\* k_boot_proc = cpu->id_phys, again and again.
MainStore ==
  /\ mpc = "store"
  /\ proc' = HartOf[cur]
  /\ mpc' = "test"
  /\ UNCHANGED <<spIdle, spIntr, done, cur, spc, idleOf, intrOf>>

\* k_boot_proc = -1, and on to the next CPU.
MainClear ==
  /\ mpc = "clear"
  /\ proc' = NoProc
  /\ cur' = cur + 1
  /\ mpc' = "next"
  /\ UNCHANGED <<spIdle, spIntr, done, spc, idleOf, intrOf>>

\* k_cpu_wakeup_all is over.
MainLeader ==
  /\ mpc = "next"
  /\ cur >= NumCores
  /\ mpc' = "leader"
  /\ UNCHANGED <<proc, spIdle, spIntr, done, cur, spc, idleOf, intrOf>>

Main == MainReset \/ MainInit \/ MainPrepare \/ MainTest \/ MainStore \/ MainClear \/ MainLeader
-----------------------------------------------------------------------------
(* The other harts.                                                        *)

SubGoto(h, from, to) ==
  /\ spc[h] = from
  /\ spc' = [spc EXCEPT ![h] = to]

\* Mutant: a sub hart leaves k_boot_proc alone.
SubResetKeepsProc(h) ==
  /\ SubGoto(h, "reset", "spin")
  /\ UNCHANGED <<proc, spIdle, spIntr, done, mpc, cur, idleOf, intrOf>>

\* k_reset up to k_start_for_sub.
SubReset(h) ==
  /\ SubGoto(h, "reset", "spin")
  /\ proc' = NoProc
  /\ UNCHANGED <<spIdle, spIntr, done, mpc, cur, idleOf, intrOf>>

\* Mutant: any name ends the wait.
SubNamedAny(h) ==
  /\ SubGoto(h, "spin", "load_idle")
  /\ proc # NoProc
  /\ UNCHANGED <<proc, spIdle, spIntr, done, mpc, cur, idleOf, intrOf>>

\* The spin loop sees the own hart id.
SubNamed(h) ==
  /\ SubGoto(h, "spin", "load_idle")
  /\ proc = h
  /\ UNCHANGED <<proc, spIdle, spIntr, done, mpc, cur, idleOf, intrOf>>

SubLoadIdle(h) ==
  /\ SubGoto(h, "load_idle", "load_intr")
  /\ idleOf' = [idleOf EXCEPT ![h] = spIdle]
  /\ UNCHANGED <<proc, spIdle, spIntr, done, mpc, cur, intrOf>>

SubLoadIntr(h) ==
  /\ SubGoto(h, "load_intr", "answer")
  /\ intrOf' = [intrOf EXCEPT ![h] = spIntr]
  /\ UNCHANGED <<proc, spIdle, spIntr, done, mpc, cur, idleOf>>

\* k_boot_done = 1, and on to k_init_child.
SubAnswer(h) ==
  /\ SubGoto(h, "answer", "child")
  /\ done' = TRUE
  /\ UNCHANGED <<proc, spIdle, spIntr, mpc, cur, idleOf, intrOf>>

Sub(h) == SubReset(h) \/ SubNamed(h) \/ SubLoadIdle(h) \/ SubLoadIntr(h) \/ SubAnswer(h)
-----------------------------------------------------------------------------
Next == Main \/ \E h \in Subs : Sub(h)

\* Every hart leaves reset some day and then executes.
Spec == Init /\ [][Next]_vars /\ WF_vars(Main) /\ \A h \in Subs : WF_vars(Sub(h))
-----------------------------------------------------------------------------
TypeOK ==
  /\ proc \in Harts \cup {NoProc}
  /\ spIdle \in Cpus
  /\ spIntr \in Cpus
  /\ done \in BOOLEAN
  /\ mpc \in {"reset", "init", "next", "test", "store", "clear", "leader"}
  /\ cur \in Nat
  /\ spc \in [Subs -> {"reset", "spin", "load_idle", "load_intr", "answer", "child"}]
  /\ idleOf \in [Subs -> Cpus]
  /\ intrOf \in [Subs -> Cpus]

\* A sub hart that runs C code does so on the stacks of its own CPU, so no
\* two harts ever share a stack, whatever the order they leave reset in.
OwnStacks ==
  \A h \in Subs : spc[h] = "child" =>
    \E c \in Cpus : HartOf[c] = h /\ idleOf[h] = c /\ intrOf[h] = c

\* When k_cpu_wakeup_all returns every CPU has taken its stacks: the main
\* hart does not go on to start the program while one is on its way.
LeaderAfterChildren ==
  mpc = "leader" => \A c \in Cpus \ {0} : spc[HartOf[c]] = "child"

\* The handshake does come to an end, although a hart that leaves reset late
\* overwrites the name the main hart has just written.
AllBoot == <>(mpc = "leader")

\* The main hart is in cpu_riscv_wakeup for CPU cur.
Waking == mpc \in {"test", "store", "clear"}

\* Some hart has written -1: the contents of k_boot_proc are not a leftover.
Cleared == mpc # "reset" \/ \E h \in Subs : spc[h] # "reset"

Loading(h) == spc[h] \in {"load_idle", "load_intr", "answer"}

\* The inductive invariant of the handshake.
IInv ==
  /\ TypeOK
  /\ Cleared => proc = NoProc \/ (Waking /\ proc = HartOf[cur])
  /\ mpc \in {"reset", "init"} => cur = 0
  /\ mpc \notin {"reset", "init"} => cur >= 1
  /\ Waking => cur < NumCores /\ spIdle = cur /\ spIntr = cur
  /\ mpc = "leader" => cur >= NumCores
  /\ Waking /\ done => spc[HartOf[cur]] = "child"
  /\ mpc = "clear" => done
  /\ \A h \in Subs : Loading(h) => Waking /\ h = HartOf[cur] /\ ~done
  /\ \A h \in Subs : spc[h] \in {"load_intr", "answer"} => idleOf[h] = cur
  /\ \A h \in Subs : spc[h] = "answer" => intrOf[h] = cur
  /\ \A c \in Cpus \ {0} : c < cur => spc[HartOf[c]] = "child"
  /\ OwnStacks
=============================================================================
