------------------------------- MODULE Futex --------------------------------
(***************************************************************************)
(* Futexes (driver/cpu/cpu.c, called from sys/syscall.c).  There is no     *)
(* wait queue: the futex a task blocks on is a slot of its CPU device,     *)
(* because a CPU has at most one task.  A waiter publishes its slot, looks *)
(* at the word, and sleeps in wfi with interrupts off; a waker walks over  *)
(* the slots of the other CPUs, sets "wakeup" and raises an IPI.           *)
(*                                                                         *)
(* A section between k_cpu_lock and k_cpu_unlock is one step: Spinlock     *)
(* shows that the lock excludes, and everything another CPU reads or       *)
(* writes of a slot is inside such a section.  The reads of wakeup and of  *)
(* the user word outside of it are steps of their own.                     *)
(*                                                                         *)
(* The IPI is the MSIP bit of the CLINT: a latch that is cleared when the  *)
(* interrupt is taken.  The board names an IPI controller, so              *)
(* k_cpu_raise_ipi returns 0.  Calls with a NULL address, an unknown       *)
(* command or an empty bitset return an error and change nothing; the      *)
(* timeout of FUTEX_WAIT is ignored by the code.                           *)
(***************************************************************************)
EXTENDS Integers

CONSTANTS
  NumCores,    \* CONFIG_NUM_CORES
  Addrs,       \* user words a futex is built on
  Vals,        \* values they take
  Bits,        \* bits of a bitset; all of them are FUTEX_BITSET_ANY
  Counts,      \* counts user space passes to FUTEX_WAKE
  WakeCounts,  \* those it passes for the wake after a store
  NULL

ASSUME FutexAssumption ==
  /\ NumCores \in Nat \ {0}
  /\ Counts \cup WakeCounts \subseteq Int
  /\ Bits # {}
  /\ NULL \notin Addrs
  /\ NULL \notin Vals

Cpus == 0 .. NumCores - 1

VARIABLES
  mem,         \* user memory
  futex,       \* uaddr, val and bitset of cpu->futex of each CPU
  wakeup,      \* cpu->futex.wakeup of each CPU
  msip,        \* pending IPI of each CPU
  pc,          \* where each CPU is
  req,         \* arguments of the futex call each CPU is in
  idx,         \* i of k_cpu_futex_wake
  res          \* res of k_cpu_futex_wait and k_cpu_futex_wake

vars == <<mem, futex, wakeup, msip, pc, req, idx, res>>

EWOULDBLOCK == -11

NoFutex == [uaddr |-> NULL, val |-> NULL, bitset |-> {}]

Init ==
  /\ mem \in [Addrs -> Vals]
  /\ futex = [c \in Cpus |-> NoFutex]
  /\ wakeup = [c \in Cpus |-> FALSE]
  /\ msip = [c \in Cpus |-> FALSE]
  /\ pc = [c \in Cpus |-> "user"]
  /\ req = [c \in Cpus |-> NoFutex]
  /\ idx = [c \in Cpus |-> 0]
  /\ res = [c \in Cpus |-> 0]

Goto(c, from, to) ==
  /\ pc[c] = from
  /\ pc' = [pc EXCEPT ![c] = to]

\* Back to user space; the locals of the call are gone.
Return(c, from) ==
  /\ Goto(c, from, "user")
  /\ req' = [req EXCEPT ![c] = NoFutex]
  /\ idx' = [idx EXCEPT ![c] = 0]
  /\ res' = [res EXCEPT ![c] = 0]

-----------------------------------------------------------------------------
(* User space.                                                             *)

\* A task stores to a futex word.  Its next futex call is the wake that user
\* space owes the waiters of that word.
Store(c) ==
  /\ Goto(c, "user", "post")
  /\ \E a \in Addrs, v \in Vals :
       /\ mem' = [mem EXCEPT ![a] = v]
       /\ req' = [req EXCEPT ![c] = [uaddr |-> a, val |-> NULL, bitset |-> {}]]
  /\ UNCHANGED <<futex, wakeup, msip, idx, res>>

\* k_sys_futex64 with FUTEX_WAKE, for the store above.
PostWake(c) ==
  /\ Goto(c, "post", "wake_scan")
  /\ \E n \in WakeCounts :
       req' = [req EXCEPT ![c] = [uaddr |-> req[c].uaddr, val |-> n, bitset |-> Bits]]
  /\ UNCHANGED <<mem, futex, wakeup, msip, idx, res>>

\* k_sys_futex64 with FUTEX_WAKE, FUTEX_WAKE_BITSET or FUTEX_REQUEUE (which
\* the code treats as a wake), with any count and bitset.
CallWake(c) ==
  /\ Goto(c, "user", "wake_scan")
  /\ \E a \in Addrs, n \in Counts, b \in (SUBSET Bits) \ {{}} :
       req' = [req EXCEPT ![c] = [uaddr |-> a, val |-> n, bitset |-> b]]
  /\ UNCHANGED <<mem, futex, wakeup, msip, idx, res>>

\* k_sys_futex64 with FUTEX_WAIT or FUTEX_WAIT_BITSET.
CallWait(c) ==
  /\ Goto(c, "user", "wait_register")
  /\ \E a \in Addrs, v \in Vals, b \in (SUBSET Bits) \ {{}} :
       req' = [req EXCEPT ![c] = [uaddr |-> a, val |-> v, bitset |-> b]]
  /\ UNCHANGED <<mem, futex, wakeup, msip, idx, res>>

\* In user space interrupts are on: the handler of the CLINT clears MSIP.
UserInterrupt(c) ==
  /\ pc[c] \in {"user", "post"}
  /\ msip[c]
  /\ msip' = [msip EXCEPT ![c] = FALSE]
  /\ UNCHANGED <<mem, futex, wakeup, pc, req, idx, res>>
-----------------------------------------------------------------------------
(* k_cpu_futex_wait.                                                       *)

WaitRegister(c) ==
  /\ Goto(c, "wait_register", "wait_wakeup")
  /\ futex' = [futex EXCEPT ![c] = req[c]]
  /\ wakeup' = [wakeup EXCEPT ![c] = FALSE]
  /\ UNCHANGED <<mem, msip, req, idx, res>>

\* while (!cpu->futex.wakeup)
WaitTestWakeup(c) ==
  /\ Goto(c, "wait_wakeup", IF wakeup[c] THEN "wait_clear" ELSE "wait_val")
  /\ UNCHANGED <<mem, futex, wakeup, msip, req, idx, res>>

\* if (*p != cpu->futex.val)
WaitMismatch(c) ==
  /\ Goto(c, "wait_val", "wait_clear")
  /\ mem[req[c].uaddr] # futex[c].val
  /\ res' = [res EXCEPT ![c] = EWOULDBLOCK]
  /\ UNCHANGED <<mem, futex, wakeup, msip, req, idx>>

\* Mutant: the word is not compared, the task sleeps until it is woken.
WaitSleepAlways(c) ==
  /\ Goto(c, "wait_val", "wait_wfi")
  /\ UNCHANGED <<mem, futex, wakeup, msip, req, idx, res>>

\* The word still has the value: on to wfi.
WaitSleep(c) ==
  /\ Goto(c, "wait_val", "wait_wfi")
  /\ mem[req[c].uaddr] = futex[c].val
  /\ UNCHANGED <<mem, futex, wakeup, msip, req, idx, res>>

\* wfi returns because an IPI is pending, even with interrupts off; it is
\* then taken between k_intr_enable_local and k_intr_disable_local.
WaitWfi(c) ==
  /\ Goto(c, "wait_wfi", "wait_wakeup")
  /\ msip[c]
  /\ msip' = [msip EXCEPT ![c] = FALSE]
  /\ UNCHANGED <<mem, futex, wakeup, req, idx, res>>

\* wfi returns because of the timer interrupt, which nobody counts on.
WaitTick(c) ==
  /\ Goto(c, "wait_wfi", "wait_wakeup")
  /\ UNCHANGED <<mem, futex, wakeup, msip, req, idx, res>>

WaitClear(c) ==
  /\ Return(c, "wait_clear")
  /\ futex' = [futex EXCEPT ![c] = NoFutex]
  /\ wakeup' = [wakeup EXCEPT ![c] = FALSE]
  /\ UNCHANGED <<mem, msip>>
-----------------------------------------------------------------------------
(* k_cpu_futex_wake.                                                       *)

\* Mutant: the address is not compared.
SkippedByBitset(c, d) ==
  \/ d = c
  \/ futex[d].bitset \cap req[c].bitset = {}

\* Mutant: the last CPU is never looked at.
SkippedOffByOne(c, d) ==
  \/ d = c
  \/ d = NumCores - 1      \* i < CONFIG_NUM_CORES - 1
  \/ futex[d].uaddr # req[c].uaddr
  \/ futex[d].bitset \cap req[c].bitset = {}

\* The slot of CPU d is not what the wake of CPU c looks for.
Skipped(c, d) ==
  \/ d = c
  \/ futex[d].uaddr # req[c].uaddr
  \/ futex[d].bitset \cap req[c].bitset = {}

InLoop(c) == idx[c] < NumCores /\ res[c] < req[c].val

\* One turn of the loop that ends in "continue".
WakeSkip(c) ==
  /\ pc[c] = "wake_scan"
  /\ InLoop(c)
  /\ Skipped(c, idx[c])
  /\ idx' = [idx EXCEPT ![c] = @ + 1]
  /\ UNCHANGED <<mem, futex, wakeup, msip, pc, req, res>>

\* One that finds a waiter, up to k_cpu_unlock.
WakeMark(c) ==
  /\ Goto(c, "wake_scan", "wake_ipi")
  /\ InLoop(c)
  /\ ~Skipped(c, idx[c])
  /\ wakeup' = [wakeup EXCEPT ![idx[c]] = TRUE]
  /\ UNCHANGED <<mem, futex, msip, req, idx, res>>

\* Mutant: the IPI goes to the CPU that calls.
WakeIpiToSelf(c) ==
  /\ Goto(c, "wake_ipi", "wake_scan")
  /\ msip' = [msip EXCEPT ![c] = TRUE]
  /\ idx' = [idx EXCEPT ![c] = @ + 1]
  /\ res' = [res EXCEPT ![c] = @ + 1]
  /\ UNCHANGED <<mem, futex, wakeup, req>>

\* k_cpu_raise_ipi, res++ and i++.
WakeIpi(c) ==
  /\ Goto(c, "wake_ipi", "wake_scan")
  /\ msip' = [msip EXCEPT ![idx[c]] = TRUE]
  /\ idx' = [idx EXCEPT ![c] = @ + 1]
  /\ res' = [res EXCEPT ![c] = @ + 1]
  /\ UNCHANGED <<mem, futex, wakeup, req>>

\* The loop is over.
WakeReturn(c) ==
  /\ Return(c, "wake_scan")
  /\ ~InLoop(c)
  /\ UNCHANGED <<mem, futex, wakeup, msip>>
-----------------------------------------------------------------------------
\* What a CPU does by itself once it is in a futex call or owes one.
Kernel(c) ==
  \/ PostWake(c) \/ WaitRegister(c) \/ WaitTestWakeup(c) \/ WaitMismatch(c)
  \/ WaitSleep(c) \/ WaitWfi(c) \/ WaitClear(c)
  \/ WakeSkip(c) \/ WakeMark(c) \/ WakeIpi(c) \/ WakeReturn(c)

\* What the program and the timer decide on.
User(c) == Store(c) \/ CallWait(c) \/ CallWake(c) \/ UserInterrupt(c) \/ WaitTick(c)

Next == \E c \in Cpus : Kernel(c) \/ User(c)

\* A CPU executes its instructions; what a task does in user space is up to
\* the program, except that it does not stop between a store and its wake.
\* A timer tick may end any wfi, but none has to come.
Spec == Init /\ [][Next]_vars /\ \A c \in Cpus : WF_vars(Kernel(c))
-----------------------------------------------------------------------------
Sleeping(c) == pc[c] = "wait_wfi"

\* The task of CPU c has published its slot and not yet decided to return.
Waiting(c) == pc[c] \in {"wait_wakeup", "wait_val", "wait_wfi"}

\* The word no longer has the value the task of CPU c waits on.
Changed(c) == mem[req[c].uaddr] # req[c].val

\* A wake that does not stop before it has looked at every CPU, and that
\* will still look at CPU c.
WakeAllAhead(d, c) ==
  \/ pc[d] = "post" /\ req[d].uaddr = req[c].uaddr
  \/ /\ \/ pc[d] = "wake_scan" /\ idx[d] <= c
        \/ pc[d] = "wake_ipi" /\ idx[d] < c
     /\ req[d].uaddr = req[c].uaddr
     /\ req[d].bitset = Bits
     /\ req[d].val >= NumCores

Waits == {"wait_register", "wait_wakeup", "wait_val", "wait_wfi", "wait_clear"}
Pcs == Waits \cup {"user", "post", "wake_scan", "wake_ipi"}

\* Types of the kernel's and the user's state; the argument record of a call
\* is complete for as long as the call lasts.
TypeOK ==
  /\ mem \in [Addrs -> Vals]
  /\ futex \in [Cpus -> [uaddr : Addrs \cup {NULL}, val : Vals \cup {NULL},
                         bitset : SUBSET Bits]]
  /\ wakeup \in [Cpus -> BOOLEAN]
  /\ msip \in [Cpus -> BOOLEAN]
  /\ pc \in [Cpus -> Pcs]
  /\ req \in [Cpus -> [uaddr : Addrs \cup {NULL}, val : Vals \cup Int \cup {NULL},
                       bitset : SUBSET Bits]]
  /\ \A c \in Cpus :
       /\ pc[c] = "user" => req[c] = NoFutex
       /\ pc[c] # "user" => req[c].uaddr \in Addrs
       /\ pc[c] \notin {"user", "post"} => req[c].bitset # {}
       /\ pc[c] \in Waits => req[c].val \in Vals
       /\ pc[c] \in {"wake_scan", "wake_ipi"} => req[c].val \in Int
  /\ idx \in [Cpus -> 0 .. NumCores]
  /\ res \in [Cpus -> Int]

\* k_cpu_futex_wait sleeps only where an interrupt will end the sleep: when
\* the slot of a CPU that has passed the test of "wakeup" is marked, its IPI
\* is pending or the waker that marked it is about to raise it.  An IPI must
\* not be consumed between that test and wfi.
NoLostWakeup ==
  \A c \in Cpus :
    pc[c] \in {"wait_val", "wait_wfi"} /\ wakeup[c] =>
      msip[c] \/ \E d \in Cpus : pc[d] = "wake_ipi" /\ idx[d] = c

\* The register-then-test order of k_cpu_futex_wait against the store-then-
\* wake order of user space: a task asleep on a word that has changed is
\* marked already, or the wake of the task that changed the word has still
\* to look at its slot.  For programs that wake every waiter.
StaleSleeperCovered ==
  (\A n \in WakeCounts : n >= NumCores) =>
    \A c \in Cpus : Sleeping(c) /\ Changed(c) =>
      wakeup[c] \/ \E d \in Cpus : WakeAllAhead(d, c)

\* A slot is exactly the call of its own CPU, from the registration to the
\* clearing section of k_cpu_futex_wait, and empty at any other time: no slot
\* survives its call to be matched by the wake of somebody else's word.
SlotIsCall ==
  \A c \in Cpus :
    IF Waiting(c) \/ pc[c] = "wait_clear"
      THEN futex[c] = req[c]
      ELSE futex[c] = NoFutex /\ ~wakeup[c]

\* The loop of k_cpu_futex_wake cannot have counted more CPUs than it has
\* passed, and it never aims an IPI at its own CPU.
LoopBounds ==
  \A c \in Cpus :
    /\ pc[c] \in {"wake_scan", "wake_ipi"} => res[c] <= idx[c]
    /\ pc[c] = "wake_ipi" => idx[c] < NumCores /\ idx[c] # c
    /\ pc[c] \notin {"wake_scan", "wake_ipi"} => idx[c] = 0
    /\ pc[c] \notin {"wake_scan", "wake_ipi", "wait_clear"} => res[c] = 0

\* The inductive invariant of the futex call.
IInv == TypeOK /\ SlotIsCall /\ LoopBounds /\ NoLostWakeup /\ StaleSleeperCovered

\* Each marked task returns from k_cpu_futex_wait, without the help of the
\* timer tick.
MarkedReturns == \A c \in Cpus : wakeup[c] ~> ~wakeup[c]

\* A task waiting on a word that has changed stops waiting, unless the word
\* changes back.
ChangedReturns == \A c \in Cpus : Waiting(c) /\ Changed(c) ~> ~Waiting(c) \/ ~Changed(c)

\* The abstract wait call a CPU is in: it has its cause to return from the
\* moment its slot is marked or the word was seen to differ.
AbsWait(c) ==
  IF pc[c] \in Waits
    THEN [st |-> IF pc[c] = "wait_clear" \/ (Waiting(c) /\ wakeup[c]) THEN "done" ELSE "in",
          uaddr |-> req[c].uaddr, val |-> req[c].val, bitset |-> req[c].bitset]
    ELSE [st |-> "out", uaddr |-> NULL, val |-> NULL, bitset |-> {}]

AbsWake(c) ==
  IF pc[c] \in {"wake_scan", "wake_ipi"}
    THEN [uaddr |-> req[c].uaddr, bitset |-> req[c].bitset]
    ELSE [uaddr |-> NULL, bitset |-> {}]

Abs == INSTANCE FutexAbs WITH wait <- [c \in Cpus |-> AbsWait(c)],
                              wake <- [c \in Cpus |-> AbsWake(c)]

\* The per-CPU slots implement the futex call: a wait returns only for a
\* changed word or for a wake on its word with a common bit.
ImplementsFutex == Abs!Spec
=============================================================================
