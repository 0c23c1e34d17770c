-------------------------------- MODULE Clock -------------------------------
(***************************************************************************)
(* The clock of the runtime (sys/clock.c) on the CLINT timer of a 32 bit   *)
(* core (driver/timer/sifive/clint_timer.c).  mtime goes on while a CPU    *)
(* reads its two halves, and mtimecmp is written in two halves.  The timer *)
(* interrupt and the system calls run with interrupts off, so a CPU does   *)
(* one of them at a time; nothing excludes the other CPUs.                 *)
(*                                                                         *)
(* ts_realtime_off is shared and not locked.  Its fields are stored and    *)
(* loaded one by one, in any order, and timespecsub may store the sum      *)
(* before the borrow.  Only accesses that overlap can tell.                *)
(***************************************************************************)
EXTENDS Integers

CONSTANTS
  Cpus,
  Half,         \* 2^32: the values of one half of a register
  Freq,         \* counts of mtime in a second
  Nsec,         \* 10^9: nanoseconds in a second
  Hz,           \* CONFIG_SYSTEM_TIMER_HZ
  Times,        \* the times the program sets
  Resets,       \* what mtimecmp may be after a reset: functions on Cpus
  MaxTime,      \* bound: mtime stops here
  MaxCalls      \* bound: the system calls of all CPUs

ASSUME ClockAssumption ==
  /\ {Half, Freq, Nsec, Hz} \subseteq Nat \ {0}
  /\ Freq <= Nsec
  /\ {MaxTime, MaxCalls} \subseteq Nat
  /\ Times \subseteq [sec : Int, nsec : Int]
  /\ Resets \subseteq [Cpus -> Nat]

VARIABLES
  mtime,        \* the counter of the CLINT
  cmp,          \* mtimecmp of each CPU
  cpu,          \* the call or the handler each CPU is in, with its locals
  off,          \* ts_realtime_off
  calls,        \* the calls made, for the bound
  ticked,       \* history: mtime at the last tick of each CPU
  goal          \* history: {the offset set last, in ns}, {} after sets at once

clockVars == <<mtime, cmp, cpu, off, calls, ticked, goal>>

Fields == {"sec", "nsec"}
Zero == [sec |-> 0, nsec |-> 0]
Ns(t) == t.sec * Nsec + t.nsec

\* timespecadd and timespecsub: the fields, then the carry or the borrow
Add(a, b) == [sec |-> a.sec + b.sec, nsec |-> a.nsec + b.nsec]
Sub(a, b) == [sec |-> a.sec - b.sec, nsec |-> a.nsec - b.nsec]
Carry(t) ==
  IF t.nsec >= Nsec THEN [sec |-> t.sec + 1, nsec |-> t.nsec - Nsec] ELSE t
Borrow(t) ==
  IF t.nsec < 0 THEN [sec |-> t.sec - 1, nsec |-> t.nsec + Nsec] ELSE t

\* k_clock_raw_to_timespec and k_clock_timespec_to_raw
RawToTs(n) == [sec |-> n \div Freq, nsec |-> ((n % Freq) * Nsec) \div Freq]
TsToRaw(t) == t.sec * Freq + (t.nsec * Freq) \div Nsec

\* The time k_clock_on_tick asks for; the mutant forgets the carry.
NextTickNoCarry(t) == [t EXCEPT !.nsec = (@ + Nsec \div Hz) % Nsec]
NextTick(t) == Carry(Add(t, [sec |-> 0, nsec |-> Nsec \div Hz]))

\* timer_clint_set_trigger: the count to be written to mtimecmp
Trigger(t) == TsToRaw(NextTick(t))

\* The counts of a tick.
Tick == ((Nsec \div Hz) * Freq) \div Nsec

\* A CPU in user mode.  In a call, vh and vl are the locals of get_raw, ts is
\* the time to set and then the time computed, todo the fields of
\* ts_realtime_off to be accessed.  History: began is mtime at the entry, and
\* alone holds as long as no set overlaps with this access to ts_realtime_off.
User ==
  [pc |-> "user", op |-> "none", vh |-> 0, vl |-> 0, ts |-> Zero, todo |-> {},
   began |-> 0, alone |-> FALSE]

\* Nothing sets mtimecmp before the first tick: it is what the reset left there.
ClockInit ==
  /\ mtime = 0
  /\ cmp \in Resets
  /\ cpu = [c \in Cpus |-> User]
  /\ off = Zero
  /\ calls = 0
  /\ ticked = [c \in Cpus |-> -Tick]
  /\ goal = {0}
-----------------------------------------------------------------------------
(* Calls and interrupts.                                                   *)

\* External: mtime counts.
Count ==
  /\ mtime < MaxTime
  /\ mtime' = mtime + 1
  /\ UNCHANGED <<cmp, cpu, off, calls, ticked, goal>>

Enter(c, o, t) ==
  /\ cpu[c].pc = "user"
  /\ cpu' = [cpu EXCEPT ![c] = [User EXCEPT !.pc = "hi", !.op = o, !.ts = t, !.began = mtime]]
  /\ UNCHANGED <<mtime, cmp, off, goal>>

\* A pending interrupt is taken before the program makes its next call.
Pending(c) == mtime >= cmp[c]

Call(c, o, t) ==
  ~Pending(c) /\ calls < MaxCalls /\ calls' = calls + 1 /\ Enter(c, o, t) /\ UNCHANGED ticked

\* k_sys_clock_gettime64, which clock_gettime32 calls and gettimeofday repeats;
\* a call that is refused (-EFAULT, -EINVAL) changes nothing.
GetTime(c) == \E o \in {"mono", "get"} : Call(c, o, Zero)

\* k_sys_clock_settime64, which clock_settime32 calls and settimeofday repeats
SetTime(c) == \E t \in Times : Call(c, "set", t)

\* timer_clint_intr
OnTick(c) ==
  /\ Pending(c)
  /\ Enter(c, "tick", Zero)
  /\ ticked' = [ticked EXCEPT ![c] = mtime]
  /\ UNCHANGED calls
-----------------------------------------------------------------------------
(* timer_clint_get_raw: REG_MTIMEH, REG_MTIMEL, REG_MTIMEH again           *)

ReadHigh(c) ==
  /\ cpu[c].pc = "hi"
  /\ cpu' = [cpu EXCEPT ![c].vh = mtime \div Half, ![c].pc = "lo"]
  /\ UNCHANGED <<mtime, cmp, off, calls, ticked, goal>>

ReadLow(c) ==
  /\ cpu[c].pc = "lo"
  /\ cpu' = [cpu EXCEPT ![c].vl = mtime % Half, ![c].pc = "again"]
  /\ UNCHANGED <<mtime, cmp, off, calls, ticked, goal>>

\* The call goes on with the time t; a set that is about to store overlaps
\* with the other accesses to ts_realtime_off.
GotState(c, t) ==
  LET o == cpu[c].op
      next == IF o = "mono" THEN "ret" ELSE IF o = "tick" THEN "cmph"
              ELSE IF o = "set" THEN "store" ELSE "load"
      others == {d \in Cpus \ {c} : cpu[d].pc = "store"}
  IN  cpu' = [d \in Cpus |->
                IF d = c
                  THEN [cpu[c] EXCEPT !.pc = next, !.ts = t, !.vh = 0, !.vl = 0, !.alone = others = {},
                          !.todo = IF o \in {"set", "get"} THEN Fields ELSE {}]
                  ELSE [cpu[d] EXCEPT !.alone = @ /\ o # "set"]]

\* What k_clock_get_monotonic was called for; a set subtracts the time and
\* stores the difference with or before the borrow.
Got(c, mono) ==
  LET diff == Sub(cpu[c].ts, mono)
  IN  \E t \in IF cpu[c].op = "set" THEN {diff, Borrow(diff)} ELSE {mono} : GotState(c, t)

\* vh1 = vh2; the mutant leaves out the second read.
SameHighUnread(c) == TRUE
SameHigh(c) == cpu[c].vh = mtime \div Half

ReadHighAgain(c) ==
  /\ cpu[c].pc = "again"
  /\ IF SameHigh(c)
       THEN Got(c, RawToTs(cpu[c].vh * Half + cpu[c].vl))
       ELSE cpu' = [cpu EXCEPT ![c].pc = "hi"]
  /\ UNCHANGED <<mtime, cmp, off, calls, ticked, goal>>
-----------------------------------------------------------------------------
(* timer_clint_set_timecmp: REG_MTIMECMPH, then REG_MTIMECMPL              *)

\* The mutant: the high half is not written.
WriteHighSkipped(c) ==
  /\ cpu[c].pc = "cmph"
  /\ cpu' = [cpu EXCEPT ![c].pc = "cmpl"]
  /\ UNCHANGED <<mtime, cmp, off, calls, ticked, goal>>

WriteHigh(c) ==
  /\ cpu[c].pc = "cmph"
  /\ cmp' = [cmp EXCEPT ![c] = (Trigger(cpu[c].ts) \div Half) * Half + (@ % Half)]
  /\ cpu' = [cpu EXCEPT ![c].pc = "cmpl"]
  /\ UNCHANGED <<mtime, off, calls, ticked, goal>>

WriteLow(c) ==
  /\ cpu[c].pc = "cmpl"
  /\ cmp' = [cmp EXCEPT ![c] = (@ \div Half) * Half + (Trigger(cpu[c].ts) % Half)]
  /\ cpu' = [cpu EXCEPT ![c] = User]
  /\ UNCHANGED <<mtime, off, calls, ticked, goal>>
-----------------------------------------------------------------------------
(* The offset of the real time.                                            *)

\* k_clock_set_realtime; when the borrow is still to come, the fields are
\* stored a second time.
StoreOffset(c) ==
  /\ cpu[c].pc = "store"
  /\ \E f \in cpu[c].todo :
       /\ off' = [off EXCEPT ![f] = cpu[c].ts[f]]
       /\ LET rest == cpu[c].todo \ {f}
              t == cpu[c].ts IN
          \/ /\ rest # {}
             /\ cpu' = [cpu EXCEPT ![c].todo = rest]
             /\ UNCHANGED goal
          \/ /\ rest = {} /\ Borrow(t) # t
             /\ cpu' = [cpu EXCEPT ![c].ts = Borrow(t), ![c].todo = Fields]
             /\ UNCHANGED goal
          \/ /\ rest = {} /\ Borrow(t) = t
             /\ cpu' = [cpu EXCEPT ![c] = User]
             /\ goal' = IF cpu[c].alone THEN {Ns(t)} ELSE {}
  /\ UNCHANGED <<mtime, cmp, calls, ticked>>

\* k_clock_get_realtime; the carry comes last.  The mutant has no carry.
LoadedRaw(t) == t
Loaded(t) == Carry(t)

LoadOffset(c) ==
  /\ cpu[c].pc = "load"
  /\ \E f \in cpu[c].todo :
       LET rest == cpu[c].todo \ {f}
           sum == [cpu[c].ts EXCEPT ![f] = @ + off[f]]
       IN  cpu' = IF rest = {}
                    THEN [cpu EXCEPT ![c].todo = rest, ![c].ts = Loaded(sum), ![c].pc = "ret"]
                    ELSE [cpu EXCEPT ![c].todo = rest, ![c].ts = sum]
  /\ UNCHANGED <<mtime, cmp, off, calls, ticked, goal>>

\* The system call returns.
Return(c) ==
  /\ cpu[c].pc = "ret"
  /\ cpu' = [cpu EXCEPT ![c] = User]
  /\ UNCHANGED <<mtime, cmp, off, calls, ticked, goal>>
-----------------------------------------------------------------------------
Step(c) ==
  \/ OnTick(c) \/ ReadHigh(c) \/ ReadLow(c) \/ ReadHighAgain(c) \/ WriteHigh(c)
  \/ WriteLow(c) \/ StoreOffset(c) \/ LoadOffset(c) \/ Return(c)

ClockNext == Count \/ \E c \in Cpus : Step(c) \/ GetTime(c) \/ SetTime(c)

\* A CPU goes on and takes its interrupts, and time goes on.
ClockSpec ==
  /\ ClockInit /\ [][ClockNext]_clockVars
  /\ WF_clockVars(Count) /\ \A c \in Cpus : WF_clockVars(Step(c))
-----------------------------------------------------------------------------
\* A time that k_clock_get_monotonic returns is one the clock had during the
\* call, also when the low half of mtime rolls over between its two reads.
TimeInCall ==
  \A c \in Cpus :
    cpu[c].pc = "cmph" \/ (cpu[c].pc = "ret" /\ cpu[c].op = "mono")
      => Ns(cpu[c].ts) \in Ns(RawToTs(cpu[c].began)) .. Ns(RawToTs(mtime))

\* A time that k_clock_get_realtime returns is normal and is the one of the
\* last set, moved by the clock: when no set overlaps with the get, and the
\* sets not with each other.
RealtimeFollows ==
  \A c \in Cpus : \A g \in goal :
    cpu[c].pc = "ret" /\ cpu[c].op = "get" /\ cpu[c].alone
      => /\ cpu[c].ts.nsec \in 0 .. Nsec - 1
         /\ Ns(cpu[c].ts) - g \in Ns(RawToTs(cpu[c].began)) .. Ns(RawToTs(mtime))

\* The tick of a CPU comes a tick after the one before, less one count for the
\* two roundings: neither the calls nor the other CPUs nor the half written
\* mtimecmp make it come early.
TickSpacing ==
  [][\A c \in Cpus : ticked'[c] # ticked[c] => ticked'[c] >= ticked[c] + Tick - 1]_clockVars

\* And it is served: the handler sets a trigger that is still to come.
TickServed == \A c \in Cpus : Pending(c) ~> ~Pending(c)
-----------------------------------------------------------------------------
(* The inductive invariant behind TimeInCall and TickSpacing.              *)

Ts == [sec : Int, nsec : Int]
Pcs == {"user", "hi", "lo", "again", "ret", "store", "load", "cmph", "cmpl"}
Ops == {"none", "mono", "get", "set", "tick"}
CpuState ==
  [pc : Pcs, op : Ops, vh : Nat, vl : Nat, ts : Ts, todo : SUBSET Fields, began : Nat,
   alone : BOOLEAN]

ClockTypeOK ==
  /\ mtime \in Nat
  /\ cmp \in [Cpus -> Nat]
  /\ cpu \in [Cpus -> CpuState]
  /\ off \in Ts
  /\ ticked \in [Cpus -> Int]

\* The low half was read at a time of the call, and the high half not later.
HalvesOfCall(c) ==
  /\ cpu[c].began <= mtime
  /\ cpu[c].pc = "lo" => cpu[c].vh <= mtime \div Half
  /\ cpu[c].pc = "again" =>
       \E t \in cpu[c].began .. mtime : cpu[c].vl = t % Half /\ cpu[c].vh <= t \div Half
  /\ cpu[c].pc \in {"cmph", "cmpl"} \/ (cpu[c].pc = "ret" /\ cpu[c].op = "mono") =>
       \E t \in cpu[c].began .. mtime : cpu[c].ts = RawToTs(t)
  /\ cpu[c].pc = "load" => cpu[c].op = "get"
  /\ cpu[c].pc # "user" => cpu[c].op # "none"

\* mtimecmp is a tick ahead of the last one, but for the time of the handler.
TriggerSet(c) ==
  /\ cpu[c].pc = "user" => cpu[c].op = "none"
  /\ cpu[c].pc \in {"cmph", "cmpl"} => cpu[c].op = "tick"
  /\ cpu[c].op = "tick" => /\ cpu[c].pc \in {"hi", "lo", "again", "cmph", "cmpl"}
                           /\ cpu[c].began = ticked[c]
  /\ cpu[c].pc = "cmpl" => cmp[c] \div Half = Trigger(cpu[c].ts) \div Half
  /\ cpu[c].op # "tick" => cmp[c] >= ticked[c] + Tick - 1

IInv == ClockTypeOK /\ \A c \in Cpus : HalvesOfCall(c) /\ TriggerSet(c)
-----------------------------------------------------------------------------
(* The invariant behind RealtimeFollows.                                   *)

\* What the program sets is a normal time; the code does not look.
NormalTimes == \A t \in Times : t.nsec \in 0 .. Nsec - 1

Storing == {c \in Cpus : cpu[c].pc = "store"}
Getting(c) == cpu[c].pc = "load" \/ (cpu[c].pc = "ret" /\ cpu[c].op = "get")

\* An access that is alone meets no store of another CPU.
AloneApart(c) == cpu[c].alone /\ (cpu[c].pc = "store" \/ Getting(c)) => Storing \subseteq {c}

\* ts_realtime_off is the offset set last when nobody stores to it,
OffsetKept ==
  /\ goal \subseteq Int
  /\ Storing = {} => \A g \in goal : Ns(off) = g /\ off.nsec \in 0 .. Nsec - 1

\* and on its way to the new offset when a set is alone.
OffsetStored(c) ==
  /\ cpu[c].op = "set" /\ cpu[c].pc # "store" => cpu[c].ts.nsec \in 0 .. Nsec - 1
  /\ cpu[c].pc = "store" =>
       /\ cpu[c].op = "set"
       /\ cpu[c].ts.nsec \in 1 - Nsec .. Nsec - 1
       /\ cpu[c].alone => \A f \in Fields \ cpu[c].todo : off[f] = cpu[c].ts[f]

\* A get has the sum, so far, of a time of the call and the offset.
SumSoFar(c, t) ==
  \A f \in Fields : cpu[c].ts[f] = RawToTs(t)[f] + (IF f \in cpu[c].todo THEN 0 ELSE off[f])

OffsetGot(c) ==
  /\ cpu[c].pc = "load" /\ cpu[c].alone => \E t \in cpu[c].began .. mtime : SumSoFar(c, t)
  /\ cpu[c].pc = "ret" /\ cpu[c].op = "get" /\ cpu[c].alone =>
       \A g \in goal : /\ cpu[c].ts.nsec \in 0 .. Nsec - 1
                       /\ \E t \in cpu[c].began .. mtime : Ns(cpu[c].ts) = Ns(RawToTs(t)) + g

OffsetInv == OffsetKept /\ \A c \in Cpus : AloneApart(c) /\ OffsetStored(c) /\ OffsetGot(c)
=============================================================================
