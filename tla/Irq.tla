--------------------------------- MODULE Irq --------------------------------
(***************************************************************************)
(* Interrupts after the probe (arch/riscv/intr.c, sys/event.c, the intc    *)
(* drivers, the wakeup and sleep hooks of driver/cpu/cpu.c).  Each CPU     *)
(* sets its own mie when its idle thread starts, from the rvintc of its    *)
(* own; but k_int_handlers is one table for all CPUs, and names the rvintc *)
(* that was added last.                                                    *)
(*                                                                         *)
(* The hardware is external: msip and mtip of a hart, the request line of  *)
(* a device, and the PLIC, which drives the external interrupt of hart 0   *)
(* (context 0 is the only one that is used).  A handler runs with          *)
(* interrupts off and is one step.                                         *)
(***************************************************************************)
EXTENDS Probe

CONSTANT MaxPending     \* bound: interrupts that are pending at a time

VARIABLES
  mie,          \* the causes enabled on each CPU
  msip,         \* CPUs with a software interrupt
  mtip,         \* CPUs whose timer has expired
  line,         \* devices that request an interrupt
  muted         \* devices whose interrupts are disabled by their handler

irqVars == <<mie, msip, mtip, line, muted>>
allVars == <<probeVars, irqVars>>

Cpus == Range(cpus) \ {None}

IrqInit ==
  /\ ProbeInit
  /\ mie = [c \in OfKind("cpu") |-> {}]
  /\ msip = {}
  /\ mtip = {}
  /\ line = {}
  /\ muted = {}

\* Mutant: the software interrupt is left out.
MaskNoSw(r) == {c \in {"TM", "EX"} : chain[<<r, c>>] # << >>}

\* What intc_priv_update_intr_mask sets or clears for rvintc r.
Mask(r) == {"SW"} \cup {c \in {"TM", "EX"} : chain[<<r, c>>] # << >>}

\* k_cpu_call_handler: the rvintcs behind the head of CPU c.
CallHandler(c) == Range(wake[c])
Masks(c) == UNION {Mask(r) : r \in CallHandler(c)}

\* k_cpu_on_wakeup
OnWakeup(c) ==
  /\ phase = "run"
  /\ c \in Cpus
  /\ mie[c] = {}
  /\ mie' = [mie EXCEPT ![c] = @ \cup Masks(c)]
  /\ UNCHANGED <<probeVars, msip, mtip, line, muted>>

\* k_cpu_on_sleep
OnSleep(c) ==
  /\ c \in Cpus
  /\ mie[c] # {}
  /\ mie' = [mie EXCEPT ![c] = @ \ Masks(c)]
  /\ UNCHANGED <<probeVars, msip, mtip, line, muted>>

\* The bound leaves room for one more.
Room == Cardinality(msip) + Cardinality(mtip) + Cardinality(line) < MaxPending

\* intc_clint_raise_ipi, whose source is always the current CPU
ClintRaiseIpi(d) == msip' = msip \cup {d}

\* k_cpu_raise_ipi from CPU c to CPU d; the CLINT is the intc with "ipi".
RaiseIpi(c, d) ==
  /\ phase = "run"
  /\ {c, d} \subseteq Cpus
  /\ mie[c] # {}
  /\ Clint \in Devs
  /\ Room
  /\ ClintRaiseIpi(d)
  /\ UNCHANGED <<probeVars, mie, mtip, line, muted>>

\* Hardware: mtime reaches mtimecmp of CPU c.
TimerExpires(c) ==
  /\ phase = "run"
  /\ c \in Cpus
  /\ Room
  /\ mtip' = mtip \cup {c}
  /\ UNCHANGED <<probeVars, mie, msip, line, muted>>

\* Hardware: a device with an enabled interrupt requests one.
Request(d) ==
  /\ phase = "run"
  /\ d \in Range(hnd) \ muted
  /\ Room
  /\ line' = line \cup {d}
  /\ UNCHANGED <<probeVars, mie, msip, mtip, muted>>

\* External: mip of CPU c.
Pending(c) ==
  {"SW" : x \in msip \cap {c}} \cup {"TM" : x \in mtip \cap {c}}
    \cup {"EX" : x \in IF c[2] = 0 THEN line \cap Range(hnd) ELSE {}}

\* intc_priv_intr calls the handlers behind the head of its cause.
Behind(r, cause) == Range(chain[<<r, cause>>])

\* The devices that an interrupt of CPU c ends up calling: those behind the
\* head in k_int_handlers (k_event_handle_generic).
Served(c, cause) == IF top[cause] = None THEN {} ELSE Behind(top[cause], cause)

\* intc_clint_intr clears msip of the current CPU.
ClintIntr(c, devs) == msip' = IF Clint \in devs THEN msip \ {c} ELSE msip

\* timer_clint_intr moves mtimecmp of the current CPU.
TimerIntr(c, devs) == mtip' = IF Timer \in devs THEN mtip \ {c} ELSE mtip

\* intc_plic_intr claims a source and calls its handler: the 16550 disables
\* its interrupts, uart_lite reads its status, the SiFive UART and the GPIO
\* leave their request alone.
PlicIntr(devs) ==
  IF Plic \in devs
    THEN \E v \in DOMAIN hnd :
           /\ hnd[v] \in line
           /\ line' = IF hnd[v][1] \in {"16550", "lite"} THEN line \ {hnd[v]} ELSE line
           /\ muted' = IF hnd[v][1] = "16550" THEN muted \cup {hnd[v]} ELSE muted
    ELSE UNCHANGED <<line, muted>>

\* k_arch_riscv_interrupt
Interrupt(c, cause) ==
  /\ c \in Cpus
  /\ cause \in Pending(c) \cap mie[c]
  /\ ClintIntr(c, Served(c, cause))
  /\ TimerIntr(c, Served(c, cause))
  /\ PlicIntr(Served(c, cause))
  /\ UNCHANGED <<probeVars, mie>>

Interrupts(c) == \E cause \in Causes : Interrupt(c, cause)

IrqNext ==
  \/ ProbeDevice /\ UNCHANGED irqVars
  \/ \E c \in OfKind("cpu") :
       \/ OnWakeup(c) \/ OnSleep(c) \/ TimerExpires(c) \/ Interrupts(c)
       \/ \E d \in OfKind("cpu") : RaiseIpi(c, d)
  \/ \E d \in Devs : Request(d)

\* The probe is a loop of one CPU; the hardware takes a software interrupt
\* that stays pending and enabled, before it takes a timer interrupt.
IrqSpec ==
  /\ IrqInit /\ [][IrqNext]_allVars
  /\ WF_allVars(ProbeDevice /\ UNCHANGED irqVars)
  /\ \A i \in 0 .. 4 : WF_allVars(Interrupt(Cpu(i), "SW"))
-----------------------------------------------------------------------------
\* The mie of a CPU comes from its own rvintc, the handlers from the last
\* one: still, an interrupt that is enabled anywhere finds the device it is
\* for.
EnabledIsServed ==
  \A c \in Cpus :
    /\ "SW" \in mie[c] => Clint \in Served(c, "SW")
    /\ "TM" \in mie[c] => Timer \in Served(c, "TM")
    /\ "EX" \in mie[c] => Plic \in Served(c, "EX")

\* An IPI is taken and cleared, unless the CPU goes to sleep.
IpiTaken == \A i \in 0 .. 4 : Cpu(i) \in msip ~> (Cpu(i) \notin msip \/ mie[Cpu(i)] = {})
=============================================================================
