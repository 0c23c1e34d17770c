-------------------------------- MODULE Probe -------------------------------
(***************************************************************************)
(* The probe of the devices (driver/device.c, init_drivers of sys/init.c)  *)
(* with the add operations of the drivers.  One CPU runs, interrupts are   *)
(* off.  init_drivers asks the root bus to probe until no device answers   *)
(* -EAGAIN; a pass probes the devices in the order of the bus.  One step   *)
(* is one device_probe.  An add that looks up a device which is not yet    *)
(* probed gives up with -EAGAIN and keeps what it has done until then.     *)
(*                                                                         *)
(* The PRCI sets its three PLLs in its add and the UARTs on it read the    *)
(* frequency and enable the output in theirs.  Left out: the other         *)
(* register accesses, the rates of the fixed clocks and the baud rates.    *)
(***************************************************************************)
EXTENDS Boards, Pll, FiniteSets

CONSTANT BoardSet       \* a function from names to boards

ASSUME BoardAssumption ==
  \A b \in DOMAIN BoardSet : \A o \in BoardSet[b].orders : IsBoard(BoardSet[b], o)

VARIABLES
  bid,          \* the board
  order,        \* the devices on its root bus
  pos,          \* the next device of the pass
  again,        \* a device of this pass has answered -EAGAIN
  phase,        \* "probe", "run" or "panic"
  probed,       \* the devices with dev->probed
  cpus,         \* cpus[]: the CPU of each logical id
  nextId,       \* uniq_id_cpu
  used,         \* number of handlers allocated from k_evt_handlers
  chain,        \* the handlers behind hnd_sw, hnd_tm and hnd_ex of each rvintc
  top,          \* k_int_handlers: the rvintc that serves each cause
  wake,         \* the rvintcs that each CPU calls on wakeup and sleep
  hnd,          \* priv->hnd of the PLIC: the device of each source
  rates,        \* the frequencies in the configuration
  search,       \* what the search for a setting of each PLL returns, which
                \* depends on rates only
  pll,          \* the setting of each PLL, with priv->freq_* as its result
  on,           \* outputs of the PRCI with CKE set or bypass cleared
  freqIn        \* priv->freq_in of the UARTs on the PRCI

clkVars == <<rates, search, pll, on, freqIn>>
addVars == <<cpus, nextId, used, chain, top, wake, hnd>>
probeVars == <<bid, order, pos, again, phase, probed, addVars, clkVars>>

B == BoardSet[bid]
Devs == Range(order)
OfKind(k) == {d \in Devs : d[1] = k}
Src(d) == B.conf[d].src
Ints(d) == B.conf[d].ints

\* The PLLs in the order in which clk_prci_add sets them.
PllOrder == <<"DDRCTRLCLK", "CORECLK", "GEMGXLCLK">>

\* What the boot loader leaves enabled of the PRCI is open.
ProbeInit ==
  /\ bid \in DOMAIN BoardSet
  /\ order \in B.orders
  /\ pos = 1
  /\ again = FALSE
  /\ phase = "probe"
  /\ probed = {}
  /\ cpus = [i \in 0 .. B.cores - 1 |-> None]
  /\ nextId = 1
  /\ used = 0
  /\ chain = [x \in OfKind("rvintc") \X Causes |-> << >>]
  /\ top = [c \in Causes |-> None]
  /\ wake = [c \in OfKind("cpu") |-> << >>]
  /\ hnd = << >>
  /\ rates \in B.rates
  /\ search = [i \in Range(PllOrder) |-> FindDivr(rates.in, rates[i])]
  /\ pll = [i \in Range(PllOrder) |-> NotFound]
  /\ on \in IF Prci \in Devs THEN {{}, Range(PllOrder)} ELSE {{}}
  /\ freqIn = [d \in OfKind("sifive") |-> 0]

\* Mutant: a device is found whether it is probed or not.
FindUnprobed(n) == IF n \in Devs THEN "ok" ELSE "error"

\* k_bus_find_device as its callers report it.
Find(n) == IF n \notin Devs THEN "error" ELSE IF n \in probed THEN "ok" ELSE "again"
-----------------------------------------------------------------------------
(* The outcome of device_probe.                                            *)

\* The device after this one; a pass that is over starts anew or ends the
\* probe.
Advance(r) ==
  LET more == again \/ r = "again" IN
  IF pos < Len(order)
    THEN pos' = pos + 1 /\ again' = more /\ UNCHANGED phase
    ELSE pos' = 1 /\ again' = FALSE /\ phase' = IF more THEN "probe" ELSE "run"

\* Mutant: a pass ends at the first device that is not ready.
AnswerBreaks(d, r) ==
  /\ probed' = IF r = "ok" THEN probed \cup {d} ELSE probed
  /\ CASE r = "error" -> phase' = "panic" /\ UNCHANGED <<pos, again>>
       [] r = "again" -> pos' = 1 /\ UNCHANGED <<phase, again>>
       [] OTHER -> Advance(r)

\* probed, "Probe again in the next time", or failed: an error ends the pass
\* and init_drivers, and the system panics.
Answer(d, r) ==
  /\ probed' = IF r = "ok" THEN probed \cup {d} ELSE probed
  /\ IF r = "error" THEN phase' = "panic" /\ UNCHANGED <<pos, again>> ELSE Advance(r)

\* device_probe of a device of kind k that is not probed yet.
Probing(k, d) ==
  /\ phase = "probe"
  /\ d = order[pos]
  /\ d[1] \in k
  /\ d \notin probed
  /\ UNCHANGED <<bid, order>>

\* device_probe of a device that is probed.
ProbeAgain ==
  /\ phase = "probe"
  /\ order[pos] \in probed
  /\ Advance("ok")
  /\ UNCHANGED <<bid, order, probed, addVars, clkVars>>
-----------------------------------------------------------------------------
(* The drivers.                                                            *)

\* cpu_riscv_add: the main core has id 0, the others follow.
CpuId(d) == IF d[2] = B.main THEN 0 ELSE nextId
AddCpu(d) ==
  /\ Probing({"cpu"}, d)
  /\ nextId' = IF d[2] = B.main THEN nextId ELSE nextId + 1
  /\ IF CpuId(d) >= B.cores
       THEN Answer(d, "error") /\ UNCHANGED cpus
       ELSE Answer(d, "ok") /\ cpus' = [cpus EXCEPT ![CpuId(d)] = d]
  /\ UNCHANGED <<used, chain, top, wake, hnd, clkVars>>

\* k_arch_riscv_set_intr_handler for all of the causes
SetIntrHandlers(d) == top' = [c \in Causes |-> d]

\* k_cpu_add_handler for wakeup and sleep
AddCpuHandler(c, d) == wake' = [wake EXCEPT ![c] = Append(@, d)]

\* intc_priv_add
AddRv(d) ==
  /\ Probing({"rvintc"}, d)
  /\ Answer(d, Find(Src(d)))
  /\ IF Find(Src(d)) = "ok"
       THEN SetIntrHandlers(d) /\ AddCpuHandler(Src(d), d)
       ELSE UNCHANGED <<top, wake>>
  /\ UNCHANGED <<cpus, nextId, used, chain, hnd, clkVars>>

\* The parents a device gets a handler for before a lookup or
\* k_event_alloc_handler fails.
Reached(d) ==
  CHOOSE n \in 0 .. Len(Ints(d)) :
    /\ \A i \in 1 .. n : Find(Ints(d)[i][1]) = "ok" /\ used + i <= B.pool
    /\ n < Len(Ints(d)) => ~(Find(Ints(d)[n + 1][1]) = "ok" /\ used + n + 1 <= B.pool)

\* k_intc_add_handler of the first n parents.
WithHandlers(d, n) ==
  [x \in DOMAIN chain |->
     IF \E i \in 1 .. n : Ints(d)[i] = x THEN Append(chain[x], d) ELSE chain[x]]

\* Mutant: the last parent is left out.
ConnectShort(d) ==
  LET n == Reached(d) IN
  IF ~B.intc
    THEN Answer(d, "error") /\ UNCHANGED <<used, chain>>
    ELSE /\ Answer(d, IF n = Len(Ints(d)) THEN "ok" ELSE "again")
         /\ used' = used + n
         /\ chain' = WithHandlers(d, IF n = Len(Ints(d)) THEN n - 1 ELSE n)

\* The loop over the parents; without CONFIG_INTC the call for their number
\* fails.
Connect(d) ==
  LET n == Reached(d) IN
  IF ~B.intc
    THEN Answer(d, "error") /\ UNCHANGED <<used, chain>>
    ELSE /\ Answer(d, IF n = Len(Ints(d)) THEN "ok"
                      ELSE IF Find(Ints(d)[n + 1][1]) = "again" THEN "again" ELSE "error")
         /\ used' = used + n
         /\ chain' = WithHandlers(d, n)

\* intc_clint_add
AddClint(d) ==
  /\ Probing({"clint"}, d)
  /\ Connect(d)
  /\ UNCHANGED <<cpus, nextId, top, wake, hnd, clkVars>>

\* intc_plic_add; clear_all comes before any source has a handler.
AddPlic(d) ==
  /\ Probing({"plic"}, d)
  /\ Connect(d)
  /\ UNCHANGED <<cpus, nextId, top, wake, hnd, clkVars>>

\* timer_clint_add
AddTimer(d) ==
  /\ Probing({"timer"}, d)
  /\ IF Find(Src(d)) = "ok" THEN Connect(d)
                            ELSE Answer(d, Find(Src(d))) /\ UNCHANGED <<used, chain>>
  /\ UNCHANGED <<cpus, nextId, top, wake, hnd, clkVars>>

\* clk_fixed_add
AddClkFixed(d) ==
  /\ Probing({"clk"}, d)
  /\ Answer(d, "ok")
  /\ UNCHANGED <<addVars, clkVars>>

\* clk_prci_set_freq of the PLLs in their order, until one fails.
SetFreqs ==
  [i \in Range(PllOrder) |->
     IF \A k \in 1 .. 3 : search[PllOrder[k]].found \/ \E m \in 1 .. k - 1 : PllOrder[m] = i
       THEN search[i] ELSE pll[i]]

\* clk_prci_add.  A PLL that does not lock holds the CPU; here it locks.
AddPrci(d) ==
  /\ Probing({"prci"}, d)
  /\ IF Find(Src(d)) = "ok"
       THEN /\ pll' = SetFreqs
            /\ Answer(d, IF \A i \in DOMAIN pll : pll'[i].found THEN "ok" ELSE "error")
       ELSE Answer(d, Find(Src(d))) /\ UNCHANGED pll
  /\ UNCHANGED <<addVars, rates, search, on, freqIn>>

\* reset_qemu_test_add
AddReset(d) ==
  /\ Probing({"reset"}, d)
  /\ Answer(d, "ok")
  /\ UNCHANGED <<addVars, clkVars>>

\* intc_plic_add_handler for the line of device d: a source has one handler.
\* When the lookup of the interrupt controller fails, -EAGAIN included, the
\* device is polled.
HasLine(d) == B.intc /\ Ints(d) # << >> /\ Find(Ints(d)[1][1]) = "ok"
TakeLine(d) ==
  IF ~HasLine(d)
    THEN Answer(d, "ok") /\ UNCHANGED hnd
    ELSE IF Ints(d)[1][2] \in DOMAIN hnd
           THEN Answer(d, "error") /\ UNCHANGED hnd
           ELSE Answer(d, "ok") /\ hnd' = hnd @@ (Ints(d)[1][2] :> d)
OnClock(d) ==
  IF Find(Src(d)) = "ok" THEN TakeLine(d)
                         ELSE Answer(d, Find(Src(d))) /\ UNCHANGED hnd

\* uart_ns16550_add
Add16550(d) ==
  /\ Probing({"16550"}, d)
  /\ OnClock(d)
  /\ UNCHANGED <<cpus, nextId, used, chain, top, wake, clkVars>>

\* clk_prci_get_freq and clk_prci_enable: TLCLK is derived from CORECLK.
GetFreq(i) == IF i = "TLCLK" THEN pll["CORECLK"].result \div 2 ELSE pll[i].result
Enable(i) == on \cup {IF i = "TLCLK" THEN "CORECLK" ELSE i}

\* uart_sifive_add
AddSifive(d) ==
  /\ Probing({"sifive"}, d)
  /\ OnClock(d)
  /\ IF Src(d) = Prci /\ Find(Prci) = "ok"
       THEN on' = Enable(rates.uart) /\ freqIn' = [freqIn EXCEPT ![d] = GetFreq(rates.uart)]
       ELSE UNCHANGED <<on, freqIn>>
  /\ UNCHANGED <<cpus, nextId, used, chain, top, wake, rates, search, pll>>

\* uart_lite_add
AddLite(d) ==
  /\ Probing({"lite"}, d)
  /\ TakeLine(d)
  /\ UNCHANGED <<cpus, nextId, used, chain, top, wake, clkVars>>

\* gpio_v2_add
AddGpio(d) ==
  /\ Probing({"gpio"}, d)
  /\ TakeLine(d)
  /\ UNCHANGED <<cpus, nextId, used, chain, top, wake, clkVars>>

ProbeDevice ==
  \/ ProbeAgain
  \/ \E d \in Devs : \/ AddCpu(d) \/ AddRv(d) \/ AddClint(d) \/ AddPlic(d)
                     \/ AddTimer(d) \/ AddClkFixed(d) \/ AddPrci(d) \/ AddReset(d)
                     \/ Add16550(d) \/ AddSifive(d) \/ AddLite(d) \/ AddGpio(d)
-----------------------------------------------------------------------------
\* A device counts as probed only when everything it was configured to use
\* has been probed: its CPU or clock, and its interrupt parents unless it is
\* polled.  What it registers as a handler is registered with all of them; a
\* UART on the PRCI has read a frequency and its output is enabled.  In the
\* end every CPU has a logical id, the main one id 0.
ProbedHasNeeds ==
  /\ used <= B.pool
  /\ phase = "run" => Range(cpus) = OfKind("cpu") /\ cpus[0] = Cpu(B.main)
  /\ \A d \in probed :
       /\ Src(d) # None => Src(d) \in probed
       /\ d[1] \in {"clint", "plic", "timer"} =>
            \A i \in DOMAIN Ints(d) : /\ Ints(d)[i][1] \in probed
                                      /\ d \in Range(chain[Ints(d)[i]])
       /\ d[1] = "sifive" /\ Src(d) = Prci =>
            /\ freqIn[d] > 0
            /\ (IF rates.uart = "TLCLK" THEN "CORECLK" ELSE rates.uart) \in on

\* clk_prci_update_pllcfg programs a PLL with dividers it accepts, that give
\* the frequency the driver records and the range of their reference, and
\* that no other dividers come nearer to the target than.  The driver fails
\* only when every output is further from a target than 0 is.
PllBest ==
  [][/\ \A i \in DOMAIN pll :
          pll'[i] # pll[i] => Sound(rates.in, pll'[i])
                              /\ Nearest(rates.in, rates[i], pll'[i].result)
     /\ order[pos] = Prci /\ phase' = "panic" /\ phase = "probe" =>
          \E i \in DOMAIN pll : Nearest(rates.in, rates[i], 0)]_probeVars

\* A board that lists its devices in the order of their needs is probed in
\* one pass: no device is asked twice, so no handler is registered twice,
\* the pool suffices, and no device falls back to polling by accident.
ShippedInOnePass ==
  bid \in DOMAIN Shipped =>
    /\ ~again
    /\ \A x \in DOMAIN chain : Len(chain[x]) = Cardinality(Range(chain[x]))
    /\ phase = "run" => \A d \in Devs : d[1] # "plic" /\ Ints(d) # << >> /\ Ints(d)[1][1] = Plic
                          => d \in Range(hnd)

\* The loop of init_drivers ends, whatever the order of the devices.  It ends
\* with a panic on a board without the interrupt controller class, whose timer
\* needs it, and where the PRCI finds no setting for a PLL; the others start.
ProbeEnds ==
  <>(IF B.intc
       THEN phase = "run" \/ (phase = "panic" /\ order[pos] = Prci
                               /\ \E i \in DOMAIN pll : ~pll[i].found)
       ELSE phase = "panic")
=============================================================================
