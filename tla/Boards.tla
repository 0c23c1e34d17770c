------------------------------- MODULE Boards -------------------------------
(***************************************************************************)
(* The devices of the boards in board/riscv/, in the order in which the    *)
(* board adds them to the root bus, with what the probe reads of their     *)
(* configuration: the device that "cpu" or "clocks" names and the pairs of *)
(* "interrupts".  A device is named by its kind and a number; the number   *)
(* of a CPU is its hart.                                                   *)
(***************************************************************************)
EXTENDS Integers, Sequences, FiniteSets, FiniteSetsExt, TLC

Causes == {"SW", "TM", "EX"}
None == <<"none", 0>>

Cpu(i) == <<"cpu", i>>
Rv(i) == <<"rvintc", i>>
Clint == <<"clint", 0>>
Plic == <<"plic", 0>>
Timer == <<"timer", 0>>
Clk(i) == <<"clk", i>>
Prci == <<"prci", 0>>
Reset == <<"reset", 0>>
Uart(k, i) == <<k, i>>
Gpio == <<"gpio", 0>>

Device(src, ints) == [src |-> src, ints |-> ints]

\* The harts 0 .. n - 1, an interrupt controller each, and what every board
\* connects to all of them.
HartDevs(n) == [i \in 1 .. 2 * n |-> IF i % 2 = 1 THEN Cpu(i \div 2) ELSE Rv(i \div 2 - 1)]
OnAll(n, cause) == [i \in 1 .. n |-> <<Rv(i - 1), cause>>]
HartConf(n, clk) ==
  [d \in {Cpu(i) : i \in 0 .. n - 1} |-> Device(None, << >>)]
    @@ [d \in {Rv(i) : i \in 0 .. n - 1} |-> Device(Cpu(d[2]), << >>)]
    @@ (Clint :> Device(None, OnAll(n, "SW")))
    @@ (Timer :> Device(clk, OnAll(n, "TM")))
    @@ (clk :> Device(None, << >>))

\* The input and the targets of the PLLs and the output the UARTs run on, for
\* a board with a PRCI.
Rates(in, ddrctrl, core, gemgxl, uart) ==
  [in |-> in, DDRCTRLCLK |-> ddrctrl, CORECLK |-> core, GEMGXLCLK |-> gemgxl, uart |-> uart]
NoRates == {Rates(0, 0, 0, 0, "CORECLK")}

\* intc: CONFIG_INTC, without which the calls of the class are stubs.
\* pool: CONFIG_MAX_EVENT_HANDLERS.  orders: the orders of the devices.
\* rates: the frequencies of the configuration.  The Unleashed has an input
\* of 33 MHz and targets of 600, 1000 and 125 MHz; these are a tenth here,
\* as the limits of the VCO are where the board is checked.
QemuVirt ==
  [cores |-> 4, main |-> 0, pool |-> 32, intc |-> TRUE, rates |-> NoRates,
   orders |-> {HartDevs(4) \o <<Plic, Clint, Clk(0), Timer, Reset, Uart("16550", 0)>>},
   conf |-> HartConf(4, Clk(0))
              @@ (Plic :> Device(None, OnAll(4, "EX")))
              @@ (Reset :> Device(None, << >>))
              @@ (Uart("16550", 0) :> Device(Clk(0), << <<Plic, 10>> >>))]

Unleashed ==
  [cores |-> 5, main |-> 1, pool |-> 32, intc |-> TRUE,
   rates |-> {Rates(33, 60, 100, 12, "TLCLK")},
   orders |-> {HartDevs(5) \o <<Clint, Plic, Clk(1), Clk(0), Prci, Timer, Uart("sifive", 0),
                              Uart("sifive", 1)>>},
   conf |-> HartConf(5, Clk(0))
              @@ (Plic :> Device(None, OnAll(5, "EX")))
              @@ (Clk(1) :> Device(None, << >>))
              @@ (Prci :> Device(Clk(1), << >>))
              @@ (Uart("sifive", 0) :> Device(Prci, << <<Plic, 4>> >>))
              @@ (Uart("sifive", 1) :> Device(Prci, << >>))]

\* k_intc_add_device is a stub: rvintc0 and clint are not on the bus.
HiFive1 ==
  [cores |-> 1, main |-> 0, pool |-> 8, intc |-> FALSE, rates |-> NoRates,
   orders |-> {<<Cpu(0), Clk(0), Clk(1), Timer, Uart("sifive", 0), Uart("sifive", 1)>>},
   conf |-> HartConf(1, Clk(0))
              @@ (Clk(1) :> Device(None, << >>))
              @@ (Uart("sifive", 0) :> Device(Clk(1), << >>))
              @@ (Uart("sifive", 1) :> Device(Clk(1), << >>))]

\* Mutant: the UART and the GPIO come before the PLIC.
Ns31ArtyPlicLast ==
  [cores |-> 1, main |-> 0, pool |-> 8, intc |-> TRUE, rates |-> NoRates,
   orders |-> {HartDevs(1) \o <<Clint, Clk(0), Timer, Uart("lite", 0), Gpio, Plic>>},
   conf |-> HartConf(1, Clk(0))
              @@ (Plic :> Device(None, OnAll(1, "EX")))
              @@ (Uart("lite", 0) :> Device(None, << <<Plic, 9>> >>))
              @@ (Gpio :> Device(None, << <<Plic, 1>> >>))]

Ns31Arty ==
  [cores |-> 1, main |-> 0, pool |-> 8, intc |-> TRUE, rates |-> NoRates,
   orders |-> {HartDevs(1) \o <<Clint, Plic, Clk(0), Timer, Uart("lite", 0), Gpio>>},
   conf |-> HartConf(1, Clk(0))
              @@ (Plic :> Device(None, OnAll(1, "EX")))
              @@ (Uart("lite", 0) :> Device(None, << <<Plic, 9>> >>))
              @@ (Gpio :> Device(None, << <<Plic, 1>> >>))]

\* What the configuration of a board b with its devices in the order o has to
\* say for the drivers to find their way: there are as many CPUs as
\* CONFIG_NUM_CORES and the main one is among them; an rvintc names a CPU; what
\* looks up no clock names none, and the PRCI names one of the board; with the
\* interrupt controller class the CLINT, its timer and the PLIC are connected
\* to every rvintc, each with the cause of its own; frequencies are numbers.
CauseOf(d) == IF d = Clint THEN "SW" ELSE IF d = Timer THEN "TM" ELSE "EX"
IsBoard(b, o) ==
  LET devs == Range(o)
      rvs == {d \in devs : d[1] = "rvintc"}
  IN
  /\ b.cores \in Nat \ {0} /\ b.pool \in Nat
  /\ o \in Seq((STRING \X Nat) \ {None}) /\ o # << >>
  /\ Cpu(b.main) \in devs
  /\ Cardinality({d \in devs : d[1] = "cpu"}) = b.cores
  /\ \A d \in devs :
       /\ d[1] \notin {"rvintc", "timer", "prci", "16550", "sifive"} => b.conf[d].src = None
       /\ d[1] = "rvintc" => b.conf[d].src \in {"cpu"} \X Nat
       /\ d[1] = "prci" => b.conf[d].src \in devs
       /\ b.intc /\ d[1] \in {"clint", "timer", "plic"} =>
            /\ d \in {Clint, Timer, Plic}
            /\ b.conf[d].ints \in Seq(rvs \X {CauseOf(d)})
            /\ rvs \X {CauseOf(d)} \subseteq Range(b.conf[d].ints)
  /\ rvs # {} => b.intc /\ Clint \in devs
  /\ \A r \in b.rates :
       /\ r.uart \in {"DDRCTRLCLK", "CORECLK", "GEMGXLCLK", "TLCLK"}
       /\ \A f \in {"in", "DDRCTRLCLK", "CORECLK", "GEMGXLCLK"} : r[f] \in Nat

Shipped == [qemu_virt |-> QemuVirt, unleashed |-> Unleashed, hifive1 |-> HiFive1,
            ns31_arty |-> Ns31Arty]
=============================================================================
