----------------------------- MODULE MCDevices ------------------------------
(***************************************************************************)
(* The boards of the repository, and two-hart boards that add the same     *)
(* kinds of devices in every order, but for the CPUs and the clock, which  *)
(* come first or last.  A board with one hart tries the PRCI with inputs   *)
(* and targets inside and outside of what its PLLs can do.                 *)
(***************************************************************************)
EXTENDS Irq, SequencesExt

Small == {Rv(0), Rv(1), Clint, Plic, Timer, Uart("16550", 0)}

SmallBoard ==
  [cores |-> 2, main |-> 0, pool |-> 32, intc |-> TRUE, rates |-> NoRates,
   orders |-> {<<Cpu(0), Cpu(1), Clk(0)>> \o s : s \in SetToSeqs(Small)}
                \cup {s \o <<Cpu(0), Cpu(1), Clk(0)>> : s \in SetToSeqs(Small)},
   conf |-> HartConf(2, Clk(0)) @@ (Plic :> Device(None, OnAll(2, "EX")))
              @@ (Uart("16550", 0) :> Device(Clk(0), << <<Plic, 10>> >>))]

ClockRates ==
  {Rates(in, 60, core, gemgxl, uart) :
     in \in {5, 20, 33, 99}, core \in {1, 3, 77, 500}, gemgxl \in {0, 12},
     uart \in {"DDRCTRLCLK", "TLCLK", "CORECLK", "GEMGXLCLK"}}

ClockBoard ==
  [cores |-> 1, main |-> 0, pool |-> 8, intc |-> TRUE, rates |-> ClockRates,
   orders |-> {HartDevs(1) \o <<Clint, Clk(0), Timer>> \o s :
                 s \in {<<Clk(1), Prci, Uart("sifive", 0)>>, <<Uart("sifive", 0), Prci, Clk(1)>>}},
   conf |-> HartConf(1, Clk(0))
              @@ (Clk(1) :> Device(None, << >>))
              @@ (Prci :> Device(Clk(1), << >>))
              @@ (Uart("sifive", 0) :> Device(Prci, << >>))]

MCBoards == Shipped @@ [small |-> SmallBoard, clocks |-> ClockBoard]
MCRefBounds == <<7, 11, 18, 30, 50, 80, 130, 200>>
=============================================================================
