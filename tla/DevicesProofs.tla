--------------------------- MODULE DevicesProofs ----------------------------
(***************************************************************************)
(* What the probe leaves behind and what the interrupts rely on, for every *)
(* set of boards that BoardAssumption allows, with their devices in any    *)
(* order: a probed device has what it needs, an interrupt that a CPU       *)
(* enables has its handler, and for every input and every target the       *)
(* search of the PRCI programs a PLL as near to it as a PLL can come.      *)
(***************************************************************************)
EXTENDS Irq, WellFoundedInduction, FiniteSetTheorems, TLAPS

PllNames == {"DDRCTRLCLK", "CORECLK", "GEMGXLCLK"}

(* The inductive invariant, one table of the probe at a time.              *)

\* The loop of init_drivers and where it is on the bus.
OnBus ==
  /\ bid \in DOMAIN BoardSet /\ order \in B.orders /\ rates \in B.rates
  /\ pos \in 1 .. Len(order)
  /\ again \in BOOLEAN
  /\ phase \in {"probe", "run", "panic"}
  /\ probed \subseteq Devs

\* As long as nobody has answered -EAGAIN, all devices the pass has gone by
\* are probed; the loop ends when all are.
Passed ==
  /\ phase = "probe" /\ ~again => \A k \in 1 .. pos - 1 : order[k] \in probed
  /\ phase = "run" => Devs \subseteq probed

\* The logical ids are given to probed CPUs, id 0 to the main one only.
Numbered ==
  /\ nextId \in Nat \ {0}
  /\ cpus \in [0 .. B.cores - 1 -> OfKind("cpu") \cup {None}]
  /\ cpus[0] \in {None, Cpu(B.main)}
  /\ \A i \in DOMAIN cpus : i >= nextId => cpus[i] = None
  /\ \A d \in probed : d[1] = "cpu" => \E i \in DOMAIN cpus : cpus[i] = d
  /\ Cpu(B.main) \in probed => cpus[0] = Cpu(B.main)

Connected == {"clint", "timer", "plic"}

\* Handlers come from the pool; behind a head there are only devices that are
\* configured for it, and a probed device is behind all of its heads.
Handled ==
  /\ used \in 0 .. B.pool
  /\ chain \in [OfKind("rvintc") \X Causes -> Seq(Devs)]
  /\ \A x \in DOMAIN chain : \A d \in Range(chain[x]) :
       d[1] \in Connected /\ x \in Range(Ints(d))
  /\ \A d \in probed : d[1] \in Connected =>
       /\ B.intc
       /\ \A i \in DOMAIN Ints(d) : /\ Ints(d)[i][1] \in probed
                                    /\ d \in Range(chain[Ints(d)[i]])

\* The table of the CPUs has an rvintc as soon as one is probed, and a CPU
\* calls only rvintcs that are probed.
Topped ==
  /\ top \in [Causes -> OfKind("rvintc") \cup {None}]
  /\ wake \in [OfKind("cpu") -> Seq(OfKind("rvintc"))]
  /\ \A d \in probed : d[1] = "rvintc" => \A c \in Causes : top[c] # None
  /\ \A c \in DOMAIN wake : Range(wake[c]) \subseteq probed

UartClk == IF rates.uart = "TLCLK" THEN "CORECLK" ELSE rates.uart

\* A PRCI that is probed has set all of its PLLs.
Clocked ==
  /\ search = [i \in PllNames |-> FindDivr(rates.in, rates[i])]
  /\ pll = [i \in PllNames |-> pll[i]]
  /\ \A i \in PllNames : pll[i] \in {search[i], NotFound}
  /\ \A p \in probed : p[1] = "prci" => \A i \in PllNames : pll[i].found
  /\ freqIn = [d \in OfKind("sifive") |-> freqIn[d]]
  /\ \A d \in probed : d[1] = "sifive" /\ Src(d) = Prci =>
       freqIn[d] > 0 /\ UartClk \in on

\* A device that names a CPU or a clock was probed after it.
Sourced == \A d \in probed : Src(d) # None => Src(d) \in probed

\* A CPU enables interrupts after the probe, those of its own rvintcs.
Masked ==
  /\ mie \in [OfKind("cpu") -> SUBSET Causes]
  /\ \A c \in DOMAIN mie : mie[c] # {} => phase = "run" /\ mie[c] \subseteq Masks(c)

ProbeInv == OnBus /\ Passed /\ Numbered /\ Handled /\ Topped /\ Clocked /\ Sourced
IInv == ProbeInv /\ Masked
-----------------------------------------------------------------------------
(* Facts about operators and boards.                                       *)

\* A set of natural numbers that is not empty has a least element.
LEMMA LeastNat ==
  ASSUME NEW T \in SUBSET Nat, T # {}
  PROVE  \E x \in T : \A y \in T : x <= y
<1>1. PICK x \in T : \A y \in T : ~(<<y, x>> \in OpToRel(<, Nat))
  BY NatLessThanWellFounded, WFMin, Zenon
<1>2. \A y \in T : ~(y < x)
  BY <1>1, Zenon DEF OpToRel
<1> QED BY <1>2

\* The outputs of the PRCI that clk_prci_add sets.
LEMMA PllNamed == Range(PllOrder) = PllNames
BY DEF Range, PllOrder, PllNames

\* The places of a sequence and what is at them.
LEMMA SeqPlaces ==
  ASSUME NEW S, NEW s \in Seq(S)
  PROVE  Len(s) \in Nat /\ DOMAIN s = 1 .. Len(s) /\ \A i \in DOMAIN s : s[i] \in S
  OBVIOUS

\* The first places of a sequence are places of it.
LEMMA FirstPlaces ==
  ASSUME NEW l \in Nat, NEW m \in 0 .. l
  PROVE  1 .. m \subseteq 1 .. l
  OBVIOUS

\* Range of a sequence with one more element at its end.
LEMMA RangeAppend ==
  ASSUME NEW S, NEW s \in Seq(S), NEW x \in S
  PROVE  Append(s, x) \in Seq(S) /\ Range(Append(s, x)) = Range(s) \cup {x}
<1>1. Append(s, x) \in Seq(S) /\ Len(Append(s, x)) = Len(s) + 1 /\ Len(s) \in Nat
  OBVIOUS
<1>2. \A i \in 1 .. Len(s) : Append(s, x)[i] = s[i]
  OBVIOUS
<1>3. Append(s, x)[Len(s) + 1] = x
  OBVIOUS
<1>4. DOMAIN Append(s, x) = 1 .. Len(s) + 1 /\ DOMAIN s = 1 .. Len(s)
  BY <1>1
<1>5. Range(Append(s, x)) \subseteq Range(s) \cup {x}
  <2> SUFFICES ASSUME NEW i \in 1 .. Len(s) + 1 PROVE Append(s, x)[i] \in Range(s) \cup {x}
    BY <1>4 DEF Range
  <2>1. i \in 1 .. Len(s) \/ i = Len(s) + 1
    BY <1>1
  <2> QED BY <2>1, <1>2, <1>3, <1>4 DEF Range
<1>6. Range(s) \cup {x} \subseteq Range(Append(s, x))
  <2>1. \A i \in 1 .. Len(s) : i \in 1 .. Len(s) + 1 /\ Len(s) + 1 \in 1 .. Len(s) + 1
    BY <1>1
  <2>2. Len(s) + 1 \in 1 .. Len(s) + 1
    BY <1>1
  <2>3. x \in Range(Append(s, x))
    BY <2>2, <1>3, <1>4 DEF Range
  <2>4. \A i \in 1 .. Len(s) : s[i] \in Range(Append(s, x))
    BY <2>1, <1>2, <1>4 DEF Range
  <2> QED BY <2>3, <2>4, <1>4 DEF Range
<1> QED BY <1>1, <1>5, <1>6

\* What BoardAssumption says of the board that starts.
LEMMA BoardFacts ==
  ASSUME OnBus
  PROVE  /\ B.cores \in Nat \ {0} /\ B.pool \in Nat
         /\ order \in Seq((STRING \X Nat) \ {None}) /\ Len(order) \in Nat \ {0}
         /\ Cpu(B.main) \in Devs
         /\ Cardinality(OfKind("cpu")) = B.cores
         /\ \A d \in Devs :
              /\ d[1] \notin {"rvintc", "timer", "prci", "16550", "sifive"} => Src(d) = None
              /\ d[1] = "rvintc" => Src(d) \in {"cpu"} \X Nat
              /\ B.intc /\ d[1] \in Connected =>
                   /\ d \in {Clint, Timer, Plic}
                   /\ Ints(d) \in Seq(OfKind("rvintc") \X {CauseOf(d)})
                   /\ OfKind("rvintc") \X {CauseOf(d)} \subseteq Range(Ints(d))
         /\ OfKind("rvintc") # {} => B.intc /\ Clint \in Devs
         /\ \A d \in Devs : d[1] = "prci" => Src(d) \in Devs
         /\ rates.uart \in PllNames \cup {"TLCLK"}
         /\ rates.in \in Nat /\ \A i \in PllNames : rates[i] \in Nat
<1>1. IsBoard(B, order)
  BY BoardAssumption DEF OnBus, B
<1>2. order # << >> /\ order \in Seq((STRING \X Nat) \ {None})
  BY <1>1 DEF IsBoard
<1>3. Len(order) \in Nat \ {0}
  BY <1>2
<1>4. \A r \in B.rates :
        /\ r.uart \in {"DDRCTRLCLK", "CORECLK", "GEMGXLCLK", "TLCLK"}
        /\ \A f \in {"in", "DDRCTRLCLK", "CORECLK", "GEMGXLCLK"} : r[f] \in Nat
  BY <1>1, Zenon DEF IsBoard
<1>5. rates.in \in Nat /\ \A i \in PllNames : rates[i] \in Nat
  BY <1>4 DEF OnBus, PllNames
<1>6. \A d \in Devs : d[1] = "prci" => Src(d) \in Devs
  BY <1>1, Zenon DEF IsBoard, Devs, Src
<1> QED
  BY <1>1, <1>2, <1>3, <1>4, <1>5, <1>6, Zenon
  DEF IsBoard, OnBus, Devs, OfKind, Src, Ints, PllNames, Connected

\* A device on the bus is a pair of a kind and a number, and not None.
LEMMA DevFacts ==
  ASSUME OnBus
  PROVE  /\ \A d \in Devs : d \in STRING \X Nat /\ d # None
         /\ \A k \in 1 .. Len(order) : order[k] \in Devs
         /\ \A d \in Devs : \E k \in 1 .. Len(order) : order[k] = d
<1>1. order \in Seq((STRING \X Nat) \ {None})
  BY BoardFacts
<1>2. /\ DOMAIN order = 1 .. Len(order)
      /\ \A k \in 1 .. Len(order) : order[k] \in (STRING \X Nat) \ {None}
  BY <1>1
<1> QED BY <1>2 DEF Devs, Range

\* The board and its devices stay what they are.
LEMMA SameBoard ==
  ASSUME UNCHANGED <<bid, order>>
  PROVE  /\ B' = B /\ Devs' = Devs
         /\ \A k : OfKind(k)' = OfKind(k)
         /\ \A d : Src(d)' = Src(d) /\ Ints(d)' = Ints(d)
BY DEF B, Devs, OfKind, Src, Ints

\* device_probe of d ends in one of three ways; only a success makes it
\* probed.
Probes(d) ==
  /\ phase = "probe" /\ d = order[pos] /\ d \in Devs /\ d \notin probed
  /\ UNCHANGED <<bid, order, rates>>
  /\ \E r \in {"ok", "again", "error"} : Answer(d, r)

\* What device_probe and the loop around it do, whichever driver it is.
LEMMA ProbesStep ==
  ASSUME OnBus, Passed, NEW d, Probes(d)
  PROVE  OnBus' /\ Passed' /\ probed' \in {probed, probed \cup {d}}
<1> PICK r \in {"ok", "again", "error"} : Answer(d, r)
  BY DEF Probes
<1>1. B' = B /\ Devs' = Devs
  BY SameBoard DEF Probes
<1>2. Len(order) \in Nat \ {0} /\ pos \in 1 .. Len(order) /\ again \in BOOLEAN
  BY BoardFacts DEF OnBus
<1>3. probed' = IF r = "ok" THEN probed \cup {d} ELSE probed
  BY DEF Answer
<1>4. probed' \subseteq Devs
  BY <1>3 DEF OnBus, Probes
<1>5. CASE r = "error"
  <2>1. phase' = "panic" /\ UNCHANGED <<pos, again>>
    BY <1>5 DEF Answer
  <2> QED BY <1>1, <1>2, <1>3, <1>4, <2>1 DEF OnBus, Passed, Probes
<1>6. CASE r # "error"
  <2>1. Advance(r)
    BY <1>6 DEF Answer
  <2>2. phase = "probe"
    BY DEF Probes
  <2>3. ~(again \/ r = "again") => \A k \in 1 .. pos : order[k] \in probed'
    <3> SUFFICES ASSUME ~again, r = "ok", NEW k \in 1 .. pos PROVE order[k] \in probed'
      BY <1>6
    <3>1. k \in 1 .. pos - 1 \/ k = pos
      BY <1>2
    <3> QED BY <3>1, <2>2, <1>3 DEF Passed, Probes
  <2>4. CASE pos < Len(order)
    <3>1. pos' = pos + 1 /\ again' = (again \/ r = "again") /\ phase' = phase
      BY <2>1, <2>4 DEF Advance
    <3>2. pos' \in 1 .. Len(order) /\ pos' - 1 = pos
      BY <3>1, <2>4, <1>2
    <3> QED BY <1>1, <1>2, <1>3, <1>4, <2>2, <2>3, <3>1, <3>2, Zenon DEF OnBus, Passed, Probes
  <2>5. CASE ~(pos < Len(order))
    <3>1. pos' = 1 /\ again' = FALSE /\ phase' = IF again \/ r = "again" THEN "probe" ELSE "run"
      BY <2>1, <2>5 DEF Advance
    <3>2. pos = Len(order) /\ pos' \in 1 .. Len(order) /\ 1 .. pos' - 1 = {}
      BY <3>1, <2>5, <1>2
    <3>3. phase' = "run" => Devs \subseteq probed'
      BY <3>1, <3>2, <2>3, DevFacts
    <3> QED BY <1>1, <1>2, <1>3, <1>4, <3>1, <3>2, <3>3, Zenon DEF OnBus, Passed, Probes
  <2> QED BY <2>4, <2>5
<1> QED BY <1>3, <1>5, <1>6

\* A step of the loop over a device that is probed already.
LEMMA AgainStep ==
  ASSUME OnBus, Passed, ProbeAgain
  PROVE  OnBus' /\ Passed'
<1>1. B' = B /\ Devs' = Devs
  BY SameBoard DEF ProbeAgain
<1>2. Len(order) \in Nat \ {0} /\ pos \in 1 .. Len(order) /\ again \in BOOLEAN
  BY BoardFacts DEF OnBus
<1>3. /\ phase = "probe" /\ order[pos] \in probed /\ Advance("ok")
      /\ UNCHANGED <<bid, order, probed, rates>>
  BY DEF ProbeAgain, clkVars
<1>4. ~again => \A k \in 1 .. pos : order[k] \in probed
  <2> SUFFICES ASSUME ~again, NEW k \in 1 .. pos PROVE order[k] \in probed
    OBVIOUS
  <2>1. k \in 1 .. pos - 1 \/ k = pos
    BY <1>2
  <2> QED BY <2>1, <1>3 DEF Passed
<1>5. CASE pos < Len(order)
  <2>1. pos' = pos + 1 /\ again' = again /\ phase' = phase
    BY <1>3, <1>5, <1>2 DEF Advance
  <2>2. pos' \in 1 .. Len(order) /\ pos' - 1 = pos
    BY <2>1, <1>5, <1>2
  <2> QED BY <1>1, <1>2, <1>3, <1>4, <2>1, <2>2 DEF OnBus, Passed
<1>6. CASE ~(pos < Len(order))
  <2>1. pos' = 1 /\ again' = FALSE /\ phase' = IF again THEN "probe" ELSE "run"
    BY <1>3, <1>6, <1>2 DEF Advance
  <2>2. pos = Len(order) /\ pos' \in 1 .. Len(order) /\ 1 .. pos' - 1 = {}
    BY <2>1, <1>6, <1>2
  <2>3. phase' = "run" => Devs \subseteq probed
    BY <2>1, <2>2, <1>4, DevFacts
  <2> QED BY <1>1, <1>2, <1>3, <2>1, <2>2, <2>3, Zenon DEF OnBus, Passed
<1> QED BY <1>5, <1>6
-----------------------------------------------------------------------------
(* A table that a driver leaves alone stays in order when the driver's     *)
(* device is of another kind than the ones the table is about.             *)

\* The ids of the CPUs do not change with the probe of another device.
LEMMA NumberedKept ==
  ASSUME Numbered, UNCHANGED <<bid, order, cpus, nextId>>,
         NEW d, d[1] # "cpu", probed' \subseteq probed \cup {d}
  PROVE  Numbered'
<1>1. B' = B /\ OfKind("cpu")' = OfKind("cpu")
  BY SameBoard
<1>2. Cpu(B.main)[1] = "cpu"
  BY DEF Cpu
<1>3. \A x \in probed' : x[1] = "cpu" => x \in probed
  OBVIOUS
<1>4. Cpu(B.main) \in probed' => Cpu(B.main) \in probed
  BY <1>2, <1>3
<1> QED BY <1>1, <1>3, <1>4 DEF Numbered

\* The handlers do not change with the probe of a device that has none, nor
\* when a device is not probed.
LEMMA HandledKept ==
  ASSUME Handled, UNCHANGED <<bid, order, used, chain>>, probed \subseteq probed',
         \A x \in probed' : x[1] \in Connected => x \in probed
  PROVE  Handled'
<1>1. /\ B' = B /\ Devs' = Devs /\ OfKind("rvintc")' = OfKind("rvintc")
      /\ \A x : Ints(x)' = Ints(x)
  BY SameBoard
<1>2. \A x \in probed' : x[1] \in Connected =>
        /\ B.intc
        /\ \A i \in DOMAIN Ints(x) : /\ Ints(x)[i][1] \in probed'
                                     /\ x \in Range(chain[Ints(x)[i]])
  BY DEF Handled
<1> QED BY <1>1, <1>2 DEF Handled

\* The tables of the rvintcs do not change with the probe of another device.
LEMMA ToppedKept ==
  ASSUME Topped, UNCHANGED <<bid, order, top, wake>>, probed \subseteq probed',
         NEW d, d[1] # "rvintc", probed' \subseteq probed \cup {d}
  PROVE  Topped'
<1>1. OfKind("rvintc")' = OfKind("rvintc") /\ OfKind("cpu")' = OfKind("cpu")
  BY SameBoard
<1>2. \A x \in probed' : x[1] = "rvintc" => x \in probed
  OBVIOUS
<1> QED BY <1>1, <1>2 DEF Topped

\* The clocks do not change with the probe of a device that uses none of the
\* PRCI.
LEMMA ClockedKept ==
  ASSUME Clocked, UNCHANGED <<bid, order, clkVars>>,
         NEW d, d[1] \notin {"prci", "sifive"}, probed' \subseteq probed \cup {d}
  PROVE  Clocked'
<1>1. OfKind("sifive")' = OfKind("sifive") /\ \A x : Src(x)' = Src(x)
  BY SameBoard
<1>2. /\ \A x \in probed' : x[1] = "sifive" => x \in probed
      /\ \A x \in probed' : x[1] = "prci" => x \in probed
  OBVIOUS
<1>3. UartClk' = UartClk /\ UNCHANGED <<rates, search, pll, on, freqIn>>
  BY DEF UartClk, clkVars
<1> QED BY <1>1, <1>2, <1>3 DEF Clocked

\* A device that is new among the probed ones has its CPU or clock.
LEMMA SourcedKept ==
  ASSUME Sourced, UNCHANGED <<bid, order>>, NEW d,
         probed' \in {probed, probed \cup {d}},
         probed' # probed => Src(d) = None \/ Src(d) \in probed
  PROVE  Sourced'
BY SameBoard DEF Sourced
-----------------------------------------------------------------------------
(* The search of the PRCI.                                                 *)

\* Induction over a loop, for a set of numbers.
LEMMA SetInduction ==
  ASSUME NEW T, 0 \in T, \A n \in Nat : n \in T => n + 1 \in T
  PROVE  \A n \in Nat : n \in T
<1> DEFINE U == {n \in Nat : n \notin T}
<1>1. SUFFICES ASSUME U # {} PROVE FALSE
  OBVIOUS
<1>2. PICK x \in U : \A y \in U : x <= y
  BY <1>1, LeastNat, Zenon
<1>3. x \in Nat /\ x # 0 /\ x - 1 \in Nat /\ ~(x <= x - 1)
  BY <1>2
<1>4. x - 1 \in T
  BY <1>2, <1>3
<1>5. (x - 1) + 1 \in T
  BY <1>3, <1>4
<1> QED BY <1>2, <1>3, <1>5

\* A number of at least two divisors has a quotient of at least two.
LEMMA TwiceDivided ==
  ASSUME NEW v \in Nat, NEW p \in Nat \ {0}, 2 * p <= v
  PROVE  v \div p \in Nat /\ v \div p >= 2
<1> DEFINE k == v \div p
           m == v % p
<1>1. k \in Int /\ m \in 0 .. p - 1 /\ v = k * p + m
  OBVIOUS
<1> HIDE DEF k, m
<1>2. CASE k <= 1
  <2>1. k * p <= p
    <3>1. CASE k = 1
      BY <3>1
    <3>2. CASE k <= 0
      <4>1. k * p <= 0
        BY <1>1, <3>2
      <4>2. k * p \in Int
        BY <1>1
      <4> QED BY <4>1, <4>2
    <3> QED BY <1>1, <1>2, <3>1, <3>2
  <2>2. k * p \in Int
    BY <1>1
  <2> QED BY <1>1, <2>1, <2>2
<1> QED BY <1>1, <1>2 DEF k

\* What comes out of a setting that a PLL accepts is at least two units.
LEMMA PostUsable ==
  ASSUME NEW ref \in Nat, NEW x \in Settings(ref)
  PROVE  Post(ref, x) \in Nat /\ Post(ref, x) >= 2
<1> DEFINE v == ref * 2 * (x[1] + 1)
           p == 2^x[2]
<1>1. x[2] \in 0 .. DivqMax - 1 /\ v \in VcoMin .. VcoMax - 1
  BY DEF Settings
<1>2. VcoMin \in Nat /\ VcoMax \in Nat /\ p \in Nat \ {0} /\ 2 * p <= VcoMin
  BY <1>1, PllAssumption
<1> HIDE DEF v, p
<1>3. v \in Nat /\ 2 * p <= v
  BY <1>1, <1>2
<1> QED BY <1>2, <1>3, TwiceDivided DEF Post, v, p

\* A distance is a number.
LEMMA DistanceNat ==
  ASSUME NEW a \in Nat, NEW b \in Nat
  PROVE  Distance(a, b) \in Nat
BY DEF Distance

\* The inner loops end with a nearest setting of their reference.
LEMMA InnerNearest ==
  ASSUME NEW target \in Nat, NEW ref \in Nat, Settings(ref) # {}
  PROVE  LET x == FirstNearest(target, ref) IN
         /\ x \in Settings(ref)
         /\ \A y \in Settings(ref) : Distance(target, Post(ref, x)) <= Distance(target, Post(ref, y))
<1> DEFINE S == Settings(ref)
           D(x) == Distance(target, Post(ref, x))
           near == Min({D(x) : x \in S})
           ties == {x \in S : D(x) = near}
           First(x) == \A y \in ties : x[1] < y[1] \/ (x[1] = y[1] /\ x[2] <= y[2])
<1>1. FirstNearest(target, ref) = CHOOSE x \in ties : First(x)
  BY DEF FirstNearest
<1>2. \A x \in S : D(x) \in Nat
  BY PostUsable, DistanceNat, Zenon
<1>3. \A x \in S : x[1] \in Nat /\ x[2] \in Nat
  BY DEF Settings
<1> HIDE DEF S, D
<1>4. near \in {D(x) : x \in S} /\ \A y \in {D(x) : x \in S} : near <= y
  <2>1. {D(x) : x \in S} \in SUBSET Nat /\ {D(x) : x \in S} # {}
    BY <1>2 DEF S
  <2> QED BY <2>1, LeastNat, Zenon DEF Min
<1> HIDE DEF near
<1>5. \E x \in ties : First(x)
  <2> DEFINE A == {x[1] : x \in ties}
  <2>1. A \in SUBSET Nat /\ A # {}
    BY <1>3, <1>4
  <2>2. PICK a \in A : \A b \in A : a <= b
    BY <2>1, LeastNat, Zenon
  <2> DEFINE C == {x[2] : x \in {y \in ties : y[1] = a}}
  <2>3. C \in SUBSET Nat /\ C # {}
    BY <1>3, <2>2
  <2>4. PICK q \in C : \A r \in C : q <= r
    BY <2>3, LeastNat, Zenon
  <2>5. PICK x \in ties : x[1] = a /\ x[2] = q
    BY <2>4
  <2>6. ASSUME NEW y \in ties PROVE x[1] < y[1] \/ (x[1] = y[1] /\ x[2] <= y[2])
    <3>1. a <= y[1] /\ y[1] \in Nat /\ a \in Nat
      BY <1>3, <2>1, <2>2
    <3>2. y[1] = a => q <= y[2]
      BY <2>4
    <3> QED BY <2>5, <3>1, <3>2
  <2> QED BY <2>5, <2>6
<1> HIDE DEF First
<1>6. FirstNearest(target, ref) \in ties
  BY <1>1, <1>5
<1> QED BY <1>4, <1>6 DEF S, D

\* One turn of the loop of clk_prci_find_divr.
Tried(input, target, conf, i) ==
  LET ref == input \div i IN
  IF ref < RefMin \/ RefMax <= ref THEN conf ELSE FindDivf(conf, target, i - 1, ref)

\* What the loop has found after each of n turns.
IsLoop(input, target, n, h) ==
  h = [i \in 0 .. n |-> IF i = 0 THEN NotFound ELSE Tried(input, target, h[i - 1], i)]

\* The loop ends: there is a function that it computes.
LEMMA LoopEnds ==
  ASSUME NEW input, NEW target, NEW n \in Nat
  PROVE  \E h : IsLoop(input, target, n, h)
<1> DEFINE Turn(h, i) == IF i = 0 THEN NotFound ELSE Tried(input, target, h[i - 1], i)
           T == {m \in Nat : \E h : h = [i \in 0 .. m |-> Turn(h, i)]}
<1>1. 0 \in T
  <2> DEFINE h == [i \in 0 .. 0 |-> NotFound]
  <2>1. h = [i \in 0 .. 0 |-> Turn(h, i)]
    OBVIOUS
  <2> HIDE DEF h
  <2> QED BY <2>1
<1>2. ASSUME NEW m \in Nat, m \in T PROVE m + 1 \in T
  <2>1. PICK h : h = [i \in 0 .. m |-> Turn(h, i)]
    BY <1>2
  <2> DEFINE g == [i \in 0 .. m + 1 |-> IF i <= m THEN h[i] ELSE Tried(input, target, h[m], m + 1)]
  <2>2. \A i \in 0 .. m : h[i] = Turn(h, i)
    BY <2>1
  <2>3. \A i \in 0 .. m : g[i] = h[i]
    OBVIOUS
  <2>4. ASSUME NEW i \in 0 .. m + 1 PROVE g[i] = Turn(g, i)
    <3>1. CASE i = 0
      BY <2>2, <2>3, <3>1
    <3>2. CASE i # 0 /\ i <= m
      <4>1. i \in 0 .. m /\ i - 1 \in 0 .. m
        BY <3>2
      <4> QED BY <2>2, <2>3, <3>2, <4>1
    <3>3. CASE i = m + 1
      <4>1. m + 1 # 0 /\ (m + 1) - 1 = m /\ ~(m + 1 <= m) /\ m \in 0 .. m
        OBVIOUS
      <4>2. g[m + 1] = Tried(input, target, h[m], m + 1)
        BY <4>1
      <4> QED BY <2>3, <3>3, <4>1, <4>2
    <3> QED BY <3>1, <3>2, <3>3
  <2>5. g = [i \in 0 .. m + 1 |-> Turn(g, i)]
    BY <2>4
  <2> HIDE DEF g
  <2> QED BY <2>5
<1> HIDE DEF T
<1>3. n \in T
  BY <1>1, <1>2, SetInduction
<1> QED BY <1>3 DEF T, IsLoop

\* What the loop has found when it has tried the first n values of divr: a
\* setting that a PLL accepts, or nothing, and nothing that it has tried is
\* nearer to the target.
RefOf(input, r) == input \div (r + 1)
Accepts(input, r) == RefMin <= RefOf(input, r) /\ RefOf(input, r) < RefMax
FoundIn(input, n, conf) ==
  /\ conf.divr \in 0 .. n - 1 /\ Accepts(input, conf.divr)
  /\ conf.ref = RefOf(input, conf.divr)
  /\ <<conf.divf, conf.divq>> \in Settings(conf.ref)
  /\ conf.result = Post(conf.ref, <<conf.divf, conf.divq>>)
ConfFields == {"found", "result", "ref", "divr", "divf", "divq", "range"}
BestOf(input, target, n, conf) ==
  /\ conf = [f \in ConfFields |-> conf[f]]
  /\ IF conf.found THEN FoundIn(input, n, conf) ELSE conf = NotFound
  /\ \A r \in 0 .. n - 1 : Accepts(input, r) =>
       \A x \in Settings(RefOf(input, r)) :
         Distance(target, conf.result) <= Distance(target, Post(RefOf(input, r), x))

\* The limits of the reference are numbers.
LEMMA BoundsNat ==
  (\A k \in 1 .. 8 : RefBounds[k] \in Nat) /\ RefMin \in Nat /\ RefMax \in Nat
<1>1. RefBounds \in [1 .. 8 -> Nat]
  BY PllAssumption, Zenon
<1> QED BY <1>1 DEF RefMin, RefMax

\* A reference is a number.
LEMMA RefNat ==
  ASSUME NEW input \in Nat, NEW r \in Nat
  PROVE  RefOf(input, r) \in Nat
<1>1. r + 1 \in Nat \ {0}
  OBVIOUS
<1> QED BY <1>1 DEF RefOf

\* What is found has a frequency.
LEMMA ResultNat ==
  ASSUME NEW input \in Nat, NEW target \in Nat, NEW n \in Nat, NEW conf,
         BestOf(input, target, n, conf)
  PROVE  conf.result \in Nat /\ (conf.found => conf.result >= 2)
<1>1. CASE conf.found
  <2>1. FoundIn(input, n, conf)
    BY <1>1 DEF BestOf
  <2>2. conf.divr \in Nat
    BY <2>1 DEF FoundIn
  <2>3. conf.ref \in Nat
    BY <2>1, <2>2, RefNat, Zenon DEF FoundIn
  <2> QED BY <2>1, <2>3, PostUsable DEF FoundIn
<1>2. CASE ~conf.found
  BY <1>2 DEF BestOf, NotFound
<1> QED BY <1>1, <1>2

\* A turn of the loop keeps what is said of it.
LEMMA TurnKeeps ==
  ASSUME NEW input \in Nat, NEW target \in Nat, NEW n \in Nat, NEW conf,
         BestOf(input, target, n, conf)
  PROVE  BestOf(input, target, n + 1, Tried(input, target, conf, n + 1))
<1> DEFINE ref == RefOf(input, n)
           S == Settings(ref)
           x == FirstNearest(target, ref)
           post == Post(ref, x)
           new == [conf EXCEPT !.found = TRUE, !.result = post, !.ref = ref,
                               !.divr = n, !.divf = x[1], !.divq = x[2]]
           next == Tried(input, target, conf, n + 1)
           D(f) == Distance(target, f)
<1>1. ref \in Nat /\ RefMin \in Nat /\ RefMax \in Nat /\ (n + 1) - 1 = n
  <2>1. ref \in Nat
    BY RefNat
  <2> HIDE DEF ref
  <2> QED BY <2>1, BoundsNat
<1>2. conf.result \in Nat
  BY ResultNat
<1>3. next = IF ~Accepts(input, n) \/ S = {} \/ D(post) >= D(conf.result) THEN conf ELSE new
  <2>1. ref = input \div (n + 1)
    BY DEF RefOf
  <2>2. Accepts(input, n) <=> ~(ref < RefMin \/ RefMax <= ref)
    BY <1>1 DEF Accepts
  <2>3. Tried(input, target, conf, n + 1) =
          IF ref < RefMin \/ RefMax <= ref THEN conf ELSE FindDivf(conf, target, n, ref)
    BY <1>1, <2>1 DEF Tried
  <2>4. FindDivf(conf, target, n, ref) = IF S = {} \/ D(post) >= D(conf.result) THEN conf ELSE new
    BY DEF FindDivf
  <2> HIDE DEF new, post, x, S, ref
  <2> QED BY <2>2, <2>3, <2>4
<1>4. S # {} => x \in S /\ post \in Nat /\ \A y \in S : D(post) <= D(Post(ref, y))
  BY <1>1, InnerNearest, PostUsable
<1>5. \A f \in Nat : D(f) \in Nat
  BY DistanceNat, Zenon
<1>6. \A y \in S : D(Post(ref, y)) \in Nat
  BY <1>1, <1>5, PostUsable
<1>7. \A r \in 0 .. (n + 1) - 1 : r \in 0 .. n - 1 \/ r = n
  OBVIOUS
<1> HIDE DEF D, next, post, x
<1>8. CASE next = conf /\ (~Accepts(input, n) \/ S = {} \/ D(post) >= D(conf.result))
  <2>1. conf.found => FoundIn(input, n + 1, conf)
    BY DEF BestOf, FoundIn
  <2>2. ASSUME Accepts(input, n), NEW y \in S PROVE D(conf.result) <= D(Post(ref, y))
    <3>1. S # {}
      BY <2>2
    <3>2. D(post) \in Nat /\ D(conf.result) \in Nat /\ D(Post(ref, y)) \in Nat
      BY <1>2, <1>4, <1>5, <1>6, <3>1
    <3>3. D(post) >= D(conf.result) /\ D(post) <= D(Post(ref, y))
      BY <1>4, <1>8, <2>2, <3>1
    <3> QED BY <3>2, <3>3
  <2> QED BY <1>7, <1>8, <2>1, <2>2 DEF BestOf, D, next
<1>9. CASE next = new /\ Accepts(input, n) /\ S # {} /\ ~(D(post) >= D(conf.result))
  <2>1. conf = [f \in ConfFields |-> conf[f]]
    BY DEF BestOf
  <2>2. /\ new = [f \in ConfFields |-> new[f]]
        /\ new.found = TRUE /\ new.result = post /\ new.ref = ref /\ new.divr = n
        /\ new.divf = x[1] /\ new.divq = x[2]
    BY <2>1, Zenon DEF ConfFields
  <2> HIDE DEF new
  <2>3. x \in S /\ x = <<x[1], x[2]>>
    BY <1>4, <1>9 DEF Settings
  <2>4. FoundIn(input, n + 1, new)
    BY <1>9, <2>2, <2>3 DEF FoundIn, post
  <2>5. D(post) \in Nat /\ D(conf.result) \in Nat /\ D(post) <= D(conf.result)
    BY <1>2, <1>4, <1>5, <1>9
  <2>6. ASSUME NEW r \in 0 .. n - 1, Accepts(input, r), NEW y \in Settings(RefOf(input, r))
        PROVE  D(post) <= D(Post(RefOf(input, r), y))
    <3>1. D(conf.result) <= D(Post(RefOf(input, r), y))
      BY <2>6 DEF BestOf, D
    <3>2. D(Post(RefOf(input, r), y)) \in Nat
      <4>1. r \in Nat
        OBVIOUS
      <4>2. RefOf(input, r) \in Nat
        BY <4>1, RefNat
      <4>3. Post(RefOf(input, r), y) \in Nat
        BY <2>6, <4>2, PostUsable
      <4> QED BY <1>5, <4>3
    <3> QED BY <2>5, <3>1, <3>2
  <2>7. \A y \in S : D(post) <= D(Post(ref, y))
    BY <1>4, <1>9
  <2> QED BY <1>7, <1>9, <2>2, <2>4, <2>6, <2>7 DEF BestOf, D, next
<1> QED BY <1>3, <1>8, <1>9

\* A reference that the loop lets through lies in one of the seven ranges.
LEMMA RangeOfRef ==
  ASSUME NEW ref \in Nat, RefMin <= ref, ref < RefMax
  PROVE  LET k == FilterRange(ref) IN
         k \in 1 .. 7 /\ RefBounds[k] <= ref /\ ref < RefBounds[k + 1]
<1> DEFINE In(k) == RefBounds[k] <= ref /\ ref < RefBounds[k + 1]
<1>1. \A k \in 1 .. 8 : RefBounds[k] \in Nat
  BY BoundsNat
<1>2. \E k \in 1 .. 7 : In(k)
  <2> DEFINE T == {j \in Nat : j \in 1 .. 8 /\ ref < RefBounds[j]}
  <2>1. 8 \in T
    BY DEF RefMax
  <2>2. PICK j \in T : \A m \in T : j <= m
    BY <2>1, LeastNat
  <2>3. j # 1
    BY <1>1, <2>2 DEF RefMin
  <2>4. j - 1 \in 1 .. 7 /\ j - 1 \notin T /\ (j - 1) + 1 = j
    BY <2>2, <2>3
  <2>5. RefBounds[j - 1] \in Nat /\ ~(ref < RefBounds[j - 1])
    BY <1>1, <2>4
  <2>6. In(j - 1)
    BY <2>2, <2>4, <2>5
  <2> QED BY <2>4, <2>6
<1> HIDE DEF In
<1>3. FilterRange(ref) = CHOOSE k \in 1 .. 7 : In(k)
  BY DEF FilterRange, In
<1> QED BY <1>2, <1>3 DEF In

\* clk_prci_find_divr goes through all values of divr.
LEMMA SearchFinds ==
  ASSUME NEW input \in Nat, NEW target \in Nat
  PROVE  \E conf : /\ BestOf(input, target, DivrMax, conf)
                   /\ FindDivr(input, target) =
                        IF conf.found THEN [conf EXCEPT !.range = FilterRange(conf.ref)] ELSE conf
<1>0. DivrMax \in Nat
  BY PllAssumption
<1>e. \E h : IsLoop(input, target, DivrMax, h)
  BY <1>0, LoopEnds, Zenon
<1> DEFINE Turn(h, i) == IF i = 0 THEN NotFound ELSE Tried(input, target, h[i - 1], i)
           f == CHOOSE h : h = [i \in 0 .. DivrMax |-> Turn(h, i)]
           T == {i \in Nat : i <= DivrMax => BestOf(input, target, i, f[i])}
<1>1. f = [i \in 0 .. DivrMax |-> Turn(f, i)]
  BY <1>e, Zenon DEF IsLoop
<1>2. FindDivr(input, target) =
        IF f[DivrMax].found THEN [f[DivrMax] EXCEPT !.range = FilterRange(f[DivrMax].ref)] ELSE f[DivrMax]
  BY DEF FindDivr, Tried
<1> HIDE DEF f
<1>3. \A i \in 0 .. DivrMax : f[i] = IF i = 0 THEN NotFound ELSE Tried(input, target, f[i - 1], i)
  BY <1>1, Zenon
<1>4. 0 \in T
  <2>1. f[0] = NotFound
    BY <1>0, <1>3
  <2>2. NotFound = [g \in ConfFields |-> NotFound[g]] /\ ~NotFound.found
    BY DEF NotFound, ConfFields
  <2> QED BY <2>1, <2>2 DEF BestOf
<1>5. ASSUME NEW i \in Nat, i \in T PROVE i + 1 \in T
  <2> SUFFICES ASSUME i + 1 <= DivrMax PROVE BestOf(input, target, i + 1, f[i + 1])
    OBVIOUS
  <2>1. i <= DivrMax /\ i + 1 \in 0 .. DivrMax /\ i + 1 # 0 /\ (i + 1) - 1 = i
    BY <1>0
  <2>2. BestOf(input, target, i, f[i])
    BY <1>5, <2>1
  <2>3. f[i + 1] = Tried(input, target, f[i], i + 1)
    BY <1>3, <2>1
  <2> QED BY <2>2, <2>3, TurnKeeps
<1> HIDE DEF T
<1>6. DivrMax \in T
  BY <1>0, <1>4, <1>5, SetInduction
<1>7. BestOf(input, target, DivrMax, f[DivrMax])
  BY <1>0, <1>6 DEF T
<1> QED BY <1>2, <1>7

\* The search finds a setting that the PLL accepts, with the frequency it
\* gives and the range of its reference, and none comes nearer; or every
\* output is further from the target than 0 is.
LEMMA SearchBest ==
  ASSUME NEW input \in Nat, NEW target \in Nat
  PROVE  LET conf == FindDivr(input, target) IN
         /\ conf.found => /\ Sound(input, conf)
                          /\ Nearest(input, target, conf.result)
                          /\ conf.result \in Nat /\ conf.result >= 2
         /\ ~conf.found => conf = NotFound /\ Nearest(input, target, 0)
<1> DEFINE res == FindDivr(input, target)
<1>0. DivrMax \in Nat /\ RefMin \in Nat /\ RefMax \in Nat
  BY BoundsNat, PllAssumption
<1>1. PICK conf : /\ BestOf(input, target, DivrMax, conf)
                  /\ res = IF conf.found THEN [conf EXCEPT !.range = FilterRange(conf.ref)] ELSE conf
  BY SearchFinds
<1> HIDE DEF res
<1>2. conf.result \in Nat /\ (conf.found => conf.result >= 2)
  BY <1>0, <1>1, ResultNat
<1>3. Nearest(input, target, conf.result)
  <2> SUFFICES ASSUME NEW d \in Dividers(input)
               PROVE  Distance(target, Output(input, d)) >= Distance(target, conf.result)
    BY DEF Nearest
  <2> DEFINE ref == RefOf(input, d.r)
             x == <<d.f, d.q>>
  <2>1. /\ d.r \in 0 .. DivrMax - 1 /\ d.f \in 0 .. DivfMax - 1 /\ d.q \in 0 .. DivqMax - 1
        /\ ref \in RefMin .. RefMax - 1
        /\ (ref * 2 * (d.f + 1)) \in VcoMin .. VcoMax - 1
    <3>1. d \in [r : Refs(input), f : 0 .. DivfMax - 1, q : 0 .. DivqMax - 1]
      BY Zenon DEF Dividers
    <3>2. (ref * 2 * (d.f + 1)) \in VcoMin .. VcoMax - 1
      BY Zenon DEF Dividers, RefOf
    <3>3. d.r \in Refs(input) /\ d.f \in 0 .. DivfMax - 1 /\ d.q \in 0 .. DivqMax - 1
      BY <3>1
    <3>4. d.r \in 0 .. DivrMax - 1 /\ ref \in RefMin .. RefMax - 1
      BY <3>3, Zenon DEF Refs, RefOf
    <3> QED BY <3>2, <3>3, <3>4, Zenon
  <2>2. ref \in Nat
    <3>1. d.r \in Nat
      BY <1>0, <2>1
    <3> QED BY <3>1, RefNat, Zenon
  <2> HIDE DEF ref
  <2>3. Accepts(input, d.r) /\ x \in Settings(ref)
    BY <1>0, <2>1, <2>2 DEF Accepts, Settings, ref
  <2>4. Distance(target, conf.result) <= Distance(target, Post(ref, x))
    BY <1>1, <2>1, <2>3 DEF BestOf, ref
  <2>5. Output(input, d) = Post(ref, x)
    BY DEF Output, Post, ref, RefOf
  <2>6. Distance(target, conf.result) \in Nat /\ Distance(target, Post(ref, x)) \in Nat
    BY <1>2, <2>2, <2>3, PostUsable, DistanceNat, Zenon
  <2> QED BY <2>4, <2>5, <2>6
<1>4. CASE conf.found
  <2>1. FoundIn(input, DivrMax, conf) /\ conf = [f \in ConfFields |-> conf[f]]
    BY <1>1, <1>4 DEF BestOf
  <2>2. /\ res.found /\ res.result = conf.result /\ res.divr = conf.divr /\ res.divf = conf.divf
        /\ res.divq = conf.divq /\ res.range = FilterRange(conf.ref)
    BY <1>1, <1>4, <2>1 DEF ConfFields
  <2> DEFINE d == [r |-> conf.divr, f |-> conf.divf, q |-> conf.divq]
             ref == conf.ref
  <2>3. conf.divr \in 0 .. DivrMax - 1 /\ conf.divr \in Nat /\ Accepts(input, conf.divr)
        /\ ref = input \div (conf.divr + 1) /\ ref \in Nat
    BY <1>0, <2>1, RefNat DEF FoundIn, RefOf
  <2>4. RefMin <= ref /\ ref < RefMax
    BY <2>3 DEF Accepts, RefOf
  <2>5. /\ conf.divf \in 0 .. DivfMax - 1 /\ conf.divq \in 0 .. DivqMax - 1
        /\ (ref * 2 * (conf.divf + 1)) \in VcoMin .. VcoMax - 1
    BY <2>1 DEF FoundIn, Settings
  <2>6. conf.divr \in Refs(input)
    BY <1>0, <2>3, <2>4 DEF Refs
  <2>7. d \in Dividers(input)
    BY <2>3, <2>5, <2>6 DEF Dividers
  <2>8. conf.result = Output(input, d)
    BY <2>1, <2>3 DEF FoundIn, Post, Output
  <2>9. RefBounds[res.range] <= ref /\ ref < RefBounds[res.range + 1]
    BY <2>2, <2>3, <2>4, RangeOfRef
  <2>10. Sound(input, res)
    BY <2>2, <2>3, <2>7, <2>8, <2>9 DEF Sound
  <2> QED BY <1>2, <1>3, <1>4, <2>2, <2>10 DEF res
<1>5. CASE ~conf.found
  <2>1. conf = NotFound /\ res = NotFound
    BY <1>1, <1>5 DEF BestOf
  <2> QED BY <1>3, <2>1 DEF NotFound, res
<1> QED BY <1>4, <1>5
-----------------------------------------------------------------------------
(* The drivers.                                                            *)

\* The answer of a driver, from its action.
LEMMA ProbingAnswers ==
  ASSUME NEW k, NEW d \in Devs, Probing(k, d), UNCHANGED rates,
         NEW r \in {"ok", "again", "error"}, Answer(d, r)
  PROVE  Probes(d) /\ d[1] \in k /\ (r # "ok" => probed' = probed)
BY DEF Probing, Probes, Answer

\* A lookup has one of three answers, and finds only what is probed.
LEMMA FindAnswers ==
  \A n : Find(n) \in {"ok", "again", "error"} /\ (Find(n) = "ok" => n \in probed)
BY DEF Find

\* A driver that registers nothing but a line at the PLIC: the fixed clock, the
\* reset, the 16550, the UART lite and the GPIO.
LEMMA QuietStep ==
  ASSUME ProbeInv, NEW d, Probes(d),
         d[1] \in {"clk", "reset", "16550", "lite", "gpio"},
         UNCHANGED <<cpus, nextId, used, chain, top, wake, clkVars>>,
         probed' # probed => Src(d) = None \/ Src(d) \in probed
  PROVE  ProbeInv'
<1>1. OnBus' /\ Passed' /\ probed' \in {probed, probed \cup {d}}
  BY ProbesStep DEF ProbeInv
<1>2. UNCHANGED <<bid, order>>
  BY DEF Probes
<1>3. /\ d[1] \notin {"cpu", "rvintc", "prci", "sifive"}
      /\ \A x \in probed' : x[1] \in Connected => x \in probed
  BY <1>1 DEF Connected
<1>4. Numbered'
  BY <1>1, <1>2, <1>3, NumberedKept DEF ProbeInv
<1>5. Handled'
  BY <1>1, <1>2, <1>3, HandledKept DEF ProbeInv
<1>6. Topped'
  BY <1>1, <1>2, <1>3, ToppedKept DEF ProbeInv
<1>7. Clocked'
  BY <1>1, <1>2, <1>3, ClockedKept DEF ProbeInv
<1>8. Sourced'
  BY <1>1, <1>2, SourcedKept DEF ProbeInv
<1> QED BY <1>1, <1>4, <1>5, <1>6, <1>7, <1>8 DEF ProbeInv

\* clk_fixed_add and reset_qemu_test_add look up nothing.
LEMMA PlainStep ==
  ASSUME ProbeInv, NEW d \in Devs, AddClkFixed(d) \/ AddReset(d)
  PROVE  ProbeInv'
<1>1. /\ Probing({"clk"}, d) \/ Probing({"reset"}, d)
      /\ Answer(d, "ok")
      /\ UNCHANGED <<cpus, nextId, used, chain, top, wake, clkVars>>
      /\ UNCHANGED rates
  BY DEF AddClkFixed, AddReset, addVars, clkVars
<1>2. Probes(d) /\ d[1] \in {"clk", "reset"}
  BY <1>1, ProbingAnswers
<1>3. Src(d) = None
  BY <1>2, BoardFacts, Zenon DEF ProbeInv
<1> QED BY <1>1, <1>2, <1>3, QuietStep

\* What a device that may take a line of the PLIC answers.
LEMMA LineAnswers ==
  ASSUME NEW d, TakeLine(d)
  PROVE  \E r \in {"ok", "again", "error"} : Answer(d, r)
BY DEF TakeLine

\* uart_lite_add and gpio_v2_add are probed with a line or without one.
LEMMA LineStep ==
  ASSUME ProbeInv, NEW d \in Devs, AddLite(d) \/ AddGpio(d)
  PROVE  ProbeInv'
<1>1. /\ Probing({"lite"}, d) \/ Probing({"gpio"}, d)
      /\ TakeLine(d)
      /\ UNCHANGED <<cpus, nextId, used, chain, top, wake, clkVars>>
      /\ UNCHANGED rates
  BY DEF AddLite, AddGpio, clkVars
<1>2. PICK r \in {"ok", "again", "error"} : Answer(d, r)
  BY <1>1, LineAnswers
<1>3. Probes(d) /\ d[1] \in {"lite", "gpio"}
  BY <1>1, <1>2, ProbingAnswers
<1>4. Src(d) = None
  BY <1>3, BoardFacts, Zenon DEF ProbeInv
<1> QED BY <1>1, <1>3, <1>4, QuietStep

\* A UART on a clock is probed only when its clock is.
LEMMA OnClockAnswers ==
  ASSUME NEW k, NEW d \in Devs, Probing(k, d), UNCHANGED rates, OnClock(d)
  PROVE  Probes(d) /\ d[1] \in k /\ (probed' # probed => Src(d) \in probed)
<1>1. CASE Find(Src(d)) = "ok"
  <2>1. PICK r \in {"ok", "again", "error"} : Answer(d, r)
    BY <1>1, LineAnswers DEF OnClock
  <2> QED BY <1>1, <2>1, ProbingAnswers, FindAnswers
<1>2. CASE Find(Src(d)) # "ok"
  <2>1. Answer(d, Find(Src(d)))
    BY <1>2 DEF OnClock
  <2> QED BY <1>2, <2>1, ProbingAnswers, FindAnswers
<1> QED BY <1>1, <1>2

\* uart_ns16550_add
LEMMA Step16550 ==
  ASSUME ProbeInv, NEW d \in Devs, Add16550(d)
  PROVE  ProbeInv'
<1>1. /\ Probing({"16550"}, d)
      /\ OnClock(d)
      /\ UNCHANGED <<cpus, nextId, used, chain, top, wake, clkVars>>
      /\ UNCHANGED rates
  BY DEF Add16550, clkVars
<1>2. Probes(d) /\ d[1] \in {"16550"} /\ (probed' # probed => Src(d) \in probed)
  BY <1>1, OnClockAnswers
<1> QED BY <1>1, <1>2, QuietStep

\* cpu_riscv_add: the id a CPU gets is free, and the main one gets 0.
LEMMA CpuStep ==
  ASSUME ProbeInv, NEW d \in Devs, AddCpu(d)
  PROVE  ProbeInv'
<1>1. /\ Probing({"cpu"}, d)
      /\ nextId' = IF d[2] = B.main THEN nextId ELSE nextId + 1
      /\ UNCHANGED <<used, chain, top, wake, hnd, clkVars>>
      /\ UNCHANGED rates
  BY DEF AddCpu, clkVars
<1>2. PICK r \in {"ok", "again", "error"} :
        /\ Answer(d, r)
        /\ r = "ok" => CpuId(d) < B.cores /\ cpus' = [cpus EXCEPT ![CpuId(d)] = d]
        /\ r # "ok" => cpus' = cpus
  <2>1. CASE CpuId(d) >= B.cores
    BY <2>1 DEF AddCpu
  <2>2. CASE ~(CpuId(d) >= B.cores)
    <3>1. CpuId(d) \in Nat /\ B.cores \in Nat
      BY BoardFacts DEF CpuId, ProbeInv, Numbered
    <3> QED BY <2>2, <3>1 DEF AddCpu
  <2> QED BY <2>1, <2>2
<1>3. Probes(d) /\ d[1] = "cpu" /\ d \notin probed /\ UNCHANGED <<bid, order>>
  <2>1. Probes(d) /\ d[1] \in {"cpu"}
    BY <1>1, <1>2, ProbingAnswers, Zenon
  <2> QED BY <2>1 DEF Probes
<1>4. OnBus' /\ Passed' /\ probed' \in {probed, probed \cup {d}}
  BY <1>3, ProbesStep DEF ProbeInv
<1>5. B' = B /\ OfKind("cpu")' = OfKind("cpu") /\ d \in OfKind("cpu")
  BY <1>3, SameBoard DEF OfKind
<1>6. d = Cpu(d[2]) /\ (d[2] = B.main <=> d = Cpu(B.main)) /\ d # None
  BY <1>3, DevFacts DEF Cpu, ProbeInv
<1>7. B.cores \in Nat \ {0} /\ nextId \in Nat \ {0}
  BY BoardFacts DEF ProbeInv, Numbered
<1>8. Numbered'
  <2>1. CASE r # "ok"
    <3>1. probed' = probed /\ cpus' = cpus
      BY <2>1, <1>2 DEF Answer
    <3>2. nextId' \in Nat \ {0} /\ nextId' >= nextId
      BY <1>1, <1>7
    <3>3. \A i \in DOMAIN cpus : i >= nextId' => i >= nextId
      BY <3>2, <1>7 DEF ProbeInv, Numbered
    <3> QED BY <1>5, <3>1, <3>2, <3>3 DEF ProbeInv, Numbered
  <2>2. CASE r = "ok"
    <3> DEFINE id == CpuId(d)
    <3>1. probed' = probed \cup {d} /\ cpus' = [cpus EXCEPT ![id] = d]
      BY <2>2, <1>2 DEF Answer
    <3>2. id \in 0 .. B.cores - 1
      BY <1>2, <1>7, <2>2 DEF CpuId
    <3>3. cpus \in [0 .. B.cores - 1 -> OfKind("cpu") \cup {None}]
      BY DEF ProbeInv, Numbered
    <3>4. \A x \in probed : cpus[id] # x
      <4>1. CASE d[2] = B.main
        <5>1. cpus[0] \in {None, Cpu(B.main)} /\ probed \subseteq Devs
          BY Zenon DEF ProbeInv, Numbered, OnBus
        <5>2. \A x \in Devs : x # None
          BY DevFacts, Zenon DEF ProbeInv
        <5>3. id = 0 /\ d = Cpu(B.main) /\ d \notin probed
          BY <4>1, <1>3, <1>6, Zenon DEF CpuId
        <5> HIDE DEF id
        <5> QED BY <5>1, <5>2, <5>3
      <4>2. CASE d[2] # B.main
        <5>1. cpus[id] = None
          <6>1. id = nextId /\ nextId >= nextId
            BY <4>2, <1>7 DEF CpuId
          <6>2. \A i \in DOMAIN cpus : i >= nextId => cpus[i] = None
            BY Zenon DEF ProbeInv, Numbered
          <6>3. id \in DOMAIN cpus
            BY <3>2, <3>3
          <6> QED BY <6>1, <6>2, <6>3, Zenon
        <5> QED BY <5>1, DevFacts DEF ProbeInv, OnBus
      <4> QED BY <4>1, <4>2
    <3>5. cpus' \in [0 .. B.cores - 1 -> OfKind("cpu") \cup {None}] /\ cpus'[id] = d
      BY <3>1, <3>2, <3>3, <1>5
    <3>6. \A i \in 0 .. B.cores - 1 : i # id => cpus'[i] = cpus[i]
      BY <3>1, <3>3
    <3>7. nextId' \in Nat \ {0} /\ \A i \in 0 .. B.cores - 1 : i >= nextId' => i # id /\ i >= nextId
      BY <1>1, <1>7 DEF CpuId
    <3>8. \A i \in 0 .. B.cores - 1 : i >= nextId' => cpus'[i] = None
      BY <3>3, <3>6, <3>7 DEF ProbeInv, Numbered
    <3>9. \A x \in probed' : x[1] = "cpu" => \E i \in 0 .. B.cores - 1 : cpus'[i] = x
      BY <3>1, <3>2, <3>3, <3>4, <3>5, <3>6 DEF ProbeInv, Numbered
    <3>10. 0 \in 0 .. B.cores - 1 /\ (id = 0 <=> d = Cpu(B.main))
      BY <1>6, <1>7 DEF CpuId
    <3>11. cpus'[0] \in {None, Cpu(B.main)}
      BY <3>5, <3>6, <3>10 DEF ProbeInv, Numbered
    <3>12. Cpu(B.main) \in probed' => cpus'[0] = Cpu(B.main)
      BY <3>1, <3>5, <3>6, <3>10 DEF ProbeInv, Numbered
    <3>13. DOMAIN cpus' = 0 .. B.cores - 1
      BY <3>5
    <3> QED BY <1>5, <3>5, <3>7, <3>8, <3>9, <3>11, <3>12, <3>13, Zenon DEF Numbered
  <2> QED BY <2>1, <2>2
<1>9. /\ d[1] \notin {"rvintc", "prci", "sifive"}
      /\ \A x \in probed' : x[1] \in Connected => x \in probed
  BY <1>3, <1>4 DEF Connected
<1>10. Handled'
  BY <1>1, <1>3, <1>4, <1>9, HandledKept DEF ProbeInv
<1>11. Topped'
  BY <1>1, <1>3, <1>4, <1>9, ToppedKept DEF ProbeInv
<1>12. Clocked'
  BY <1>1, <1>3, <1>4, <1>9, ClockedKept DEF ProbeInv
<1>13. Sourced'
  <2>1. Src(d) = None
    BY <1>3, BoardFacts, Zenon DEF ProbeInv
  <2> QED BY <2>1, <1>3, <1>4, SourcedKept DEF ProbeInv
<1> QED BY <1>4, <1>8, <1>10, <1>11, <1>12, <1>13 DEF ProbeInv

\* intc_priv_add: the table of all CPUs names the rvintc, and its CPU calls it.
LEMMA RvStep ==
  ASSUME ProbeInv, NEW d \in Devs, AddRv(d)
  PROVE  ProbeInv'
<1>1. /\ Probing({"rvintc"}, d)
      /\ Answer(d, Find(Src(d)))
      /\ UNCHANGED <<cpus, nextId, used, chain, hnd, clkVars>>
      /\ UNCHANGED rates
  BY DEF AddRv, clkVars
<1>2. /\ Probes(d) /\ d[1] = "rvintc" /\ UNCHANGED <<bid, order>>
      /\ probed' # probed => Find(Src(d)) = "ok"
  <2>1. Find(Src(d)) \in {"ok", "again", "error"}
    BY FindAnswers, Zenon
  <2>2. Probes(d) /\ d[1] \in {"rvintc"} /\ (Find(Src(d)) # "ok" => probed' = probed)
    BY <1>1, <2>1, ProbingAnswers, Zenon
  <2> QED BY <2>2 DEF Probes
<1>3. OnBus' /\ Passed' /\ probed' \in {probed, probed \cup {d}}
  BY <1>2, ProbesStep DEF ProbeInv
<1>4. /\ OfKind("cpu")' = OfKind("cpu") /\ OfKind("rvintc")' = OfKind("rvintc")
      /\ d \in OfKind("rvintc")
  BY <1>2, SameBoard DEF OfKind
<1>5. Topped'
  <2>1. CASE Find(Src(d)) # "ok"
    <3>1. UNCHANGED <<top, wake>> /\ probed' = probed
      BY <2>1, <1>2 DEF AddRv
    <3> QED BY <3>1, <1>4 DEF ProbeInv, Topped
  <2>2. CASE Find(Src(d)) = "ok"
    <3> DEFINE c == Src(d)
    <3>1. c \in OfKind("cpu")
      <4>1. c \in probed /\ c \in Devs /\ c \in {"cpu"} \X Nat
        BY <2>2, <1>2, FindAnswers, BoardFacts, Zenon DEF ProbeInv, OnBus
      <4> QED BY <4>1 DEF OfKind
    <3>2. top' = [e \in Causes |-> d] /\ wake' = [wake EXCEPT ![c] = Append(@, d)] /\ d \in probed'
      BY <2>2, <1>1 DEF AddRv, SetIntrHandlers, AddCpuHandler, Answer
    <3>3. wake \in [OfKind("cpu") -> Seq(OfKind("rvintc"))]
      BY DEF ProbeInv, Topped
    <3>4. /\ Append(wake[c], d) \in Seq(OfKind("rvintc"))
          /\ Range(Append(wake[c], d)) = Range(wake[c]) \cup {d}
      BY <3>1, <3>3, <1>4, RangeAppend
    <3>5. wake' \in [OfKind("cpu") -> Seq(OfKind("rvintc"))] /\ wake'[c] = Append(wake[c], d)
      BY <3>1, <3>2, <3>3, <3>4
    <3>6. \A e \in OfKind("cpu") : Range(wake'[e]) \subseteq Range(wake[e]) \cup {d}
      BY <3>1, <3>2, <3>3, <3>4, <3>5
    <3>7. \A e \in OfKind("cpu") : Range(wake'[e]) \subseteq probed'
      BY <3>2, <3>3, <3>6, <1>3 DEF ProbeInv, Topped
    <3>8. /\ d # None /\ top' \in [Causes -> OfKind("rvintc") \cup {None}]
          /\ \A e \in Causes : top'[e] = d
      BY <3>2, <1>4, DevFacts DEF ProbeInv
    <3> QED BY <1>4, <3>5, <3>7, <3>8 DEF Topped
  <2> QED BY <2>1, <2>2
<1>6. /\ d[1] \notin {"cpu", "prci", "sifive"}
      /\ \A x \in probed' : x[1] \in Connected => x \in probed
  BY <1>2, <1>3 DEF Connected
<1>7. Numbered'
  BY <1>1, <1>2, <1>3, <1>6, NumberedKept DEF ProbeInv
<1>8. Handled'
  BY <1>1, <1>2, <1>3, <1>6, HandledKept DEF ProbeInv
<1>9. Clocked'
  BY <1>1, <1>2, <1>3, <1>6, ClockedKept DEF ProbeInv
<1>10. Sourced'
  BY <1>2, <1>3, FindAnswers, SourcedKept DEF ProbeInv
<1> QED BY <1>3, <1>5, <1>7, <1>8, <1>9, <1>10 DEF ProbeInv

\* The loop over the parents of a device ends after a number of them.
LEMMA ReachedIs ==
  ASSUME OnBus, used \in Nat, NEW d, Len(Ints(d)) \in Nat
  PROVE  /\ Reached(d) \in 0 .. Len(Ints(d))
         /\ \A i \in 1 .. Reached(d) : Find(Ints(d)[i][1]) = "ok" /\ used + i <= B.pool
<1> DEFINE N == Len(Ints(d))
           Good(i) == Find(Ints(d)[i][1]) = "ok" /\ used + i <= B.pool
           T == {n \in 0 .. N : n < N => ~Good(n + 1)}
<1>1. N \in T /\ T \in SUBSET Nat
  OBVIOUS
<1>2. PICK n \in T : \A m \in T : n <= m
  BY <1>1, LeastNat, Zenon
<1>3. ASSUME NEW i \in 1 .. n PROVE Good(i)
  <2>1. i - 1 \in 0 .. N /\ i - 1 < n /\ i - 1 < N /\ (i - 1) + 1 = i
    BY <1>1
  <2>2. i - 1 \notin T
    BY <2>1, <1>1, <1>2
  <2>3. Good((i - 1) + 1)
    BY <2>1, <2>2
  <2> QED BY <2>1, <2>3
<1>4. n \in 0 .. N /\ (n < N => ~(Find(Ints(d)[n + 1][1]) = "ok" /\ used + n + 1 <= B.pool))
  <2>1. used + (n + 1) = used + n + 1
    OBVIOUS
  <2> QED BY <2>1
<1>5. \E m \in 0 .. Len(Ints(d)) :
        /\ \A i \in 1 .. m : Find(Ints(d)[i][1]) = "ok" /\ used + i <= B.pool
        /\ m < Len(Ints(d)) => ~(Find(Ints(d)[m + 1][1]) = "ok" /\ used + m + 1 <= B.pool)
  BY <1>3, <1>4
<1> QED BY <1>5, Zenon DEF Reached

\* k_intc_add_handler puts a device behind the heads of the parents reached.
LEMMA WithRange ==
  ASSUME NEW d \in Devs, NEW n, chain \in [OfKind("rvintc") \X Causes -> Seq(Devs)]
  PROVE  /\ WithHandlers(d, n) \in [OfKind("rvintc") \X Causes -> Seq(Devs)]
         /\ \A x \in OfKind("rvintc") \X Causes :
              Range(WithHandlers(d, n)[x]) =
                Range(chain[x]) \cup (IF \E i \in 1 .. n : Ints(d)[i] = x THEN {d} ELSE {})
<1>1. \A x \in OfKind("rvintc") \X Causes :
        /\ Append(chain[x], d) \in Seq(Devs)
        /\ Range(Append(chain[x], d)) = Range(chain[x]) \cup {d}
  BY RangeAppend
<1> DEFINE R == OfKind("rvintc") \X Causes
           On(x) == \E i \in 1 .. n : Ints(d)[i] = x
<1>2. WithHandlers(d, n) = [x \in R |-> IF On(x) THEN Append(chain[x], d) ELSE chain[x]]
  BY DEF WithHandlers
<1> HIDE DEF R, On
<1>3. chain \in [R -> Seq(Devs)] /\ \A x \in R : /\ Append(chain[x], d) \in Seq(Devs)
                                             /\ Range(Append(chain[x], d)) = Range(chain[x]) \cup {d}
  BY <1>1 DEF R
<1>4. /\ WithHandlers(d, n) \in [R -> Seq(Devs)]
      /\ \A x \in R : Range(WithHandlers(d, n)[x]) = Range(chain[x]) \cup (IF On(x) THEN {d} ELSE {})
  <2> HIDE DEF WithHandlers
  <2> QED BY <1>2, <1>3
<1> QED BY <1>4, Zenon DEF R, On

\* The handlers after the loop over the parents of a device, which answers -EAGAIN
\* or fails when it cannot have all of them.
LEMMA ConnectStep ==
  ASSUME ProbeInv, NEW k, NEW d \in Devs, Probing(k, d), UNCHANGED rates,
         d[1] \in Connected, Connect(d)
  PROVE  Probes(d) /\ Handled'
<1>1. CASE ~B.intc
  <2>1. Answer(d, "error") /\ UNCHANGED <<used, chain>>
    BY <1>1 DEF Connect
  <2>2. Probes(d) /\ probed' = probed /\ UNCHANGED <<bid, order>>
    BY <2>1, ProbingAnswers DEF Probes
  <2> QED BY <2>1, <2>2, HandledKept DEF ProbeInv
<1>2. CASE B.intc
  <2> DEFINE n == Reached(d)
             r == IF n = Len(Ints(d)) THEN "ok"
                  ELSE IF Find(Ints(d)[n + 1][1]) = "again" THEN "again" ELSE "error"
  <2>1. Answer(d, r) /\ used' = used + n /\ chain' = WithHandlers(d, n)
    BY <1>2 DEF Connect
  <2>2. r \in {"ok", "again", "error"} /\ (r = "ok" => n = Len(Ints(d)))
    OBVIOUS
  <2> HIDE DEF r
  <2>3. /\ Probes(d) /\ (probed' # probed => n = Len(Ints(d))) /\ UNCHANGED <<bid, order>>
        /\ probed' \in {probed, probed \cup {d}}
    BY <2>1, <2>2, ProbingAnswers, ProbesStep DEF Probes, ProbeInv
  <2>4. /\ B' = B /\ Devs' = Devs /\ OfKind("rvintc")' = OfKind("rvintc")
        /\ \A x : Ints(x)' = Ints(x)
    BY <2>3, SameBoard
  <2>5. /\ used \in 0 .. B.pool /\ B.pool \in Nat
        /\ chain \in [OfKind("rvintc") \X Causes -> Seq(Devs)]
    BY BoardFacts DEF ProbeInv, Handled
  <2>6. \A e \in Devs : e[1] \in Connected =>
          /\ Len(Ints(e)) \in Nat /\ DOMAIN Ints(e) = 1 .. Len(Ints(e))
          /\ \A i \in DOMAIN Ints(e) : Ints(e)[i] \in OfKind("rvintc") \X Causes
    <3> SUFFICES ASSUME NEW e \in Devs, e[1] \in Connected
                 PROVE  /\ Len(Ints(e)) \in Nat /\ DOMAIN Ints(e) = 1 .. Len(Ints(e))
                        /\ \A i \in DOMAIN Ints(e) : Ints(e)[i] \in OfKind("rvintc") \X Causes
      OBVIOUS
    <3>1. Ints(e) \in Seq(OfKind("rvintc") \X {CauseOf(e)})
      <4>1. OnBus
        BY Zenon DEF ProbeInv
      <4> QED BY <1>2, <4>1, BoardFacts, Zenon
    <3>2. CauseOf(e) \in Causes
      BY DEF CauseOf, Causes
    <3>3. /\ Len(Ints(e)) \in Nat /\ DOMAIN Ints(e) = 1 .. Len(Ints(e))
          /\ \A i \in DOMAIN Ints(e) : Ints(e)[i] \in OfKind("rvintc") \X {CauseOf(e)}
      BY <3>1, SeqPlaces, Zenon
    <3>4. OfKind("rvintc") \X {CauseOf(e)} \subseteq OfKind("rvintc") \X Causes
      BY <3>2
    <3> QED BY <3>3, <3>4, Zenon
  <2>7. /\ n \in 0 .. Len(Ints(d))
        /\ \A i \in 1 .. n : Find(Ints(d)[i][1]) = "ok" /\ used + i <= B.pool
    <3>1. OnBus /\ used \in Nat
      BY <2>5 DEF ProbeInv
    <3>2. Len(Ints(d)) \in Nat
      BY <2>6, Zenon
    <3> QED BY <3>1, <3>2, ReachedIs, Zenon
  <2> HIDE DEF n
  <2>8. used' \in 0 .. B.pool
    <3>1. CASE n = 0
      BY <3>1, <2>1, <2>5
    <3>2. CASE n # 0
      <4>1. n \in 1 .. n /\ n \in Nat
        <5>1. n \in 0 .. Len(Ints(d)) /\ Len(Ints(d)) \in Nat
          BY <2>6, <2>7, Zenon
        <5> QED BY <3>2, <5>1
      <4>2. used + n <= B.pool /\ used' = used + n
        BY <4>1, <2>1, <2>7, Zenon
      <4>3. used \in Nat /\ B.pool \in Nat
        BY <2>5
      <4> QED BY <4>1, <4>2, <4>3
    <3> QED BY <3>1, <3>2
  <2>9. /\ chain' \in [OfKind("rvintc") \X Causes -> Seq(Devs)]
        /\ \A x \in OfKind("rvintc") \X Causes :
             Range(chain'[x]) =
               Range(chain[x]) \cup (IF \E i \in 1 .. n : Ints(d)[i] = x THEN {d} ELSE {})
    <3>1. chain' = WithHandlers(d, n) /\ chain \in [OfKind("rvintc") \X Causes -> Seq(Devs)]
      BY <2>1, <2>5
    <3>2. /\ WithHandlers(d, n) \in [OfKind("rvintc") \X Causes -> Seq(Devs)]
          /\ \A x \in OfKind("rvintc") \X Causes :
               Range(WithHandlers(d, n)[x]) =
                 Range(chain[x]) \cup (IF \E i \in 1 .. n : Ints(d)[i] = x THEN {d} ELSE {})
      BY <3>1, WithRange, Zenon
    <3> QED BY <3>1, <3>2, Zenon
  <2>10. \A x \in OfKind("rvintc") \X Causes : \A e \in Range(chain'[x]) :
           e[1] \in Connected /\ x \in Range(Ints(e))
    <3> SUFFICES ASSUME NEW x \in OfKind("rvintc") \X Causes, NEW e \in Range(chain'[x])
                 PROVE  e[1] \in Connected /\ x \in Range(Ints(e))
      OBVIOUS
    <3>1. CASE e \in Range(chain[x])
      BY <3>1, <2>5 DEF ProbeInv, Handled
    <3>2. CASE e \notin Range(chain[x])
      <4>1. e = d /\ \E i \in 1 .. n : Ints(d)[i] = x
        <5>1. Range(chain'[x]) = Range(chain[x]) \cup (IF \E i \in 1 .. n : Ints(d)[i] = x THEN {d} ELSE {})
          BY <2>9, Zenon
        <5> QED BY <3>2, <5>1, Zenon
      <4>2. \A i \in 1 .. n : i \in DOMAIN Ints(d)
        <5>1. n \in 0 .. Len(Ints(d)) /\ Len(Ints(d)) \in Nat /\ DOMAIN Ints(d) = 1 .. Len(Ints(d))
          BY <2>6, <2>7, Zenon
        <5>2. 1 .. n \subseteq 1 .. Len(Ints(d))
          BY <5>1, FirstPlaces, Zenon
        <5> QED BY <5>1, <5>2, Zenon
      <4> QED BY <4>1, <4>2, Zenon DEF Range
    <3> QED BY <3>1, <3>2
  <2>11. \A e \in probed' : e[1] \in Connected =>
           \A i \in DOMAIN Ints(e) : Ints(e)[i][1] \in probed' /\ e \in Range(chain'[Ints(e)[i]])
    <3> SUFFICES ASSUME NEW e \in probed', e[1] \in Connected, NEW i \in DOMAIN Ints(e)
                 PROVE  Ints(e)[i][1] \in probed' /\ e \in Range(chain'[Ints(e)[i]])
      OBVIOUS
    <3>1. e \in Devs /\ Ints(e)[i] \in OfKind("rvintc") \X Causes
      <4>1. probed \subseteq Devs
        BY DEF ProbeInv, OnBus
      <4>2. e \in Devs
        BY <2>3, <4>1
      <4> QED BY <2>6, <4>2, Zenon
    <3>2. CASE e \in probed
      BY <3>1, <3>2, <2>3, <2>9 DEF ProbeInv, Handled
    <3>3. CASE e \notin probed
      <4>1. e = d /\ n = Len(Ints(d)) /\ i \in 1 .. n
        BY <3>3, <2>3, <2>6
      <4>2. Ints(d)[i][1] \in probed
        BY <4>1, <2>7, FindAnswers
      <4>3. d \in Range(chain'[Ints(d)[i]])
        <5>1. Range(chain'[Ints(d)[i]]) = Range(chain[Ints(d)[i]]) \cup
                (IF \E j \in 1 .. n : Ints(d)[j] = Ints(d)[i] THEN {d} ELSE {})
          BY <3>1, <4>1, <2>9, Zenon
        <5> QED BY <4>1, <5>1, Zenon
      <4> QED BY <4>1, <4>2, <4>3, <2>3
    <3> QED BY <3>2, <3>3
  <2>12. DOMAIN chain' = OfKind("rvintc") \X Causes
    BY <2>9
  <2> QED BY <1>2, <2>3, <2>4, <2>8, <2>9, <2>10, <2>11, <2>12, Zenon DEF Handled
<1> QED BY <1>1, <1>2

\* intc_clint_add, intc_plic_add and timer_clint_add; the timer looks up its
\* clock first.
LEMMA ParentsStep ==
  ASSUME ProbeInv, NEW d \in Devs, AddClint(d) \/ AddPlic(d) \/ AddTimer(d)
  PROVE  ProbeInv'
<1>1. /\ Probing({"clint"}, d) \/ Probing({"plic"}, d) \/ Probing({"timer"}, d)
      /\ UNCHANGED <<cpus, nextId, top, wake, hnd, clkVars>>
      /\ UNCHANGED rates
  BY DEF AddClint, AddPlic, AddTimer, clkVars
<1>2. d[1] \in Connected
  BY <1>1 DEF Probing, Connected
<1>3. Probes(d) /\ Handled' /\ (probed' # probed => Src(d) = None \/ Src(d) \in probed)
  <2>1. CASE Connect(d) /\ (d[1] = "timer" => Find(Src(d)) = "ok")
    <3>1. Probes(d) /\ Handled'
      BY <1>1, <1>2, <2>1, ConnectStep
    <3>2. d[1] # "timer" => Src(d) = None
      BY <1>2, BoardFacts, Zenon DEF ProbeInv, Connected
    <3> QED BY <2>1, <3>1, <3>2, FindAnswers
  <2>2. CASE Find(Src(d)) # "ok" /\ Answer(d, Find(Src(d))) /\ UNCHANGED <<used, chain>>
    <3>1. Probes(d) /\ probed' = probed
      BY <1>1, <2>2, ProbingAnswers, FindAnswers
    <3>2. UNCHANGED <<bid, order>>
      BY <3>1 DEF Probes
    <3> QED BY <2>2, <3>1, <3>2, HandledKept DEF ProbeInv
  <2>3. AddTimer(d) \/ d[1] # "timer"
    BY DEF AddClint, AddPlic, Probing
  <2> QED BY <2>1, <2>2, <2>3 DEF AddClint, AddPlic, AddTimer
<1>4. OnBus' /\ Passed' /\ probed' \in {probed, probed \cup {d}} /\ UNCHANGED <<bid, order>>
  BY <1>3, ProbesStep DEF ProbeInv, Probes
<1>5. d[1] \notin {"cpu", "rvintc", "prci", "sifive"}
  BY <1>2 DEF Connected
<1>6. Numbered'
  BY <1>1, <1>4, <1>5, NumberedKept DEF ProbeInv
<1>7. Topped'
  BY <1>1, <1>4, <1>5, ToppedKept DEF ProbeInv
<1>8. Clocked'
  BY <1>1, <1>4, <1>5, ClockedKept DEF ProbeInv
<1>9. Sourced'
  BY <1>3, <1>4, SourcedKept DEF ProbeInv
<1> QED BY <1>3, <1>4, <1>6, <1>7, <1>8, <1>9 DEF ProbeInv

\* A driver of the clocks leaves the other tables alone.
LEMMA ClockDriver ==
  ASSUME ProbeInv, NEW d, Probes(d), d[1] \in {"prci", "sifive"}, Clocked',
         UNCHANGED <<cpus, nextId, used, chain, top, wake>>,
         probed' # probed => Src(d) \in probed
  PROVE  ProbeInv'
<1>1. OnBus' /\ Passed' /\ probed' \in {probed, probed \cup {d}}
  BY ProbesStep DEF ProbeInv
<1>2. UNCHANGED <<bid, order>>
  BY DEF Probes
<1>3. /\ d[1] \notin {"cpu", "rvintc"}
      /\ \A x \in probed' : x[1] \in Connected => x \in probed
  BY <1>1 DEF Connected
<1>4. Numbered'
  BY <1>1, <1>2, <1>3, NumberedKept DEF ProbeInv
<1>5. Handled'
  BY <1>1, <1>2, <1>3, HandledKept DEF ProbeInv
<1>6. Topped'
  BY <1>1, <1>2, <1>3, ToppedKept DEF ProbeInv
<1>7. Sourced'
  BY <1>1, <1>2, SourcedKept DEF ProbeInv
<1> QED BY <1>1, <1>4, <1>5, <1>6, <1>7 DEF ProbeInv

\* clk_prci_add is probed only when all three PLLs have a setting.
LEMMA PrciStep ==
  ASSUME ProbeInv, NEW d \in Devs, AddPrci(d)
  PROVE  ProbeInv'
<1>1. /\ Probing({"prci"}, d)
      /\ UNCHANGED <<cpus, nextId, used, chain, top, wake>>
      /\ UNCHANGED <<rates, search, on, freqIn>>
  BY DEF AddPrci, addVars
<1>2. pll = [i \in PllNames |-> pll[i]] /\ \A i \in PllNames : pll[i] \in {search[i], NotFound}
  BY DEF ProbeInv, Clocked
<1>3. \A p \in probed : p[1] = "prci" => \A i \in PllNames : pll[i].found
  BY DEF ProbeInv, Clocked
<1>4. ~NotFound.found
  BY DEF NotFound
<1>5. /\ Probes(d) /\ d[1] = "prci" /\ (probed' # probed => Src(d) \in probed)
      /\ pll' = [i \in PllNames |-> pll'[i]]
      /\ \A i \in PllNames : pll'[i] \in {search[i], NotFound}
      /\ probed' # probed => \A i \in PllNames : pll'[i].found
      /\ (\A i \in PllNames : pll[i].found) => pll' = pll
  <2>1. CASE Find(Src(d)) # "ok"
    <3>1. Answer(d, Find(Src(d))) /\ pll' = pll
      BY <2>1 DEF AddPrci
    <3>2. Probes(d) /\ d[1] = "prci" /\ probed' = probed
      BY <1>1, <2>1, <3>1, FindAnswers, ProbingAnswers
    <3> QED BY <1>2, <3>1, <3>2
  <2>2. CASE Find(Src(d)) = "ok"
    <3> DEFINE r == IF \A i \in DOMAIN pll : pll'[i].found THEN "ok" ELSE "error"
    <3>1. Answer(d, r) /\ pll' = SetFreqs
      BY <2>2 DEF AddPrci
    <3>2. DOMAIN pll = PllNames
      BY <1>2
    <3>3. r \in {"ok", "error"} /\ (r = "ok" => \A i \in PllNames : pll'[i].found)
      BY <3>2
    <3> HIDE DEF r
    <3>4. Probes(d) /\ d[1] = "prci" /\ (r # "ok" => probed' = probed)
      BY <1>1, <3>1, <3>3, ProbingAnswers
    <3>5. /\ pll' = [i \in PllNames |-> pll'[i]]
          /\ \A i \in PllNames : pll'[i] \in {search[i], pll[i]}
      BY <3>1, PllNamed DEF SetFreqs
    <3>6. ASSUME \A i \in PllNames : pll[i].found PROVE pll' = pll
      <4>1. \A i \in PllNames : pll[i] = search[i]
        BY <3>6, <1>2, <1>4
      <4>2. \A i \in PllNames : pll'[i] = pll[i]
        BY <4>1, <3>5
      <4> QED BY <4>2, <3>5, <1>2
    <3> QED BY <1>2, <2>2, <3>3, <3>4, <3>5, <3>6, FindAnswers
  <2> QED BY <2>1, <2>2
<1>6. Clocked'
  <2>1. /\ OfKind("sifive")' = OfKind("sifive") /\ (\A x : Src(x)' = Src(x))
        /\ probed' \in {probed, probed \cup {d}}
    BY <1>5, SameBoard, ProbesStep DEF Probes, ProbeInv
  <2>2. UartClk' = UartClk
    BY <1>1 DEF UartClk
  <2>3. \A p \in probed' : p[1] = "prci" => \A i \in PllNames : pll'[i].found
    BY <1>3, <1>5, <2>1
  <2>4. \A x \in probed' : x[1] = "sifive" => x \in probed
    BY <1>5, <2>1
  <2> QED BY <1>1, <1>5, <2>1, <2>2, <2>3, <2>4 DEF ProbeInv, Clocked
<1> QED BY <1>1, <1>5, <1>6, ClockDriver

\* uart_sifive_add reads the frequency of a PRCI that is probed, so one that
\* has been set.
LEMMA SifiveStep ==
  ASSUME ProbeInv, NEW d \in Devs, AddSifive(d)
  PROVE  ProbeInv'
<1>1. /\ Probing({"sifive"}, d)
      /\ OnClock(d)
      /\ UNCHANGED <<cpus, nextId, used, chain, top, wake>>
      /\ UNCHANGED <<rates, search, pll>>
  BY DEF AddSifive
<1>2. Probes(d) /\ d[1] = "sifive" /\ (probed' # probed => Src(d) \in probed)
  BY <1>1, OnClockAnswers
<1>3. /\ OfKind("sifive")' = OfKind("sifive") /\ (\A x : Src(x)' = Src(x))
      /\ probed' \in {probed, probed \cup {d}} /\ d \in OfKind("sifive")
  BY <1>2, SameBoard, ProbesStep DEF Probes, ProbeInv, OfKind
<1>4. UartClk' = UartClk
  BY <1>1 DEF UartClk
<1>5. \A p \in probed' : p[1] = "prci" => p \in probed
  BY <1>2, <1>3
<1>6. Clocked'
  <2>1. CASE ~(Src(d) = Prci /\ Find(Prci) = "ok")
    <3>1. UNCHANGED <<on, freqIn>>
      BY <2>1 DEF AddSifive
    <3>2. Src(d) = Prci => probed' = probed
      BY <1>2, <2>1 DEF Find, ProbeInv, OnBus
    <3> QED BY <1>1, <1>3, <1>4, <1>5, <3>1, <3>2 DEF ProbeInv, Clocked
  <2>2. CASE Src(d) = Prci /\ Find(Prci) = "ok"
    <3>1. on' = Enable(rates.uart) /\ freqIn' = [freqIn EXCEPT ![d] = GetFreq(rates.uart)]
      BY <2>2 DEF AddSifive
    <3>2. UartClk \in on' /\ on \subseteq on'
      BY <3>1 DEF Enable, UartClk
    <3>3. \A i \in PllNames : pll[i].found /\ pll[i] \in {search[i], NotFound}
      <4>1. Prci \in probed /\ Prci[1] = "prci"
        BY <2>2, FindAnswers DEF Prci
      <4> QED BY <4>1 DEF ProbeInv, Clocked
    <3>4. GetFreq(rates.uart) > 0
      <4>1. \A i \in PllNames : search[i] = FindDivr(rates.in, rates[i])
        BY DEF ProbeInv, Clocked
      <4>2. \A i \in PllNames : pll[i] = search[i]
        <5>1. ~NotFound.found
          BY Zenon DEF NotFound
        <5> QED BY <3>3, <5>1, Zenon
      <4>3. \A i \in PllNames : pll[i].result \in Nat /\ pll[i].result >= 2
        <5>1. rates.in \in Nat /\ \A i \in PllNames : rates[i] \in Nat
          BY BoardFacts DEF ProbeInv
        <5>2. ASSUME NEW i \in PllNames
              PROVE  pll[i].result \in Nat /\ pll[i].result >= 2
          <6>1. pll[i] = FindDivr(rates.in, rates[i]) /\ pll[i].found
            BY <3>3, <4>1, <4>2, Zenon
          <6> QED BY <5>1, <6>1, SearchBest, Zenon
        <5> QED BY <5>2
      <4>4. rates.uart \in PllNames \cup {"TLCLK"} /\ "CORECLK" \in PllNames
        BY BoardFacts DEF ProbeInv, PllNames
      <4>5. CASE rates.uart = "TLCLK"
        <5>1. pll["CORECLK"].result \div 2 > 0
          BY <4>3, <4>4
        <5> QED BY <4>5, <5>1 DEF GetFreq
      <4>6. CASE rates.uart # "TLCLK"
        <5>1. pll[rates.uart].result > 0
          BY <4>3, <4>4, <4>6
        <5> QED BY <4>6, <5>1 DEF GetFreq
      <4> QED BY <4>5, <4>6
    <3>5. freqIn = [x \in OfKind("sifive") |-> freqIn[x]]
      BY DEF ProbeInv, Clocked
    <3>6. /\ freqIn' = [x \in OfKind("sifive") |-> freqIn'[x]]
          /\ freqIn'[d] = GetFreq(rates.uart)
          /\ \A x \in OfKind("sifive") : x # d => freqIn'[x] = freqIn[x]
      BY <1>3, <3>1, <3>5
    <3>7. ASSUME NEW x \in probed', x[1] = "sifive", Src(x) = Prci
          PROVE  freqIn'[x] > 0 /\ UartClk \in on'
      <4>1. CASE x = d
        BY <4>1, <3>2, <3>4, <3>6
      <4>2. CASE x # d
        <5>1. x \in probed /\ x \in OfKind("sifive")
          BY <4>2, <3>7, <1>3 DEF ProbeInv, OnBus, OfKind
        <5> QED BY <4>2, <5>1, <3>2, <3>6, <3>7 DEF ProbeInv, Clocked
      <4> QED BY <4>1, <4>2
    <3> QED BY <1>1, <1>3, <1>4, <1>5, <3>6, <3>7 DEF ProbeInv, Clocked
  <2> QED BY <2>1, <2>2
<1> QED BY <1>1, <1>2, <1>6, ClockDriver

\* The state in which init_drivers starts.
LEMMA DevicesInit == IrqInit => IInv
<1> SUFFICES ASSUME IrqInit PROVE IInv
  OBVIOUS
<1>1. /\ bid \in DOMAIN BoardSet /\ order \in B.orders /\ rates \in B.rates
      /\ pos = 1 /\ again = FALSE /\ phase = "probe" /\ probed = {}
      /\ cpus = [i \in 0 .. B.cores - 1 |-> None] /\ nextId = 1 /\ used = 0
      /\ chain = [x \in OfKind("rvintc") \X Causes |-> << >>]
      /\ top = [c \in Causes |-> None] /\ wake = [c \in OfKind("cpu") |-> << >>]
      /\ search = [i \in Range(PllOrder) |-> FindDivr(rates.in, rates[i])]
      /\ pll = [i \in Range(PllOrder) |-> NotFound]
      /\ freqIn = [d \in OfKind("sifive") |-> 0]
      /\ mie = [c \in OfKind("cpu") |-> {}]
  BY Zenon DEF IrqInit, ProbeInit
<1>2. IsBoard(B, order)
  BY <1>1, BoardAssumption DEF B
<1>3. /\ order # << >> /\ order \in Seq((STRING \X Nat) \ {None})
      /\ B.cores \in Nat \ {0} /\ B.pool \in Nat
  BY <1>2 DEF IsBoard
<1>4. OnBus /\ Passed
  <2>1. pos \in 1 .. Len(order) /\ 1 .. pos - 1 = {}
    <3>1. pos = 1 /\ order # << >> /\ order \in Seq((STRING \X Nat) \ {None})
      BY <1>1, <1>3, Zenon
    <3> QED BY <3>1
  <2> QED BY <1>1, <2>1, Zenon DEF OnBus, Passed
<1>5. Numbered
  <2>1. 0 \in 0 .. B.cores - 1
    BY <1>3
  <2>2. \A i \in 0 .. B.cores - 1 : cpus[i] = None
    BY <1>1
  <2>3. cpus \in [0 .. B.cores - 1 -> OfKind("cpu") \cup {None}]
    BY <1>1, Zenon
  <2>4. DOMAIN cpus = 0 .. B.cores - 1 /\ nextId \in Nat \ {0} /\ probed = {}
    <3>1. cpus = [j \in 0 .. B.cores - 1 |-> None] /\ nextId = 1 /\ probed = {}
      BY <1>1, Zenon
    <3> QED BY <3>1
  <2> QED BY <2>1, <2>2, <2>3, <2>4, Zenon DEF Numbered
<1>6. \A S : << >> \in Seq(S) /\ Range(<< >>) = {}
  BY DEF Range
<1>7. Handled
  <2>1. used \in 0 .. B.pool
    <3>1. used = 0 /\ B.pool \in Nat
      BY <1>1, <1>3, Zenon
    <3> QED BY <3>1
  <2> QED BY <1>1, <1>6, <2>1 DEF Handled
<1>8. Topped
  BY <1>1, <1>6 DEF Topped
<1>9. Clocked
  BY <1>1, PllNamed DEF Clocked
<1>10. Sourced
  BY <1>1 DEF Sourced
<1>11. Masked
  BY <1>1 DEF Masked
<1> QED BY <1>4, <1>5, <1>7, <1>8, <1>9, <1>10, <1>11 DEF IInv, ProbeInv

\* A device_probe keeps the invariant, whichever driver it calls.
LEMMA ProbeStep ==
  ASSUME ProbeInv, ProbeDevice
  PROVE  ProbeInv'
<1>1. CASE ProbeAgain
  <2>1. UNCHANGED <<bid, order, probed, cpus, nextId, used, chain, top, wake, clkVars>>
    BY <1>1 DEF ProbeAgain, addVars
  <2>2. OnBus' /\ Passed'
    BY <1>1, AgainStep DEF ProbeInv
  <2> DEFINE d == None
  <2>3. d[1] \notin {"cpu", "rvintc", "prci", "sifive"} /\ probed' \subseteq probed \cup {d}
    BY <2>1 DEF None
  <2>4. Numbered'
    BY <2>1, <2>3, NumberedKept DEF ProbeInv
  <2>5. Handled'
    BY <2>1, HandledKept DEF ProbeInv
  <2>6. Topped'
    BY <2>1, <2>3, ToppedKept DEF ProbeInv
  <2>7. Clocked'
    BY <2>1, <2>3, ClockedKept DEF ProbeInv
  <2>8. Sourced'
    BY <2>1, SourcedKept DEF ProbeInv
  <2> QED BY <2>2, <2>4, <2>5, <2>6, <2>7, <2>8 DEF ProbeInv
<1>2. ASSUME NEW d \in Devs,
             \/ AddCpu(d) \/ AddRv(d) \/ AddClint(d) \/ AddPlic(d)
             \/ AddTimer(d) \/ AddClkFixed(d) \/ AddPrci(d) \/ AddReset(d)
             \/ Add16550(d) \/ AddSifive(d) \/ AddLite(d) \/ AddGpio(d)
      PROVE  ProbeInv'
  BY <1>2, CpuStep, RvStep, ParentsStep, PlainStep, PrciStep, Step16550, SifiveStep, LineStep, Zenon
<1> QED BY <1>1, <1>2, Zenon DEF ProbeDevice

\* After the probe the tables stay, and so do the masks made from them.
LEMMA Settled ==
  ASSUME ProbeInv, UNCHANGED probeVars
  PROVE  /\ ProbeInv' /\ phase' = phase
         /\ OfKind("cpu")' = OfKind("cpu") /\ \A c : Masks(c)' = Masks(c)
<1>1. /\ UNCHANGED <<bid, order, pos, again, phase, probed, clkVars>>
      /\ UNCHANGED <<cpus, nextId, used, chain, top, wake>>
  BY DEF probeVars, addVars
<1>2. UNCHANGED <<rates, search, pll, on, freqIn>>
  BY <1>1 DEF clkVars
<1>3. /\ B' = B /\ Devs' = Devs
      /\ \A k : OfKind(k)' = OfKind(k)
      /\ \A d : Src(d)' = Src(d) /\ Ints(d)' = Ints(d)
  BY <1>1, SameBoard
<1>4. OnBus' /\ Passed' /\ Sourced'
  BY <1>1, <1>2, <1>3 DEF ProbeInv, OnBus, Passed, Sourced
<1> DEFINE d == None
<1>5. d[1] \notin {"cpu", "rvintc", "prci", "sifive"} /\ probed' \subseteq probed \cup {d}
  BY <1>1 DEF None
<1>6. Numbered' /\ Topped' /\ Clocked'
  BY <1>1, <1>5, NumberedKept, ToppedKept, ClockedKept DEF ProbeInv
<1>7. Handled'
  BY <1>1, HandledKept DEF ProbeInv
<1>8. \A c : Masks(c)' = Masks(c)
  <2>1. chain' = chain /\ wake' = wake
    BY <1>1, Zenon
  <2> QED BY <2>1, SMTT(20) DEF Masks, CallHandler, Mask
<1> QED BY <1>1, <1>3, <1>4, <1>6, <1>7, <1>8 DEF ProbeInv

\* Every step keeps the invariant: the probe comes before any interrupt is
\* enabled, and k_cpu_on_wakeup enables what the tables have then.
LEMMA DevicesStep == IInv /\ [IrqNext]_allVars => IInv'
<1> SUFFICES ASSUME IInv, [IrqNext]_allVars PROVE IInv'
  OBVIOUS
<1>1. CASE ProbeDevice /\ UNCHANGED irqVars
  <2>1. ProbeInv'
    BY <1>1, ProbeStep DEF IInv
  <2>2. phase = "probe" /\ UNCHANGED <<bid, order, mie>>
    BY <1>1, Zenon DEF ProbeDevice, ProbeAgain, AddCpu, AddRv, AddClint, AddPlic, AddTimer,
       AddClkFixed, AddPrci, AddReset, Add16550, AddSifive, AddLite, AddGpio, Probing, irqVars
  <2>3. OfKind("cpu")' = OfKind("cpu")
    BY <2>2, SameBoard
  <2>4. \A c \in DOMAIN mie : mie[c] = {}
    BY <2>2 DEF IInv, Masked
  <2>5. Masked'
    BY <2>2, <2>3, <2>4 DEF IInv, Masked
  <2> QED BY <2>1, <2>5 DEF IInv
<1>2. ASSUME UNCHANGED probeVars,
             \/ UNCHANGED mie
             \/ \E c \in OfKind("cpu") :
                  \/ mie' = [mie EXCEPT ![c] = @ \ Masks(c)]
                  \/ phase = "run" /\ mie[c] = {} /\ mie' = [mie EXCEPT ![c] = @ \cup Masks(c)]
      PROVE  IInv'
  <2>1. /\ ProbeInv' /\ phase' = phase
        /\ OfKind("cpu")' = OfKind("cpu") /\ \A c : Masks(c)' = Masks(c)
    BY <1>2, Settled DEF IInv
  <2>2. \A c : Masks(c) \subseteq Causes
    BY Zenon DEF Masks, Mask, Causes
  <2>3. /\ mie \in [OfKind("cpu") -> SUBSET Causes]
        /\ \A c \in OfKind("cpu") : mie[c] # {} => phase = "run" /\ mie[c] \subseteq Masks(c)
    BY DEF IInv, Masked
  <2>4. CASE UNCHANGED mie
    BY <2>1, <2>3, <2>4 DEF Masked, IInv
  <2>5. ASSUME NEW c \in OfKind("cpu"), mie' = [mie EXCEPT ![c] = @ \ Masks(c)] PROVE IInv'
    <3>1. /\ mie' \in [OfKind("cpu") -> SUBSET Causes]
          /\ \A e \in OfKind("cpu") : mie'[e] \subseteq mie[e]
      BY <2>3, <2>5
    <3>2. \A e \in OfKind("cpu") : mie'[e] # {} => phase = "run" /\ mie'[e] \subseteq Masks(e)
      BY <2>3, <3>1
    <3> QED BY <2>1, <3>1, <3>2 DEF Masked, IInv
  <2>6. ASSUME NEW c \in OfKind("cpu"), phase = "run", mie[c] = {},
               mie' = [mie EXCEPT ![c] = @ \cup Masks(c)]
        PROVE  IInv'
    <3>1. /\ mie' \in [OfKind("cpu") -> SUBSET Causes]
          /\ \A e \in OfKind("cpu") : mie'[e] \subseteq mie[e] \/ (e = c /\ mie'[e] = Masks(e))
      BY <2>2, <2>3, <2>6
    <3>2. \A e \in OfKind("cpu") : mie'[e] # {} => phase = "run" /\ mie'[e] \subseteq Masks(e)
      BY <2>3, <2>6, <3>1
    <3> QED BY <2>1, <3>1, <3>2 DEF Masked, IInv
  <2> QED BY <1>2, <2>4, <2>5, <2>6
<1>3. CASE \E c \in OfKind("cpu") : OnWakeup(c)
  BY <1>2, <1>3, Zenon DEF OnWakeup
<1>4. CASE \E c \in OfKind("cpu") : OnSleep(c)
  BY <1>2, <1>4, Zenon DEF OnSleep
<1>5. CASE \/ \E c \in OfKind("cpu") : \/ TimerExpires(c) \/ Interrupts(c)
                                       \/ \E d \in OfKind("cpu") : RaiseIpi(c, d)
           \/ \E d \in Devs : Request(d)
  <2>1. UNCHANGED probeVars /\ UNCHANGED mie
    BY <1>5, Zenon DEF TimerExpires, Interrupts, Interrupt, RaiseIpi, Request
  <2> QED BY <1>2, <2>1
<1>6. CASE UNCHANGED allVars
  <2>1. UNCHANGED probeVars /\ UNCHANGED mie
    BY <1>6 DEF allVars, irqVars
  <2> QED BY <1>2, <2>1
<1> QED BY <1>1, <1>3, <1>4, <1>5, <1>6, Zenon DEF IrqNext
-----------------------------------------------------------------------------
(* The theorems.                                                           *)

\* The inductive invariant of the probe and of the masks, for every set of
\* boards that is in order and every order of their devices.
THEOREM DevicesInvariant == IrqSpec => []IInv
<1>1. IInv /\ [IrqNext]_allVars => IInv'
  BY DevicesStep
<1> QED BY <1>1, DevicesInit, PTL DEF IrqSpec

\* The ids 0 .. cores - 1 suffice for the CPUs only if each is used: when all
\* CPUs are probed, no id is left.
LEMMA AllNumbered ==
  ASSUME ProbeInv, phase = "run"
  PROVE  Range(cpus) = OfKind("cpu") /\ cpus[0] = Cpu(B.main)
<1>1. B.cores \in Nat \ {0} /\ Cpu(B.main) \in Devs /\ Cardinality(OfKind("cpu")) = B.cores
  BY BoardFacts DEF ProbeInv
<1>2. Devs \subseteq probed
  BY DEF ProbeInv, Passed
<1>3. /\ cpus \in [0 .. B.cores - 1 -> OfKind("cpu") \cup {None}]
      /\ OfKind("cpu") \subseteq Range(cpus)
  BY <1>2 DEF ProbeInv, Numbered, OfKind, Range
<1>4. None \notin Range(cpus)
  <2> SUFFICES ASSUME None \in Range(cpus) PROVE FALSE
    OBVIOUS
  <2> DEFINE R == Range(cpus)
  <2>1. IsFiniteSet(0 .. B.cores - 1) /\ Cardinality(0 .. B.cores - 1) = B.cores
    <3>1. B.cores - 1 \in Int /\ ~(0 > B.cores - 1) /\ (B.cores - 1) - 0 + 1 = B.cores
      BY <1>1
    <3>2. IsFiniteSet(0 .. B.cores - 1)
      BY <3>1, FS_Interval
    <3>3. Cardinality(0 .. B.cores - 1) = (B.cores - 1) - 0 + 1
      BY <3>1, FS_Interval
    <3> QED BY <3>1, <3>2, <3>3
  <2>2. cpus \in Surjection(0 .. B.cores - 1, R)
    BY <1>3 DEF Range, Surjection
  <2>3. IsFiniteSet(R) /\ Cardinality(R) <= B.cores
    BY <2>1, <2>2, FS_Surjection
  <2>4. IsFiniteSet(R \ {None}) /\ Cardinality(R \ {None}) = Cardinality(R) - 1
    BY <2>3, FS_RemoveElement
  <2>5. R \ {None} = OfKind("cpu")
    <3>1. None \notin OfKind("cpu") /\ R \subseteq OfKind("cpu") \cup {None}
      BY <1>3 DEF OfKind, None, Range
    <3> QED BY <1>3, <3>1
  <2>6. Cardinality(R) \in Nat
    BY <2>3, FS_CardinalityType
  <2> QED BY <1>1, <2>3, <2>4, <2>5, <2>6
<1>5. Range(cpus) \subseteq OfKind("cpu")
  BY <1>3, <1>4 DEF Range
<1> QED BY <1>1, <1>2, <1>3, <1>5, Zenon DEF ProbeInv, Numbered

\* What is probed has what it needs: its CPU or clock, a handler with each of its
\* interrupt parents, a frequency that has been set; and in the end every CPU has
\* an id.
THEOREM DevicesHaveNeeds == IrqSpec => []ProbedHasNeeds
<1>1. IInv => ProbedHasNeeds
  <2> SUFFICES ASSUME IInv PROVE ProbedHasNeeds
    OBVIOUS
  <2>1. used <= B.pool
    <3>1. used \in 0 .. B.pool /\ OnBus
      BY Zenon DEF IInv, ProbeInv, Handled
    <3>2. B.pool \in Nat
      BY <3>1, BoardFacts
    <3> QED BY <3>1, <3>2
  <2>2. phase = "run" => Range(cpus) = OfKind("cpu") /\ cpus[0] = Cpu(B.main)
    BY AllNumbered DEF IInv
  <2>3. \A d \in probed : Src(d) # None => Src(d) \in probed
    BY DEF IInv, ProbeInv, Sourced
  <2>4. \A d \in probed : d[1] \in {"clint", "plic", "timer"} =>
          \A i \in DOMAIN Ints(d) : Ints(d)[i][1] \in probed /\ d \in Range(chain[Ints(d)[i]])
    BY DEF IInv, ProbeInv, Handled, Connected
  <2>5. \A d \in probed : d[1] = "sifive" /\ Src(d) = Prci => freqIn[d] > 0 /\ UartClk \in on
    BY DEF IInv, ProbeInv, Clocked
  <2> QED BY <2>1, <2>2, <2>3, <2>4, <2>5, Zenon DEF ProbedHasNeeds, UartClk
<1> QED BY <1>1, DevicesInvariant, PTL

\* An interrupt that a CPU enables from its own rvintc has its handler behind the
\* one that k_int_handlers names, which is the one added last.
THEOREM DevicesServe == IrqSpec => []EnabledIsServed
<1>1. IInv => EnabledIsServed
  <2> SUFFICES ASSUME IInv, NEW c \in Cpus, NEW cause \in mie[c]
               PROVE  /\ cause = "SW" => Clint \in Served(c, cause)
                      /\ cause = "TM" => Timer \in Served(c, cause)
                      /\ cause = "EX" => Plic \in Served(c, cause)
    BY DEF EnabledIsServed
  <2>1. c \in OfKind("cpu")
    BY DEF IInv, ProbeInv, Numbered, Cpus, Range
  <2>2. phase = "run" /\ cause \in Masks(c) /\ cause \in Causes
    BY <2>1 DEF IInv, Masked
  <2>3. PICK r \in Range(wake[c]) : cause \in Mask(r)
    BY <2>2 DEF Masks, CallHandler
  <2>4. Devs \subseteq probed
    BY <2>2 DEF IInv, ProbeInv, Passed
  <2>5. r \in OfKind("rvintc")
    <3>1. wake \in [OfKind("cpu") -> Seq(OfKind("rvintc"))]
      BY Zenon DEF IInv, ProbeInv, Topped
    <3>2. wake[c] \in Seq(OfKind("rvintc"))
      BY <2>1, <3>1
    <3> QED BY <3>2 DEF Range
  <2>6. B.intc /\ Clint \in Devs
    BY <2>5, BoardFacts DEF IInv, ProbeInv
  <2>7. top[cause] # None /\ top[cause] \in OfKind("rvintc")
    BY <2>2, <2>4, <2>5 DEF IInv, ProbeInv, Topped, OfKind
  <2>8. ASSUME NEW d \in Devs, d[1] \in Connected, CauseOf(d) = cause PROVE d \in Served(c, cause)
    <3>1. PICK i \in DOMAIN Ints(d) : Ints(d)[i] = <<top[cause], cause>>
      <4>1. OfKind("rvintc") \X {CauseOf(d)} \subseteq Range(Ints(d))
        BY <2>6, <2>8, BoardFacts, Zenon DEF IInv, ProbeInv
      <4>2. <<top[cause], cause>> \in OfKind("rvintc") \X {CauseOf(d)}
        BY <2>7, <2>8
      <4> QED BY <4>1, <4>2 DEF Range
    <3>2. d \in Range(chain[<<top[cause], cause>>])
      BY <2>4, <2>8, <3>1, Zenon DEF IInv, ProbeInv, Handled
    <3> QED BY <2>7, <3>2 DEF Served, Behind
  <2>9. CASE cause = "SW"
    <3>1. Clint[1] \in Connected /\ CauseOf(Clint) = "SW"
      BY DEF Clint, Connected, CauseOf
    <3> QED BY <2>6, <2>8, <2>9, <3>1
  <2>10. CASE cause # "SW"
    <3>1. /\ cause \in {"TM", "EX"} /\ chain[<<r, cause>>] # << >>
          /\ <<r, cause>> \in OfKind("rvintc") \X Causes
      BY <2>2, <2>3, <2>5, <2>10 DEF Mask
    <3>2. chain \in [OfKind("rvintc") \X Causes -> Seq(Devs)]
      BY DEF IInv, ProbeInv, Handled
    <3>3. chain[<<r, cause>>] \in Seq(Devs)
      BY <3>1, <3>2
    <3>4. 1 \in DOMAIN chain[<<r, cause>>] /\ chain[<<r, cause>>][1] \in Devs
      BY <3>1, <3>3
    <3>5. PICK d \in Devs : d \in Range(chain[<<r, cause>>])
      BY <3>4 DEF Range
    <3>6. d[1] \in Connected /\ <<r, cause>> \in Range(Ints(d))
      BY <3>1, <3>2, <3>5 DEF IInv, ProbeInv, Handled
    <3>7. d \in {Clint, Timer, Plic} /\ Ints(d) \in Seq(OfKind("rvintc") \X {CauseOf(d)})
      BY <2>6, <3>6, BoardFacts DEF IInv, ProbeInv
    <3>8. CauseOf(d) = cause
      <4>1. PICK i \in DOMAIN Ints(d) : Ints(d)[i] = <<r, cause>>
        BY <3>6 DEF Range
      <4>2. Ints(d)[i] \in OfKind("rvintc") \X {CauseOf(d)}
        BY <3>7, <4>1, SeqPlaces, Zenon
      <4> QED BY <4>1, <4>2
    <3>9. d \in Served(c, cause)
      BY <2>8, <3>6, <3>8
    <3>10. (cause = "TM" => d = Timer) /\ (cause = "EX" => d = Plic)
      BY <3>7, <3>8 DEF CauseOf, Clint, Timer, Plic
    <3> QED BY <2>10, <3>9, <3>10
  <2> QED BY <2>9, <2>10
<1> QED BY <1>1, DevicesInvariant, PTL

\* A step of clk_prci_add: what it writes to a PLL is what the search has found,
\* and it fails with a PLL for which the search finds nothing.
LEMMA PrciWrites ==
  ASSUME ProbeInv, NEW d \in Devs, AddPrci(d)
  PROVE  /\ \A i \in PllNames : pll'[i] # pll[i] => search[i].found /\ pll'[i] = search[i]
         /\ phase' = "panic" => \E i \in PllNames : ~search[i].found
<1>1. phase = "probe" /\ d[1] = "prci"
  BY DEF AddPrci, Probing
<1>2. CASE Find(Src(d)) # "ok"
  <2>1. Answer(d, Find(Src(d))) /\ pll' = pll
    BY <1>2 DEF AddPrci
  <2>2. Find(Src(d)) = "again"
    BY <1>1, <1>2, BoardFacts, Zenon DEF Find, ProbeInv
  <2>3. phase' # "panic"
    BY <1>1, <2>1, <2>2 DEF Answer, Advance
  <2> QED BY <2>1, <2>3
<1>3. CASE Find(Src(d)) = "ok"
  <2>1. pll' = SetFreqs /\ Answer(d, IF \A i \in DOMAIN pll : pll'[i].found THEN "ok" ELSE "error")
    BY <1>3 DEF AddPrci
  <2>2. DOMAIN pll = PllNames
    BY DEF ProbeInv, Clocked
  <2>3. PllNames = {PllOrder[1], PllOrder[2], PllOrder[3]}
        /\ PllOrder[1] # PllOrder[2] /\ PllOrder[1] # PllOrder[3] /\ PllOrder[2] # PllOrder[3]
    BY DEF PllNames, PllOrder
  <2> DEFINE Set(i) == \A k \in 1 .. 3 : search[PllOrder[k]].found \/ \E m \in 1 .. k - 1 : PllOrder[m] = i
  <2>4. \A i \in PllNames : pll'[i] = IF Set(i) THEN search[i] ELSE pll[i]
    BY <2>1, PllNamed, Zenon DEF SetFreqs
  <2>5. \A i \in PllNames : Set(i) => search[i].found
    <3> SUFFICES ASSUME NEW i \in PllNames, Set(i) PROVE search[i].found
      OBVIOUS
    <3>1. PICK k \in 1 .. 3 : PllOrder[k] = i /\ \A m \in 1 .. k - 1 : PllOrder[m] # i
      <4>1. CASE i = PllOrder[1]
        BY <4>1
      <4>2. CASE i = PllOrder[2]
        BY <2>3, <4>2
      <4>3. CASE i = PllOrder[3]
        BY <2>3, <4>3
      <4> QED BY <2>3, <4>1, <4>2, <4>3
    <3> QED BY <3>1
  <2>6. ASSUME \A i \in PllNames : search[i].found PROVE phase' # "panic"
    <3>1. \A k \in 1 .. 3 : PllOrder[k] \in PllNames
      BY <2>3
    <3>2. \A i \in PllNames : Set(i)
      BY <2>6, <3>1
    <3>3. \A i \in DOMAIN pll : pll'[i].found
      BY <2>2, <2>4, <2>6, <3>2
    <3>4. Answer(d, "ok")
      BY <2>1, <3>3
    <3> QED BY <1>1, <3>4 DEF Answer, Advance
  <2> HIDE DEF Set
  <2> QED BY <2>4, <2>5, <2>6
<1> QED BY <1>2, <1>3

\* No other step of the probe writes to a PLL, or fails where the PRCI stands.
LEMMA OthersLeavePlls ==
  ASSUME ProbeInv, NEW d \in Devs,
         \/ ProbeAgain
         \/ AddCpu(d) \/ AddRv(d) \/ AddClint(d) \/ AddPlic(d) \/ AddTimer(d) \/ AddClkFixed(d)
         \/ AddReset(d) \/ Add16550(d) \/ AddSifive(d) \/ AddLite(d) \/ AddGpio(d)
  PROVE  pll' = pll /\ (phase' = "panic" => order[pos] # Prci)
<1>1. CASE ProbeAgain
  <2>1. phase = "probe" /\ Advance("ok") /\ UNCHANGED clkVars
    BY <1>1 DEF ProbeAgain
  <2> QED BY <2>1 DEF Advance, clkVars
<1>2. CASE ~ProbeAgain
  <2>1. pll' = pll
    BY <1>2, Zenon DEF AddCpu, AddRv, AddClint, AddPlic, AddTimer, AddClkFixed, AddReset, Add16550,
       AddSifive, AddLite, AddGpio, clkVars
  <2>2. \E k \in {{"cpu"}, {"rvintc"}, {"clint"}, {"plic"}, {"timer"}, {"clk"}, {"reset"}, {"16550"},
                  {"sifive"}, {"lite"}, {"gpio"}} : Probing(k, d)
    BY <1>2, Zenon DEF AddCpu, AddRv, AddClint, AddPlic, AddTimer, AddClkFixed, AddReset, Add16550,
       AddSifive, AddLite, AddGpio
  <2>3. d[1] # "prci" /\ d = order[pos]
    BY <2>2 DEF Probing
  <2>4. Prci[1] = "prci"
    BY DEF Prci
  <2> QED BY <2>1, <2>3, <2>4, Zenon
<1> QED BY <1>1, <1>2

\* clk_prci_update_pllcfg programs a PLL with dividers that it accepts and that no
\* others come nearer to the target than, and records what they give; the driver
\* fails only where a PLL has no output nearer to a target than 0 is.
THEOREM DevicesPllBest == IrqSpec => PllBest
<1> DEFINE Best ==
      /\ \A i \in DOMAIN pll :
           pll'[i] # pll[i] => Sound(rates.in, pll'[i]) /\ Nearest(rates.in, rates[i], pll'[i].result)
      /\ order[pos] = Prci /\ phase' = "panic" /\ phase = "probe" =>
           \E i \in DOMAIN pll : Nearest(rates.in, rates[i], 0)
<1>1. IInv /\ [IrqNext]_allVars => [Best]_probeVars
  <2> SUFFICES ASSUME IInv, [IrqNext]_allVars, ~UNCHANGED probeVars PROVE Best
    BY Zenon
  <2>1. ProbeInv /\ DOMAIN pll = PllNames
        /\ \A i \in PllNames : search[i] = FindDivr(rates.in, rates[i])
    BY DEF IInv, ProbeInv, Clocked
  <2>2. rates.in \in Nat /\ \A i \in PllNames : rates[i] \in Nat
    BY <2>1, BoardFacts DEF ProbeInv
  <2>3. ProbeDevice
    BY Zenon DEF IrqNext, allVars, OnWakeup, OnSleep, TimerExpires, Interrupts, Interrupt, RaiseIpi,
       Request
  <2>4. ASSUME NEW d \in Devs, AddPrci(d) PROVE Best
    <3>1. /\ \A i \in PllNames : pll'[i] # pll[i] => search[i].found /\ pll'[i] = search[i]
          /\ phase' = "panic" => \E i \in PllNames : ~search[i].found
      BY <2>1, <2>4, PrciWrites
    <3>2. \A i \in PllNames :
            /\ search[i].found => Sound(rates.in, search[i]) /\ Nearest(rates.in, rates[i], search[i].result)
            /\ ~search[i].found => Nearest(rates.in, rates[i], 0)
      BY <2>1, <2>2, SearchBest
    <3> QED BY <2>1, <3>1, <3>2, Zenon
  <2>5. ASSUME NEW d \in Devs, pll' = pll /\ (phase' = "panic" => order[pos] # Prci) PROVE Best
    BY <2>5, Zenon
  <2>6. \E d \in Devs : TRUE
    BY <2>1, BoardFacts DEF ProbeInv
  <2> HIDE DEF Best
  <2> QED BY <2>1, <2>3, <2>4, <2>5, <2>6, OthersLeavePlls, Zenon DEF ProbeDevice
<1> QED BY <1>1, DevicesInvariant, PTL DEF IrqSpec, PllBest
=============================================================================
