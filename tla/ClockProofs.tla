----------------------------- MODULE ClockProofs ----------------------------
(***************************************************************************)
(* A time that get_raw puts together from two halves was the time during   *)
(* the call, for every width of a half, every frequency and any number of  *)
(* CPUs.  The real time follows the last set, as long as the accesses to   *)
(* ts_realtime_off do not overlap with a set.                              *)
(***************************************************************************)
EXTENDS Clock, TLAPS

\* Quotient and remainder, as the halves of a register are.
LEMMA DivMod ==
  ASSUME NEW n \in Nat, NEW h \in Nat \ {0}
  PROVE  n \div h \in Nat /\ n % h \in Nat /\ n % h \in 0 .. h - 1 /\ n = (n \div h) * h + (n % h)
<1>1. n % h \in 0 .. h - 1
  OBVIOUS
<1>2. n \div h \in Int
  OBVIOUS
<1>3. n = (n \div h) * h + (n % h)
  OBVIOUS
<1>4. n \div h >= 0
  OBVIOUS
<1> QED BY <1>1, <1>2, <1>3, <1>4

\* A larger number has the larger multiple.
LEMMA TimesMonotone ==
  ASSUME NEW p \in Nat, NEW q \in Nat, NEW h \in Nat, p <= q
  PROVE  p * h \in Nat /\ q * h \in Nat /\ p * h <= q * h
  OBVIOUS

\* Digits of a number compare like the number.
LEMMA DigitsMonotone ==
  ASSUME NEW h \in Nat \ {0}, NEW p \in Nat, NEW q \in Nat, NEW x \in Nat, NEW y \in Nat,
         x < h, p < q \/ (p = q /\ x <= y)
  PROVE  p * h + x \in Nat /\ q * h + y \in Nat /\ p * h + x <= q * h + y
<1>1. CASE p + 1 <= q
  <2>1. (p + 1) * h <= q * h /\ q * h \in Nat /\ p * h \in Nat
    BY <1>1, TimesMonotone
  <2>2. (p + 1) * h = p * h + h
    OBVIOUS
  <2> QED BY <2>1, <2>2
<1>2. CASE p = q /\ x <= y
  <2>1. p * h \in Nat
    BY TimesMonotone
  <2> QED BY <1>2, <2>1
<1> QED BY <1>1, <1>2

\* A number that is not larger has no larger quotient.
LEMMA QuotientUnique ==
  ASSUME NEW h \in Nat \ {0}, NEW p \in Nat, NEW q \in Nat, NEW x \in Nat, NEW y \in Nat,
         x < h, p * h + x <= q * h + y, y < h
  PROVE  p <= q
<1> SUFFICES ASSUME p >= q + 1 PROVE FALSE
  OBVIOUS
<1>1. p * h >= (q + 1) * h
  OBVIOUS
<1>2. (q + 1) * h = q * h + h
  OBVIOUS
<1> QED BY <1>1, <1>2

\* The high half of a number put together from two halves is the one put in.
LEMMA QuotientOf ==
  ASSUME NEW h \in Nat \ {0}, NEW p \in Nat, NEW x \in Nat, x < h
  PROVE  (p * h + x) \div h = p
<1>1. p * h + x \in Nat
  OBVIOUS
<1> DEFINE n == p * h + x
<1>2. n \div h \in Nat /\ n % h \in Nat /\ n % h < h /\ n = (n \div h) * h + (n % h)
  BY <1>1, DivMod
<1> HIDE DEF n
<1>3. p * h + x = (n \div h) * h + (n % h)
  BY <1>2 DEF n
<1>4. ASSUME NEW q \in Nat, NEW y \in Nat, y < h, p * h + x = q * h + y
      PROVE  q = p
  <2>1. p * h \in Nat /\ q * h \in Nat
    OBVIOUS
  <2>2. p * h + x <= q * h + y /\ q * h + y <= p * h + x
    BY <1>4, <2>1
  <2>3. p <= q
    BY <1>4, <2>2, QuotientUnique
  <2>4. q <= p
    BY <1>4, <2>2, QuotientUnique
  <2> QED BY <2>3, <2>4
<1> QED BY <1>2, <1>3, <1>4 DEF n

\* The high half of mtime never falls while mtime goes on.
LEMMA DivMonotone ==
  ASSUME NEW h \in Nat \ {0}, NEW m \in Nat, NEW n \in Nat, m <= n
  PROVE  m \div h <= n \div h
  BY DivMod, QuotientUnique

\* k_clock_raw_to_timespec keeps the order of the counts.
LEMMA ScaleMonotone ==
  ASSUME NEW m \in Nat, NEW n \in Nat, m <= n, NEW a \in Nat \ {0}, NEW b \in Nat \ {0}
  PROVE  (m * a) \div b <= (n * a) \div b
<1>1. m * a \in Nat /\ n * a \in Nat /\ m * a <= n * a
  OBVIOUS
<1> QED BY <1>1, DivMonotone

\* A fraction of a second, scaled to nanoseconds, stays below a second.
LEMMA ScaleBelow ==
  ASSUME NEW m \in Nat, NEW a \in Nat \ {0}, NEW b \in Nat \ {0}, m < b
  PROVE  (m * a) \div b \in Nat /\ (m * a) \div b < a
<1>1. m * a \in Nat /\ m * a < b * a
  OBVIOUS
<1> DEFINE q == (m * a) \div b
<1>2. q \in Nat /\ q * b <= m * a
  <2>1. q \in Nat /\ (m * a) % b \in 0 .. b - 1 /\ m * a = q * b + ((m * a) % b)
    BY <1>1, DivMod, Zenon
  <2> HIDE DEF q
  <2>2. q * b \in Nat
    BY <2>1
  <2> QED BY <1>1, <2>1, <2>2
<1>3. q * b < a * b
  BY <1>1, <1>2
<1> HIDE DEF q
<1>4. q < a
  BY <1>2, <1>3
<1> QED BY <1>2, <1>4 DEF q

\* k_clock_raw_to_timespec makes later counts later times.
LEMMA RawMonotone ==
  ASSUME NEW m \in Nat, NEW n \in Nat, m <= n
  PROVE  /\ Ns(RawToTs(m)) \in Nat
         /\ Ns(RawToTs(n)) \in Nat
         /\ Ns(RawToTs(m)) <= Ns(RawToTs(n))
<1> DEFINE S(k) == k \div Freq
           R(k) == k % Freq
           N(k) == (R(k) * Nsec) \div Freq
<1>0. Freq \in Nat \ {0} /\ Nsec \in Nat \ {0}
  BY ClockAssumption
<1>1. \A k \in Nat : S(k) \in Nat /\ R(k) \in Nat /\ R(k) < Freq /\ k = S(k) * Freq + R(k)
  BY <1>0, DivMod
<1>2. \A k \in Nat : N(k) \in Nat /\ N(k) < Nsec
  BY <1>0, <1>1, ScaleBelow
<1>3. \A k \in Nat : Ns(RawToTs(k)) = S(k) * Nsec + N(k)
  BY DEF Ns, RawToTs
<1>4. S(m) <= S(n)
  BY <1>0, DivMonotone
<1>5. ASSUME S(m) = S(n) PROVE N(m) <= N(n)
  <2>1. R(m) <= R(n)
    <3>1. PICK s \in Nat : s = S(m)
      BY <1>1
    <3>2. s * Freq \in Nat
      BY <1>0
    <3>3. m = s * Freq + R(m) /\ n = s * Freq + R(n) /\ R(m) \in Nat /\ R(n) \in Nat
      BY <1>1, <1>5, <3>1
    <3> HIDE DEF R
    <3> QED BY <3>2, <3>3
  <2> QED BY <1>0, <1>1, <2>1, ScaleMonotone
<1> HIDE DEF S, N
<1>6. S(m) < S(n) \/ (S(m) = S(n) /\ N(m) <= N(n))
  BY <1>1, <1>4, <1>5
<1>7. /\ S(m) * Nsec + N(m) \in Nat /\ S(n) * Nsec + N(n) \in Nat
      /\ S(m) * Nsec + N(m) <= S(n) * Nsec + N(n)
  BY <1>0, <1>1, <1>2, <1>6, DigitsMonotone, Zenon
<1> QED BY <1>3, <1>7
-----------------------------------------------------------------------------
\* The arithmetic of a tick: with A = (y * F) \div N for the nanoseconds y of
\* the trigger, at most one count is lost.
LEMMA TickLoss ==
  ASSUME NEW F \in Nat \ {0}, NEW N \in Nat \ {0}, F <= N,
         NEW x \in Nat, NEW D \in Nat, NEW r \in Nat, NEW T \in Nat, NEW A \in Int,
         x * F >= r * N - (F - 1),
         T * N <= D * F,
         A * N >= x * F + D * F - (N - 1)
  PROVE  A >= r + T - 1
<1> SUFFICES ASSUME A <= r + T - 2 PROVE FALSE
  OBVIOUS
<1>1. A * N <= (r + T - 2) * N
  <2>1. PICK k \in Nat : A + k = r + T - 2
    <3>1. r + T - 2 - A \in Nat
      OBVIOUS
    <3> QED BY <3>1
  <2>2. (A + k) * N = A * N + k * N
    OBVIOUS
  <2>3. k * N \in Nat /\ A * N \in Int
    OBVIOUS
  <2> QED BY <2>1, <2>2, <2>3
<1>2. (r + T - 2) * N = r * N + T * N - 2 * N
  OBVIOUS
<1>3. r * N \in Int /\ T * N \in Int /\ A * N \in Int /\ x * F \in Int /\ D * F \in Int
  OBVIOUS
<1> QED BY <1>1, <1>2, <1>3

\* A trigger lies a tick after the time it is computed from, less one count.
LEMMA TriggerAhead ==
  ASSUME NEW t \in Nat
  PROVE  Tick \in Nat /\ Trigger(RawToTs(t)) \in Nat /\ Trigger(RawToTs(t)) >= t + Tick - 1
<1> DEFINE s == t \div Freq
           r == t % Freq
           x == (r * Nsec) \div Freq
           D == Nsec \div Hz
<1>0. /\ Freq \in Nat \ {0} /\ Nsec \in Nat \ {0} /\ Hz \in Nat \ {0}
      /\ Freq <= Nsec
  BY ClockAssumption
<1>1. s \in Nat /\ r \in Nat /\ r < Freq /\ t = s * Freq + r
  BY <1>0, DivMod
<1>2. D \in Nat
  BY <1>0, DivMod
<1>3. x \in Nat /\ x < Nsec
  BY <1>0, <1>1, ScaleBelow
<1>4. x * Freq >= r * Nsec - (Freq - 1)
  <2>1. r * Nsec \in Nat
    BY <1>0, <1>1
  <2>2. x \in Nat /\ (r * Nsec) % Freq \in 0 .. Freq - 1 /\ r * Nsec = x * Freq + ((r * Nsec) % Freq)
    BY <1>0, <2>1, DivMod, Zenon
  <2> HIDE DEF r, x
  <2>3. x * Freq \in Nat
    BY <1>0, <2>2
  <2> QED BY <1>0, <2>1, <2>2, <2>3
<1>5. Tick \in Nat /\ Tick * Nsec <= D * Freq
  <2>1. D * Freq \in Nat /\ Tick = (D * Freq) \div Nsec
    BY <1>0, <1>2 DEF Tick
  <2>2. Tick \in Nat /\ (D * Freq) % Nsec \in 0 .. Nsec - 1 /\ D * Freq = Tick * Nsec + ((D * Freq) % Nsec)
    BY <1>0, <2>1, DivMod, Zenon
  <2> HIDE DEF D
  <2>3. Tick * Nsec \in Nat
    BY <1>0, <2>2
  <2> QED BY <2>1, <2>2, <2>3
<1>6. RawToTs(t) = [sec |-> s, nsec |-> x]
  BY DEF RawToTs
<1>7. Trigger(RawToTs(t)) = IF x + D >= Nsec
                              THEN (s + 1) * Freq + (((x + D - Nsec) * Freq) \div Nsec)
                              ELSE s * Freq + (((x + D) * Freq) \div Nsec)
  <2> HIDE DEF s, x, D
  <2>1. Add(RawToTs(t), [sec |-> 0, nsec |-> D]) = [sec |-> s, nsec |-> x + D]
    BY <1>1, <1>3, <1>6 DEF Add
  <2>2. NextTick(RawToTs(t)) = Carry([sec |-> s, nsec |-> x + D])
    BY <2>1, Zenon DEF NextTick, D
  <2>3. CASE x + D >= Nsec
    BY <1>0, <1>1, <1>2, <1>3, <2>2, <2>3 DEF Carry, Trigger, TsToRaw
  <2>4. CASE ~(x + D >= Nsec)
    BY <1>0, <1>1, <1>2, <1>3, <2>2, <2>4 DEF Carry, Trigger, TsToRaw
  <2> QED BY <2>3, <2>4
<1> HIDE DEF s, r, x, D
<1>8. CASE x + D >= Nsec
  <2> DEFINE y == x + D - Nsec
             q == (y * Freq) \div Nsec
  <2>1. y \in Nat /\ y * Freq \in Nat
    BY <1>0, <1>2, <1>3, <1>8
  <2>2. q \in Nat /\ (y * Freq) % Nsec \in 0 .. Nsec - 1 /\ y * Freq = q * Nsec + ((y * Freq) % Nsec)
    BY <1>0, <2>1, DivMod, Zenon
  <2>3. y * Freq = x * Freq + D * Freq - Nsec * Freq
    BY <1>0, <1>2, <1>3
  <2> HIDE DEF y, q
  <2>4. (Freq + q) * Nsec = Nsec * Freq + q * Nsec
    BY <1>0, <2>2
  <2>5. q * Nsec \in Int /\ x * Freq \in Int /\ D * Freq \in Int /\ Nsec * Freq \in Int
    BY <1>0, <1>2, <1>3, <2>2
  <2>6. (Freq + q) * Nsec >= x * Freq + D * Freq - (Nsec - 1)
    BY <1>0, <2>1, <2>2, <2>3, <2>4, <2>5
  <2>7. Freq + q >= r + Tick - 1
    BY <1>0, <1>1, <1>2, <1>3, <1>4, <1>5, <2>2, <2>6, TickLoss
  <2>8. Trigger(RawToTs(t)) = (s + 1) * Freq + q
    BY <1>7, <1>8 DEF y, q
  <2>9. (s + 1) * Freq = s * Freq + Freq /\ s * Freq \in Nat
    BY <1>0, <1>1
  <2> QED BY <1>0, <1>1, <1>5, <2>2, <2>7, <2>8, <2>9
<1>9. CASE ~(x + D >= Nsec)
  <2> DEFINE y == x + D
             q == (y * Freq) \div Nsec
  <2>1. y \in Nat /\ y * Freq \in Nat
    BY <1>0, <1>2, <1>3
  <2>2. q \in Nat /\ (y * Freq) % Nsec \in 0 .. Nsec - 1 /\ y * Freq = q * Nsec + ((y * Freq) % Nsec)
    BY <1>0, <2>1, DivMod, Zenon
  <2>3. y * Freq = x * Freq + D * Freq
    BY <1>0, <1>2, <1>3
  <2> HIDE DEF y, q
  <2>4. q * Nsec \in Int /\ x * Freq \in Int /\ D * Freq \in Int
    BY <1>0, <1>2, <1>3, <2>2
  <2>5. q * Nsec >= x * Freq + D * Freq - (Nsec - 1)
    BY <1>0, <2>1, <2>2, <2>3, <2>4
  <2>6. q >= r + Tick - 1
    BY <1>0, <1>1, <1>2, <1>3, <1>4, <1>5, <2>2, <2>5, TickLoss
  <2>7. Trigger(RawToTs(t)) = s * Freq + q /\ s * Freq \in Nat
    BY <1>0, <1>1, <1>7, <1>9 DEF y, q
  <2> QED BY <1>0, <1>1, <1>5, <2>2, <2>6, <2>7
<1> QED BY <1>8, <1>9
-----------------------------------------------------------------------------
\* A time computed from a count, or from two times, has its type.
LEMMA TsTypes ==
  /\ \A n \in Nat : RawToTs(n) \in Ts
  /\ \A a, b \in Ts : Sub(a, b) \in Ts
  /\ \A a \in Ts : Borrow(a) \in Ts /\ Carry(a) \in Ts
<1> USE ClockAssumption
<1>0. Freq \in Nat \ {0} /\ Nsec \in Nat
  OBVIOUS
<1>1. ASSUME NEW n \in Nat PROVE RawToTs(n) \in Ts
  <2>1. n \div Freq \in Nat /\ n % Freq \in Nat
    BY <1>0, DivMod, Zenon
  <2>2. ((n % Freq) * Nsec) \in Nat
    BY <2>1
  <2>3. ((n % Freq) * Nsec) \div Freq \in Int
    BY <1>0, <2>2, DivMod
  <2> QED BY <2>1, <2>3 DEF RawToTs, Ts
<1>2. ASSUME NEW a \in Ts, NEW b \in Ts PROVE Sub(a, b) \in Ts
  BY DEF Sub, Ts
<1>3. ASSUME NEW a \in Ts PROVE Borrow(a) \in Ts /\ Carry(a) \in Ts
  BY DEF Borrow, Carry, Ts
<1> QED BY <1>1, <1>2, <1>3

\* What the call of c has when it got the time t.
LEMMA GotOwn ==
  ASSUME cpu \in [Cpus -> CpuState], NEW c \in Cpus, NEW t, GotState(c, t)
  PROVE  /\ cpu'[c].pc = (IF cpu[c].op = "mono" THEN "ret" ELSE IF cpu[c].op = "tick" THEN "cmph"
                          ELSE IF cpu[c].op = "set" THEN "store" ELSE "load")
         /\ cpu'[c].ts = t /\ cpu'[c].op = cpu[c].op /\ cpu'[c].began = cpu[c].began
         /\ cpu'[c].vh = 0 /\ cpu'[c].vl = 0
         /\ cpu'[c].todo = (IF cpu[c].op \in {"set", "get"} THEN Fields ELSE {})
         /\ cpu'[c].alone = ({d \in Cpus \ {c} : cpu[d].pc = "store"} = {})
<1> DEFINE next == IF cpu[c].op = "mono" THEN "ret" ELSE IF cpu[c].op = "tick" THEN "cmph"
                   ELSE IF cpu[c].op = "set" THEN "store" ELSE "load"
           todo == IF cpu[c].op \in {"set", "get"} THEN Fields ELSE {}
           alone == {d \in Cpus \ {c} : cpu[d].pc = "store"} = {}
<1>1. cpu'[c] = [cpu[c] EXCEPT !.pc = next, !.ts = t, !.vh = 0, !.vl = 0, !.alone = alone,
                   !.todo = todo]
  BY Zenon DEF GotState
<1>2. cpu[c] \in CpuState
  OBVIOUS
<1> HIDE DEF next, todo, alone
<1>3. /\ cpu'[c].pc = next /\ cpu'[c].ts = t /\ cpu'[c].op = cpu[c].op
      /\ cpu'[c].began = cpu[c].began /\ cpu'[c].vh = 0 /\ cpu'[c].vl = 0
      /\ cpu'[c].todo = todo /\ cpu'[c].alone = alone
  BY <1>1, <1>2, Zenon DEF CpuState
<1> QED BY <1>3, Zenon DEF next, todo, alone

\* And every CPU keeps its types.
LEMMA GotTypes ==
  ASSUME cpu \in [Cpus -> CpuState], NEW c \in Cpus, NEW t \in Ts, GotState(c, t)
  PROVE  cpu' \in [Cpus -> CpuState]
<1> DEFINE next == IF cpu[c].op = "mono" THEN "ret" ELSE IF cpu[c].op = "tick" THEN "cmph"
                   ELSE IF cpu[c].op = "set" THEN "store" ELSE "load"
           todo == IF cpu[c].op \in {"set", "get"} THEN Fields ELSE {}
           alone == {d \in Cpus \ {c} : cpu[d].pc = "store"} = {}
<1>1. cpu'[c] = [cpu[c] EXCEPT !.pc = next, !.ts = t, !.vh = 0, !.vl = 0, !.alone = alone,
                   !.todo = todo]
  BY Zenon DEF GotState
<1>2. next \in Pcs /\ todo \in SUBSET Fields /\ alone \in BOOLEAN
  BY Zenon DEF Pcs
<1> HIDE DEF next, todo, alone
<1>3. cpu'[c] \in CpuState
  <2>1. 0 \in Nat /\ cpu[c] \in CpuState
    OBVIOUS
  <2> QED BY <1>1, <1>2, <2>1, Zenon DEF CpuState
<1>4. ASSUME NEW d \in Cpus, d # c PROVE cpu'[d] \in CpuState
  <2>1. cpu'[d] = [cpu[d] EXCEPT !.alone = @ /\ cpu[c].op # "set"]
    BY <1>4, Zenon DEF GotState
  <2>2. cpu[d] \in CpuState
    OBVIOUS
  <2> QED BY <2>1, <2>2, Zenon DEF CpuState
<1>5. cpu' = [d \in Cpus |-> cpu'[d]]
  BY Zenon DEF GotState
<1> QED BY <1>3, <1>4, <1>5, Zenon

\* Every step keeps the types.
LEMMA ClockTypes ==
  ASSUME IInv, ClockNext
  PROVE  ClockTypeOK'
<1>t. ClockTypeOK
  BY DEF IInv
<1> USE <1>t DEF ClockTypeOK
<1>0. Half \in Nat \ {0} /\ mtime \div Half \in Nat /\ mtime % Half \in Nat
  <2>1. Half \in Nat \ {0}
    BY ClockAssumption
  <2> QED BY <2>1, DivMod, Zenon
<1>z. Zero \in Ts /\ User \in CpuState
  BY DEF Zero, User, Ts, CpuState, Pcs, Ops
<1>1. CASE Count
  BY <1>1 DEF Count
<1> SUFFICES ASSUME NEW c \in Cpus, Step(c) \/ GetTime(c) \/ SetTime(c) PROVE ClockTypeOK'
  BY <1>1 DEF ClockNext
<1>2. CASE GetTime(c) \/ SetTime(c) \/ OnTick(c)
  <2>1. PICK o \in Ops, t \in Ts : Enter(c, o, t)
    BY <1>2, <1>z, ClockAssumption DEF GetTime, SetTime, OnTick, Call, Ts, Ops
  <2>2. [User EXCEPT !.pc = "hi", !.op = o, !.ts = t, !.began = mtime] \in CpuState
    BY <1>z, Zenon DEF CpuState, Pcs
  <2>3. ticked' \in [Cpus -> Int]
    BY <1>2 DEF GetTime, SetTime, OnTick, Call
  <2> QED BY <2>1, <2>2, <2>3, Zenon DEF Enter
<1>3. CASE ReadHigh(c)
  <2>1. [cpu[c] EXCEPT !.vh = mtime \div Half, !.pc = "lo"] \in CpuState
    BY <1>0, Zenon DEF CpuState, Pcs
  <2>2. cpu' = [cpu EXCEPT ![c] = [cpu[c] EXCEPT !.vh = mtime \div Half, !.pc = "lo"]]
    BY <1>3 DEF ReadHigh, CpuState
  <2> QED BY <1>3, <2>1, <2>2 DEF ReadHigh
<1>4. CASE ReadLow(c)
  <2>1. [cpu[c] EXCEPT !.vl = mtime % Half, !.pc = "again"] \in CpuState
    BY <1>0, Zenon DEF CpuState, Pcs
  <2>2. cpu' = [cpu EXCEPT ![c] = [cpu[c] EXCEPT !.vl = mtime % Half, !.pc = "again"]]
    BY <1>4 DEF ReadLow, CpuState
  <2> QED BY <1>4, <2>1, <2>2 DEF ReadLow
<1>5. CASE ReadHighAgain(c)
  <2> DEFINE raw == cpu[c].vh * Half + cpu[c].vl
             mono == RawToTs(raw)
  <2>1. mono \in Ts
    <3>1. cpu[c].vh \in Nat /\ cpu[c].vl \in Nat
      BY DEF CpuState
    <3>2. raw \in Nat
      BY <1>0, <3>1
    <3> QED BY <3>2, TsTypes
  <2>2. CASE Got(c, mono)
    <3> HIDE DEF mono
    <3>1. Sub(cpu[c].ts, mono) \in Ts /\ Borrow(Sub(cpu[c].ts, mono)) \in Ts
      BY <2>1, TsTypes DEF CpuState
    <3>2. PICK t \in Ts : GotState(c, t)
      BY <2>1, <2>2, <3>1 DEF Got
    <3>4. cpu' \in [Cpus -> CpuState]
      BY <3>2, GotTypes, Zenon
    <3> QED BY <1>5, <3>4 DEF ReadHighAgain
  <2>3. CASE cpu' = [cpu EXCEPT ![c].pc = "hi"]
    <3>1. [cpu[c] EXCEPT !.pc = "hi"] \in CpuState
      BY DEF CpuState, Pcs
    <3> QED BY <1>5, <2>3, <3>1 DEF ReadHighAgain
  <2> QED BY <1>5, <2>2, <2>3 DEF ReadHighAgain
<1>6. CASE WriteHigh(c) \/ WriteLow(c)
  <2>1. Trigger(cpu[c].ts) \in Nat
    <3>1. PICK t \in cpu[c].began .. mtime : cpu[c].ts = RawToTs(t)
      BY <1>6 DEF IInv, HalvesOfCall, WriteHigh, WriteLow
    <3>2. t \in Nat
      BY <3>1 DEF CpuState
    <3> QED BY <3>1, <3>2, TriggerAhead
  <2>2. /\ Trigger(cpu[c].ts) \div Half \in Nat /\ Trigger(cpu[c].ts) % Half \in 0 .. Half - 1
        /\ cmp[c] \div Half \in Nat /\ cmp[c] % Half \in 0 .. Half - 1
    BY <1>0, <2>1, DivMod
  <2>3. /\ (Trigger(cpu[c].ts) \div Half) * Half + (cmp[c] % Half) \in Nat
        /\ (cmp[c] \div Half) * Half + (Trigger(cpu[c].ts) % Half) \in Nat
    BY <1>0, <2>2
  <2>4. cmp' \in [Cpus -> Nat]
    BY <1>6, <2>3 DEF WriteHigh, WriteLow
  <2>5. cpu' \in [Cpus -> CpuState]
    <3>1. [cpu[c] EXCEPT !.pc = "cmpl"] \in CpuState
      BY DEF CpuState, Pcs
    <3> QED BY <1>6, <1>z, <3>1 DEF WriteHigh, WriteLow
  <2> QED BY <1>6, <2>4, <2>5 DEF WriteHigh, WriteLow
<1>7. CASE StoreOffset(c)
  <2>1. PICK f \in cpu[c].todo :
          /\ off' = [off EXCEPT ![f] = cpu[c].ts[f]]
          /\ \/ cpu' = [cpu EXCEPT ![c].todo = cpu[c].todo \ {f}]
             \/ cpu' = [cpu EXCEPT ![c].ts = Borrow(cpu[c].ts), ![c].todo = Fields]
             \/ cpu' = [cpu EXCEPT ![c] = User]
    BY <1>7, Zenon DEF StoreOffset
  <2>2. cpu[c].ts \in Ts /\ f \in Fields /\ Borrow(cpu[c].ts) \in Ts
    BY TsTypes DEF CpuState
  <2>3. off' \in Ts
    BY <2>1, <2>2 DEF Ts, Fields
  <2>4. cpu' \in [Cpus -> CpuState]
    <3>1. [cpu[c] EXCEPT !.todo = cpu[c].todo \ {f}] \in CpuState
      BY DEF CpuState
    <3>2. [cpu[c] EXCEPT !.ts = Borrow(cpu[c].ts), !.todo = Fields] \in CpuState
      BY <2>2, Zenon DEF CpuState
    <3> QED BY <1>z, <2>1, <3>1, <3>2, Zenon
  <2> QED BY <1>7, <2>3, <2>4 DEF StoreOffset
<1>8. CASE LoadOffset(c)
  <2> DEFINE total(f) == [cpu[c].ts EXCEPT ![f] = @ + off[f]]
  <2>1. PICK f \in cpu[c].todo :
          \/ cpu' = [cpu EXCEPT ![c].todo = cpu[c].todo \ {f}, ![c].ts = Loaded(total(f)), ![c].pc = "ret"]
          \/ cpu' = [cpu EXCEPT ![c].todo = cpu[c].todo \ {f}, ![c].ts = total(f)]
    BY <1>8, Zenon DEF LoadOffset
  <2> DEFINE sum == total(f)
  <2>2. cpu[c].ts \in Ts /\ f \in Fields
    BY DEF CpuState
  <2>3. sum \in Ts
    BY <2>2 DEF Ts, Fields
  <2>4. Loaded(sum) \in Ts
    BY <2>3, TsTypes DEF Loaded
  <2> HIDE DEF sum
  <2>5. /\ [cpu[c] EXCEPT !.todo = cpu[c].todo \ {f}, !.ts = Loaded(sum), !.pc = "ret"] \in CpuState
        /\ [cpu[c] EXCEPT !.todo = cpu[c].todo \ {f}, !.ts = sum] \in CpuState
    BY <2>3, <2>4, Zenon DEF CpuState, Pcs
  <2>6. cpu' \in [Cpus -> CpuState]
    BY <2>1, <2>5, Zenon DEF sum
  <2> QED BY <1>8, <2>6 DEF LoadOffset
<1>9. CASE Return(c)
  BY <1>9, <1>z DEF Return
<1> QED BY <1>2, <1>3, <1>4, <1>5, <1>6, <1>7, <1>8, <1>9 DEF Step

\* What a step of CPU c leaves of the state of another CPU.
LEMMA OthersKept ==
  ASSUME ClockTypeOK, NEW c \in Cpus, NEW d \in Cpus, d # c,
         Step(c) \/ GetTime(c) \/ SetTime(c)
  PROVE  /\ cpu'[d].pc = cpu[d].pc /\ cpu'[d].op = cpu[d].op /\ cpu'[d].vh = cpu[d].vh
         /\ cpu'[d].vl = cpu[d].vl /\ cpu'[d].ts = cpu[d].ts /\ cpu'[d].began = cpu[d].began
         /\ cmp'[d] = cmp[d] /\ ticked'[d] = ticked[d] /\ mtime' = mtime
<1> USE DEF ClockTypeOK
<1>1. CASE GetTime(c) \/ SetTime(c) \/ OnTick(c)
  BY <1>1, Zenon DEF GetTime, SetTime, OnTick, Call, Enter
<1>2. CASE ReadHigh(c) \/ ReadLow(c) \/ WriteHigh(c) \/ WriteLow(c) \/ Return(c)
  BY <1>2 DEF ReadHigh, ReadLow, WriteHigh, WriteLow, Return
<1>3. CASE ReadHighAgain(c)
  <2>1. CASE \E t : GotState(c, t)
    <3>1. cpu'[d] = [cpu[d] EXCEPT !.alone = @ /\ cpu[c].op # "set"]
      BY <2>1, Zenon DEF GotState
    <3> QED BY <1>3, <3>1 DEF ReadHighAgain, CpuState
  <2>2. CASE cpu' = [cpu EXCEPT ![c].pc = "hi"]
    BY <1>3, <2>2 DEF ReadHighAgain
  <2> QED BY <1>3, <2>1, <2>2 DEF ReadHighAgain, Got
<1>4. CASE StoreOffset(c)
  BY <1>4 DEF StoreOffset
<1>5. CASE LoadOffset(c)
  BY <1>5 DEF LoadOffset
<1> QED BY <1>1, <1>2, <1>3, <1>4, <1>5 DEF Step

\* The step of ReadHighAgain that takes the time: it was a time of the call.
LEMMA RawInCall ==
  ASSUME IInv, NEW c \in Cpus, cpu[c].pc = "again", SameHigh(c)
  PROVE  \E t \in cpu[c].began .. mtime : t = cpu[c].vh * Half + cpu[c].vl
<1>1. PICK t \in cpu[c].began .. mtime : cpu[c].vl = t % Half /\ cpu[c].vh <= t \div Half
  BY DEF IInv, HalvesOfCall
<1>2. cpu[c].vh \in Nat /\ mtime \in Nat /\ t \in Nat /\ t <= mtime /\ Half \in Nat \ {0}
  BY ClockAssumption DEF IInv, ClockTypeOK, CpuState
<1>3. t \div Half <= mtime \div Half /\ t \div Half \in Nat
  BY <1>2, DivMonotone, DivMod, Zenon
<1>4. cpu[c].vh = t \div Half
  BY <1>1, <1>2, <1>3 DEF SameHigh
<1>5. t = (t \div Half) * Half + (t % Half)
  BY <1>2, DivMod
<1> QED BY <1>1, <1>4, <1>5

\* A call that starts reads the high half first.
LEMMA Entered ==
  ASSUME cpu \in [Cpus -> CpuState], NEW c \in Cpus, NEW o, NEW t, Enter(c, o, t)
  PROVE  /\ cpu[c].pc = "user" /\ cpu'[c].pc = "hi" /\ cpu'[c].op = o /\ cpu'[c].began = mtime
         /\ UNCHANGED <<mtime, cmp>>
<1>1. cpu'[c] = [User EXCEPT !.pc = "hi", !.op = o, !.ts = t, !.began = mtime]
  BY Zenon DEF Enter
<1> QED BY <1>1, Zenon DEF Enter, User

\* The clock goes on and e does nothing: its halves are of its call as before.
LEMMA HalvesKept ==
  ASSUME NEW e \in Cpus, HalvesOfCall(e), mtime \in Nat, mtime' \in Nat, mtime <= mtime',
         Half \in Nat \ {0}, cpu[e].began \in Nat, cpu[e].vh \in Nat,
         cpu'[e].pc = cpu[e].pc, cpu'[e].op = cpu[e].op, cpu'[e].vh = cpu[e].vh,
         cpu'[e].vl = cpu[e].vl, cpu'[e].ts = cpu[e].ts, cpu'[e].began = cpu[e].began
  PROVE  HalvesOfCall(e)'
<1>1. mtime \div Half <= mtime' \div Half /\ mtime \div Half \in Nat /\ mtime' \div Half \in Nat
  BY DivMonotone, DivMod, Zenon
<1>2. cpu[e].began .. mtime \subseteq cpu'[e].began .. mtime'
  OBVIOUS
<1>3. cpu'[e].began <= mtime'
  BY DEF HalvesOfCall
<1>4. cpu'[e].pc = "lo" => cpu'[e].vh <= mtime' \div Half
  <2>1. cpu[e].pc = "lo" => cpu[e].vh <= mtime \div Half
    BY Zenon DEF HalvesOfCall
  <2> QED BY <1>1, <2>1
<1>5. cpu'[e].pc = "again" =>
        \E t \in cpu'[e].began .. mtime' : cpu'[e].vl = t % Half /\ cpu'[e].vh <= t \div Half
  BY <1>2, Zenon DEF HalvesOfCall
<1>6. cpu'[e].pc \in {"cmph", "cmpl"} \/ (cpu'[e].pc = "ret" /\ cpu'[e].op = "mono") =>
        \E t \in cpu'[e].began .. mtime' : cpu'[e].ts = RawToTs(t)
  BY <1>2, Zenon DEF HalvesOfCall
<1>7. /\ cpu'[e].pc = "load" => cpu'[e].op = "get"
      /\ cpu'[e].pc # "user" => cpu'[e].op # "none"
  BY Zenon DEF HalvesOfCall
<1> QED BY <1>3, <1>4, <1>5, <1>6, <1>7, Zenon DEF HalvesOfCall

\* Every step keeps the halves read together with a time of the call.
LEMMA ClockHalves ==
  ASSUME IInv, ClockNext, NEW e \in Cpus
  PROVE  HalvesOfCall(e)'
<1>t. ClockTypeOK /\ HalvesOfCall(e)
  BY DEF IInv
<1>0. /\ Half \in Nat \ {0} /\ mtime \in Nat /\ cpu \in [Cpus -> CpuState]
      /\ cpu[e].began \in Nat /\ cpu[e].vh \in Nat /\ cpu[e].began <= mtime
  BY <1>t, ClockAssumption DEF ClockTypeOK, CpuState, HalvesOfCall
<1>1. CASE Count
  <2>1. mtime' \in Nat /\ mtime <= mtime' /\ cpu' = cpu
    BY <1>0, <1>1 DEF Count
  <2> QED BY <1>0, <1>t, <2>1, HalvesKept, Zenon
<1>2. ASSUME NEW c \in Cpus, Step(c) \/ GetTime(c) \/ SetTime(c), c # e
      PROVE  HalvesOfCall(e)'
  <2>1. /\ cpu'[e].pc = cpu[e].pc /\ cpu'[e].op = cpu[e].op /\ cpu'[e].vh = cpu[e].vh
        /\ cpu'[e].vl = cpu[e].vl /\ cpu'[e].ts = cpu[e].ts /\ cpu'[e].began = cpu[e].began
        /\ mtime' = mtime
    BY <1>t, <1>2, OthersKept, Zenon
  <2>2. mtime' \in Nat /\ mtime <= mtime'
    BY <1>0, <2>1
  <2> QED BY <1>0, <1>t, <2>1, <2>2, HalvesKept, Zenon
<1>3. CASE Step(e) \/ GetTime(e) \/ SetTime(e)
  <2>1. CASE GetTime(e) \/ SetTime(e) \/ OnTick(e)
    <3>1. cpu'[e].pc = "hi" /\ cpu'[e].op # "none" /\ cpu'[e].began = mtime /\ mtime' = mtime
      <4>1. \E o \in {"mono", "get", "set", "tick"} : \E t : Enter(e, o, t)
        <5>1. CASE GetTime(e)
          BY <5>1, Zenon DEF GetTime, Call
        <5>2. CASE SetTime(e)
          BY <5>2, Zenon DEF SetTime, Call
        <5>3. CASE OnTick(e)
          BY <5>3, Zenon DEF OnTick
        <5> QED BY <2>1, <5>1, <5>2, <5>3, Zenon
      <4>2. PICK o \in {"mono", "get", "set", "tick"} : \E t : Enter(e, o, t)
        BY <4>1, Zenon
      <4>3. PICK t : Enter(e, o, t)
        BY <4>2, Zenon
      <4> QED BY <1>0, <4>3, Entered, Zenon
    <3> QED BY <1>0, <3>1 DEF HalvesOfCall
  <2>2. CASE ReadHigh(e)
    <3>1. /\ cpu'[e].pc = "lo" /\ cpu'[e].began = cpu[e].began /\ cpu'[e].vh = mtime \div Half
          /\ mtime' = mtime /\ cpu'[e].op = cpu[e].op /\ cpu[e].pc = "hi"
      BY <1>0, <2>2 DEF ReadHigh, CpuState
    <3>2. mtime \div Half \in Nat
      BY <1>0, DivMod, Zenon
    <3> QED BY <1>0, <1>t, <3>1, <3>2 DEF HalvesOfCall
  <2>3. CASE ReadLow(e)
    <3>1. /\ cpu'[e].pc = "again" /\ cpu'[e].began = cpu[e].began /\ cpu'[e].vh = cpu[e].vh
          /\ cpu'[e].vl = mtime % Half /\ mtime' = mtime /\ cpu[e].pc = "lo" /\ cpu'[e].op = cpu[e].op
      BY <1>0, <2>3 DEF ReadLow, CpuState
    <3>2. cpu[e].vh <= mtime \div Half /\ mtime \in cpu[e].began .. mtime
      BY <1>0, <1>t, <3>1 DEF HalvesOfCall
    <3> QED BY <1>0, <1>t, <3>1, <3>2 DEF HalvesOfCall
  <2>4. CASE ReadHighAgain(e)
    <3>1. mtime' = mtime /\ cpu[e].pc = "again"
      BY <2>4 DEF ReadHighAgain
    <3>2. CASE ~SameHigh(e)
      <4>1. cpu'[e].pc = "hi" /\ cpu'[e].began = cpu[e].began /\ cpu'[e].op = cpu[e].op
        BY <1>0, <2>4, <3>2 DEF ReadHighAgain, CpuState
      <4> QED BY <1>0, <1>t, <3>1, <4>1 DEF HalvesOfCall
    <3>3. CASE SameHigh(e)
      <4>1. PICK t \in cpu[e].began .. mtime : t = cpu[e].vh * Half + cpu[e].vl
        BY <3>1, <3>3, RawInCall
      <4>2. Got(e, RawToTs(t))
        BY <2>4, <3>3, <4>1 DEF ReadHighAgain
      <4>3. PICK u : GotState(e, u) /\ (cpu[e].op # "set" => u = RawToTs(t))
        BY <4>2 DEF Got
      <4>4. /\ cpu'[e].pc = (IF cpu[e].op = "mono" THEN "ret" ELSE IF cpu[e].op = "tick" THEN "cmph"
                             ELSE IF cpu[e].op = "set" THEN "store" ELSE "load")
            /\ cpu'[e].ts = u /\ cpu'[e].op = cpu[e].op /\ cpu'[e].began = cpu[e].began
        BY <1>0, <4>3, GotOwn, Zenon
      <4>5. cpu[e].op \in {"mono", "get", "set", "tick"}
        BY <1>0, <1>t, <3>1 DEF CpuState, Ops, HalvesOfCall
      <4> QED BY <1>0, <3>1, <4>1, <4>3, <4>4, <4>5 DEF HalvesOfCall
    <3> QED BY <3>2, <3>3
  <2>5. CASE WriteHigh(e)
    <3>1. /\ cpu'[e].pc = "cmpl" /\ cpu'[e].began = cpu[e].began /\ cpu'[e].ts = cpu[e].ts
          /\ mtime' = mtime /\ cpu[e].pc = "cmph" /\ cpu'[e].op = cpu[e].op
      BY <1>0, <2>5 DEF WriteHigh, CpuState
    <3> QED BY <1>0, <1>t, <3>1 DEF HalvesOfCall
  <2>6. CASE WriteLow(e) \/ Return(e)
    <3>1. cpu'[e] = User /\ mtime' = mtime
      BY <1>0, <2>6 DEF WriteLow, Return
    <3> QED BY <1>0, <3>1 DEF HalvesOfCall, User
  <2>7. CASE StoreOffset(e)
    <3>1. /\ \/ cpu'[e].pc = "store" /\ cpu'[e].began = cpu[e].began /\ cpu'[e].op = cpu[e].op
             \/ cpu'[e].pc = "user" /\ cpu'[e].began = 0
          /\ mtime' = mtime /\ cpu[e].pc = "store"
      BY <1>0, <2>7 DEF StoreOffset, User, CpuState
    <3> QED BY <1>0, <1>t, <3>1 DEF HalvesOfCall
  <2>8. CASE LoadOffset(e)
    <3>1. /\ cpu'[e].pc \in {"load", "ret"} /\ cpu'[e].began = cpu[e].began /\ cpu'[e].op = cpu[e].op
          /\ mtime' = mtime /\ cpu[e].pc = "load"
      BY <1>0, <2>8 DEF LoadOffset, CpuState
    <3> QED BY <1>0, <1>t, <3>1 DEF HalvesOfCall
  <2> QED BY <1>3, <2>1, <2>2, <2>3, <2>4, <2>5, <2>6, <2>7, <2>8 DEF Step
<1> QED BY <1>1, <1>2, <1>3 DEF ClockNext

\* Every step keeps mtimecmp a tick ahead of the last tick, but for the time
\* of the handler.
LEMMA ClockTriggers ==
  ASSUME IInv, ClockNext, NEW e \in Cpus
  PROVE  TriggerSet(e)'
<1>t. ClockTypeOK /\ HalvesOfCall(e) /\ TriggerSet(e)
  BY DEF IInv
<1>0. /\ Half \in Nat \ {0} /\ cpu \in [Cpus -> CpuState] /\ cmp \in [Cpus -> Nat]
      /\ ticked \in [Cpus -> Int]
  BY <1>t, ClockAssumption DEF ClockTypeOK
<1>1. CASE Count
  BY <1>t, <1>1 DEF Count, TriggerSet
<1>2. ASSUME NEW c \in Cpus, Step(c) \/ GetTime(c) \/ SetTime(c), c # e
      PROVE  TriggerSet(e)'
  <2>1. /\ cpu'[e].pc = cpu[e].pc /\ cpu'[e].op = cpu[e].op /\ cpu'[e].ts = cpu[e].ts
        /\ cpu'[e].began = cpu[e].began /\ cmp'[e] = cmp[e] /\ ticked'[e] = ticked[e]
    BY <1>t, <1>2, OthersKept, Zenon
  <2> QED BY <1>t, <2>1, Zenon DEF TriggerSet
<1>3. CASE Step(e) \/ GetTime(e) \/ SetTime(e)
  <2>1. CASE GetTime(e) \/ SetTime(e)
    <3>1. /\ cpu'[e].pc = "hi" /\ cpu'[e].op # "tick" /\ cpu[e].op = "none"
          /\ UNCHANGED <<cmp, ticked>>
      <4>1. ticked' = ticked /\ \E o \in {"mono", "get", "set"} : \E t : Enter(e, o, t)
        <5>1. CASE GetTime(e)
          BY <5>1, Zenon DEF GetTime, Call
        <5>2. CASE SetTime(e)
          BY <5>2, Zenon DEF SetTime, Call
        <5> QED BY <2>1, <5>1, <5>2, Zenon
      <4>2. cpu[e].pc = "user" => cpu[e].op = "none"
        BY <1>t, Zenon DEF TriggerSet
      <4>3. PICK o \in {"mono", "get", "set"} : \E t : Enter(e, o, t)
        BY <4>1, Zenon
      <4>4. PICK t : Enter(e, o, t)
        BY <4>3, Zenon
      <4> QED BY <1>0, <4>1, <4>2, <4>4, Entered, Zenon
    <3> QED BY <1>t, <3>1 DEF TriggerSet
  <2>2. CASE OnTick(e)
    <3>1. cpu'[e].pc = "hi" /\ cpu'[e].op = "tick" /\ cpu'[e].began = mtime /\ ticked'[e] = mtime
      BY <1>0, <2>2 DEF OnTick, Enter, User
    <3> QED BY <3>1 DEF TriggerSet
  <2>3. CASE ReadHigh(e) \/ ReadLow(e)
    <3>1. /\ cpu'[e].pc \in {"lo", "again"} /\ cpu'[e].began = cpu[e].began
          /\ cpu'[e].op = cpu[e].op /\ UNCHANGED <<cmp, ticked>>
      BY <1>0, <2>3 DEF ReadHigh, ReadLow, CpuState
    <3> QED BY <1>t, <3>1 DEF TriggerSet
  <2>4. CASE ReadHighAgain(e)
    <3>1. /\ cpu'[e].pc \in {"hi", "ret", "cmph", "store", "load"}
          /\ cpu'[e].pc = "cmph" => cpu[e].op = "tick"
          /\ cpu[e].op = "tick" => cpu'[e].pc \in {"hi", "cmph"}
          /\ cpu'[e].began = cpu[e].began /\ cpu'[e].op = cpu[e].op
      <4>1. CASE \E u : GotState(e, u)
        <5>1. PICK u : GotState(e, u)
          BY <4>1
        <5>2. /\ cpu'[e].pc = (IF cpu[e].op = "mono" THEN "ret" ELSE IF cpu[e].op = "tick" THEN "cmph"
                               ELSE IF cpu[e].op = "set" THEN "store" ELSE "load")
              /\ cpu'[e].op = cpu[e].op /\ cpu'[e].began = cpu[e].began
          BY <1>0, <5>1, GotOwn, Zenon
        <5> QED BY <5>2
      <4>2. CASE cpu' = [cpu EXCEPT ![e].pc = "hi"]
        BY <1>0, <4>2 DEF CpuState
      <4> QED BY <2>4, <4>1, <4>2 DEF ReadHighAgain, Got
    <3>2. UNCHANGED <<cmp, ticked>>
      BY <2>4 DEF ReadHighAgain
    <3> QED BY <1>t, <3>1, <3>2 DEF TriggerSet
  <2>5. CASE WriteHigh(e) \/ WriteLow(e)
    <3> DEFINE T == Trigger(cpu[e].ts)
    <3>1. PICK t \in Nat : cpu[e].ts = RawToTs(t) /\ cpu[e].began <= t
      <4>1. PICK t \in cpu[e].began .. mtime : cpu[e].ts = RawToTs(t)
        BY <1>t, <2>5 DEF HalvesOfCall, WriteHigh, WriteLow
      <4>2. cpu[e].began \in Nat /\ mtime \in Nat
        BY <1>0, <1>t DEF CpuState, ClockTypeOK
      <4> QED BY <4>1, <4>2
    <3>2. T \in Nat /\ Tick \in Nat /\ T >= t + Tick - 1
      BY <3>1, TriggerAhead
    <3>3. /\ T \div Half \in Nat /\ T % Half \in Nat /\ T % Half \in 0 .. Half - 1
          /\ cmp[e] % Half \in Nat /\ cmp[e] % Half \in 0 .. Half - 1
          /\ T = (T \div Half) * Half + (T % Half)
      BY <1>0, <3>2, DivMod, Zenon
    <3>4. CASE WriteHigh(e)
      <4>1. /\ cpu'[e].pc = "cmpl" /\ cpu'[e].op = cpu[e].op /\ cpu'[e].began = cpu[e].began
            /\ cpu'[e].ts = cpu[e].ts /\ cpu[e].pc = "cmph" /\ ticked' = ticked
            /\ cmp'[e] = (T \div Half) * Half + (cmp[e] % Half)
        BY <1>0, <3>4 DEF WriteHigh, CpuState
      <4>2. cmp'[e] \div Half = T \div Half
        BY <1>0, <3>3, <4>1, QuotientOf
      <4> QED BY <1>t, <4>1, <4>2 DEF TriggerSet
    <3>5. CASE WriteLow(e)
      <4>1. /\ cpu'[e] = User /\ cpu[e].pc = "cmpl" /\ ticked' = ticked
            /\ cmp'[e] = (cmp[e] \div Half) * Half + (T % Half)
        BY <1>0, <3>5 DEF WriteLow
      <4>2. cmp'[e] = T /\ cpu[e].began = ticked[e]
        BY <1>t, <3>3, <4>1 DEF TriggerSet
      <4>3. cmp'[e] >= ticked'[e] + Tick - 1
        BY <1>0, <3>1, <3>2, <4>1, <4>2
      <4> QED BY <4>1, <4>3 DEF TriggerSet, User
    <3> QED BY <2>5, <3>4, <3>5
  <2>6. CASE StoreOffset(e)
    <3>1. /\ \/ cpu'[e].pc = "store" /\ cpu'[e].began = cpu[e].began /\ cpu'[e].op = cpu[e].op
             \/ cpu'[e].pc = "user" /\ cpu'[e].op = "none"
          /\ UNCHANGED <<cmp, ticked>> /\ cpu[e].pc = "store"
      BY <1>0, <2>6 DEF StoreOffset, User, CpuState
    <3> QED BY <1>t, <3>1 DEF TriggerSet
  <2>7. CASE LoadOffset(e)
    <3>1. /\ cpu'[e].pc \in {"load", "ret"} /\ cpu'[e].began = cpu[e].began /\ cpu'[e].op = cpu[e].op
          /\ UNCHANGED <<cmp, ticked>> /\ cpu[e].pc = "load"
      BY <1>0, <2>7 DEF LoadOffset, CpuState
    <3> QED BY <1>t, <3>1 DEF TriggerSet
  <2>8. CASE Return(e)
    <3>1. cpu'[e] = User /\ cpu[e].pc = "ret" /\ UNCHANGED <<cmp, ticked>>
      BY <1>0, <2>8 DEF Return
    <3> QED BY <1>t, <3>1 DEF TriggerSet, User
  <2> QED BY <1>3, <2>1, <2>2, <2>3, <2>4, <2>5, <2>6, <2>7, <2>8 DEF Step
<1> QED BY <1>1, <1>2, <1>3 DEF ClockNext

\* The invariant of the clock, for any number of CPUs, every width of a half
\* register and every frequency.
THEOREM ClockInvariant == ClockSpec => []IInv
<1>1. ClockInit => IInv
  <2> SUFFICES ASSUME ClockInit PROVE IInv
    OBVIOUS
  <2>1. Tick \in Nat
    BY TriggerAhead
  <2>2. ClockTypeOK
    BY <2>1, ClockAssumption DEF ClockInit, ClockTypeOK, CpuState, User, Zero, Ts, Pcs, Ops
  <2>3. ASSUME NEW c \in Cpus PROVE HalvesOfCall(c) /\ TriggerSet(c)
    <3>1. cpu[c] = User /\ mtime = 0 /\ ticked[c] = -Tick /\ cmp[c] \in Nat
      BY ClockAssumption DEF ClockInit
    <3> QED BY <2>1, <3>1 DEF HalvesOfCall, TriggerSet, User
  <2> QED BY <2>2, <2>3 DEF IInv
<1>2. IInv /\ [ClockNext]_clockVars => IInv'
  <2> SUFFICES ASSUME IInv, [ClockNext]_clockVars PROVE IInv'
    OBVIOUS
  <2>1. CASE ClockNext
    BY <2>1, ClockTypes, ClockHalves, ClockTriggers DEF IInv
  <2>2. CASE UNCHANGED clockVars
    BY <2>2 DEF clockVars, IInv, ClockTypeOK, HalvesOfCall, TriggerSet
  <2> QED BY <2>1, <2>2
<1> QED BY <1>1, <1>2, PTL DEF ClockSpec

\* k_clock_get_monotonic returns a time the clock had during the call, also
\* when the low half of mtime rolls over between its two reads.
THEOREM ClockTimeInCall == ClockSpec => []TimeInCall
<1>1. IInv => TimeInCall
  <2> SUFFICES ASSUME IInv, NEW c \in Cpus,
                      cpu[c].pc = "cmph" \/ (cpu[c].pc = "ret" /\ cpu[c].op = "mono")
               PROVE  Ns(cpu[c].ts) \in Ns(RawToTs(cpu[c].began)) .. Ns(RawToTs(mtime))
    BY DEF TimeInCall
  <2>1. PICK t \in cpu[c].began .. mtime : cpu[c].ts = RawToTs(t)
    BY DEF IInv, HalvesOfCall
  <2>2. cpu[c].began \in Nat /\ mtime \in Nat /\ t \in Nat /\ cpu[c].began <= t /\ t <= mtime
    BY DEF IInv, ClockTypeOK, CpuState
  <2>3. /\ Ns(RawToTs(cpu[c].began)) \in Nat /\ Ns(RawToTs(t)) \in Nat /\ Ns(RawToTs(mtime)) \in Nat
        /\ Ns(RawToTs(cpu[c].began)) <= Ns(RawToTs(t)) /\ Ns(RawToTs(t)) <= Ns(RawToTs(mtime))
    BY <2>2, RawMonotone
  <2> QED BY <2>1, <2>3
<1> QED BY <1>1, ClockInvariant, PTL

\* No tick of a CPU comes early: the trigger that timer_clint_set_trigger
\* computes and writes in halves is a tick ahead, less one count.
THEOREM ClockTickSpacing == ClockSpec => TickSpacing
<1>1. IInv /\ [ClockNext]_clockVars =>
        [\A c \in Cpus : ticked'[c] # ticked[c] => ticked'[c] >= ticked[c] + Tick - 1]_clockVars
  <2> SUFFICES ASSUME IInv, ClockNext, NEW c \in Cpus, ticked'[c] # ticked[c]
               PROVE  ticked'[c] >= ticked[c] + Tick - 1
    OBVIOUS
  <2>1. OnTick(c)
    <3>1. PICK d \in Cpus : Step(d) \/ GetTime(d) \/ SetTime(d)
      BY DEF ClockNext, Count
    <3>2. d = c
      BY <3>1, OthersKept DEF IInv
    <3> QED BY <3>1, <3>2, Zenon DEF Step, GetTime, SetTime, Call, ReadHigh, ReadLow, ReadHighAgain,
               WriteHigh, WriteLow, StoreOffset, LoadOffset, Return
  <2>2. ticked'[c] = mtime /\ mtime >= cmp[c] /\ cpu[c].pc = "user"
    BY <2>1 DEF OnTick, Pending, Enter, IInv, ClockTypeOK
  <2>3. cmp[c] >= ticked[c] + Tick - 1
    BY <2>2 DEF IInv, TriggerSet
  <2>4. Tick \in Nat /\ cmp[c] \in Nat /\ mtime \in Nat /\ ticked[c] \in Int
    BY TriggerAhead DEF IInv, ClockTypeOK
  <2> QED BY <2>2, <2>3, <2>4
<1> QED BY <1>1, ClockInvariant, PTL DEF ClockSpec, TickSpacing
-----------------------------------------------------------------------------
(* The real time follows the last set.                                     *)

\* The nanoseconds of a time computed from a count are normal.
LEMMA RawNormal ==
  ASSUME NEW n \in Nat
  PROVE  RawToTs(n) \in Ts /\ RawToTs(n).nsec \in 0 .. Nsec - 1
<1>0. Freq \in Nat \ {0} /\ Nsec \in Nat \ {0}
  BY ClockAssumption
<1>1. n % Freq \in Nat /\ n % Freq < Freq
  BY <1>0, DivMod
<1>2. ((n % Freq) * Nsec) \div Freq \in Nat /\ ((n % Freq) * Nsec) \div Freq < Nsec
  BY <1>0, <1>1, ScaleBelow
<1>3. RawToTs(n).nsec = ((n % Freq) * Nsec) \div Freq
  BY DEF RawToTs
<1> QED BY <1>0, <1>2, <1>3, TsTypes

\* timespecsub: a difference of normal times is less than a second off, and
\* normal after the borrow.
LEMMA BorrowNormal ==
  ASSUME NEW a \in Ts, a.nsec \in 1 - Nsec .. Nsec - 1
  PROVE  /\ Borrow(a) \in Ts
         /\ Borrow(a).nsec \in 0 .. Nsec - 1
         /\ Borrow(a) = a => a.nsec \in 0 .. Nsec - 1
<1>0. Nsec \in Nat \ {0} /\ a.sec \in Int /\ a.nsec \in Int
  BY ClockAssumption DEF Ts
<1>1. CASE a.nsec < 0
  <2>1. Borrow(a).sec = a.sec - 1 /\ Borrow(a).nsec = a.nsec + Nsec
    BY <1>1 DEF Borrow
  <2>2. Borrow(a) # a
    BY <1>0, <2>1
  <2> QED BY <1>0, <1>1, <2>1, <2>2, TsTypes
<1>2. CASE ~(a.nsec < 0)
  BY <1>0, <1>2, TsTypes DEF Borrow
<1> QED BY <1>1, <1>2

\* timespecadd: the carry makes a sum of normal times normal and keeps it.
LEMMA CarryNormal ==
  ASSUME NEW a \in Ts, NEW b \in Ts, NEW s \in Ts,
         a.nsec \in 0 .. Nsec - 1, b.nsec \in 0 .. Nsec - 1,
         s.sec = a.sec + b.sec, s.nsec = a.nsec + b.nsec
  PROVE  Carry(s).nsec \in 0 .. Nsec - 1 /\ Ns(Carry(s)) = Ns(a) + Ns(b)
<1>0. /\ Nsec \in Nat \ {0} /\ a.sec \in Int /\ b.sec \in Int /\ s.sec \in Int
      /\ a.nsec \in Int /\ b.nsec \in Int /\ s.nsec \in Int
  BY ClockAssumption DEF Ts
<1>1. s.sec * Nsec = a.sec * Nsec + b.sec * Nsec
  BY <1>0
<1>2. a.sec * Nsec \in Int /\ b.sec * Nsec \in Int /\ s.sec * Nsec \in Int
  BY <1>0
<1>3. CASE s.nsec >= Nsec
  <2>1. Carry(s).sec = s.sec + 1 /\ Carry(s).nsec = s.nsec - Nsec
    BY <1>3 DEF Carry
  <2>2. (s.sec + 1) * Nsec = s.sec * Nsec + Nsec
    BY <1>0
  <2>3. Ns(Carry(s)) = s.sec * Nsec + Nsec + (s.nsec - Nsec)
    BY <2>1, <2>2 DEF Ns
  <2>4. Ns(Carry(s)) = Ns(a) + Ns(b)
    BY <1>0, <1>1, <1>2, <2>3 DEF Ns
  <2> QED BY <1>0, <1>3, <2>1, <2>4
<1>4. CASE ~(s.nsec >= Nsec)
  <2>1. Carry(s) = s
    BY <1>4 DEF Carry
  <2>2. Ns(s) = Ns(a) + Ns(b)
    BY <1>0, <1>1, <1>2 DEF Ns
  <2> QED BY <1>0, <1>4, <2>1, <2>2
<1> QED BY <1>3, <1>4

\* What a step of CPU c leaves of the access of another CPU to ts_realtime_off.
LEMMA AccessKept ==
  ASSUME ClockTypeOK, NEW c \in Cpus, NEW d \in Cpus, d # c,
         Step(c) \/ GetTime(c) \/ SetTime(c)
  PROVE  cpu'[d].todo = cpu[d].todo /\ (cpu'[d].alone => cpu[d].alone)
<1> USE DEF ClockTypeOK
<1>1. CASE GetTime(c) \/ SetTime(c) \/ OnTick(c)
  BY <1>1, Zenon DEF GetTime, SetTime, OnTick, Call, Enter
<1>2. CASE ReadHigh(c) \/ ReadLow(c) \/ WriteHigh(c) \/ WriteLow(c) \/ Return(c)
  BY <1>2 DEF ReadHigh, ReadLow, WriteHigh, WriteLow, Return
<1>3. CASE ReadHighAgain(c)
  <2>1. CASE \E t : GotState(c, t)
    <3>1. cpu'[d] = [cpu[d] EXCEPT !.alone = @ /\ cpu[c].op # "set"]
      BY <2>1, Zenon DEF GotState
    <3> QED BY <3>1 DEF CpuState
  <2>2. CASE cpu' = [cpu EXCEPT ![c].pc = "hi"]
    BY <2>2
  <2> QED BY <1>3, <2>1, <2>2 DEF ReadHighAgain, Got
<1>4. CASE StoreOffset(c)
  BY <1>4 DEF StoreOffset
<1>5. CASE LoadOffset(c)
  BY <1>5 DEF LoadOffset
<1> QED BY <1>1, <1>2, <1>3, <1>4, <1>5 DEF Step
-----------------------------------------------------------------------------
\* A step of CPU c that stores nothing and starts no store leaves the access
\* of the other CPUs as it is.
LEMMA OthersAccess ==
  ASSUME IInv, OffsetInv, NEW c \in Cpus, NEW d \in Cpus, d # c,
         Step(c) \/ GetTime(c) \/ SetTime(c), UNCHANGED <<off, goal>>, Storing' = Storing
  PROVE  AloneApart(d)' /\ OffsetStored(d)' /\ OffsetGot(d)'
<1>1. AloneApart(d) /\ OffsetStored(d) /\ OffsetGot(d)
  BY DEF OffsetInv
<1>2. /\ cpu'[d].pc = cpu[d].pc /\ cpu'[d].op = cpu[d].op /\ cpu'[d].ts = cpu[d].ts
      /\ cpu'[d].began = cpu[d].began /\ cpu'[d].todo = cpu[d].todo /\ mtime' = mtime
      /\ cpu'[d].alone => cpu[d].alone
  BY OthersKept, AccessKept DEF IInv
<1>3. AloneApart(d)'
  BY <1>1, <1>2 DEF AloneApart, Getting
<1>4. OffsetStored(d)'
  BY <1>1, <1>2 DEF OffsetStored
<1>5. OffsetGot(d)'
  <2>1. off' = off /\ goal' = goal
    OBVIOUS
  <2>2. ASSUME NEW t, SumSoFar(d, t) PROVE SumSoFar(d, t)'
    BY <1>2, <2>1, <2>2 DEF SumSoFar
  <2>3. cpu'[d].pc = "load" /\ cpu'[d].alone => \E t \in cpu'[d].began .. mtime' : SumSoFar(d, t)'
    <3>1. cpu[d].pc = "load" /\ cpu[d].alone => \E t \in cpu[d].began .. mtime : SumSoFar(d, t)
      BY <1>1, Zenon DEF OffsetGot
    <3> QED BY <1>2, <2>2, <3>1
  <2>4. cpu'[d].pc = "ret" /\ cpu'[d].op = "get" /\ cpu'[d].alone =>
          \A g \in goal' : /\ cpu'[d].ts.nsec \in 0 .. Nsec - 1
                           /\ \E t \in cpu'[d].began .. mtime' : Ns(cpu'[d].ts) = Ns(RawToTs(t)) + g
    BY <1>1, <1>2, <2>1 DEF OffsetGot
  <2> QED BY <2>3, <2>4, Zenon DEF OffsetGot
<1> QED BY <1>3, <1>4, <1>5

\* The steps of CPU c that have nothing to do with ts_realtime_off.
Quiet(c) ==
  /\ cpu[c].pc # "store" /\ cpu'[c].pc \notin {"store", "load"}
  /\ ~(cpu'[c].pc = "ret" /\ cpu'[c].op = "get")
  /\ cpu'[c].op = "set" => cpu'[c].ts.nsec \in 0 .. Nsec - 1
  /\ UNCHANGED <<off, goal>>

\* Such a step keeps the invariant of the offset.
LEMMA QuietKeeps ==
  ASSUME IInv, OffsetInv, NEW c \in Cpus, Step(c) \/ GetTime(c) \/ SetTime(c), Quiet(c)
  PROVE  OffsetInv'
<1>1. Storing' = Storing
  <2>1. \A d \in Cpus : cpu'[d].pc = "store" <=> cpu[d].pc = "store"
    BY OthersKept DEF IInv, Quiet
  <2> QED BY <2>1 DEF Storing
<1>2. OffsetKept'
  BY <1>1 DEF OffsetInv, OffsetKept, Quiet
<1>3. AloneApart(c)' /\ OffsetStored(c)' /\ OffsetGot(c)'
  BY DEF AloneApart, Getting, OffsetStored, OffsetGot, Quiet
<1>4. \A d \in Cpus : d # c => AloneApart(d)' /\ OffsetStored(d)' /\ OffsetGot(d)'
  BY <1>1, OthersAccess DEF Quiet
<1> QED BY <1>2, <1>3, <1>4 DEF OffsetInv

\* k_clock_get_realtime starts to load: it has a time of the call.
LEMMA LoadStarts ==
  ASSUME IInv, OffsetInv, NEW c \in Cpus, ReadHighAgain(c), cpu[c].op = "get",
         NEW t \in cpu[c].began .. mtime, GotState(c, RawToTs(t))
  PROVE  OffsetInv'
<1>0. cpu \in [Cpus -> CpuState] /\ mtime \in Nat /\ cpu[c].began \in Nat /\ t \in Nat
  BY DEF IInv, ClockTypeOK, CpuState
<1>1. /\ cpu'[c].pc = "load" /\ cpu'[c].op = "get" /\ cpu'[c].ts = RawToTs(t)
      /\ cpu'[c].todo = Fields /\ cpu'[c].began = cpu[c].began
      /\ cpu'[c].alone => {d \in Cpus \ {c} : cpu[d].pc = "store"} = {}
  BY <1>0, GotOwn, Zenon
<1>2. UNCHANGED <<off, goal, mtime>> /\ cpu[c].pc = "again"
  BY DEF ReadHighAgain
<1>3. Storing' = Storing
  <2>1. \A d \in Cpus : cpu'[d].pc = "store" <=> cpu[d].pc = "store"
    BY <1>1, <1>2, OthersKept DEF IInv, Step
  <2> QED BY <2>1 DEF Storing
<1>4. OffsetKept'
  BY <1>2, <1>3 DEF OffsetInv, OffsetKept
<1>5. AloneApart(c)'
  BY <1>1, <1>3 DEF AloneApart, Storing
<1>6. OffsetStored(c)'
  BY <1>1 DEF OffsetStored
<1>7. OffsetGot(c)'
  <2>1. RawToTs(t).sec \in Int /\ RawToTs(t).nsec \in Int
    BY <1>0, RawNormal DEF Ts
  <2>2. SumSoFar(c, t)'
    BY <1>1, <2>1 DEF SumSoFar, Fields
  <2> QED BY <1>1, <1>2, <2>2 DEF OffsetGot
<1>8. \A d \in Cpus : d # c => AloneApart(d)' /\ OffsetStored(d)' /\ OffsetGot(d)'
  BY <1>2, <1>3, OthersAccess DEF Step
<1> QED BY <1>4, <1>5, <1>6, <1>7, <1>8 DEF OffsetInv

\* k_clock_set_realtime starts to store: no other access is alone now.
LEMMA StoreStarts ==
  ASSUME IInv, OffsetInv, NEW c \in Cpus, ReadHighAgain(c), cpu[c].op = "set",
         NEW u \in Ts, u.nsec \in 1 - Nsec .. Nsec - 1, GotState(c, u)
  PROVE  OffsetInv'
<1>0. cpu \in [Cpus -> CpuState]
  BY DEF IInv, ClockTypeOK
<1>1. /\ cpu'[c].pc = "store" /\ cpu'[c].op = "set" /\ cpu'[c].ts = u /\ cpu'[c].todo = Fields
      /\ cpu'[c].alone => {d \in Cpus \ {c} : cpu[d].pc = "store"} = {}
  BY <1>0, GotOwn, Zenon
<1>2. UNCHANGED <<off, goal, mtime>>
  BY DEF ReadHighAgain
<1>3. c \in Storing' /\ Storing' \subseteq Storing \cup {c}
  <2>1. \A d \in Cpus : cpu'[d].pc = "store" => d = c \/ cpu[d].pc = "store"
    BY OthersKept DEF IInv, Step
  <2> QED BY <1>1, <2>1 DEF Storing
<1>4. OffsetKept'
  BY <1>2, <1>3 DEF OffsetInv, OffsetKept
<1>5. AloneApart(c)'
  BY <1>1, <1>3 DEF AloneApart, Storing
<1>6. OffsetStored(c)' /\ OffsetGot(c)'
  BY <1>1 DEF OffsetStored, OffsetGot
<1>7. ASSUME NEW d \in Cpus, d # c
      PROVE  AloneApart(d)' /\ OffsetStored(d)' /\ OffsetGot(d)'
  <2>1. ~cpu'[d].alone
    BY <1>0, <1>7, Zenon DEF GotState, CpuState
  <2>2. cpu'[d].pc = cpu[d].pc /\ cpu'[d].op = cpu[d].op /\ cpu'[d].ts = cpu[d].ts
    BY <1>7, OthersKept DEF IInv, Step
  <2>3. OffsetStored(d)'
    BY <2>1, <2>2 DEF OffsetInv, OffsetStored
  <2> QED BY <2>1, <2>3 DEF AloneApart, OffsetGot
<1> QED BY <1>4, <1>5, <1>6, <1>7 DEF OffsetInv

\* k_clock_set_realtime stores: an access of another CPU is not alone, and the
\* last store of a set that is alone leaves its offset behind.
LEMMA StoreGoesOn ==
  ASSUME IInv, OffsetInv, NEW c \in Cpus, StoreOffset(c)
  PROVE  OffsetInv'
<1>0. /\ cpu \in [Cpus -> CpuState] /\ off \in Ts /\ cpu[c].ts \in Ts
      /\ cpu[c].todo \subseteq Fields /\ cpu[c].pc = "store"
  BY DEF IInv, ClockTypeOK, CpuState, StoreOffset
<1>1. AloneApart(c) /\ OffsetStored(c) /\ OffsetGot(c)
  BY DEF OffsetInv
<1>2. PICK f \in cpu[c].todo :
        /\ off' = [off EXCEPT ![f] = cpu[c].ts[f]]
        /\ \/ /\ cpu' = [cpu EXCEPT ![c].todo = cpu[c].todo \ {f}]
              /\ goal' = goal
           \/ /\ cpu' = [cpu EXCEPT ![c].ts = Borrow(cpu[c].ts), ![c].todo = Fields]
              /\ goal' = goal
           \/ /\ cpu[c].todo \ {f} = {} /\ Borrow(cpu[c].ts) = cpu[c].ts
              /\ cpu' = [cpu EXCEPT ![c] = User]
              /\ goal' = IF cpu[c].alone THEN {Ns(cpu[c].ts)} ELSE {}
  BY Zenon DEF StoreOffset
<1>3. \A d \in Cpus : d # c => cpu'[d] = cpu[d]
  BY <1>0, <1>2
<1>4. c \in Storing /\ Storing' \subseteq Storing
  BY <1>0, <1>3 DEF Storing
<1>5. ASSUME cpu[c].alone, NEW g \in Fields \ (cpu[c].todo \ {f})
      PROVE  off'[g] = cpu[c].ts[g]
  <2>1. CASE g = f
    BY <1>0, <1>2, <2>1 DEF Ts, Fields
  <2>2. CASE g # f
    <3>1. off[g] = cpu[c].ts[g]
      BY <1>0, <1>1, <1>5, <2>2 DEF OffsetStored
    <3> QED BY <1>0, <1>2, <2>2, <3>1 DEF Ts, Fields
  <2> QED BY <2>1, <2>2
<1>6. ASSUME NEW d \in Cpus, d # c
      PROVE  AloneApart(d)' /\ OffsetStored(d)' /\ OffsetGot(d)'
  <2>1. AloneApart(d) /\ OffsetStored(d)
    BY DEF OffsetInv
  <2>2. cpu[d].pc = "store" \/ Getting(d) => ~cpu[d].alone
    BY <1>4, <1>6, <2>1 DEF AloneApart
  <2> QED BY <1>3, <1>6, <2>1, <2>2 DEF AloneApart, OffsetStored, OffsetGot, Getting
<1>7. CASE cpu' = [cpu EXCEPT ![c].todo = cpu[c].todo \ {f}] /\ goal' = goal
  <2>1. /\ cpu'[c].pc = "store" /\ cpu'[c].op = cpu[c].op /\ cpu'[c].ts = cpu[c].ts
        /\ cpu'[c].alone = cpu[c].alone /\ cpu'[c].todo = cpu[c].todo \ {f}
    BY <1>0, <1>7 DEF CpuState
  <2>2. c \in Storing'
    BY <2>1 DEF Storing
  <2>3. OffsetStored(c)'
    BY <1>0, <1>1, <1>5, <2>1 DEF OffsetStored
  <2>4. AloneApart(c)' /\ OffsetGot(c)' /\ OffsetKept'
    BY <1>0, <1>1, <1>4, <1>7, <2>1, <2>2 DEF AloneApart, OffsetGot, OffsetInv, OffsetKept
  <2> QED BY <1>6, <2>3, <2>4 DEF OffsetInv
<1>8. CASE cpu' = [cpu EXCEPT ![c].ts = Borrow(cpu[c].ts), ![c].todo = Fields] /\ goal' = goal
  <2>1. /\ cpu'[c].pc = "store" /\ cpu'[c].op = cpu[c].op /\ cpu'[c].ts = Borrow(cpu[c].ts)
        /\ cpu'[c].alone = cpu[c].alone /\ cpu'[c].todo = Fields
    BY <1>0, <1>8 DEF CpuState
  <2>2. c \in Storing'
    BY <2>1 DEF Storing
  <2>3. Borrow(cpu[c].ts).nsec \in 1 - Nsec .. Nsec - 1
    <3>1. Borrow(cpu[c].ts).nsec \in 0 .. Nsec - 1
      BY <1>0, <1>1, BorrowNormal DEF OffsetStored
    <3>2. Nsec \in Nat \ {0}
      BY ClockAssumption
    <3> QED BY <3>1, <3>2
  <2>4. OffsetStored(c)'
    BY <1>0, <1>1, <2>1, <2>3 DEF OffsetStored
  <2>5. AloneApart(c)' /\ OffsetGot(c)' /\ OffsetKept'
    BY <1>0, <1>1, <1>4, <1>8, <2>1, <2>2 DEF AloneApart, OffsetGot, OffsetInv, OffsetKept
  <2> QED BY <1>6, <2>4, <2>5 DEF OffsetInv
<1>9. CASE /\ cpu[c].todo \ {f} = {} /\ Borrow(cpu[c].ts) = cpu[c].ts
           /\ cpu' = [cpu EXCEPT ![c] = User]
           /\ goal' = IF cpu[c].alone THEN {Ns(cpu[c].ts)} ELSE {}
  <2>1. cpu'[c] = User
    BY <1>0, <1>9
  <2>2. AloneApart(c)' /\ OffsetStored(c)' /\ OffsetGot(c)'
    BY <2>1 DEF AloneApart, OffsetStored, OffsetGot, Getting, User
  <2>3. ASSUME NEW g \in goal'
        PROVE  g \in Int /\ Ns(off)' = g /\ off'.nsec \in 0 .. Nsec - 1
    <3>1. cpu[c].alone /\ g = Ns(cpu[c].ts)
      BY <1>9, <2>3
    <3>2. off'.sec = cpu[c].ts.sec /\ off'.nsec = cpu[c].ts.nsec
      BY <1>5, <1>9, <3>1 DEF Fields
    <3>3. cpu[c].ts.nsec \in 0 .. Nsec - 1
      BY <1>0, <1>1, <1>9, BorrowNormal DEF OffsetStored
    <3>4. Ns(cpu[c].ts) \in Int
      BY <1>0, ClockAssumption DEF Ns, Ts
    <3> QED BY <3>1, <3>2, <3>3, <3>4 DEF Ns
  <2>4. OffsetKept'
    BY <2>3 DEF OffsetKept
  <2> QED BY <1>6, <2>2, <2>4 DEF OffsetInv
<1> QED BY <1>2, <1>7, <1>8, <1>9

\* k_clock_get_realtime adds the offset: when it is alone nobody stores, and
\* what it adds is the offset set last.
LEMMA LoadGoesOn ==
  ASSUME IInv, OffsetInv, NEW c \in Cpus, LoadOffset(c)
  PROVE  OffsetInv'
<1> DEFINE total(f) == [cpu[c].ts EXCEPT ![f] = @ + off[f]]
<1>0. /\ cpu \in [Cpus -> CpuState] /\ off \in Ts /\ cpu[c].ts \in Ts /\ mtime \in Nat
      /\ cpu[c].todo \subseteq Fields /\ cpu[c].pc = "load" /\ cpu[c].began \in Nat
      /\ UNCHANGED <<off, goal, mtime>>
  BY DEF IInv, ClockTypeOK, CpuState, LoadOffset
<1>1. AloneApart(c) /\ OffsetStored(c) /\ OffsetGot(c) /\ OffsetKept /\ cpu[c].op = "get"
  BY <1>0 DEF OffsetInv, IInv, HalvesOfCall
<1>2. PICK f \in cpu[c].todo :
        \/ /\ cpu[c].todo \ {f} = {}
           /\ cpu' = [cpu EXCEPT ![c].todo = cpu[c].todo \ {f}, ![c].ts = Loaded(total(f)), ![c].pc = "ret"]
        \/ /\ cpu[c].todo \ {f} # {}
           /\ cpu' = [cpu EXCEPT ![c].todo = cpu[c].todo \ {f}, ![c].ts = total(f)]
  BY Zenon DEF LoadOffset
<1> DEFINE sum == total(f)
<1>3. /\ cpu'[c].pc \in {"load", "ret"} /\ cpu'[c].op = cpu[c].op /\ cpu'[c].began = cpu[c].began
      /\ cpu'[c].alone = cpu[c].alone /\ cpu'[c].todo = cpu[c].todo \ {f}
      /\ cpu'[c].pc = "load" => cpu'[c].ts = sum
      /\ cpu'[c].pc = "ret" => cpu'[c].todo = {} /\ cpu'[c].ts = Carry(sum)
  BY <1>0, <1>2 DEF CpuState, Loaded
<1>4. Storing' = Storing
  <2>1. \A d \in Cpus : cpu'[d].pc = "store" <=> cpu[d].pc = "store"
    BY <1>0, <1>3, OthersKept, Zenon DEF IInv, Step
  <2> QED BY <2>1 DEF Storing
<1>5. OffsetKept'
  BY <1>0, <1>1, <1>4, Zenon DEF OffsetKept
<1>6. \A d \in Cpus : d # c => AloneApart(d)' /\ OffsetStored(d)' /\ OffsetGot(d)'
  BY <1>0, <1>4, OthersAccess DEF Step
<1>7. AloneApart(c)' /\ OffsetStored(c)'
  BY <1>0, <1>1, <1>3, <1>4 DEF AloneApart, OffsetStored, Getting
<1>8. ASSUME cpu[c].alone
      PROVE  \E t \in cpu[c].began .. mtime :
               \A g \in Fields : sum[g] = RawToTs(t)[g] + (IF g \in cpu[c].todo \ {f} THEN 0 ELSE off[g])
  <2>1. PICK t \in cpu[c].began .. mtime : SumSoFar(c, t)
    BY <1>0, <1>1, <1>8 DEF OffsetGot
  <2>2. t \in Nat /\ RawToTs(t).sec \in Int /\ RawToTs(t).nsec \in Int
    BY <1>0, RawNormal DEF Ts
  <2>3. ASSUME NEW g \in Fields
        PROVE  sum[g] = RawToTs(t)[g] + (IF g \in cpu[c].todo \ {f} THEN 0 ELSE off[g])
    <3>1. cpu[c].ts[g] = RawToTs(t)[g] + (IF g \in cpu[c].todo THEN 0 ELSE off[g])
      BY <2>1 DEF SumSoFar
    <3>2. cpu[c].ts[g] \in Int /\ off[g] \in Int /\ RawToTs(t)[g] \in Int
      BY <1>0, <2>2 DEF Fields, Ts
    <3>3. sum[g] = IF g = f THEN cpu[c].ts[g] + off[g] ELSE cpu[c].ts[g]
      BY <1>0 DEF Ts, Fields
    <3> HIDE DEF sum
    <3> QED BY <3>1, <3>2, <3>3
  <2> QED BY <2>3
<1>9. sum \in Ts
  BY <1>0 DEF Ts, Fields
<1> HIDE DEF sum
<1>10. OffsetGot(c)'
  <2>1. ASSUME cpu'[c].pc = "load", cpu[c].alone
        PROVE  \E t \in cpu[c].began .. mtime : SumSoFar(c, t)'
    BY <1>0, <1>3, <1>8, <2>1 DEF SumSoFar
  <2>2. ASSUME cpu'[c].pc = "ret", cpu[c].alone, NEW g \in goal
        PROVE  /\ cpu'[c].ts.nsec \in 0 .. Nsec - 1
               /\ \E t \in cpu[c].began .. mtime : Ns(cpu'[c].ts) = Ns(RawToTs(t)) + g
    <3>1. PICK t \in cpu[c].began .. mtime :
            \A h \in Fields : sum[h] = RawToTs(t)[h] + (IF h \in cpu[c].todo \ {f} THEN 0 ELSE off[h])
      BY <1>8, <2>2
    <3>2. sum.sec = RawToTs(t).sec + off.sec /\ sum.nsec = RawToTs(t).nsec + off.nsec
      BY <1>3, <2>2, <3>1 DEF Fields
    <3>3. Storing = {}
      <4>1. Storing \subseteq {c}
        BY <1>0, <1>1, <2>2 DEF AloneApart, Getting
      <4> QED BY <1>0, <4>1 DEF Storing
    <3>4. Ns(off) = g /\ off.nsec \in 0 .. Nsec - 1
      BY <1>1, <2>2, <3>3 DEF OffsetKept
    <3>5. RawToTs(t) \in Ts /\ RawToTs(t).nsec \in 0 .. Nsec - 1
      BY <1>0, RawNormal
    <3>6. Carry(sum).nsec \in 0 .. Nsec - 1 /\ Ns(Carry(sum)) = Ns(RawToTs(t)) + Ns(off)
      BY <1>0, <1>9, <3>2, <3>4, <3>5, CarryNormal
    <3> QED BY <1>3, <2>2, <3>4, <3>6
  <2> QED BY <1>0, <1>3, <2>1, <2>2 DEF OffsetGot
<1> QED BY <1>5, <1>6, <1>7, <1>10 DEF OffsetInv

\* Every step of the clock keeps the invariant of ts_realtime_off.
LEMMA OffsetStep ==
  ASSUME NormalTimes, IInv, OffsetInv, ClockNext
  PROVE  OffsetInv'
<1>0. cpu \in [Cpus -> CpuState] /\ mtime \in Nat /\ Nsec \in Nat \ {0}
  BY ClockAssumption DEF IInv, ClockTypeOK
<1>1. CASE Count
  <2>1. UNCHANGED <<cpu, off, goal>> /\ mtime <= mtime' /\ mtime' \in Nat
    BY <1>0, <1>1 DEF Count
  <2>2. \A c \in Cpus : cpu[c].began .. mtime \subseteq cpu[c].began .. mtime'
    BY <1>0, <2>1 DEF CpuState
  <2>3. ASSUME NEW c \in Cpus PROVE AloneApart(c)' /\ OffsetStored(c)' /\ OffsetGot(c)'
    <3>1. AloneApart(c)' /\ OffsetStored(c)'
      BY <2>1 DEF OffsetInv, AloneApart, Getting, Storing, OffsetStored
    <3>2. OffsetGot(c)'
      BY <2>1, <2>2 DEF OffsetInv, OffsetGot, SumSoFar
    <3> QED BY <3>1, <3>2
  <2>4. OffsetKept'
    BY <2>1 DEF OffsetInv, OffsetKept, Storing
  <2> QED BY <2>3, <2>4 DEF OffsetInv
<1> SUFFICES ASSUME NEW c \in Cpus, Step(c) \/ GetTime(c) \/ SetTime(c) PROVE OffsetInv'
  BY <1>1 DEF ClockNext
<1>2. OffsetStored(c)
  BY DEF OffsetInv
<1>3. CASE GetTime(c) \/ SetTime(c) \/ OnTick(c)
  <2>1. PICK o \in Ops, t \in Ts : Enter(c, o, t) /\ (o = "set" => t.nsec \in 0 .. Nsec - 1)
    BY <1>3, ClockAssumption
       DEF GetTime, SetTime, OnTick, Call, NormalTimes, Ts, Ops, Zero
  <2>2. Quiet(c)
    BY <1>0, <2>1 DEF Enter, User, Quiet
  <2> QED BY <2>2, QuietKeeps
<1>4. CASE ReadHigh(c) \/ ReadLow(c)
  <2>1. /\ cpu'[c].pc \in {"lo", "again"} /\ cpu'[c].op = cpu[c].op /\ cpu'[c].ts = cpu[c].ts
        /\ cpu[c].pc \in {"hi", "lo"} /\ UNCHANGED <<off, goal>>
    BY <1>0, <1>4 DEF ReadHigh, ReadLow, CpuState
  <2>2. Quiet(c)
    BY <1>2, <2>1 DEF Quiet, OffsetStored
  <2> QED BY <2>2, QuietKeeps
<1>5. CASE ReadHighAgain(c)
  <2>1. cpu[c].pc = "again" /\ UNCHANGED <<off, goal>>
    BY <1>5 DEF ReadHighAgain
  <2>2. CASE ~SameHigh(c)
    <3>1. cpu'[c].pc = "hi" /\ cpu'[c].op = cpu[c].op /\ cpu'[c].ts = cpu[c].ts
      BY <1>0, <1>5, <2>2 DEF ReadHighAgain, CpuState
    <3>2. Quiet(c)
      BY <1>2, <2>1, <3>1 DEF Quiet, OffsetStored
    <3> QED BY <3>2, QuietKeeps
  <2>3. CASE SameHigh(c)
    <3>1. PICK t \in cpu[c].began .. mtime : t = cpu[c].vh * Half + cpu[c].vl
      BY <2>1, <2>3, RawInCall
    <3>2. Got(c, RawToTs(t))
      BY <1>5, <2>3, <3>1 DEF ReadHighAgain
    <3>3. t \in Nat /\ cpu[c].ts \in Ts
      BY <1>0 DEF CpuState
    <3>4. CASE cpu[c].op = "set"
      <4> DEFINE diff == Sub(cpu[c].ts, RawToTs(t))
      <4>1. RawToTs(t) \in Ts /\ RawToTs(t).nsec \in 0 .. Nsec - 1
        BY <3>3, RawNormal
      <4>2. cpu[c].ts.nsec \in 0 .. Nsec - 1
        BY <1>2, <2>1, <3>4 DEF OffsetStored
      <4>3. diff \in Ts /\ diff.nsec \in 1 - Nsec .. Nsec - 1
        <5> HIDE DEF diff
        <5>1. diff \in Ts
          BY <3>3, <4>1, TsTypes DEF diff
        <5>2. diff.nsec = cpu[c].ts.nsec - RawToTs(t).nsec
          BY Zenon DEF diff, Sub
        <5>3. Nsec \in Int /\ cpu[c].ts.nsec \in Int /\ RawToTs(t).nsec \in Int
          BY ClockAssumption, <4>1, <4>2
        <5> QED BY <4>1, <4>2, <5>1, <5>2, <5>3
      <4> HIDE DEF diff
      <4>4. Borrow(diff) \in Ts /\ Borrow(diff).nsec \in 1 - Nsec .. Nsec - 1
        BY <1>0, <4>3, BorrowNormal
      <4>5. PICK u \in {diff, Borrow(diff)} : GotState(c, u)
        BY <3>2, <3>4 DEF Got, diff
      <4> QED BY <1>5, <3>4, <4>3, <4>4, <4>5, StoreStarts
    <3>5. CASE cpu[c].op = "get"
      <4>1. GotState(c, RawToTs(t))
        BY <3>2, <3>5 DEF Got
      <4> QED BY <1>5, <3>5, <4>1, LoadStarts
    <3>6. CASE cpu[c].op \in {"mono", "tick"}
      <4>1. GotState(c, RawToTs(t))
        BY <3>2, <3>6 DEF Got
      <4>2. cpu'[c].pc \in {"ret", "cmph"} /\ cpu'[c].op = cpu[c].op
        BY <1>0, <3>6, <4>1, GotOwn
      <4>3. Quiet(c)
        BY <2>1, <3>6, <4>2 DEF Quiet
      <4> QED BY <4>3, QuietKeeps
    <3>7. cpu[c].op \in {"mono", "get", "set", "tick"}
      BY <1>0, <2>1 DEF IInv, HalvesOfCall, CpuState, Ops
    <3> QED BY <3>4, <3>5, <3>6, <3>7
  <2> QED BY <2>2, <2>3
<1>6. CASE WriteHigh(c) \/ WriteLow(c) \/ Return(c)
  <2>1. /\ cpu'[c] = User \/ (cpu'[c].pc = "cmpl" /\ cpu'[c].op = cpu[c].op /\ cpu[c].pc = "cmph")
        /\ cpu[c].pc # "store" /\ UNCHANGED <<off, goal>>
    BY <1>0, <1>6 DEF WriteHigh, WriteLow, Return, CpuState
  <2>2. cpu[c].pc = "cmph" => cpu[c].op = "tick"
    <3>1. TriggerSet(c)
      BY Zenon DEF IInv
    <3> QED BY <3>1 DEF TriggerSet
  <2>3. CASE cpu'[c] = User
    <3>1. cpu'[c].pc = "user" /\ cpu'[c].op = "none"
      BY <2>3 DEF User
    <3>2. Quiet(c)
      BY <2>1, <3>1, Zenon DEF Quiet
    <3> QED BY <3>2, QuietKeeps
  <2>4. CASE cpu'[c].pc = "cmpl" /\ cpu'[c].op = "tick"
    <3>1. Quiet(c)
      BY <2>1, <2>4, Zenon DEF Quiet
    <3> QED BY <3>1, QuietKeeps
  <2> QED BY <2>1, <2>2, <2>3, <2>4
<1> QED BY <1>3, <1>4, <1>5, <1>6, StoreGoesOn, LoadGoesOn DEF Step

\* For any number of CPUs, as long as the program sets normal times: what
\* k_clock_get_realtime returns is normal and is the time of the last set moved
\* by the clock, when no set overlaps with the get and the sets not with each
\* other.
THEOREM ClockRealtimeFollows ==
  ASSUME NormalTimes
  PROVE  ClockSpec => []RealtimeFollows
<1>1. ClockInit => OffsetInv
  <2> SUFFICES ASSUME ClockInit PROVE OffsetInv
    OBVIOUS
  <2>1. \A c \in Cpus : cpu[c] = User
    BY Zenon DEF ClockInit
  <2>2. OffsetKept
    <3>1. goal \subseteq Int /\ \A g \in goal : Ns(off) = g /\ off.nsec \in 0 .. Nsec - 1
      BY ClockAssumption DEF ClockInit, Ns, Zero
    <3> QED BY <3>1, Zenon DEF OffsetKept
  <2>3. ASSUME NEW c \in Cpus PROVE AloneApart(c) /\ OffsetStored(c) /\ OffsetGot(c)
    BY <2>1 DEF AloneApart, Getting, OffsetStored, OffsetGot, User
  <2> QED BY <2>2, <2>3 DEF OffsetInv
<1>2. IInv /\ OffsetInv /\ [ClockNext]_clockVars => OffsetInv'
  <2> SUFFICES ASSUME IInv, OffsetInv, [ClockNext]_clockVars PROVE OffsetInv'
    OBVIOUS
  <2>1. CASE ClockNext
    BY <2>1, OffsetStep
  <2>2. CASE UNCHANGED clockVars
    <3>1. UNCHANGED <<mtime, cpu, off, goal>>
      BY <2>2 DEF clockVars
    <3>2. OffsetKept'
      BY <3>1, Zenon DEF OffsetInv, OffsetKept, Storing
    <3>3. ASSUME NEW c \in Cpus PROVE AloneApart(c)' /\ OffsetStored(c)' /\ OffsetGot(c)'
      <4>1. AloneApart(c) /\ OffsetStored(c) /\ OffsetGot(c)
        BY DEF OffsetInv
      <4>2. AloneApart(c)'
        BY <3>1, <4>1, Zenon DEF AloneApart, Getting, Storing
      <4>3. OffsetStored(c)'
        BY <3>1, <4>1, Zenon DEF OffsetStored
      <4>4. OffsetGot(c)'
        BY <3>1, <4>1, Zenon DEF OffsetGot, SumSoFar
      <4> QED BY <4>2, <4>3, <4>4
    <3> QED BY <3>2, <3>3 DEF OffsetInv
  <2> QED BY <2>1, <2>2
<1>3. IInv /\ OffsetInv => RealtimeFollows
  <2> SUFFICES ASSUME IInv, OffsetInv, NEW c \in Cpus, NEW g \in goal,
                      cpu[c].pc = "ret" /\ cpu[c].op = "get" /\ cpu[c].alone
               PROVE  /\ cpu[c].ts.nsec \in 0 .. Nsec - 1
                      /\ Ns(cpu[c].ts) - g \in Ns(RawToTs(cpu[c].began)) .. Ns(RawToTs(mtime))
    BY DEF RealtimeFollows
  <2>1. OffsetGot(c)
    BY DEF OffsetInv
  <2>2. cpu[c].ts.nsec \in 0 .. Nsec - 1
    BY <2>1 DEF OffsetGot
  <2>3. PICK t \in cpu[c].began .. mtime : Ns(cpu[c].ts) = Ns(RawToTs(t)) + g
    BY <2>1 DEF OffsetGot
  <2>4. cpu[c].began \in Nat /\ mtime \in Nat /\ t \in Nat /\ cpu[c].began <= t /\ t <= mtime
    BY DEF IInv, ClockTypeOK, CpuState
  <2>5. /\ Ns(RawToTs(cpu[c].began)) \in Nat /\ Ns(RawToTs(t)) \in Nat /\ Ns(RawToTs(mtime)) \in Nat
        /\ Ns(RawToTs(cpu[c].began)) <= Ns(RawToTs(t)) /\ Ns(RawToTs(t)) <= Ns(RawToTs(mtime))
    BY <2>4, RawMonotone
  <2>6. g \in Int
    BY Zenon DEF OffsetInv, OffsetKept
  <2>7. Ns(cpu[c].ts) - g = Ns(RawToTs(t))
    BY <2>3, <2>5, <2>6
  <2> QED BY <2>2, <2>5, <2>7
<1> QED BY <1>1, <1>2, <1>3, ClockInvariant, PTL DEF ClockSpec
=============================================================================
