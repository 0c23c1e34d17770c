---------------------------- MODULE FutexProofs -----------------------------
(***************************************************************************)
(* Proofs about Futex, for any number of cores, words, values and bits.    *)
(***************************************************************************)
EXTENDS Futex, TLAPS

\* The initial state, with every slot empty and every CPU in user space,
\* satisfies the inductive invariant.
LEMMA FutexInit == Init => IInv
  BY FutexAssumption DEF Init, IInv, TypeOK, SlotIsCall, LoopBounds, NoLostWakeup,
     StaleSleeperCovered, Sleeping, Waiting, NoFutex, Cpus, Pcs, Waits

\* The slot that a turn of k_cpu_futex_wake marks is that of another CPU,
\* which is in k_cpu_futex_wait.
LEMMA Marking ==
  ASSUME TypeOK, SlotIsCall, NEW c \in Cpus, WakeMark(c)
  PROVE  /\ idx[c] \in Cpus
         /\ idx[c] # c
         /\ Waiting(idx[c]) \/ pc[idx[c]] = "wait_clear"
<1> DEFINE d == idx[c]
<1>1. d \in Cpus
  BY FutexAssumption DEF WakeMark, InLoop, Cpus, TypeOK
<1>2. d # c
  BY DEF WakeMark, Skipped
<1>3. futex[d].uaddr # NULL
  <2>1. req[c].uaddr \in Addrs
    BY DEF WakeMark, Goto, TypeOK
  <2> QED BY <2>1, FutexAssumption DEF WakeMark, Skipped
<1>4. Waiting(d) \/ pc[d] = "wait_clear"
  BY <1>1, <1>3, SMTT(30) DEF SlotIsCall, NoFutex
<1> QED BY <1>1, <1>2, <1>4

\* Every step of k_cpu_futex_wait, k_cpu_futex_wake and their callers keeps
\* the types.
LEMMA FutexTypes ==
  ASSUME TypeOK, SlotIsCall, LoopBounds, NEW c \in Cpus, Kernel(c) \/ User(c)
  PROVE  TypeOK'
<1> USE FutexAssumption DEF TypeOK, Pcs, Waits, Goto, NoFutex
<1>1. CASE Store(c)          BY <1>1 DEF Store
<1>2. CASE PostWake(c)       BY <1>2 DEF PostWake
<1>3. CASE CallWake(c)       BY <1>3 DEF CallWake
<1>4. CASE CallWait(c)       BY <1>4 DEF CallWait
<1>5. CASE UserInterrupt(c)  BY <1>5 DEF UserInterrupt
<1>6. CASE WaitRegister(c)   BY <1>6 DEF WaitRegister
<1>7. CASE WaitTestWakeup(c) BY <1>7 DEF WaitTestWakeup
<1>8. CASE WaitMismatch(c)   BY <1>8 DEF WaitMismatch, EWOULDBLOCK
<1>9. CASE WaitSleep(c)      BY <1>9 DEF WaitSleep
<1>10. CASE WaitWfi(c)       BY <1>10 DEF WaitWfi
<1>11. CASE WaitTick(c)      BY <1>11 DEF WaitTick
<1>12. CASE WaitClear(c)     BY <1>12 DEF WaitClear, Return
<1>13. CASE WakeSkip(c)      BY <1>13, SMTT(30) DEF WakeSkip, InLoop
<1>14. CASE WakeMark(c)      BY <1>14, Marking, ZenonT(30) DEF WakeMark
<1>15. CASE WakeIpi(c)
  <2>1. idx[c] \in 0 .. NumCores /\ idx[c] < NumCores
    BY <1>15 DEF WakeIpi, LoopBounds
  <2>2. idx' \in [Cpus -> 0 .. NumCores] /\ res' \in [Cpus -> Int]
    BY <1>15, <2>1 DEF WakeIpi
  <2>3. msip' \in [Cpus -> BOOLEAN]
    BY <1>15, ZenonT(30) DEF WakeIpi
  <2> QED BY <1>15, <2>2, <2>3 DEF WakeIpi
<1>16. CASE WakeReturn(c)    BY <1>16 DEF WakeReturn, Return, InLoop
<1> QED
  BY ZenonT(30), <1>1, <1>2, <1>3, <1>4, <1>5, <1>6, <1>7, <1>8, <1>9, <1>10, <1>11, <1>12,
     <1>13, <1>14, <1>15, <1>16 DEF Kernel, User

\* A slot is only ever written by the two locked sections of its own CPU's
\* k_cpu_futex_wait, except for the wakeup flag.
LEMMA FutexSlots ==
  ASSUME TypeOK, SlotIsCall, NEW c \in Cpus, Kernel(c) \/ User(c)
  PROVE  SlotIsCall'
<1> USE DEF TypeOK, SlotIsCall, Waiting, Goto, NoFutex
<1>1. CASE Store(c)          BY <1>1 DEF Store
<1>2. CASE PostWake(c)       BY <1>2 DEF PostWake
<1>3. CASE CallWake(c)       BY <1>3 DEF CallWake
<1>4. CASE CallWait(c)       BY <1>4 DEF CallWait
<1>5. CASE UserInterrupt(c)  BY <1>5 DEF UserInterrupt
<1>6. CASE WaitRegister(c)   BY <1>6, Zenon DEF WaitRegister
<1>7. CASE WaitTestWakeup(c) BY <1>7 DEF WaitTestWakeup
<1>8. CASE WaitMismatch(c)   BY <1>8 DEF WaitMismatch
<1>9. CASE WaitSleep(c)      BY <1>9 DEF WaitSleep
<1>10. CASE WaitWfi(c)       BY <1>10 DEF WaitWfi
<1>11. CASE WaitTick(c)      BY <1>11 DEF WaitTick
<1>12. CASE WaitClear(c)     BY <1>12, Zenon DEF WaitClear, Return
<1>13. CASE WakeSkip(c)      BY <1>13 DEF WakeSkip
<1>14. CASE WakeMark(c)
  <2> SUFFICES ASSUME NEW e \in Cpus
               PROVE  IF Waiting(e)' \/ pc'[e] = "wait_clear"
                        THEN futex'[e] = req'[e]
                        ELSE futex'[e] = NoFutex /\ ~wakeup'[e]
    BY Zenon
  <2>1. UNCHANGED <<futex, req>>
    BY <1>14 DEF WakeMark
  <2>2. CASE e = c
    BY <1>14, <2>1, <2>2, Marking, ZenonT(30) DEF WakeMark
  <2>3. CASE e # c
    <3>1. pc'[e] = pc[e]
      BY <1>14, <2>3 DEF WakeMark
    <3>2. e # idx[c] => wakeup'[e] = wakeup[e]
      BY <1>14, Marking DEF WakeMark
    <3> QED BY <1>14, <2>1, <3>1, <3>2, Marking
  <2> QED BY <2>2, <2>3
<1>15. CASE WakeIpi(c)       BY <1>15 DEF WakeIpi
<1>16. CASE WakeReturn(c)    BY <1>16, SMTT(30) DEF WakeReturn, Return
<1> QED
  BY Zenon, <1>1, <1>2, <1>3, <1>4, <1>5, <1>6, <1>7, <1>8, <1>9, <1>10, <1>11, <1>12,
     <1>13, <1>14, <1>15, <1>16 DEF Kernel, User

\* The loop counters of k_cpu_futex_wake stay within their bounds.
LEMMA FutexLoops ==
  ASSUME TypeOK, LoopBounds, NEW c \in Cpus, Kernel(c) \/ User(c)
  PROVE  LoopBounds'
<1> USE DEF TypeOK, LoopBounds, Goto
<1>1. CASE Store(c)          BY <1>1 DEF Store
<1>2. CASE PostWake(c)       BY <1>2 DEF PostWake
<1>3. CASE CallWake(c)       BY <1>3 DEF CallWake
<1>4. CASE CallWait(c)       BY <1>4 DEF CallWait
<1>5. CASE UserInterrupt(c)  BY <1>5 DEF UserInterrupt
<1>6. CASE WaitRegister(c)   BY <1>6 DEF WaitRegister
<1>7. CASE WaitTestWakeup(c) BY <1>7 DEF WaitTestWakeup
<1>8. CASE WaitMismatch(c)   BY <1>8 DEF WaitMismatch
<1>9. CASE WaitSleep(c)      BY <1>9 DEF WaitSleep
<1>10. CASE WaitWfi(c)       BY <1>10 DEF WaitWfi
<1>11. CASE WaitTick(c)      BY <1>11 DEF WaitTick
<1>12. CASE WaitClear(c)     BY <1>12 DEF WaitClear, Return
<1>13. CASE WakeSkip(c)      BY <1>13 DEF WakeSkip
<1>14. CASE WakeMark(c)      BY <1>14 DEF WakeMark, InLoop, Skipped
<1>15. CASE WakeIpi(c)       BY <1>15 DEF WakeIpi
<1>16. CASE WakeReturn(c)    BY <1>16 DEF WakeReturn, Return
<1> QED
  BY <1>1, <1>2, <1>3, <1>4, <1>5, <1>6, <1>7, <1>8, <1>9, <1>10, <1>11, <1>12,
     <1>13, <1>14, <1>15, <1>16 DEF Kernel, User
\* No step takes the IPI away from a task that is going to sleep marked, and
\* none marks a slot without going on to raise the IPI.
LEMMA FutexWakeups ==
  ASSUME TypeOK, SlotIsCall, LoopBounds, NoLostWakeup,
         NEW c \in Cpus, Kernel(c) \/ User(c)
  PROVE  NoLostWakeup'
<1> SUFFICES ASSUME NEW e \in Cpus, pc'[e] \in {"wait_val", "wait_wfi"}, wakeup'[e]
             PROVE  msip'[e] \/ \E d \in Cpus : pc'[d] = "wake_ipi" /\ idx'[d] = e
  BY DEF NoLostWakeup
<1> USE DEF TypeOK, NoLostWakeup, Goto
<1>1. CASE Store(c)          BY <1>1 DEF Store
<1>2. CASE PostWake(c)       BY <1>2 DEF PostWake
<1>3. CASE CallWake(c)       BY <1>3 DEF CallWake
<1>4. CASE CallWait(c)       BY <1>4 DEF CallWait
<1>5. CASE UserInterrupt(c)  BY <1>5 DEF UserInterrupt
<1>6. CASE WaitRegister(c)   BY <1>6 DEF WaitRegister
<1>7. CASE WaitTestWakeup(c) BY <1>7 DEF WaitTestWakeup
<1>8. CASE WaitMismatch(c)   BY <1>8 DEF WaitMismatch
<1>9. CASE WaitSleep(c)      BY <1>9 DEF WaitSleep
<1>10. CASE WaitWfi(c)       BY <1>10 DEF WaitWfi
<1>11. CASE WaitTick(c)      BY <1>11 DEF WaitTick
<1>12. CASE WaitClear(c)     BY <1>12 DEF WaitClear, Return
<1>13. CASE WakeSkip(c)      BY <1>13 DEF WakeSkip
<1>14. CASE WakeMark(c)
  <2>1. CASE e = idx[c]
    BY <1>14, <2>1 DEF WakeMark
  <2>2. CASE e # idx[c]
    BY <1>14, <2>2 DEF WakeMark
  <2> QED BY <2>1, <2>2
<1>15. CASE WakeIpi(c)
  <2>1. CASE e = idx[c]
    BY <1>15, <2>1 DEF WakeIpi
  <2>2. CASE e # idx[c]
    BY <1>15, <2>2 DEF WakeIpi
  <2> QED BY <2>1, <2>2
<1>16. CASE WakeReturn(c)    BY <1>16, SMTT(30) DEF WakeReturn, Return
<1> QED
  BY <1>1, <1>2, <1>3, <1>4, <1>5, <1>6, <1>7, <1>8, <1>9, <1>10, <1>11, <1>12,
     <1>13, <1>14, <1>15, <1>16 DEF Kernel, User

\* The start of a call is no step of a task that sleeps.
LEMMA CallKeeps ==
  ASSUME TypeOK, NEW c \in Cpus, NEW e \in Cpus, CallWake(c) \/ CallWait(c), pc'[e] = "wait_wfi"
  PROVE  /\ e # c /\ pc[e] = "wait_wfi" /\ req'[e] = req[e]
         /\ mem' = mem /\ wakeup' = wakeup
<1>1. \E r : req' = [req EXCEPT ![c] = r]
  BY Zenon DEF CallWake, CallWait
<1>3. \E to \in {"wake_scan", "wait_register"} : pc' = [pc EXCEPT ![c] = to]
  BY Zenon DEF CallWake, CallWait, Goto
<1>4. mem' = mem /\ wakeup' = wakeup
  BY DEF CallWake, CallWait
<1>2. DOMAIN pc = Cpus /\ DOMAIN req = Cpus /\ pc = [d \in Cpus |-> pc[d]] /\ req = [d \in Cpus |-> req[d]]
  BY Zenon DEF TypeOK
<1> QED BY <1>1, <1>2, <1>3, <1>4, Zenon

\* A task that sleeps on a changed word stays within reach of a wake: the
\* store is followed by a wake that looks at all slots, and that wake cannot
\* pass the slot of the sleeper without marking it.
LEMMA FutexStale ==
  ASSUME TypeOK, SlotIsCall, LoopBounds, StaleSleeperCovered,
         NEW c \in Cpus, Kernel(c) \/ User(c)
  PROVE  StaleSleeperCovered'
<1> SUFFICES ASSUME \A n \in WakeCounts : n >= NumCores,
                    NEW e \in Cpus, Sleeping(e)', Changed(e)'
             PROVE  wakeup'[e] \/ \E d \in Cpus : WakeAllAhead(d, e)'
  BY DEF StaleSleeperCovered
<1>0. ASSUME Sleeping(e), Changed(e), wakeup[e] => wakeup'[e],
             \A d \in Cpus : WakeAllAhead(d, e) => WakeAllAhead(d, e)'
      PROVE  wakeup'[e] \/ \E d \in Cpus : WakeAllAhead(d, e)'
  BY <1>0 DEF StaleSleeperCovered
<1> USE DEF TypeOK, StaleSleeperCovered, Sleeping, Changed, WakeAllAhead, Goto
<1>1. CASE Store(c)
  <2>1. e # c /\ Sleeping(e) /\ req'[e] = req[e] /\ UNCHANGED wakeup
    BY <1>1 DEF Store
  <2>2. CASE Changed(e)
    <3>1. CASE wakeup[e]
      BY <2>1, <3>1
    <3>2. CASE ~wakeup[e]
      <4>1. PICK d \in Cpus : WakeAllAhead(d, e)
        BY <2>1, <2>2, <3>2, SMTT(30)
      <4>2. WakeAllAhead(d, e)'
        BY <1>1, <2>1, <4>1 DEF Store
      <4> QED BY <4>2
    <3> QED BY <3>1, <3>2
  <2>3. CASE ~Changed(e)
    <3>1. pc'[c] = "post" /\ req'[c].uaddr = req'[e].uaddr
      BY <1>1, <2>1, <2>3 DEF Store
    <3> QED BY <3>1
  <2> QED BY <2>2, <2>3
<1>2. CASE PostWake(c)
  <2>1. /\ e # c /\ Sleeping(e) /\ Changed(e)
        /\ req'[e] = req[e] /\ (wakeup[e] => wakeup'[e])
    BY <1>2 DEF PostWake
  <2>2. CASE wakeup[e]
    BY <2>1, <2>2
  <2>3. CASE ~wakeup[e]
    <3>1. PICK d \in Cpus : WakeAllAhead(d, e)
      BY <2>1, <2>3
    <3>2. CASE d # c
      <4>1. WakeAllAhead(d, e)'
        BY <1>2, <2>1, <3>1, <3>2 DEF PostWake
      <4> QED BY <4>1
    <3>3. CASE d = c
      <4>1. idx[c] = 0 /\ 0 <= e
        <5>1. idx[c] = 0
          BY <1>2, SMTT(30) DEF PostWake, LoopBounds
        <5>2. 0 <= e
          BY FutexAssumption DEF Cpus
        <5> QED BY <5>1, <5>2
      <4>2. req[c].uaddr = req[e].uaddr
        BY <1>2, <3>1, <3>3 DEF PostWake
      <4>3. PICK n \in WakeCounts : req'[c] = [uaddr |-> req[c].uaddr, val |-> n, bitset |-> Bits]
        BY <1>2 DEF PostWake
      <4>4. n >= NumCores /\ pc'[c] = "wake_scan" /\ idx'[c] <= e
        BY <1>2, <4>1, <4>3 DEF PostWake
      <4>5. WakeAllAhead(c, e)'
        BY <2>1, <4>2, <4>3, <4>4, SMTT(30)
      <4> QED BY <4>5
    <3> QED BY <3>2, <3>3
  <2> QED BY <2>2, <2>3
<1>3. CASE CallWake(c)
  <2>1. Sleeping(e) /\ Changed(e) /\ req'[e] = req[e] /\ (wakeup[e] => wakeup'[e])
    <3> HIDE DEF TypeOK, StaleSleeperCovered, WakeAllAhead, Goto
    <3> QED BY <1>3, CallKeeps
  <2>2. \A d \in Cpus : WakeAllAhead(d, e) => WakeAllAhead(d, e)'
    BY <1>3, <2>1 DEF CallWake
  <2> QED BY <2>1, <2>2, <1>0
<1>4. CASE CallWait(c)
  <2>1. Sleeping(e) /\ Changed(e) /\ req'[e] = req[e] /\ (wakeup[e] => wakeup'[e])
    <3> HIDE DEF TypeOK, StaleSleeperCovered, WakeAllAhead, Goto
    <3> QED BY <1>4, CallKeeps
  <2>2. \A d \in Cpus : WakeAllAhead(d, e) => WakeAllAhead(d, e)'
    BY <1>4, <2>1 DEF CallWait
  <2> QED BY <2>1, <2>2, <1>0
<1>5. CASE UserInterrupt(c)
  <2>1. Sleeping(e) /\ Changed(e) /\ req'[e] = req[e] /\ (wakeup[e] => wakeup'[e])
    BY <1>5 DEF UserInterrupt
  <2>2. \A d \in Cpus : WakeAllAhead(d, e) => WakeAllAhead(d, e)'
    BY <1>5, <2>1 DEF UserInterrupt
  <2> QED BY <2>1, <2>2, <1>0
<1>6. CASE WaitRegister(c)
  <2>1. Sleeping(e) /\ Changed(e) /\ req'[e] = req[e] /\ (wakeup[e] => wakeup'[e])
    BY <1>6 DEF WaitRegister
  <2>2. \A d \in Cpus : WakeAllAhead(d, e) => WakeAllAhead(d, e)'
    BY <1>6, <2>1 DEF WaitRegister
  <2> QED BY <2>1, <2>2, <1>0
<1>7. CASE WaitTestWakeup(c)
  <2>1. Sleeping(e) /\ Changed(e) /\ req'[e] = req[e] /\ (wakeup[e] => wakeup'[e])
    BY <1>7 DEF WaitTestWakeup
  <2>2. \A d \in Cpus : WakeAllAhead(d, e) => WakeAllAhead(d, e)'
    BY <1>7, <2>1 DEF WaitTestWakeup
  <2> QED BY <2>1, <2>2, <1>0
<1>8. CASE WaitMismatch(c)
  <2>1. Sleeping(e) /\ Changed(e) /\ req'[e] = req[e] /\ (wakeup[e] => wakeup'[e])
    BY <1>8 DEF WaitMismatch
  <2>2. \A d \in Cpus : WakeAllAhead(d, e) => WakeAllAhead(d, e)'
    BY <1>8, <2>1 DEF WaitMismatch
  <2> QED BY <2>1, <2>2, <1>0
<1>9. CASE WaitSleep(c)
  <2>1. e # c
    BY <1>9 DEF WaitSleep, SlotIsCall, Waiting
  <2>2. Sleeping(e) /\ Changed(e) /\ req'[e] = req[e] /\ (wakeup[e] => wakeup'[e])
    BY <1>9, <2>1 DEF WaitSleep
  <2>3. \A d \in Cpus : WakeAllAhead(d, e) => WakeAllAhead(d, e)'
    BY <1>9, <2>2 DEF WaitSleep
  <2> QED BY <2>2, <2>3, <1>0
<1>10. CASE WaitWfi(c)
  <2>1. Sleeping(e) /\ Changed(e) /\ req'[e] = req[e] /\ (wakeup[e] => wakeup'[e])
    BY <1>10 DEF WaitWfi
  <2>2. \A d \in Cpus : WakeAllAhead(d, e) => WakeAllAhead(d, e)'
    BY <1>10, <2>1 DEF WaitWfi
  <2> QED BY <2>1, <2>2, <1>0
<1>11. CASE WaitTick(c)
  <2>1. Sleeping(e) /\ Changed(e) /\ req'[e] = req[e] /\ (wakeup[e] => wakeup'[e])
    BY <1>11 DEF WaitTick
  <2>2. \A d \in Cpus : WakeAllAhead(d, e) => WakeAllAhead(d, e)'
    BY <1>11, <2>1 DEF WaitTick
  <2> QED BY <2>1, <2>2, <1>0
<1>12. CASE WaitClear(c)
  <2>1. Sleeping(e) /\ Changed(e) /\ req'[e] = req[e] /\ (wakeup[e] => wakeup'[e])
    BY <1>12 DEF WaitClear, Return
  <2>2. \A d \in Cpus : WakeAllAhead(d, e) => WakeAllAhead(d, e)'
    BY <1>12, <2>1 DEF WaitClear, Return
  <2> QED BY <2>1, <2>2, <1>0
<1>13. CASE WakeSkip(c)
  <2>1. /\ e # c /\ Sleeping(e) /\ Changed(e)
        /\ req'[e] = req[e] /\ (wakeup[e] => wakeup'[e])
    BY <1>13 DEF WakeSkip
  <2>2. CASE wakeup[e]
    BY <2>1, <2>2
  <2>3. CASE ~wakeup[e]
    <3>1. PICK d \in Cpus : WakeAllAhead(d, e)
      BY <2>1, <2>3
    <3>2. CASE d # c
      <4>1. WakeAllAhead(d, e)'
        BY <1>13, <2>1, <3>1, <3>2 DEF WakeSkip
      <4> QED BY <4>1
    <3>3. CASE d = c
      <4>1. idx[c] <= e /\ req[c].uaddr = req[e].uaddr /\ req[c].bitset = Bits
        BY <1>13, <3>1, <3>3 DEF WakeSkip
      <4>2. futex[e] = req[e]
        BY <2>1 DEF SlotIsCall, Waiting
      <4>3. req[e].bitset # {} /\ req[e].bitset \in SUBSET Bits
        BY <2>1, ZenonT(30)
      <4>4. ~Skipped(c, e)
        BY <2>1, <4>1, <4>2, <4>3 DEF Skipped
      <4>5. idx[c] # e
        BY <1>13, <4>4 DEF WakeSkip
      <4>6. idx'[c] <= e
        BY <1>13, <4>1, <4>5, FutexAssumption DEF WakeSkip, Cpus
      <4>7. WakeAllAhead(c, e)'
        BY <1>13, <2>1, <3>1, <3>3, <4>6 DEF WakeSkip
      <4> QED BY <4>7
    <3> QED BY <3>2, <3>3
  <2> QED BY <2>2, <2>3
<1>14. CASE WakeMark(c)
  <2>1. /\ e # c /\ Sleeping(e) /\ Changed(e)
        /\ req'[e] = req[e] /\ (wakeup[e] => wakeup'[e])
    BY <1>14, Marking, SMTT(30) DEF WakeMark
  <2>2. CASE wakeup[e]
    BY <2>1, <2>2
  <2>3. CASE ~wakeup[e]
    <3>1. PICK d \in Cpus : WakeAllAhead(d, e)
      BY <2>1, <2>3
    <3>2. CASE d # c
      <4>1. WakeAllAhead(d, e)'
        BY <1>14, <2>1, <3>1, <3>2 DEF WakeMark
      <4> QED BY <4>1
    <3>3. CASE d = c
      <4>1. CASE idx[c] = e
        BY <1>14, <4>1, SMTT(30) DEF WakeMark
      <4>2. CASE idx[c] # e
        <5>1. idx[c] < e
          BY <1>14, <3>1, <3>3, <4>2, FutexAssumption, SMTT(30) DEF WakeMark, Cpus
        <5>2. WakeAllAhead(c, e)'
          BY <1>14, <2>1, <3>1, <3>3, <5>1 DEF WakeMark
        <5> QED BY <5>2
      <4> QED BY <4>1, <4>2
    <3> QED BY <3>2, <3>3
  <2> QED BY <2>2, <2>3
<1>15. CASE WakeIpi(c)
  <2>1. /\ e # c /\ Sleeping(e) /\ Changed(e)
        /\ req'[e] = req[e] /\ (wakeup[e] => wakeup'[e])
    BY <1>15, SMTT(30) DEF WakeIpi
  <2>2. CASE wakeup[e]
    BY <2>1, <2>2
  <2>3. CASE ~wakeup[e]
    <3>1. PICK d \in Cpus : WakeAllAhead(d, e)
      BY <2>1, <2>3
    <3>2. CASE d # c
      <4>1. WakeAllAhead(d, e)'
        BY <1>15, <2>1, <3>1, <3>2 DEF WakeIpi
      <4> QED BY <4>1
    <3>3. CASE d = c
      <4>1. idx[c] < e
        BY <1>15, <3>1, <3>3 DEF WakeIpi
      <4>2. idx'[c] <= e
        BY <1>15, <4>1, FutexAssumption DEF WakeIpi, Cpus
      <4>3. WakeAllAhead(c, e)'
        BY <1>15, <2>1, <3>1, <3>3, <4>2 DEF WakeIpi
      <4> QED BY <4>3
    <3> QED BY <3>2, <3>3
  <2> QED BY <2>2, <2>3
<1>16. CASE WakeReturn(c)
  <2>1. /\ e # c /\ Sleeping(e) /\ Changed(e)
        /\ req'[e] = req[e] /\ (wakeup[e] => wakeup'[e])
    BY <1>16, SMTT(30) DEF WakeReturn, Return
  <2>2. CASE wakeup[e]
    BY <2>1, <2>2
  <2>3. CASE ~wakeup[e]
    <3>1. PICK d \in Cpus : WakeAllAhead(d, e)
      BY <2>1, <2>3
    <3>2. CASE d # c
      <4>1. WakeAllAhead(d, e)'
        BY <1>16, <2>1, <3>1, <3>2 DEF WakeReturn, Return
      <4> QED BY <4>1
    <3>3. CASE d = c
      <4>1. idx[c] <= e /\ req[c].val >= NumCores /\ res[c] <= idx[c]
        BY <1>16, <3>1, <3>3 DEF WakeReturn, Return, LoopBounds
      <4>2. InLoop(c)
        BY <1>16, <4>1, FutexAssumption, SMTT(30) DEF WakeReturn, Return, InLoop, Cpus
      <4> QED BY <1>16, <4>2 DEF WakeReturn
    <3> QED BY <3>2, <3>3
  <2> QED BY <2>2, <2>3
<1> QED
  BY <1>1, <1>2, <1>3, <1>4, <1>5, <1>6, <1>7, <1>8, <1>9, <1>10, <1>11, <1>12,
     <1>13, <1>14, <1>15, <1>16 DEF Kernel, User
\* The inductive invariant holds in every state of the futex call.
THEOREM FutexInvariant == Spec => []IInv
<1>1. IInv /\ [Next]_vars => IInv'
  <2> SUFFICES ASSUME IInv, [Next]_vars PROVE IInv'
    OBVIOUS
  <2>1. CASE Next
    BY <2>1, FutexTypes, FutexSlots, FutexLoops, FutexWakeups, FutexStale DEF Next, IInv
  <2>2. CASE UNCHANGED vars
    BY <2>2 DEF vars, IInv, TypeOK, SlotIsCall, Waiting, LoopBounds, NoLostWakeup,
       StaleSleeperCovered, Sleeping, Changed, WakeAllAhead
  <2> QED BY <2>1, <2>2
<1> QED BY FutexInit, <1>1, PTL DEF Spec

\* No wakeup of k_cpu_futex_wake is lost between the test of the flag and wfi
\* in k_cpu_futex_wait, for any number of cores and any program.
THEOREM FutexNoLostWakeup == Spec => []NoLostWakeup
<1>1. IInv => NoLostWakeup
  BY DEF IInv
<1> QED BY FutexInvariant, <1>1, PTL

\* No task is left asleep on a changed word when the program wakes all the
\* waiters after it has stored.
THEOREM FutexStaleSleeperCovered == Spec => []StaleSleeperCovered
<1>1. IInv => StaleSleeperCovered
  BY DEF IInv
<1> QED BY FutexInvariant, <1>1, PTL
-----------------------------------------------------------------------------
(* The slots, scans and IPIs implement the call that FutexAbs describes.   *)

Wait == [c \in Cpus |-> AbsWait(c)]
Wake == [c \in Cpus |-> AbsWake(c)]

\* The abstract calls of a CPU are a function of its own pc, request and mark.
LEMMA SameCall ==
  ASSUME NEW e \in Cpus, pc'[e] = pc[e], req'[e] = req[e], wakeup'[e] = wakeup[e]
  PROVE  AbsWait(e)' = AbsWait(e) /\ AbsWake(e)' = AbsWake(e)
  BY DEF AbsWait, AbsWake, Waiting

\* A step that leaves the abstract calls of all CPUs and the words alone is
\* no step of the abstract futex.
LEMMA Stutter ==
  ASSUME mem' = mem,
         \A e \in Cpus : AbsWait(e)' = AbsWait(e) /\ AbsWake(e)' = AbsWake(e)
  PROVE  UNCHANGED Abs!vars
<1>1. Wait' = Wait /\ Wake' = Wake
  BY Zenon DEF Wait, Wake
<1> QED BY <1>1, Zenon DEF Abs!vars, Wait, Wake

\* One that changes them for one CPU only is an update of its entry.
LEMMA OneWait ==
  ASSUME NEW c \in Cpus, NEW w, AbsWait(c)' = w,
         \A e \in Cpus : (e # c => AbsWait(e)' = AbsWait(e)) /\ AbsWake(e)' = AbsWake(e)
  PROVE  Wait' = [Wait EXCEPT ![c] = w] /\ Wake' = Wake
  BY Zenon DEF Wait, Wake

\* The same for the wake calls.
LEMMA OneWake ==
  ASSUME NEW c \in Cpus, NEW w, AbsWake(c)' = w,
         \A e \in Cpus : (e # c => AbsWake(e)' = AbsWake(e)) /\ AbsWait(e)' = AbsWait(e)
  PROVE  Wake' = [Wake EXCEPT ![c] = w] /\ Wait' = Wait
  BY Zenon DEF Wait, Wake

\* A CPU in a call has the address of it.
LEMMA InCall ==
  ASSUME TypeOK, NEW c \in Cpus, pc[c] # "user"
  PROVE  req[c].uaddr \in Addrs
  BY Zenon DEF TypeOK

\* Only k_cpu_futex_wake, when it marks a slot, changes the call of another
\* CPU.
LEMMA OthersKept ==
  ASSUME TypeOK, NEW c \in Cpus, NEW e \in Cpus, e # c, Kernel(c) \/ User(c), ~WakeMark(c)
  PROVE  AbsWait(e)' = AbsWait(e) /\ AbsWake(e)' = AbsWake(e)
<1>1. pc'[e] = pc[e] /\ req'[e] = req[e] /\ wakeup'[e] = wakeup[e]
  BY Zenon DEF TypeOK, Kernel, User, Goto, Store, PostWake, CallWake, CallWait, UserInterrupt,
     WaitRegister, WaitTestWakeup, WaitMismatch, WaitSleep, WaitWfi, WaitTick, WaitClear,
     WakeSkip, WakeIpi, WakeReturn, Return
<1> QED BY <1>1, SameCall

\* The steps of k_cpu_futex_wait between the registration and the return,
\* and those of k_cpu_futex_wake that mark nobody.
LEMMA OwnKept ==
  ASSUME IInv, NEW c \in Cpus,
         \/ UserInterrupt(c) \/ WaitRegister(c) \/ WaitTestWakeup(c) \/ WaitSleep(c)
         \/ WaitWfi(c) \/ WaitTick(c) \/ WakeSkip(c) \/ WakeIpi(c)
  PROVE  AbsWait(c)' = AbsWait(c) /\ AbsWake(c)' = AbsWake(c) /\ mem' = mem
<1> USE DEF IInv, TypeOK, Goto, AbsWait, AbsWake, Waits, Waiting
<1>1. CASE UserInterrupt(c)  BY <1>1 DEF UserInterrupt
<1>2. CASE WaitRegister(c)   BY <1>2, Zenon DEF WaitRegister
<1>3. CASE WaitTestWakeup(c) BY <1>3, Zenon DEF WaitTestWakeup
<1>4. CASE WaitSleep(c)      BY <1>4 DEF WaitSleep
<1>5. CASE WaitWfi(c)        BY <1>5, Zenon DEF WaitWfi
<1>6. CASE WaitTick(c)       BY <1>6 DEF WaitTick
<1>7. CASE WakeSkip(c)       BY <1>7, Zenon DEF WakeSkip
<1>8. CASE WakeIpi(c)        BY <1>8, Zenon DEF WakeIpi
<1> QED BY <1>1, <1>2, <1>3, <1>4, <1>5, <1>6, <1>7, <1>8, Zenon

\* User space: a store, and the beginning of a wait or a wake.
LEMMA UserStep ==
  ASSUME IInv, NEW c \in Cpus, Store(c) \/ PostWake(c) \/ CallWake(c) \/ CallWait(c)
  PROVE  Abs!Store(c) \/ Abs!BeginWake(c) \/ Abs!BeginWait(c)
<1> USE FutexAssumption DEF IInv, TypeOK, Goto, Waits
<1>1. \A e \in Cpus : e # c => AbsWait(e)' = AbsWait(e) /\ AbsWake(e)' = AbsWake(e)
  <2>1. ~WakeMark(c)
    BY DEF WakeMark, Store, PostWake, CallWake, CallWait
  <2> HIDE DEF TypeOK, Goto, Waits
  <2>2. TypeOK /\ (Kernel(c) \/ User(c))
    BY Zenon DEF Kernel, User
  <2> QED BY <2>1, <2>2, OthersKept, Zenon
<1>2. Abs!Idle(c)
  <2>1. pc[c] \in {"user", "post"}
    BY Zenon DEF Store, PostWake, CallWake, CallWait
  <2> HIDE DEF TypeOK, Goto
  <2> QED BY <2>1 DEF Abs!Idle, AbsWait, AbsWake, Abs!NoWait, Abs!NoWake
<1>3. CASE Store(c)
  <2>1. Wait' = Wait /\ Wake' = Wake
    BY <1>1, <1>3, Zenon DEF Store, Wait, Wake, AbsWait, AbsWake
  <2> QED BY <1>2, <1>3, <2>1, Zenon DEF Store, Abs!Store, Wait, Wake
<1>4. CASE PostWake(c) \/ CallWake(c)
  <2>1. PICK a \in Addrs, b \in (SUBSET Bits) \ {{}} :
          AbsWake(c)' = [uaddr |-> a, bitset |-> b] /\ AbsWait(c)' = AbsWait(c) /\ mem' = mem
    <3>1. CASE PostWake(c)
      <4>a. pc[c] = "post" /\ pc'[c] = "wake_scan"
        BY <3>1 DEF PostWake
      <4>b. req[c].uaddr \in Addrs
        BY <4>a, InCall
      <4>c. Bits \in (SUBSET Bits) \ {{}}
        OBVIOUS
      <4>d. req'[c].uaddr = req[c].uaddr /\ req'[c].bitset = Bits
        <5> HIDE DEF TypeOK, Goto, Waits
        <5>1. PICK n \in WakeCounts :
                req' = [req EXCEPT ![c] = [uaddr |-> req[c].uaddr, val |-> n, bitset |-> Bits]]
          BY <3>1, Zenon DEF PostWake
        <5>2. req = [d \in Cpus |-> req[d]]
          BY Zenon DEF IInv, TypeOK
        <5> QED BY <5>1, <5>2
      <4>1. /\ req[c].uaddr \in Addrs /\ Bits \in (SUBSET Bits) \ {{}}
            /\ pc[c] = "post" /\ pc'[c] = "wake_scan"
            /\ req'[c].uaddr = req[c].uaddr /\ req'[c].bitset = Bits
        BY <4>a, <4>b, <4>c, <4>d
      <4>2. AbsWake(c)' = [uaddr |-> req[c].uaddr, bitset |-> Bits] /\ AbsWait(c)' = AbsWait(c)
        BY <4>1, Zenon DEF AbsWait, AbsWake
      <4>3. mem' = mem
        BY <3>1, Zenon DEF PostWake
      <4> HIDE DEF TypeOK, Goto, Waits
      <4>4. PICK a \in Addrs, b \in (SUBSET Bits) \ {{}} : a = req[c].uaddr /\ b = Bits
        BY <4>1, Zenon
      <4>5. AbsWake(c)' = [uaddr |-> a, bitset |-> b] /\ AbsWait(c)' = AbsWait(c)
        BY <4>2, <4>4, Zenon
      <4> QED BY <4>3, <4>5, Zenon
    <3>2. CASE CallWake(c)
      <4>1. PICK a \in Addrs, n \in Counts, b \in (SUBSET Bits) \ {{}} :
              req' = [req EXCEPT ![c] = [uaddr |-> a, val |-> n, bitset |-> b]]
        BY <3>2, Zenon DEF CallWake
      <4>2. req'[c].uaddr = a /\ req'[c].bitset = b
        BY <4>1
      <4>3. pc[c] = "user" /\ pc'[c] = "wake_scan" /\ mem' = mem
        BY <3>2 DEF CallWake
      <4>4. AbsWake(c)' = [uaddr |-> a, bitset |-> b] /\ AbsWait(c)' = AbsWait(c)
        BY <4>2, <4>3, Zenon DEF AbsWait, AbsWake
      <4> QED BY <4>3, <4>4
    <3> QED BY <1>4, <3>1, <3>2
  <2>2. Wake' = [Wake EXCEPT ![c] = [uaddr |-> a, bitset |-> b]] /\ Wait' = Wait
    BY <1>1, <2>1, OneWake, Zenon
  <2> QED BY <1>2, <2>1, <2>2, Zenon DEF Abs!BeginWake, Wait, Wake
<1>5. CASE CallWait(c)
  <2>1. PICK a \in Addrs, v \in Vals, b \in (SUBSET Bits) \ {{}} :
          /\ AbsWait(c)' = [st |-> "in", uaddr |-> a, val |-> v, bitset |-> b]
          /\ AbsWake(c)' = AbsWake(c) /\ mem' = mem
    <3>1. PICK a \in Addrs, v \in Vals, b \in (SUBSET Bits) \ {{}} :
            req' = [req EXCEPT ![c] = [uaddr |-> a, val |-> v, bitset |-> b]]
      BY <1>5, Zenon DEF CallWait
    <3>2. req'[c].uaddr = a /\ req'[c].val = v /\ req'[c].bitset = b
      BY <3>1
    <3>3. pc[c] = "user" /\ pc'[c] = "wait_register" /\ mem' = mem
      BY <1>5 DEF CallWait
    <3>4. /\ AbsWait(c)' = [st |-> "in", uaddr |-> a, val |-> v, bitset |-> b]
          /\ AbsWake(c)' = AbsWake(c)
      BY <3>2, <3>3 DEF AbsWait, AbsWake, Waiting
    <3> QED BY <3>3, <3>4, Zenon
  <2>2. /\ Wait' = [Wait EXCEPT ![c] = [st |-> "in", uaddr |-> a, val |-> v, bitset |-> b]]
        /\ Wake' = Wake
    BY <1>1, <2>1, OneWait, Zenon
  <2> QED BY <1>2, <2>1, <2>2, Zenon DEF Abs!BeginWait, Wait, Wake
<1> QED BY <1>3, <1>4, <1>5

\* k_cpu_futex_wait: a changed word is the cause of the return, the clearing
\* section is the end of the call.
LEMMA WaitStep ==
  ASSUME IInv, NEW c \in Cpus, WaitMismatch(c) \/ WaitClear(c)
  PROVE  Abs!Release(c) \/ Abs!EndWait(c) \/ UNCHANGED Abs!vars
<1> USE DEF IInv, TypeOK, Goto, Waits
<1>1. \A e \in Cpus : e # c => AbsWait(e)' = AbsWait(e) /\ AbsWake(e)' = AbsWake(e)
  BY OthersKept, Zenon DEF Kernel, User, WakeMark, WaitMismatch, WaitClear, Return
<1>2. AbsWake(c)' = AbsWake(c) /\ mem' = mem
  BY Zenon DEF WaitMismatch, WaitClear, Return, AbsWake
<1>3. CASE WaitMismatch(c) /\ wakeup[c]
  <2>1. AbsWait(c)' = AbsWait(c)
    BY <1>3 DEF WaitMismatch, AbsWait, Waiting
  <2> QED BY <1>1, <1>2, <2>1, Stutter
<1>4. CASE WaitMismatch(c) /\ ~wakeup[c]
  <2>1. mem[req[c].uaddr] # req[c].val
    BY <1>4 DEF WaitMismatch, SlotIsCall, Waiting
  <2>2. /\ AbsWait(c) = [st |-> "in", uaddr |-> req[c].uaddr, val |-> req[c].val,
                         bitset |-> req[c].bitset]
        /\ AbsWait(c)' = [AbsWait(c) EXCEPT !.st = "done"]
    BY <1>4 DEF WaitMismatch, AbsWait, Waiting
  <2>3. Wait' = [Wait EXCEPT ![c] = [AbsWait(c) EXCEPT !.st = "done"]] /\ Wake' = Wake
    BY <1>1, <1>2, <2>2, OneWait, Zenon
  <2>4. Wait' = [Wait EXCEPT ![c].st = "done"]
    BY <2>3 DEF Wait
  <2> QED BY <1>2, <2>1, <2>2, <2>3, <2>4 DEF Abs!Release, Wait, Wake
<1>5. CASE WaitClear(c)
  <2>1. AbsWait(c).st = "done" /\ AbsWait(c)' = Abs!NoWait
    BY <1>5 DEF WaitClear, Return, AbsWait, Abs!NoWait
  <2>2. Wait' = [Wait EXCEPT ![c] = Abs!NoWait] /\ Wake' = Wake
    BY <1>1, <1>2, <2>1, OneWait
  <2> QED BY <1>2, <2>1, <2>2 DEF Abs!EndWait, Wait, Wake
<1> QED BY <1>3, <1>4, <1>5

\* k_cpu_futex_wake: marking a slot is the cause of its CPU's return, unless
\* the CPU had one already; the end of the loop is the end of the call.
LEMMA WakeStep ==
  ASSUME IInv, NEW c \in Cpus, WakeMark(c) \/ WakeReturn(c)
  PROVE  (\E d \in Cpus : Abs!Release(d)) \/ Abs!EndWake(c) \/ UNCHANGED Abs!vars
<1> USE DEF IInv, TypeOK, Goto, Waits
<1>1. CASE WakeMark(c)
  <2>0. PICK d \in Cpus : d = idx[c]
    BY <1>1, Marking
  <2>1. d # c /\ pc'[d] = pc[d]
    BY <1>1, <2>0, Marking, Zenon DEF WakeMark
  <2>2. \A e \in Cpus : e # d => AbsWait(e)' = AbsWait(e)
    BY <1>1, <2>0 DEF WakeMark, AbsWait, Waiting
  <2>3. \A e \in Cpus : AbsWake(e)' = AbsWake(e)
    BY <1>1 DEF WakeMark, AbsWake
  <2>4. /\ Waiting(d) \/ pc[d] = "wait_clear"
        /\ req[d].uaddr = req[c].uaddr /\ req[c].bitset \cap req[d].bitset # {}
    <3>1. Waiting(d) \/ pc[d] = "wait_clear"
      BY <1>1, <2>0, Marking
    <3>2. futex[d] = req[d]
      BY <3>1 DEF SlotIsCall
    <3>3. futex[d].uaddr = req[c].uaddr /\ futex[d].bitset \cap req[c].bitset # {}
      BY <1>1, <2>0 DEF WakeMark, Skipped
    <3> QED BY <3>1, <3>2, <3>3
  <2>5. CASE pc[d] = "wait_clear" \/ wakeup[d]
    <3>1. AbsWait(d)' = AbsWait(d)
      BY <1>1, <2>0, <2>1, <2>4, <2>5 DEF WakeMark, AbsWait, Waiting
    <3> QED BY <1>1, <2>2, <2>3, <3>1, Stutter DEF WakeMark
  <2>6. CASE Waiting(d) /\ ~wakeup[d]
    <3>1. /\ AbsWait(d) = [st |-> "in", uaddr |-> req[d].uaddr, val |-> req[d].val,
                           bitset |-> req[d].bitset]
          /\ AbsWait(d)' = [AbsWait(d) EXCEPT !.st = "done"]
      BY <1>1, <2>0, <2>1, <2>6 DEF WakeMark, AbsWait, Waiting
    <3>2. Wait' = [Wait EXCEPT ![d] = [AbsWait(d) EXCEPT !.st = "done"]] /\ Wake' = Wake
      BY <2>1, <2>2, <2>3, <3>1, OneWait
    <3>3. Wait' = [Wait EXCEPT ![d].st = "done"]
      BY <3>2 DEF Wait
    <3>4. AbsWake(c) = [uaddr |-> req[c].uaddr, bitset |-> req[c].bitset]
      BY <1>1 DEF WakeMark, AbsWake
    <3>5. Wake[c].uaddr = Wait[d].uaddr /\ Wake[c].bitset \cap Wait[d].bitset # {}
      BY <2>1, <2>4, <3>1, <3>4 DEF Wait, Wake
    <3>6. Wait[d].st = "in" /\ mem' = mem
      BY <1>1, <2>1, <3>1 DEF Wait, WakeMark
    <3>7. Abs!Release(d)
      BY <3>2, <3>3, <3>5, <3>6 DEF Abs!Release, Wait, Wake
    <3> QED BY <2>1, <3>7
  <2> QED BY <2>4, <2>5, <2>6
<1>2. CASE WakeReturn(c)
  <2>1. \A e \in Cpus : e # c => AbsWait(e)' = AbsWait(e) /\ AbsWake(e)' = AbsWake(e)
    BY <1>2, OthersKept, Zenon DEF Kernel, User, WakeMark, WakeReturn, Return
  <2>2. /\ AbsWait(c)' = AbsWait(c) /\ AbsWake(c)' = Abs!NoWake /\ mem' = mem
        /\ AbsWake(c).uaddr \in Addrs
    <3>1. /\ pc[c] = "wake_scan" /\ pc'[c] = "user" /\ mem' = mem
          /\ req[c].uaddr \in Addrs
      BY <1>2 DEF WakeReturn, Return
    <3>2. AbsWait(c)' = AbsWait(c)
      BY <3>1 DEF AbsWait
    <3>3. AbsWake(c)' = Abs!NoWake /\ AbsWake(c).uaddr = req[c].uaddr
      BY <3>1 DEF AbsWake, Abs!NoWake
    <3> QED BY <3>1, <3>2, <3>3
  <2>3. Wake' = [Wake EXCEPT ![c] = Abs!NoWake] /\ Wait' = Wait
    BY <2>1, <2>2, OneWake
  <2>4. Wake[c] # Abs!NoWake
    <3>1. Abs!NoWake.uaddr = NULL /\ NULL \notin Addrs
      BY FutexAssumption, Zenon DEF Abs!NoWake
    <3>2. Wake[c] = AbsWake(c) /\ AbsWake(c).uaddr \in Addrs
      BY <2>2, Zenon DEF Wake
    <3> QED BY <3>1, <3>2, Zenon
  <2> QED BY <2>2, <2>3, <2>4 DEF Abs!EndWake, Wait, Wake
<1> QED BY <1>1, <1>2

\* The initial states of the kernel are initial states of the abstract futex,
\* and each step of a CPU is a step of it or changes nothing it shows.
LEMMA RefinesInit == Init => Abs!Init
  BY DEF Init, Abs!Init, AbsWait, AbsWake, Waits, Abs!NoWait, Abs!NoWake

\* Every step of k_cpu_futex_wait, k_cpu_futex_wake and of user space.
LEMMA RefinesNext == IInv /\ [Next]_vars => [Abs!Next]_(Abs!vars)
<1> SUFFICES ASSUME IInv, [Next]_vars PROVE [Abs!Next]_(Abs!vars)
  OBVIOUS
<1>1. CASE UNCHANGED vars
  BY <1>1 DEF vars, Abs!vars, AbsWait, AbsWake, Waiting
<1>2. CASE Next
  <2>1. PICK c \in Cpus : Kernel(c) \/ User(c)
    BY <1>2 DEF Next
  <2>2. CASE Store(c) \/ PostWake(c) \/ CallWake(c) \/ CallWait(c)
    BY <2>2, UserStep, Zenon DEF Abs!Next
  <2>3. CASE WaitMismatch(c) \/ WaitClear(c)
    BY <2>3, WaitStep, Zenon DEF Abs!Next
  <2>4. CASE WakeMark(c) \/ WakeReturn(c)
    BY <2>4, WakeStep, Zenon DEF Abs!Next
  <2>5. CASE \/ UserInterrupt(c) \/ WaitRegister(c) \/ WaitTestWakeup(c) \/ WaitSleep(c)
             \/ WaitWfi(c) \/ WaitTick(c) \/ WakeSkip(c) \/ WakeIpi(c)
    <3>1. AbsWait(c)' = AbsWait(c) /\ AbsWake(c)' = AbsWake(c) /\ mem' = mem
      BY <2>5, OwnKept
    <3>2. ~WakeMark(c)
      BY <2>5 DEF IInv, TypeOK, Pcs, Waits, Goto, WakeMark, UserInterrupt, WaitRegister,
         WaitTestWakeup, WaitSleep, WaitWfi, WaitTick, WakeSkip, WakeIpi
    <3>3. \A e \in Cpus : e # c => AbsWait(e)' = AbsWait(e) /\ AbsWake(e)' = AbsWake(e)
      BY <2>1, <3>2, OthersKept DEF IInv
    <3> QED BY <3>1, <3>3, Stutter
  <2> QED BY <2>1, <2>2, <2>3, <2>4, <2>5 DEF Kernel, User
<1> QED BY <1>1, <1>2

\* A futex wait of this kernel returns only for a cause: its word had another
\* value while the call lasted, or a wake on the word with a common bit was in
\* progress.  Slots, scans and IPIs implement the abstract futex.
THEOREM FutexImplements == Spec => ImplementsFutex
  BY FutexInvariant, RefinesInit, RefinesNext, PTL DEF Spec, ImplementsFutex, Abs!Spec
=============================================================================
