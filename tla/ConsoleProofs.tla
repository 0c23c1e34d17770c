---------------------------- MODULE ConsoleProofs ---------------------------
(***************************************************************************)
(* Proofs about Console, for any number of CPUs, any calls and any number  *)
(* of lines.  IInv says of each CPU where it is in a call: which of the    *)
(* two locks it holds there, what it has counted so far, and what it has   *)
(* done to the lines of its mask.  Outside of the calls it says that the   *)
(* last character on the line is the last one of a message, or that the    *)
(* CPU in the middle of the message holds k_pri_lock.                      *)
(***************************************************************************)
EXTENDS Console, TLAPS

Labels == {"idle", "clear", "desc", "body", "line", "store", "undesc", "done",
           "pri", "putc", "getc", "format", "unpri"}
InPri == {"putc", "getc", "format", "unpri"}
Moving == {"read", "write", "writev"}
Fields == {"op", "fd", "ok", "count", "iov", "cmd", "mask", "bits", "fmt", "text", "desc",
           "i", "k", "n", "then", "ln", "copy", "buf", "put", "snap", "res"}

\* A call at p with the locals f is between the lock of its descriptor and
\* the unlock.
Inside(p, f) ==
  \/ p \in {"body", "line", "store", "undesc"}
  \/ p \in InPri \cup {"pri"} /\ f.then # "done"

\* The types of the locals, and where a call comes from.
Typed(p, f) ==
  /\ {f.put, f.k, f.n, f.i, f.ln, f.count} \subseteq Nat
  /\ f.res \in Int
  /\ f.i >= 1
  /\ f.then \in {"done", "body", "undesc"}
  /\ p \notin InPri \cup {"pri"} => f.then = "done"
  /\ p \notin {"putc"} => f.k = 0
  /\ f.k <= f.n
  /\ f.then = "body" => f.op \in {"write", "writev"}
  /\ p = "desc" => f.desc \in Descs
  /\ p = "clear" => f.op = "close" /\ f.fd \in 0 .. MaxFd - 1
  /\ p \in {"line", "store"} => f.op = "ioctl"
  /\ p = "format" => f.op = "snprintf"
  /\ p = "unpri" => f.op \in {"read", "snprintf"}
  /\ p \in {"getc"} => f.op = "read"
  /\ p = "putc" => f.op \notin {"read", "snprintf"}

\* What a read, write or writev has counted: put characters, and res.
Counts(p, f) ==
  /\ f.op \in {"write", "writev"} =>
       /\ f.iov \in Seq([ok : BOOLEAN, len : Nat])
       /\ f.op = "write" => Len(f.iov) = 1
  /\ f.op \in Moving =>
       /\ p \in {"desc", "body"} => f.res = f.put /\ (f.i = 1 => f.put = 0)
       /\ p \in InPri \cup {"pri"} =>
            /\ f.then \in {"body", "undesc"}
            /\ f.op = "read" => f.then = "undesc"
            /\ f.then = "body" => f.put = f.res + f.k
            /\ f.then = "undesc" /\ f.res >= 0 => f.res = f.put
       /\ p \in {"undesc", "done"} => (f.res >= 0 => f.res = f.put)

\* What an ioctl has done with the lines below f.ln when dat is the register.
Lined(p, f, dat) ==
  LET m == f.mask \cap 0 .. f.ln - 1 IN
  f.op = "ioctl" =>
    /\ f.mask \subseteq Lines
    /\ p = "desc" \/ Inside(p, f) => f.desc = Gpio
    /\ p \in {"desc", "body"} => f.ln = 0 /\ f.res = 0
    /\ p = "body" => f.snap = dat
    /\ p \in {"line", "store"} => f.cmd \in {"get", "set"} /\ f.res = 0
    /\ p \in {"line", "store"} /\ f.cmd = "set" => dat = (f.snap \ m) \cup (f.bits \cap m)
    /\ p \in {"line", "store"} /\ f.cmd = "get" => f.bits = f.snap \cap m /\ dat = f.snap
    /\ p = "store" => f.cmd = "set" /\ f.copy = dat /\ f.ln \in f.mask
    /\ p \in InPri \cup {"pri"} => f.res < 0
    /\ p = "undesc" /\ f.res = 0 =>
         /\ f.cmd = "set" => dat = (f.snap \ f.mask) \cup (f.bits \cap f.mask)
         /\ f.cmd = "get" => f.bits = f.snap \cap f.mask /\ dat = f.snap

\* The buffer is what its caller gave, and then what Format made of it.
Buffered(p, f) ==
  f.op = "snprintf" =>
    /\ f.count < 2^LongBits
    /\ Len(Render(f.fmt)) \in Nat
    /\ p \in InPri \cup {"pri"} => f.text = Render(f.fmt)
    /\ p \in {"pri", "format"} => \A j \in DOMAIN f.buf : j \in Nat /\ f.buf[j] = "junk"
    /\ p = "unpri" =>
         /\ f.res = Len(Render(f.fmt))
         /\ \A j \in DOMAIN f.buf :
              f.buf[j] = IF j < Min({Len(Render(f.fmt)), f.count - 1}) THEN Render(f.fmt)[j + 1]
                         ELSE IF j = Min({Len(Render(f.fmt)), f.count - 1}) THEN Nul ELSE "junk"

Local(p, f, dat) == Typed(p, f) /\ Counts(p, f) /\ Lined(p, f, dat) /\ Buffered(p, f)

\* The locks of CPU c.
Owns(c, p, f) ==
  /\ Inside(p, f) => f.desc \in Descs /\ dlock[f.desc] = c
  /\ p \in InPri => priLock = c

Shape ==
  /\ pc \in [Cpus -> Labels]
  /\ loc = [c \in Cpus |-> loc[c]]
  /\ \A c \in Cpus : DOMAIN loc[c] = Fields
  /\ fdset \in [0 .. MaxFd - 1 -> Descs \cup {NoDesc}]
  /\ console \in {"null", "bound", "up"}
  /\ started \in BOOLEAN
  /\ dlock \in [Descs -> Cpus \cup {NoCpu}]
  /\ priLock \in Cpus \cup {NoCpu}
  /\ stream \in [Descs -> Cpus \cup {NoCpu}]

\* Before the program starts the other CPUs wait.
Alone == ~started => \A c \in Cpus \ {BootCpu} : pc[c] = "idle"

\* The last character on the line: of the CPU that puts a message, or the
\* last one of its message.
Last(c, p, f) == p = "putc" /\ f.k > 0 /\ line = [cpu |-> c, k |-> f.k, n |-> f.n]
LineOK ==
  /\ line.k # line.n => console = "up" /\ \E c \in Cpus : Last(c, pc[c], loc[c])
  /\ console = "up" => \A c \in Cpus : pc[c] = "putc" /\ loc[c].k > 0 => Last(c, pc[c], loc[c])

StreamOK == \A d \in Descs : stream[d] # NoCpu => dlock[d] = stream[d]

IInv ==
  /\ Shape /\ Alone /\ LineOK /\ StreamOK
  /\ \A c \in Cpus : Local(pc[c], loc[c], data) /\ Owns(c, pc[c], loc[c])
-----------------------------------------------------------------------------
(* The locals.                                                             *)

\* g differs from f in the fields of changed at most.
Same(g, f, changed) == DOMAIN g = Fields /\ \A x \in Fields \ changed : g[x] = f[x]

\* A call sets its arguments only.
LEMMA CallFields ==
  ASSUME NEW f, IsCall(f)
  PROVE  /\ Same(f, Frame, {"op", "fd", "ok", "count", "iov", "cmd", "mask", "bits", "fmt", "buf"})
         /\ DOMAIN f = Fields
<1>1. DOMAIN Frame = Fields
  BY DEF Frame, Fields
<1>2. f = [Frame EXCEPT !.op = f.op, !.fd = f.fd, !.ok = f.ok, !.count = f.count,
                       !.iov = f.iov, !.cmd = f.cmd, !.mask = f.mask, !.bits = f.bits,
                       !.fmt = f.fmt, !.buf = f.buf]
  BY DEF IsCall
<1>3. DOMAIN f = Fields
  BY <1>1, <1>2, Zenon
<1>4. ASSUME NEW x \in Fields, x \notin {"op", "fd", "ok", "count", "iov", "cmd", "mask", "bits", "fmt", "buf"}
      PROVE  f[x] = Frame[x]
  BY <1>1, <1>2, <1>4, Zenon
<1>5. QED
  BY <1>3, <1>4 DEF Same

\* The fields a call starts with.
LEMMA CallStart ==
  ASSUME NEW f, IsCall(f)
  PROVE  /\ f.put = 0 /\ f.k = 0 /\ f.n = 0 /\ f.i = 1 /\ f.ln = 0 /\ f.res = 0
         /\ f.then = "done" /\ f.count \in Nat
<1>1. f.count \in Nat
  BY DEF IsCall
<1>2. Frame.put = 0 /\ Frame.k = 0 /\ Frame.n = 0 /\ Frame.i = 1 /\ Frame.ln = 0 /\ Frame.res = 0
      /\ Frame.then = "done"
  BY DEF Frame
<1>3. QED
  BY <1>1, <1>2, CallFields DEF Same, Fields

\* What is asked of the arguments.
LEMMA CallArgs ==
  ASSUME NEW f, IsCall(f)
  PROVE  /\ f.op \in {"write", "writev"} =>
              /\ f.iov \in Seq([ok : BOOLEAN, len : Nat])
              /\ f.op = "write" => Len(f.iov) = 1
         /\ f.op = "ioctl" => f.mask \subseteq Lines
         /\ f.op = "printf" => Len(OutChars(f.fmt)) \in Nat
         /\ f.op = "snprintf" =>
              /\ f.count < 2^LongBits
              /\ Len(Render(f.fmt)) \in Nat
              /\ \A j \in DOMAIN f.buf : j \in Nat /\ f.buf[j] = "junk"
  BY Zenon DEF IsCall

\* The calls that are made are calls.
LEMMA CallsAreCalls ==
  ASSUME IInv, NEW c \in Cpus, NEW f \in CallsOf(c)
  PROVE  IsCall(f) /\ (~started => c = BootCpu)
  BY CallAssumption DEF CallsOf, IInv, Shape

\* A call that is idle has nothing to keep.
LEMMA FrameLocal == DOMAIN Frame = Fields /\ \A dat : Local("idle", Frame, dat)
<1>1. /\ Frame.op = "none" /\ Frame.put = 0 /\ Frame.k = 0 /\ Frame.n = 0 /\ Frame.i = 1 /\ Frame.ln = 0
      /\ Frame.count = 0 /\ Frame.res = 0 /\ Frame.then = "done"
  BY DEF Frame
<1>2. Typed("idle", Frame)
  BY <1>1 DEF Typed, InPri
<1>3. \A dat : Counts("idle", Frame) /\ Lined("idle", Frame, dat) /\ Buffered("idle", Frame)
  BY <1>1 DEF Counts, Lined, Buffered, Moving
<1>4. DOMAIN Frame = Fields
  BY DEF Frame, Fields
<1>5. QED
  BY <1>2, <1>3, <1>4 DEF Local

\* The CPU that goes on, and the others.
LEMMA Went ==
  ASSUME Shape, NEW c \in Cpus, NEW l \in Labels, NEW g, DOMAIN g = Fields, Goto(c, l, g)
  PROVE  /\ pc' \in [Cpus -> Labels] /\ loc' = [d \in Cpus |-> loc'[d]]
         /\ \A d \in Cpus : DOMAIN loc'[d] = Fields
         /\ pc'[c] = l /\ loc'[c] = g
         /\ \A d \in Cpus \ {c} : pc'[d] = pc[d] /\ loc'[d] = loc[d]
<1>1. pc' = [pc EXCEPT ![c] = l] /\ loc' = [loc EXCEPT ![c] = g]
  BY DEF Goto
<1>2. loc' = [d \in Cpus |-> IF d = c THEN g ELSE loc[d]]
  BY <1>1 DEF Shape
<1>3. QED
  BY <1>1, <1>2 DEF Shape

\* CPU c goes on to a place where its locals are right.
Goes(c) ==
  \E l \in Labels \ {"putc"} : \E g :
    DOMAIN g = Fields /\ Goto(c, l, g) /\ Local(l, g, data) /\ Owns(c, l, g)

\* A step of CPU c that takes no lock and writes neither to the UART nor to
\* the GPIO keeps the invariant.
LEMMA Quiet ==
  ASSUME IInv, NEW c \in Cpus, Goes(c), pc[c] # "putc", ~started => c = BootCpu,
         fdset' \in [0 .. MaxFd - 1 -> Descs \cup {NoDesc}],
         UNCHANGED <<console, started, dlock, priLock, line, stream, data>>
  PROVE  IInv'
<1>l. PICK l \in Labels \ {"putc"} :
        \E g : DOMAIN g = Fields /\ Goto(c, l, g) /\ Local(l, g, data) /\ Owns(c, l, g)
  BY DEF Goes
<1>0. PICK g : DOMAIN g = Fields /\ Goto(c, l, g) /\ Local(l, g, data) /\ Owns(c, l, g)
  BY <1>l
<1>1. /\ pc' \in [Cpus -> Labels] /\ loc' = [d \in Cpus |-> loc'[d]]
      /\ \A d \in Cpus : DOMAIN loc'[d] = Fields
      /\ pc'[c] = l /\ loc'[c] = g
      /\ \A d \in Cpus \ {c} : pc'[d] = pc[d] /\ loc'[d] = loc[d]
  BY <1>0, Went DEF IInv
<1>2. Shape'
  BY <1>1 DEF Shape, IInv
<1>3. Alone'
  BY <1>1 DEF Alone, IInv
<1>4. LineOK'
  BY <1>0, <1>1 DEF LineOK, Last, IInv
<1>5. StreamOK'
  BY DEF StreamOK, IInv
<1>6. ASSUME NEW d \in Cpus PROVE Local(pc'[d], loc'[d], data') /\ Owns(d, pc[d], loc[d])'
  BY <1>0, <1>1 DEF Owns, IInv
<1>7. QED
  BY <1>2, <1>3, <1>4, <1>5, <1>6 DEF IInv
-----------------------------------------------------------------------------
(* The steps that enter a call.                                            *)

\* A call that ends at once, with any result but a count.
LEMMA EndsAtOnce ==
  ASSUME NEW c \in Cpus, NEW f, IsCall(f), NEW r \in Int, f.op \in Moving => r <= 0,
         Goto(c, "done", [f EXCEPT !.res = r])
  PROVE  Goes(c)
<1> DEFINE g == [f EXCEPT !.res = r]
<1>1. Same(g, f, {"res"}) /\ g.res = r
  BY CallFields DEF Same, Fields
<1> HIDE DEF g
<1>2. Typed("done", g)
  BY <1>1, CallStart DEF Typed, Same, Fields, InPri
<1>3. Counts("done", g)
  BY <1>1, CallStart, CallArgs DEF Counts, Same, Fields, InPri, Moving
<1>4. Lined("done", g, data)
  BY <1>1, CallArgs DEF Lined, Same, Fields, InPri, Inside
<1>5. Buffered("done", g)
  BY <1>1, CallArgs DEF Buffered, Same, Fields, InPri
<1>6. Owns(c, "done", g)
  BY DEF Owns, Inside, InPri
<1>7. Goto(c, "done", g)
  BY DEF g
<1>8. QED
  BY <1>1, <1>2, <1>3, <1>4, <1>5, <1>6, <1>7 DEF Goes, Labels, Local, Same

\* read, write, writev and ioctl up to the lock of the descriptor.
LEMMA ToDesc ==
  ASSUME IInv, NEW c \in Cpus, NEW f, IsCall(f), NEW op, NEW error \in Nat,
         f.op \in Moving \cup {"ioctl"}, f.op = "ioctl" => op = "ioctl", WithDesc(c, f, op, error)
  PROVE  Goes(c)
<1> DEFINE d == GetDesc(f.fd)
<1>1. d \in Descs \cup {NoDesc}
  BY DEF GetDesc, IInv, Shape
<1>2. CASE d = NoDesc \/ op \notin Ops(d)
  <2>1. Goto(c, "done", [f EXCEPT !.res = -error])
    BY <1>2 DEF WithDesc
  <2>2. QED
    BY <2>1, EndsAtOnce
<1>3. CASE ~(d = NoDesc \/ op \notin Ops(d))
  <2> DEFINE g == [f EXCEPT !.desc = d]
  <2>1. Same(g, f, {"desc"}) /\ g.desc = d
    BY CallFields DEF Same, Fields
  <2>2. Goto(c, "desc", g)
    BY <1>3 DEF WithDesc
  <2>3. d \in Descs /\ (op = "ioctl" => d = Gpio)
    BY <1>1, <1>3 DEF Ops
  <2> HIDE DEF g, d
  <2>4. Typed("desc", g)
    BY <2>1, <2>3, CallStart DEF Typed, Same, Fields, InPri
  <2>5. Counts("desc", g)
    BY <2>1, CallStart, CallArgs DEF Counts, Same, Fields, InPri, Moving
  <2>6. Lined("desc", g, data)
    BY <2>1, <2>3, CallStart, CallArgs DEF Lined, Same, Fields, InPri, Inside
  <2>7. Buffered("desc", g)
    BY <2>1, CallArgs DEF Buffered, Same, Fields, InPri
  <2>8. Owns(c, "desc", g)
    BY DEF Owns, Inside, InPri
  <2>9. QED
    BY <2>1, <2>2, <2>4, <2>5, <2>6, <2>7, <2>8 DEF Goes, Labels, Local, Same
<1>4. QED
  BY <1>2, <1>3

\* The messages wait for k_pri_lock.
LEMMA ToPri ==
  ASSUME NEW c \in Cpus, NEW f, IsCall(f), NEW n \in Nat, f.op \in {"printf", "puts", "putchar"},
         Goto(c, "pri", [f EXCEPT !.n = n])
  PROVE  Goes(c)
<1> DEFINE g == [f EXCEPT !.n = n]
<1>1. Same(g, f, {"n"}) /\ g.n = n
  BY CallFields DEF Same, Fields
<1> HIDE DEF g
<1>2. Typed("pri", g)
  BY <1>1, CallStart DEF Typed, Same, Fields, InPri
<1>3. Counts("pri", g) /\ Lined("pri", g, data) /\ Buffered("pri", g)
  BY <1>1 DEF Counts, Lined, Buffered, Same, Fields, Moving
<1>4. Owns(c, "pri", g)
  BY <1>1, CallStart DEF Owns, Inside, InPri, Same, Fields
<1>5. Goto(c, "pri", g)
  BY DEF g
<1>6. QED
  BY <1>1, <1>2, <1>3, <1>4, <1>5 DEF Goes, Labels, Local, Same

\* snprintf knows its text.
LEMMA ToFormat ==
  ASSUME NEW c \in Cpus, NEW f, IsCall(f), f.op = "snprintf",
         Goto(c, "pri", [f EXCEPT !.text = Render(f.fmt)])
  PROVE  Goes(c)
<1> DEFINE g == [f EXCEPT !.text = Render(f.fmt)]
<1>1. Same(g, f, {"text"}) /\ g.text = Render(f.fmt)
  BY CallFields DEF Same, Fields
<1> HIDE DEF g
<1>2. Typed("pri", g)
  BY <1>1, CallStart DEF Typed, Same, Fields, InPri
<1>3. Counts("pri", g) /\ Lined("pri", g, data)
  BY <1>1 DEF Counts, Lined, Same, Fields, Moving
<1>4. Buffered("pri", g)
  <2>1. g.op = f.op /\ g.fmt = f.fmt /\ g.buf = f.buf /\ g.count = f.count
    BY <1>1 DEF Same, Fields
  <2>2. QED
    BY <1>1, <2>1, CallArgs DEF Buffered, InPri
<1>5. Owns(c, "pri", g)
  BY <1>1, CallStart DEF Owns, Inside, InPri, Same, Fields
<1>6. Goto(c, "pri", g)
  BY DEF g
<1>7. QED
  BY <1>1, <1>2, <1>3, <1>4, <1>5, <1>6 DEF Goes, Labels, Local, Same

\* Entering a call keeps the invariant.
LEMMA EnterStep ==
  ASSUME IInv, NEW c \in Cpus, Enter(c)
  PROVE  IInv'
<1>1. /\ pc[c] = "idle"
      /\ UNCHANGED <<fdset, console, started, dlock, priLock, line, stream, data>>
  BY DEF Enter, SysRead, SysWrite, SysWritev, SysIoctl, SysPoll, SysClose, KernelMessage, KernelFormat,
         envVars, lockVars, uartVars
<1>2. Goes(c) /\ (~started => c = BootCpu)
  <2> USE DEF Enters
  <2>1. CASE SysRead(c)
    BY <2>1, ToDesc, CallsAreCalls DEF SysRead, Moving, EBADF
  <2>2. CASE SysWrite(c)
    BY <2>2, ToDesc, CallsAreCalls DEF SysWrite, Moving, EBADF
  <2>3. CASE SysWritev(c)
    <3>1. PICK f \in CallsOf(c) :
            /\ f.op = "writev"
            /\ IF GetDesc(f.fd) # NoDesc /\ (~f.ok \/ f.iov = << >>)
                 THEN Goto(c, "done", [f EXCEPT !.res = IF f.ok THEN 0 ELSE -EINVAL])
                 ELSE WithDesc(c, f, "write", EBADF)
      BY <2>3, Zenon DEF SysWritev
    <3>2. (IF f.ok THEN 0 ELSE -EINVAL) \in Int /\ (IF f.ok THEN 0 ELSE -EINVAL) <= 0
      BY DEF EINVAL
    <3>3. CASE Goto(c, "done", [f EXCEPT !.res = IF f.ok THEN 0 ELSE -EINVAL])
      BY <3>2, <3>3, EndsAtOnce, CallsAreCalls
    <3>4. CASE WithDesc(c, f, "write", EBADF)
      BY <3>1, <3>4, ToDesc, CallsAreCalls DEF Moving, EBADF
    <3>5. QED
      BY <3>1, <3>3, <3>4
  <2>4. CASE SysIoctl(c)
    BY <2>4, ToDesc, CallsAreCalls DEF SysIoctl, Moving, ENOTTY
  <2>5. CASE SysPoll(c)
    <3>1. PICK f \in CallsOf(c), r \in {-EFAULT, -EBADF, -ENOTSUP} :
            f.op = "poll" /\ Goto(c, "done", [f EXCEPT !.res = r])
      BY <2>5, Zenon DEF SysPoll
    <3>2. r \in Int
      BY DEF EFAULT, EBADF, ENOTSUP
    <3>3. QED
      BY <3>1, <3>2, EndsAtOnce, CallsAreCalls DEF Moving
  <2>6. CASE SysClose(c)
    <3>1. PICK f \in CallsOf(c) :
            /\ f.op = "close"
            /\ IF GetDesc(f.fd) = NoDesc THEN Goto(c, "done", [f EXCEPT !.res = -EBADF])
                                         ELSE Goto(c, "clear", f)
      BY <2>6 DEF SysClose
    <3>2. CASE Goto(c, "done", [f EXCEPT !.res = -EBADF])
      BY <3>1, <3>2, EndsAtOnce, CallsAreCalls DEF Moving, EBADF
    <3>3. CASE Goto(c, "clear", f) /\ GetDesc(f.fd) # NoDesc
      <4>1. f.fd \in 0 .. MaxFd - 1
        BY <3>3 DEF GetDesc, IInv, Shape
      <4>2. Typed("clear", f)
        BY <3>1, <4>1, CallStart, CallsAreCalls DEF Typed, InPri
      <4>3. Counts("clear", f) /\ Lined("clear", f, data) /\ Buffered("clear", f) /\ Owns(c, "clear", f)
        BY <3>1 DEF Counts, Lined, Buffered, Owns, Inside, InPri, Moving
      <4>4. DOMAIN f = Fields /\ (~started => c = BootCpu)
        BY CallFields, CallsAreCalls
      <4>5. QED
        BY <3>3, <4>2, <4>3, <4>4 DEF Goes, Labels, Local
    <3>4. QED
      BY <3>1, <3>2, <3>3
  <2>7. CASE KernelMessage(c)
    <3>1. PICK f \in CallsOf(c) :
            \/ f.op = "printf" /\ Goto(c, "pri", [f EXCEPT !.n = Len(OutChars(f.fmt))])
            \/ f.op = "puts" /\ Goto(c, "pri", [f EXCEPT !.n = f.count + 1])
            \/ f.op = "putchar" /\ Goto(c, "pri", [f EXCEPT !.n = 1])
      BY <2>7, Zenon DEF KernelMessage
    <3>2. IsCall(f) /\ (~started => c = BootCpu)
      BY CallsAreCalls
    <3>3. f.count + 1 \in Nat /\ 1 \in Nat
      BY <3>2, CallStart
    <3>4. f.op = "printf" => Len(OutChars(f.fmt)) \in Nat
      BY <3>2, CallArgs
    <3>5. QED
      BY <3>1, <3>2, <3>3, <3>4, ToPri
  <2>8. CASE KernelFormat(c)
    BY <2>8, ToFormat, CallsAreCalls DEF KernelFormat
  <2>9. QED
    BY <2>1, <2>2, <2>3, <2>4, <2>5, <2>6, <2>7, <2>8 DEF Enter
<1>3. fdset' \in [0 .. MaxFd - 1 -> Descs \cup {NoDesc}]
  BY <1>1 DEF IInv, Shape
<1>4. QED
  BY <1>1, <1>2, <1>3, Quiet
-----------------------------------------------------------------------------
(* The steps of a call that holds its descriptor and changes nothing else. *)

\* A call ends with a result.
LEMMA BodyEnds ==
  ASSUME NEW c \in Cpus, NEW f, DOMAIN f = Fields, Local("body", f, data), Owns(c, "body", f), NEW r \in Int,
         f.op \in Moving => r < 0 \/ r = f.put, f.op = "ioctl" => r < 0,
         Goto(c, "undesc", [f EXCEPT !.res = r])
  PROVE  Goes(c)
<1> DEFINE g == [f EXCEPT !.res = r]
<1>1. Same(g, f, {"res"}) /\ g.res = r
  BY DEF Same, Fields
<1> HIDE DEF g
<1>2. Typed("undesc", g)
  BY <1>1 DEF Local, Typed, Same, Fields, InPri
<1>3. Counts("undesc", g)
  BY <1>1 DEF Local, Counts, Same, Fields, InPri, Moving
<1>4. Lined("undesc", g, data)
  BY <1>1 DEF Local, Lined, Same, Fields, InPri, Inside
<1>5. Buffered("undesc", g)
  BY <1>1 DEF Local, Buffered, Same, Fields, InPri
<1>6. Owns(c, "undesc", g)
  BY <1>1 DEF Owns, Inside, InPri, Same, Fields
<1>7. Goto(c, "undesc", g)
  BY DEF g
<1>8. QED
  BY <1>1, <1>2, <1>3, <1>4, <1>5, <1>6, <1>7 DEF Goes, Labels, Local, Same

\* A call ends with the result it has.
LEMMA BodyEndsSo ==
  ASSUME NEW c \in Cpus, NEW f, DOMAIN f = Fields, Local("body", f, data), Owns(c, "body", f),
         f.op \in Moving, Goto(c, "undesc", f)
  PROVE  Goes(c)
<1>1. Typed("undesc", f)
  BY DEF Local, Typed, InPri
<1>2. Counts("undesc", f)
  BY DEF Local, Counts, InPri, Moving
<1>3. Lined("undesc", f, data) /\ Buffered("undesc", f)
  BY DEF Lined, Buffered, Moving
<1>4. Owns(c, "undesc", f)
  BY DEF Owns, Inside, InPri
<1>5. QED
  BY <1>1, <1>2, <1>3, <1>4 DEF Goes, Labels, Local

\* A call puts or gets characters under k_pri_lock, or prints a warning.
LEMMA BodyToPri ==
  ASSUME NEW c \in Cpus, NEW f, DOMAIN f = Fields, Local("body", f, data), Owns(c, "body", f),
         NEW g, Same(g, f, {"n", "then", "res"}), NEW n \in Nat, g.n = n, g.res \in Int,
         \/ g.then = "body" /\ g.res = f.res /\ f.op \in {"write", "writev"}
         \/ g.then = "undesc" /\ g.res = f.res /\ f.op = "read"
         \/ g.then = "undesc" /\ g.res < 0 /\ f.op \in {"writev", "ioctl"},
         Goto(c, "pri", g)
  PROVE  Goes(c)
<1>1. /\ g.op = f.op /\ g.iov = f.iov /\ g.put = f.put /\ g.k = f.k /\ g.i = f.i
      /\ f.k = 0 /\ f.put \in Nat
  BY DEF Same, Fields, Local, Typed, InPri
<1>2. Typed("pri", g)
  BY DEF Local, Typed, Same, Fields, InPri
<1>3. Counts("pri", g)
  BY <1>1 DEF Local, Counts, InPri, Moving
<1>4. Lined("pri", g, data)
  BY DEF Local, Lined, Same, Fields, InPri, Inside
<1>5. Buffered("pri", g)
  BY DEF Buffered, Same, Fields
<1>6. Owns(c, "pri", g)
  BY DEF Owns, Inside, InPri, Same, Fields
<1>8. QED
  BY <1>2, <1>3, <1>4, <1>5, <1>6 DEF Goes, Labels, Local, Same

\* k_file_read
LEMMA ReadGoes ==
  ASSUME IInv, NEW c \in Cpus, ReadBody(c)
  PROVE  Goes(c)
<1> DEFINE f == loc[c]
<1>1. pc[c] = "body" /\ f.op = "read" /\ DOMAIN f = Fields /\ Local("body", f, data) /\ Owns(c, "body", f)
  BY DEF IInv, Shape, ReadBody
<1>2. CASE Goto(c, "undesc", [f EXCEPT !.res = -EINVAL])
  <2> HIDE DEF f
  <2>1. QED
    BY <1>1, <1>2, BodyEnds DEF EINVAL
<1>3. CASE Goto(c, "undesc", f)
  BY <1>1, <1>3, BodyEndsSo DEF Moving
<1>4. CASE Goto(c, "pri", [f EXCEPT !.then = "undesc"])
  <2> DEFINE g == [f EXCEPT !.then = "undesc"]
  <2> HIDE DEF f
  <2>1. Same(g, f, {"n", "then", "res"}) /\ g.n = f.n /\ g.res = f.res /\ g.then = "undesc"
    BY <1>1 DEF Same, Fields
  <2>2. f.n \in Nat /\ f.res \in Int
    BY <1>1 DEF Local, Typed
  <2>3. Goto(c, "pri", g)
    BY <1>4
  <2> HIDE DEF g
  <2>4. QED
    BY <1>1, <2>1, <2>2, <2>3, BodyToPri
<1>5. QED
  BY <1>2, <1>3, <1>4 DEF ReadBody

\* A warning, after which the call fails.
LEMMA WarnGoes ==
  ASSUME NEW c \in Cpus, NEW f, DOMAIN f = Fields, Local("body", f, data), Owns(c, "body", f),
         f.op \in {"writev", "ioctl"}, NEW error \in Nat \ {0}, Warn(c, f, error)
  PROVE  Goes(c)
<1> DEFINE g == [f EXCEPT !.n = Warning, !.then = "undesc", !.res = -error]
<1>1. Same(g, f, {"n", "then", "res"}) /\ g.n = Warning /\ g.res = -error /\ g.then = "undesc"
  BY Zenon DEF Same, Fields
<1>2. Goto(c, "pri", g)
  BY DEF Warn
<1> HIDE DEF g
<1>3. g.res \in Int /\ g.res < 0 /\ Warning \in Nat
  BY <1>1, ConsoleAssumption
<1>4. QED
  BY <1>1, <1>2, <1>3, BodyToPri

\* An element of a sequence.
LEMMA PieceOf ==
  ASSUME NEW S, NEW s \in Seq(S), NEW j \in 1 .. Len(s)
  PROVE  s[j] \in S
  OBVIOUS

\* k_file_write and the loop of k_sys_writev
LEMMA WriteGoes ==
  ASSUME IInv, NEW c \in Cpus, WriteBody(c)
  PROVE  Goes(c)
<1> DEFINE f == loc[c]
           piece == f.iov[f.i]
           wr == WriteNolock(f.desc, piece)
<1>1. /\ pc[c] = "body" /\ f.op \in {"write", "writev"}
      /\ DOMAIN f = Fields /\ Local("body", f, data) /\ Owns(c, "body", f)
  BY DEF IInv, Shape, WriteBody
<1>2. f.i \in Nat /\ f.i >= 1 /\ f.iov \in Seq([ok : BOOLEAN, len : Nat]) /\ Len(f.iov) \in Nat
      /\ f.res \in Int /\ f.res = f.put /\ f.put \in Nat /\ (f.i = 1 => f.put = 0)
      /\ (f.op = "write" => Len(f.iov) = 1)
  <2> HIDE DEF f
  <2>0. Typed("body", f) /\ Counts("body", f)
    BY <1>1, Zenon DEF Local
  <2>1. f.i \in Nat /\ f.i >= 1 /\ f.res \in Int /\ f.put \in Nat
    BY <2>0, Zenon DEF Typed
  <2>2. f.iov \in Seq([ok : BOOLEAN, len : Nat]) /\ (f.op = "write" => Len(f.iov) = 1)
    BY <1>1, <2>0, Zenon DEF Counts
  <2>3. f.op \in Moving
    BY <1>1, Zenon DEF Moving
  <2>4. f.res = f.put /\ (f.i = 1 => f.put = 0)
    BY <2>0, <2>3, Zenon DEF Counts
  <2> QED BY <2>1, <2>2, <2>4
<1>0. IF f.i > Len(f.iov) THEN Goto(c, "undesc", f)
      ELSE IF f.op = "writev" /\ piece.len = 0 THEN Goto(c, "body", [f EXCEPT !.i = @ + 1])
      ELSE IF wr < 0 /\ f.op = "writev" THEN Warn(c, f, -wr)
      ELSE IF wr <= 0 THEN Goto(c, "undesc", [f EXCEPT !.res = @ + wr])
      ELSE Goto(c, "pri", [f EXCEPT !.n = wr, !.then = "body"])
  BY Zenon DEF WriteBody
<1> HIDE DEF f
<1>3. CASE f.i > Len(f.iov)
  <2>1. Goto(c, "undesc", f)
    BY <1>0, <1>3
  <2>2. QED
    BY <1>1, <2>1, BodyEndsSo DEF Moving
<1>4. CASE f.i <= Len(f.iov)
  <2>0. f.i \in 1 .. Len(f.iov)
    BY <1>2, <1>4
  <2>1. piece \in [ok : BOOLEAN, len : Nat]
    BY <1>2, <2>0, PieceOf, Zenon
  <2>2. wr \in Int
    BY <2>1 DEF WriteNolock, EINVAL
  <2> HIDE DEF piece, wr
  <2>3. CASE f.op = "writev" /\ piece.len = 0
    <3> DEFINE g == [f EXCEPT !.i = @ + 1]
    <3>1. Goto(c, "body", g)
      BY <1>0, <1>2, <1>4, <2>3
    <3>2. Same(g, f, {"i"}) /\ g.i = f.i + 1
      BY <1>1 DEF Same, Fields
    <3> HIDE DEF g
    <3>3. Typed("body", g)
      BY <1>1, <1>2, <3>2 DEF Local, Typed, Same, Fields, InPri
    <3>4. Counts("body", g)
      BY <1>1, <1>2, <3>2 DEF Local, Counts, Same, Fields, InPri, Moving
    <3>5. Lined("body", g, data) /\ Buffered("body", g)
      BY <2>3, <3>2 DEF Lined, Buffered, Same, Fields
    <3>6. Owns(c, "body", g)
      BY <1>1, <3>2 DEF Owns, Inside, InPri, Same, Fields
    <3>7. QED
      BY <3>1, <3>2, <3>3, <3>4, <3>5, <3>6 DEF Goes, Labels, Local, Same
  <2>4. CASE ~(f.op = "writev" /\ piece.len = 0) /\ wr < 0 /\ f.op = "writev"
    <3>1. Warn(c, f, -wr)
      BY <1>0, <1>2, <1>4, <2>4
    <3>2. -wr \in Nat \ {0}
      BY <2>2, <2>4
    <3>3. QED
      BY <1>1, <2>4, <3>1, <3>2, WarnGoes
  <2>5. CASE ~(f.op = "writev" /\ piece.len = 0) /\ ~(wr < 0 /\ f.op = "writev") /\ wr <= 0
    <3>1. Goto(c, "undesc", [f EXCEPT !.res = f.res + wr])
      BY <1>0, <1>2, <1>4, <2>5
    <3>2. f.res + wr \in Int /\ (f.res + wr < 0 \/ f.res + wr = f.put)
      <4>1. CASE wr = 0
        BY <1>2, <4>1
      <4>2. CASE wr < 0
        <5>1. f.op = "write"
          BY <1>1, <2>5, <4>2
        <5>2. f.i = 1
          <6>1. Len(f.iov) = 1 /\ f.i \in Nat /\ f.i >= 1
            BY <1>2, <5>1, Zenon
          <6> HIDE <1>2
          <6>2. QED
            BY <1>4, <6>1
        <5>3. f.res = 0
          BY <1>2, <5>2
        <5>4. QED
          BY <2>2, <4>2, <5>3
      <4>3. QED
        BY <2>2, <2>5, <4>1, <4>2
    <3>3. QED
      BY <1>1, <3>1, <3>2, BodyEnds DEF Moving
  <2>6. CASE ~(f.op = "writev" /\ piece.len = 0) /\ ~(wr <= 0)
    <3> DEFINE g == [f EXCEPT !.n = wr, !.then = "body"]
    <3>1. Goto(c, "pri", g)
      BY <1>0, <1>2, <1>4, <2>2, <2>6
    <3>2. wr \in Nat
      BY <2>2, <2>6
    <3>3. Same(g, f, {"n", "then", "res"}) /\ g.n = wr /\ g.res = f.res /\ g.then = "body"
      BY <1>1, Zenon DEF Same, Fields
    <3> HIDE DEF g
    <3>4. QED
      BY <1>1, <1>2, <3>1, <3>2, <3>3, BodyToPri
  <2>7. QED
    BY <2>2, <2>3, <2>4, <2>5, <2>6
<1>5. QED
  BY <1>2, <1>3, <1>4

\* k_gpio_line_ioctl up to its loop
LEMMA IoctlGoes ==
  ASSUME IInv, NEW c \in Cpus, IoctlBody(c)
  PROVE  Goes(c)
<1> DEFINE f == loc[c]
<1>1. /\ pc[c] = "body" /\ f.op = "ioctl"
      /\ DOMAIN f = Fields /\ Local("body", f, data) /\ Owns(c, "body", f)
  BY DEF IInv, Shape, IoctlBody
<1>2. \/ Warn(c, f, EBADF)
      \/ Goto(c, "undesc", [f EXCEPT !.res = -ENOTTY])
      \/ Goto(c, "undesc", [f EXCEPT !.res = -EINVAL])
      \/ f.cmd \in {"get", "set"} /\ Goto(c, "line", [f EXCEPT !.bits = IF f.cmd = "get" THEN {} ELSE @])
  BY DEF IoctlBody
<1> HIDE DEF f
<1>3. CASE Warn(c, f, EBADF)
  BY <1>1, <1>3, WarnGoes DEF EBADF
<1>4. CASE Goto(c, "undesc", [f EXCEPT !.res = -ENOTTY])
  <2>1. -ENOTTY \in Int /\ -ENOTTY < 0
    BY DEF ENOTTY
  <2>2. QED
    BY <1>1, <1>4, <2>1, BodyEnds DEF Moving
<1>5. CASE Goto(c, "undesc", [f EXCEPT !.res = -EINVAL])
  <2>1. -EINVAL \in Int /\ -EINVAL < 0
    BY DEF EINVAL
  <2>2. QED
    BY <1>1, <1>5, <2>1, BodyEnds DEF Moving
<1>6. CASE f.cmd \in {"get", "set"} /\ Goto(c, "line", [f EXCEPT !.bits = IF f.cmd = "get" THEN {} ELSE @])
  <2> DEFINE g == [f EXCEPT !.bits = IF f.cmd = "get" THEN {} ELSE @]
  <2>1. Same(g, f, {"bits"}) /\ (f.cmd = "get" => g.bits = {})
    BY <1>1 DEF Same, Fields
  <2>2. Goto(c, "line", g)
    BY <1>6
  <2> HIDE DEF g
  <2>3. Typed("line", g)
    BY <1>1, <2>1 DEF Local, Typed, Same, Fields, InPri
  <2>4. Counts("line", g) /\ Buffered("line", g)
    BY <1>1, <2>1 DEF Counts, Buffered, Same, Fields, Moving
  <2>5. Lined("line", g, data)
    <3>1. /\ g.op = "ioctl" /\ g.mask = f.mask /\ g.desc = f.desc /\ g.ln = f.ln /\ g.res = f.res
          /\ g.cmd = f.cmd /\ g.snap = f.snap
      BY <1>1, <2>1 DEF Same, Fields
    <3>2. f.mask \subseteq Lines /\ f.desc = Gpio /\ f.ln = 0 /\ f.res = 0 /\ f.snap = data
      BY <1>1 DEF Local, Lined, Inside
    <3>3. g.mask \cap 0 .. g.ln - 1 = {}
      BY <3>1, <3>2
    <3>4. QED
      BY <1>6, <2>1, <3>1, <3>2, <3>3 DEF Lined, InPri
  <2>6. Owns(c, "line", g)
    BY <1>1, <2>1 DEF Owns, Inside, InPri, Same, Fields
  <2>7. QED
    BY <2>1, <2>2, <2>3, <2>4, <2>5, <2>6 DEF Goes, Labels, Local, Same
<1>7. QED
  BY <1>2, <1>3, <1>4, <1>5, <1>6

\* What a call at a line of the loop knows.
LEMMA AtLine ==
  ASSUME IInv, NEW c \in Cpus, pc[c] \in {"line", "store"}
  PROVE  LET f == loc[c] IN
         /\ f.op = "ioctl" /\ DOMAIN f = Fields /\ Typed(pc[c], f)
         /\ f.mask \subseteq Lines /\ f.desc = Gpio /\ dlock[Gpio] = c /\ f.res = 0 /\ f.ln \in Nat
         /\ f.cmd \in {"get", "set"} /\ f.k = 0 /\ f.then = "done"
<1>1. DOMAIN loc[c] = Fields /\ Local(pc[c], loc[c], data) /\ Owns(c, pc[c], loc[c])
  BY DEF IInv, Shape
<1>2. loc[c].op = "ioctl"
  BY <1>1 DEF Local, Typed
<1>3. Inside(pc[c], loc[c])
  BY DEF Inside
<1>4. loc[c].mask \subseteq Lines /\ loc[c].desc = Gpio /\ loc[c].res = 0 /\ loc[c].cmd \in {"get", "set"}
  BY <1>1, <1>2, <1>3 DEF Local, Lined
<1>5. QED
  BY <1>1, <1>2, <1>3, <1>4 DEF Local, Typed, Owns, InPri

\* A line outside of the mask, and the end of the loop.
LEMMA NextGoes ==
  ASSUME IInv, NEW c \in Cpus, NextLine(c)
  PROVE  Goes(c)
<1> DEFINE f == loc[c]
<1>1. /\ pc[c] = "line" /\ f.op = "ioctl" /\ DOMAIN f = Fields /\ Local("line", f, data) /\ Owns(c, "line", f)
      /\ f.mask \subseteq Lines /\ f.ln \in Nat /\ f.ln \notin f.mask
  BY AtLine DEF IInv, Shape, NextLine
<1>2. CASE f.ln < NumLines
  <2> DEFINE g == [f EXCEPT !.ln = @ + 1]
  <2>1. Goto(c, "line", g)
    BY <1>2 DEF NextLine
  <2> HIDE DEF f
  <2>2. Same(g, f, {"ln"}) /\ g.ln = f.ln + 1
    BY <1>1 DEF Same, Fields
  <2> HIDE DEF g
  <2>3. /\ g.op = f.op /\ g.mask = f.mask /\ g.desc = f.desc /\ g.res = f.res /\ g.cmd = f.cmd
        /\ g.snap = f.snap /\ g.bits = f.bits /\ g.copy = f.copy /\ g.then = f.then
    BY <2>2 DEF Same, Fields
  <2>4. Typed("line", g)
    BY <1>1, <2>2 DEF Local, Typed, Same, Fields, InPri
  <2>5. Counts("line", g) /\ Buffered("line", g) /\ Owns(c, "line", g)
    BY <1>1, <2>3 DEF Counts, Buffered, Owns, Inside, InPri, Moving
  <2>6. g.mask \cap 0 .. g.ln - 1 = f.mask \cap 0 .. f.ln - 1
    BY <1>1, <2>2, <2>3
  <2>7. Lined("line", g, data)
    BY <1>1, <2>3, <2>6 DEF Lined, Local, InPri, Inside
  <2>8. QED
    BY <2>1, <2>2, <2>4, <2>5, <2>7 DEF Goes, Labels, Local, Same
<1>3. CASE ~(f.ln < NumLines)
  <2>1. Goto(c, "undesc", f)
    BY <1>3 DEF NextLine
  <2> HIDE DEF f
  <2>2. f.mask \cap 0 .. f.ln - 1 = f.mask
    BY <1>1, <1>3, ConsoleAssumption DEF Lines
  <2>3. Typed("undesc", f)
    BY <1>1 DEF Local, Typed, InPri
  <2>4. Counts("undesc", f) /\ Buffered("undesc", f) /\ Owns(c, "undesc", f)
    BY <1>1 DEF Counts, Buffered, Owns, Inside, InPri, Moving
  <2>5. Lined("undesc", f, data)
    BY <1>1, <2>2 DEF Lined, Local, InPri, Inside
  <2>6. QED
    BY <1>1, <2>1, <2>3, <2>4, <2>5 DEF Goes, Labels, Local
<1>4. QED
  BY <1>2, <1>3

\* gpio_v2_get
LEMMA GetGoes ==
  ASSUME IInv, NEW c \in Cpus, GpioGet(c)
  PROVE  Goes(c)
<1> DEFINE f == loc[c]
           g == [f EXCEPT !.bits = @ \cup ({f.ln} \cap data), !.ln = @ + 1]
<1>1. /\ pc[c] = "line" /\ f.op = "ioctl" /\ DOMAIN f = Fields /\ Local("line", f, data) /\ Owns(c, "line", f)
      /\ f.mask \subseteq Lines /\ f.ln \in Nat /\ f.ln \in f.mask /\ f.cmd = "get"
  BY AtLine DEF IInv, Shape, GpioGet
<1>2. Goto(c, "line", g)
  BY DEF GpioGet
<1> HIDE DEF f
<1>3. Same(g, f, {"bits", "ln"}) /\ g.ln = f.ln + 1 /\ g.bits = f.bits \cup ({f.ln} \cap data)
  BY <1>1, Zenon DEF Same, Fields
<1> HIDE DEF g
<1>4. /\ g.op = f.op /\ g.mask = f.mask /\ g.desc = f.desc /\ g.res = f.res /\ g.cmd = f.cmd
      /\ g.snap = f.snap /\ g.then = f.then
  BY <1>3 DEF Same, Fields
<1>5. Typed("line", g)
  BY <1>1, <1>3 DEF Local, Typed, Same, Fields, InPri
<1>6. Counts("line", g) /\ Buffered("line", g) /\ Owns(c, "line", g)
  BY <1>1, <1>4 DEF Counts, Buffered, Owns, Inside, InPri, Moving
<1>7. f.bits = f.snap \cap (f.mask \cap 0 .. f.ln - 1) /\ data = f.snap /\ f.desc = Gpio /\ f.res = 0
  BY <1>1 DEF Local, Lined, Inside
<1>8. g.mask \cap 0 .. g.ln - 1 = (f.mask \cap 0 .. f.ln - 1) \cup {f.ln}
  BY <1>1, <1>3, <1>4 DEF Lines
<1>9. g.bits = g.snap \cap (g.mask \cap 0 .. g.ln - 1)
  BY <1>3, <1>4, <1>7, <1>8
<1>10. Lined("line", g, data)
  BY <1>1, <1>4, <1>7, <1>9 DEF Lined, InPri
<1>11. QED
  BY <1>2, <1>3, <1>5, <1>6, <1>10 DEF Goes, Labels, Local, Same

\* gpio_v2_set reads the register.
LEMMA SetReadGoes ==
  ASSUME IInv, NEW c \in Cpus, GpioSetRead(c)
  PROVE  Goes(c)
<1> DEFINE f == loc[c]
           g == [f EXCEPT !.copy = data]
<1>1. /\ pc[c] = "line" /\ f.op = "ioctl" /\ DOMAIN f = Fields /\ Local("line", f, data) /\ Owns(c, "line", f)
      /\ f.mask \subseteq Lines /\ f.ln \in Nat /\ f.ln \in f.mask /\ f.cmd = "set"
  BY AtLine DEF IInv, Shape, GpioSetRead
<1>2. Goto(c, "store", g)
  BY DEF GpioSetRead
<1> HIDE DEF f
<1>3. Same(g, f, {"copy"}) /\ g.copy = data
  BY <1>1 DEF Same, Fields
<1> HIDE DEF g
<1>4. /\ g.op = f.op /\ g.mask = f.mask /\ g.desc = f.desc /\ g.res = f.res /\ g.cmd = f.cmd /\ g.ln = f.ln
      /\ g.snap = f.snap /\ g.then = f.then /\ g.bits = f.bits
  BY <1>3 DEF Same, Fields
<1>5. Typed("store", g)
  BY <1>1, <1>3 DEF Local, Typed, Same, Fields, InPri
<1>6. Counts("store", g) /\ Buffered("store", g) /\ Owns(c, "store", g)
  BY <1>1, <1>4 DEF Counts, Buffered, Owns, Inside, InPri, Moving
<1>7. Lined("store", g, data)
  BY <1>1, <1>3, <1>4 DEF Lined, Local, InPri, Inside
<1>8. QED
  BY <1>2, <1>3, <1>5, <1>6, <1>7 DEF Goes, Labels, Local, Same
-----------------------------------------------------------------------------
(* The steps with k_pri_lock that change nothing else, and the others.     *)

\* The lesser of two numbers.
LEMMA MinOf ==
  ASSUME NEW a \in Int, NEW b \in Int
  PROVE  Min({a, b}) = IF a < b THEN a ELSE b
  BY DEF Min

\* A size that fits is not changed by size_t.
LEMMA SizeFits ==
  ASSUME NEW m \in Nat, NEW n \in Nat \ {0}, n < m
  PROVE  (n - 1) % m = n - 1
<1>1. n - 1 \in 0 .. m - 1
  OBVIOUS
<1>2. QED
  BY <1>1

\* What k_vsnprintf makes of a buffer.
LEMMA VsnprintfIs ==
  ASSUME NEW buf, NEW max \in Nat, max < 2^LongBits, NEW s, Len(s) \in Nat,
         \A j \in DOMAIN buf : j \in Nat /\ buf[j] = "junk"
  PROVE  LET b == Vsnprintf(buf, max, s)
             end == Min({Len(s), max - 1})
         IN \A j \in DOMAIN b : b[j] = IF j < end THEN s[j + 1] ELSE IF j = end THEN Nul ELSE "junk"
<1> DEFINE end == Min({Len(s), max - 1})
           last == IF Len(s) < max THEN Len(s) ELSE (max - 1) % 2^LongBits
<1>1. end = IF Len(s) < max - 1 THEN Len(s) ELSE max - 1
  BY MinOf
<1>2. max # 0 => last = end
  <2>1. 2^LongBits \in Nat
    BY PrintfAssumption
  <2>2. max # 0 => (max - 1) % 2^LongBits = max - 1
    BY <2>1, SizeFits
  <2>3. QED
    BY <1>1, <2>2
<1>3. Vsnprintf(buf, max, s) =
        [i \in DOMAIN buf |-> IF ~(i < max) THEN buf[i]
                              ELSE IF i = last THEN Nul
                              ELSE IF i < Len(s) THEN s[i + 1] ELSE buf[i]]
  BY DEF Vsnprintf, OutBuffer
<1> DEFINE b == Vsnprintf(buf, max, s)
<1> HIDE DEF end, last, b
<1>4. ASSUME NEW j \in DOMAIN b
      PROVE  b[j] = IF j < end THEN s[j + 1] ELSE IF j = end THEN Nul ELSE "junk"
  <2>1. j \in DOMAIN buf /\ j \in Nat /\ buf[j] = "junk"
    BY <1>3, <1>4 DEF b
  <2>2. b[j] = IF ~(j < max) THEN buf[j]
               ELSE IF j = last THEN Nul
               ELSE IF j < Len(s) THEN s[j + 1] ELSE buf[j]
    BY <1>3, <2>1 DEF b
  <2>3. CASE ~(j < max)
    BY <1>1, <2>1, <2>2, <2>3
  <2>4. CASE j < max
    BY <1>1, <1>2, <2>1, <2>2, <2>4
  <2>5. QED
    BY <2>3, <2>4, <2>1
<1>5. QED
  BY <1>4, Zenon DEF end, b

\* k_vsnprintf_nolock
LEMMA FormatGoes ==
  ASSUME IInv, NEW c \in Cpus, Format(c)
  PROVE  Goes(c)
<1> DEFINE f == loc[c]
           b == Vsnprintf(f.buf, f.count, f.text)
           g == [f EXCEPT !.buf = b, !.res = Len(f.text)]
<1>1. /\ pc[c] = "format" /\ DOMAIN f = Fields /\ Local("format", f, data) /\ Owns(c, "format", f)
      /\ Goto(c, "unpri", g)
  BY DEF IInv, Shape, Format
<1> HIDE DEF f
<1>2. f.op = "snprintf" /\ f.count \in Nat
  BY <1>1 DEF Local, Typed
<1>3. /\ f.text = Render(f.fmt) /\ Len(f.text) \in Nat /\ f.count < 2^LongBits
      /\ \A j \in DOMAIN f.buf : j \in Nat /\ f.buf[j] = "junk"
  BY <1>1, <1>2 DEF Local, Buffered, InPri
<1>4. \A j \in DOMAIN b : b[j] = IF j < Min({Len(f.text), f.count - 1}) THEN f.text[j + 1]
                                 ELSE IF j = Min({Len(f.text), f.count - 1}) THEN Nul ELSE "junk"
  BY <1>2, <1>3, VsnprintfIs
<1> HIDE DEF b
<1>5. Same(g, f, {"buf", "res"}) /\ g.buf = b /\ g.res = Len(f.text)
  BY <1>1, Zenon DEF Same, Fields
<1> HIDE DEF g
<1>6. g.op = f.op /\ g.fmt = f.fmt /\ g.count = f.count /\ g.text = f.text /\ g.then = f.then /\ g.desc = f.desc
  BY <1>5 DEF Same, Fields
<1>7. Typed("unpri", g)
  <2>1. /\ g.put = f.put /\ g.k = f.k /\ g.n = f.n /\ g.i = f.i /\ g.ln = f.ln
        /\ g.res \in Int
    BY <1>3, <1>5 DEF Same, Fields
  <2>2. QED
    BY <1>1, <1>2, <1>6, <2>1 DEF Local, Typed, InPri
<1>8. Counts("unpri", g) /\ Lined("unpri", g, data)
  BY <1>2, <1>6 DEF Counts, Lined, Moving
<1>9. Buffered("unpri", g)
  BY <1>3, <1>4, <1>5, <1>6, Zenon DEF Buffered, InPri
<1>10. Owns(c, "unpri", g)
  BY <1>1, <1>6 DEF Owns, Inside, InPri
<1>11. QED
  BY <1>1, <1>5, <1>7, <1>8, <1>9, <1>10 DEF Goes, Labels, Local, Same

\* k_pri_read_stdin
LEMMA GetcGoes ==
  ASSUME IInv, NEW c \in Cpus, Getc(c)
  PROVE  Goes(c)
<1> DEFINE f == loc[c]
           g == [f EXCEPT !.put = 1, !.res = 1]
<1>1. /\ pc[c] = "getc" /\ DOMAIN f = Fields /\ Local("getc", f, data) /\ Owns(c, "getc", f)
      /\ Goto(c, "unpri", g) \/ Goto(c, "unpri", f)
  BY DEF IInv, Shape, Getc
<1> HIDE DEF f
<1>2. f.op = "read"
  BY <1>1 DEF Local, Typed
<1>3. CASE Goto(c, "unpri", g)
  <2>1. Same(g, f, {"put", "res"}) /\ g.put = 1 /\ g.res = 1
    BY <1>1, Zenon DEF Same, Fields
  <2> HIDE DEF g
  <2>2. g.op = f.op /\ g.then = f.then /\ g.desc = f.desc
    BY <2>1 DEF Same, Fields
  <2>3. Typed("unpri", g)
    BY <1>1, <1>2, <2>1 DEF Local, Typed, Same, Fields, InPri
  <2>4. Counts("unpri", g)
    BY <1>1, <1>2, <2>1, <2>2 DEF Local, Counts, Moving, InPri
  <2>5. Lined("unpri", g, data) /\ Buffered("unpri", g)
    BY <1>2, <2>2 DEF Lined, Buffered
  <2>6. Owns(c, "unpri", g)
    BY <1>1, <2>2 DEF Owns, Inside, InPri
  <2>7. QED
    BY <1>3, <2>1, <2>3, <2>4, <2>5, <2>6 DEF Goes, Labels, Local, Same
<1>4. CASE Goto(c, "unpri", f)
  <2>1. Typed("unpri", f)
    BY <1>1, <1>2 DEF Local, Typed, InPri
  <2>2. Counts("unpri", f)
    BY <1>1, <1>2 DEF Local, Counts, Moving, InPri
  <2>3. Lined("unpri", f, data) /\ Buffered("unpri", f)
    BY <1>2 DEF Lined, Buffered
  <2>4. Owns(c, "unpri", f)
    BY <1>1 DEF Owns, Inside, InPri
  <2>5. QED
    BY <1>1, <1>4, <2>1, <2>2, <2>3, <2>4 DEF Goes, Labels, Local
<1>5. QED
  BY <1>1, <1>3, <1>4

\* A closed descriptor, and a call that returns.
LEMMA EndGoes ==
  ASSUME IInv, NEW c \in Cpus, ClearDesc(c) \/ Return(c)
  PROVE  Goes(c)
<1>1. CASE ClearDesc(c)
  <2>1. pc[c] = "clear" /\ Goto(c, "done", loc[c]) /\ DOMAIN loc[c] = Fields /\ Local("clear", loc[c], data)
    BY <1>1 DEF IInv, Shape, ClearDesc
  <2>2. loc[c].op \notin Moving \cup {"ioctl", "snprintf"}
    BY <2>1 DEF Local, Typed, Moving
  <2>3. Typed("done", loc[c])
    BY <2>1 DEF Local, Typed, InPri
  <2>4. Counts("done", loc[c]) /\ Lined("done", loc[c], data) /\ Buffered("done", loc[c])
    BY <2>2 DEF Counts, Lined, Buffered, Moving
  <2>5. Owns(c, "done", loc[c])
    BY DEF Owns, Inside, InPri
  <2>6. QED
    BY <2>1, <2>3, <2>4, <2>5 DEF Goes, Labels, Local
<1>2. CASE Return(c)
  <2>1. Goto(c, "idle", Frame)
    BY <1>2 DEF Return
  <2>2. Owns(c, "idle", Frame)
    BY DEF Owns, Inside, InPri
  <2>3. QED
    BY <2>1, <2>2, FrameLocal DEF Goes, Labels
<1>3. QED
  BY <1>1, <1>2

\* The steps that take no lock and write neither to the UART nor to the GPIO.
QuietStep(c) ==
  \/ ClearDesc(c) \/ ReadBody(c) \/ WriteBody(c) \/ IoctlBody(c) \/ NextLine(c)
  \/ GpioGet(c) \/ GpioSetRead(c) \/ Getc(c) \/ Format(c) \/ Return(c)

\* They keep the invariant.
LEMMA QuietSteps ==
  ASSUME IInv, NEW c \in Cpus, QuietStep(c)
  PROVE  IInv'
<1>1. Goes(c)
  BY ReadGoes, WriteGoes, IoctlGoes, NextGoes, GetGoes, SetReadGoes, GetcGoes, FormatGoes, EndGoes DEF QuietStep
<1>2. /\ pc[c] \notin {"putc", "idle"}
      /\ UNCHANGED <<console, started, dlock, priLock, line, stream, data>>
  BY DEF QuietStep, ClearDesc, ReadBody, WriteBody, IoctlBody, NextLine, GpioGet, GpioSetRead, Getc, Format,
         Return, envVars, lockVars, uartVars
<1>3. fdset' \in [0 .. MaxFd - 1 -> Descs \cup {NoDesc}]
  <2>1. CASE ClearDesc(c)
    BY <2>1, Zenon DEF ClearDesc, IInv, Shape
  <2>2. CASE ~ClearDesc(c)
    <3>1. fdset' = fdset
      BY <2>2 DEF QuietStep, ReadBody, WriteBody, IoctlBody, NextLine, GpioGet, GpioSetRead, Getc, Format, Return
    <3>2. QED
      BY <3>1 DEF IInv, Shape
  <2>3. QED
    BY <2>1, <2>2
<1>4. ~started => c = BootCpu
  BY <1>2 DEF IInv, Alone
<1>5. QED
  BY <1>1, <1>2, <1>3, <1>4, Quiet

\* The CPU that goes on was in a call.
LEMMA Moved ==
  ASSUME IInv, NEW c \in Cpus, pc[c] # "idle", NEW l \in Labels, NEW g, DOMAIN g = Fields, Goto(c, l, g),
         UNCHANGED started
  PROVE  /\ pc' \in [Cpus -> Labels] /\ loc' = [d \in Cpus |-> loc'[d]]
         /\ \A d \in Cpus : DOMAIN loc'[d] = Fields
         /\ pc'[c] = l /\ loc'[c] = g
         /\ \A d \in Cpus \ {c} : pc'[d] = pc[d] /\ loc'[d] = loc[d]
         /\ Alone'
<1>1. /\ pc' \in [Cpus -> Labels] /\ loc' = [d \in Cpus |-> loc'[d]]
      /\ \A d \in Cpus : DOMAIN loc'[d] = Fields
      /\ pc'[c] = l /\ loc'[c] = g
      /\ \A d \in Cpus \ {c} : pc'[d] = pc[d] /\ loc'[d] = loc[d]
  BY Went DEF IInv
<1>2. QED
  BY <1>1 DEF Alone, IInv

\* k_spinlock_lock(&desc->lock)
LEMMA DescLockStep ==
  ASSUME IInv, NEW c \in Cpus, DescLock(c)
  PROVE  IInv'
<1> DEFINE f == loc[c]
           g == [f EXCEPT !.snap = data]
<1>1. /\ pc[c] = "desc" /\ DOMAIN f = Fields /\ Local("desc", f, data)
      /\ Goto(c, "body", g) /\ dlock[f.desc] = NoCpu /\ dlock' = [dlock EXCEPT ![f.desc] = c]
      /\ UNCHANGED <<fdset, console, started, priLock, line, stream, data>>
  BY DEF IInv, Shape, DescLock, envVars, uartVars
<1>2. f.desc \in Descs
  BY <1>1 DEF Local, Typed
<1>3. Same(g, f, {"snap"}) /\ g.snap = data
  BY <1>1 DEF Same, Fields
<1>4. /\ pc' \in [Cpus -> Labels] /\ loc' = [d \in Cpus |-> loc'[d]]
      /\ \A d \in Cpus : DOMAIN loc'[d] = Fields
      /\ pc'[c] = "body" /\ loc'[c] = g
      /\ \A d \in Cpus \ {c} : pc'[d] = pc[d] /\ loc'[d] = loc[d]
      /\ Alone'
  BY <1>1, <1>3, Moved DEF Same, Labels
<1> HIDE DEF f, g
<1>5. Shape'
  BY <1>1, <1>2, <1>4 DEF Shape, IInv
<1>6. LineOK'
  BY <1>1, <1>4 DEF LineOK, Last, IInv
<1>7. StreamOK'
  BY <1>1, <1>2 DEF StreamOK, IInv, Shape
<1>8. Local("body", g, data)
  <2>1. /\ g.op = f.op /\ g.mask = f.mask /\ g.desc = f.desc /\ g.ln = f.ln /\ g.res = f.res
        /\ g.iov = f.iov /\ g.put = f.put /\ g.i = f.i /\ g.count = f.count /\ g.fmt = f.fmt
    BY <1>3 DEF Same, Fields
  <2>2. Typed("body", g)
    <3>1. Typed("desc", f)
      BY <1>1, Zenon DEF Local
    <3>2. g.k = f.k /\ g.n = f.n /\ g.then = f.then
      BY <1>3 DEF Same, Fields
    <3> QED BY <2>1, <3>1, <3>2 DEF Typed, InPri
  <2>3. Counts("body", g)
    BY <1>1, <2>1 DEF Local, Counts, InPri
  <2>4. Lined("body", g, data)
    BY <1>1, <1>3, <2>1 DEF Local, Lined, InPri
  <2>5. Buffered("body", g)
    BY <1>1, <2>1 DEF Local, Buffered, InPri
  <2>6. QED
    BY <2>2, <2>3, <2>4, <2>5 DEF Local
<1>9. ASSUME NEW d \in Cpus PROVE Local(pc'[d], loc'[d], data') /\ Owns(d, pc[d], loc[d])'
  <2>1. CASE d = c
    <3>1. g.desc = f.desc
      BY <1>3 DEF Same, Fields
    <3>2. Owns(c, pc[c], loc[c])'
      BY <1>1, <1>2, <1>4, <3>1 DEF Owns, Inside, InPri, IInv, Shape
    <3>3. QED
      BY <1>1, <1>4, <1>8, <2>1, <3>2
  <2>2. CASE d # c
    <3>1. Local(pc'[d], loc'[d], data')
      BY <1>1, <1>4, <2>2 DEF IInv
    <3>2. Owns(d, pc[d], loc[d])'
      BY <1>1, <1>2, <1>4, <2>2, ConsoleAssumption DEF IInv, Shape, Owns, Inside
    <3>3. QED
      BY <3>1, <3>2
  <2>3. QED
    BY <2>1, <2>2
<1>10. QED
  BY <1>4, <1>5, <1>6, <1>7, <1>9 DEF IInv

\* k_spinlock_unlock(&desc->lock)
LEMMA DescUnlockStep ==
  ASSUME IInv, NEW c \in Cpus, DescUnlock(c)
  PROVE  IInv'
<1> DEFINE f == loc[c]
<1>1. /\ pc[c] = "undesc" /\ DOMAIN f = Fields /\ Local("undesc", f, data) /\ Owns(c, "undesc", f)
      /\ Goto(c, "done", f) /\ dlock' = [dlock EXCEPT ![f.desc] = NoCpu]
      /\ stream' = [stream EXCEPT ![f.desc] = IF @ = c THEN NoCpu ELSE @]
      /\ UNCHANGED <<fdset, console, started, priLock, line, data>>
  BY DEF IInv, Shape, DescUnlock, envVars
<1>2. f.desc \in Descs /\ dlock[f.desc] = c
  BY <1>1, Zenon DEF Owns, Inside
<1>3. stream'[f.desc] = NoCpu
  BY <1>1, <1>2 DEF IInv, StreamOK, Shape
<1>4. /\ pc' \in [Cpus -> Labels] /\ loc' = [d \in Cpus |-> loc'[d]]
      /\ \A d \in Cpus : DOMAIN loc'[d] = Fields
      /\ pc'[c] = "done" /\ loc'[c] = f
      /\ \A d \in Cpus \ {c} : pc'[d] = pc[d] /\ loc'[d] = loc[d]
      /\ Alone'
  BY <1>1, Moved DEF Labels
<1> HIDE DEF f
<1>5. Shape'
  BY <1>1, <1>2, <1>4 DEF Shape, IInv
<1>6. LineOK'
  BY <1>1, <1>4 DEF LineOK, Last, IInv
<1>7. StreamOK'
  BY <1>1, <1>2, <1>3 DEF StreamOK, IInv, Shape
<1>8. Local("done", f, data)
  <2>1. Typed("done", f)
    BY <1>1 DEF Local, Typed, InPri
  <2>2. Counts("done", f)
    BY <1>1 DEF Local, Counts, InPri
  <2>3. Lined("done", f, data)
    BY <1>1 DEF Local, Lined, Inside, InPri
  <2>4. Buffered("done", f)
    BY <1>1 DEF Local, Buffered, InPri
  <2>5. QED
    BY <2>1, <2>2, <2>3, <2>4 DEF Local
<1>9. ASSUME NEW d \in Cpus PROVE Local(pc'[d], loc'[d], data') /\ Owns(d, pc[d], loc[d])'
  <2>1. CASE d = c
    BY <1>1, <1>4, <1>8, <2>1 DEF Owns, Inside, InPri
  <2>2. CASE d # c
    <3>1. Local(pc'[d], loc'[d], data')
      BY <1>1, <1>4, <2>2 DEF IInv
    <3>2. Owns(d, pc[d], loc[d])'
      BY <1>1, <1>2, <1>4, <2>2 DEF IInv, Shape, Owns, Inside
    <3>3. QED
      BY <3>1, <3>2
  <2>3. QED
    BY <2>1, <2>2
<1>10. QED
  BY <1>4, <1>5, <1>6, <1>7, <1>9 DEF IInv

\* k_spinlock_lock(&k_pri_lock)
LEMMA PriLockStep ==
  ASSUME IInv, NEW c \in Cpus, PriLock(c)
  PROVE  IInv'
<1> DEFINE f == loc[c]
           l == PriBody(f)
<1>1. /\ pc[c] = "pri" /\ DOMAIN f = Fields /\ Local("pri", f, data) /\ Owns(c, "pri", f)
      /\ Goto(c, l, f) /\ priLock = NoCpu /\ priLock' = c
      /\ UNCHANGED <<fdset, console, started, dlock, line, stream, data>>
  BY DEF IInv, Shape, PriLock, envVars, uartVars
<1>2. /\ l \in {"getc", "format", "putc"}
      /\ l = "getc" <=> f.op = "read"
      /\ l = "format" <=> f.op = "snprintf"
  BY DEF PriBody
<1>3. /\ pc' \in [Cpus -> Labels] /\ loc' = [d \in Cpus |-> loc'[d]]
      /\ \A d \in Cpus : DOMAIN loc'[d] = Fields
      /\ pc'[c] = l /\ loc'[c] = f
      /\ \A d \in Cpus \ {c} : pc'[d] = pc[d] /\ loc'[d] = loc[d]
      /\ Alone'
  BY <1>1, <1>2, Moved DEF Labels
<1> HIDE DEF f, l
<1>4. Shape'
  BY <1>1, <1>3 DEF Shape, IInv
<1>5. f.k = 0
  BY <1>1 DEF Local, Typed
<1>6. LineOK'
  BY <1>1, <1>3, <1>5 DEF LineOK, Last, IInv
<1>7. StreamOK'
  BY <1>1 DEF StreamOK, IInv
<1>8. Local(l, f, data)
  <2>1. Typed(l, f)
    BY <1>1, <1>2, <1>5 DEF Local, Typed, InPri
  <2>2. Counts(l, f)
    BY <1>1, <1>2 DEF Local, Counts, InPri
  <2>3. Lined(l, f, data)
    BY <1>1, <1>2, Zenon DEF Local, Lined, Inside, InPri
  <2>4. Buffered(l, f)
    BY <1>1, <1>2, Zenon DEF Local, Buffered, InPri
  <2>5. QED
    BY <2>1, <2>2, <2>3, <2>4 DEF Local
<1>9. ASSUME NEW d \in Cpus PROVE Local(pc'[d], loc'[d], data') /\ Owns(d, pc[d], loc[d])'
  <2>1. CASE d = c
    <3>1. Owns(c, pc[c], loc[c])'
      BY <1>1, <1>2, <1>3 DEF Owns, Inside, InPri
    <3>2. QED
      BY <1>1, <1>3, <1>8, <2>1, <3>1
  <2>2. CASE d # c
    BY <1>1, <1>3, <2>2, ConsoleAssumption DEF IInv, Owns
  <2>3. QED
    BY <2>1, <2>2
<1>10. QED
  BY <1>3, <1>4, <1>6, <1>7, <1>9 DEF IInv

\* The locals of a call that gives k_pri_lock back.
Unlocked(f) ==
  LET g == [f EXCEPT !.k = 0, !.n = 0, !.then = "done"]
  IN IF f.then = "body" THEN [g EXCEPT !.res = @ + f.n, !.i = @ + 1] ELSE g

\* They are right at the label where the call goes on.
LEMMA UnlockLocal ==
  ASSUME NEW f, DOMAIN f = Fields, NEW p \in {"unpri", "putc"}, p = "putc" => f.k = f.n, NEW dat,
         Local(p, f, dat),
         NEW g, g = Unlocked(f)
  PROVE  DOMAIN g = Fields /\ g.desc = f.desc /\ Local(f.then, g, dat)
<1>1. /\ Same(g, f, {"k", "n", "then", "res", "i"})
      /\ g.k = 0 /\ g.n = 0 /\ g.then = "done"
      /\ g.res = IF f.then = "body" THEN f.res + f.n ELSE f.res
      /\ g.i = IF f.then = "body" THEN f.i + 1 ELSE f.i
  BY Zenon DEF Same, Fields, Unlocked
<1>2. /\ g.op = f.op /\ g.mask = f.mask /\ g.desc = f.desc /\ g.ln = f.ln /\ g.cmd = f.cmd
      /\ g.iov = f.iov /\ g.put = f.put /\ g.count = f.count /\ g.fmt = f.fmt /\ DOMAIN g = Fields
  BY <1>1 DEF Same, Fields
<1>3. /\ f.then \in {"done", "body", "undesc"} /\ f.res \in Int /\ {f.put, f.k, f.n, f.i, f.ln, f.count} \subseteq Nat
      /\ (f.then = "body" => f.op \in {"write", "writev"} /\ p = "putc") /\ f.i >= 1
  BY DEF Local, Typed
<1>4. Typed(f.then, g)
  <2>1. /\ g.k = 0 /\ g.n = 0 /\ g.then = "done" /\ g.res \in Int /\ g.i \in Nat /\ g.i >= 1
        /\ {g.put, g.ln, g.count} \subseteq Nat
    BY <1>1, <1>2, <1>3
  <2>2. f.then \in {"done", "body", "undesc"}
    BY <1>3
  <2> QED BY <2>1, <2>2 DEF Typed, InPri
<1>5. Counts(f.then, g)
  <2>1. CASE f.then = "body"
    <3>1. Counts("putc", f)
      BY <1>3, <2>1, Zenon DEF Local
    <3>2. f.put = f.res + f.n
      BY <1>3, <2>1, <3>1 DEF Counts, InPri, Moving
    <3>3. g.res = g.put /\ g.i # 1
      BY <1>1, <1>2, <1>3, <2>1, <3>2
    <3>4. g.op \in {"write", "writev"} =>
            /\ g.iov \in Seq([ok : BOOLEAN, len : Nat])
            /\ g.op = "write" => Len(g.iov) = 1
      BY <1>2, <3>1, Zenon DEF Counts
    <3>5. QED
      BY <2>1, <3>3, <3>4 DEF Counts, InPri
  <2>2. CASE f.then # "body"
    BY <1>1, <1>2, <1>3, <2>2 DEF Local, Counts, InPri, Moving
  <2>3. QED
    BY <2>1, <2>2
<1>6. Lined(f.then, g, dat)
  <2>1. CASE f.op = "ioctl"
    <3>1. f.then \in {"done", "undesc"} /\ f.mask \subseteq Lines /\ f.res < 0 /\ (f.then # "done" => f.desc = Gpio)
      BY <1>3, <2>1 DEF Local, Lined, Inside, InPri
    <3>2. g.res < 0
      BY <1>1, <3>1
    <3>3. g.res \in Int
      BY <1>1, <1>3
    <3>4. (f.then = "desc" \/ Inside(f.then, g)) => g.desc = Gpio
      BY <1>2, <3>1 DEF Inside, InPri
    <3>5. g.mask \subseteq Lines /\ ~(g.res = 0)
      BY <1>2, <3>1, <3>2, <3>3
    <3>6. QED
      BY <3>1, <3>2, <3>4, <3>5, Zenon DEF Lined, InPri
  <2>2. CASE f.op # "ioctl"
    BY <1>2, <2>2 DEF Lined
  <2>3. QED
    BY <2>1, <2>2
<1>7. Buffered(f.then, g)
  BY <1>2, <1>3 DEF Local, Buffered, InPri
<1>8. QED
  BY <1>2, <1>4, <1>5, <1>6, <1>7 DEF Local

\* k_spinlock_unlock(&k_pri_lock)
LEMMA PriUnlockStep ==
  ASSUME IInv, NEW c \in Cpus, PriUnlock(c)
  PROVE  IInv'
<1> DEFINE f == loc[c]
<1>1. PICK g : g = Unlocked(f) /\ Goto(c, f.then, g)
  BY Zenon DEF PriUnlock, Unlocked
<1>2. /\ pc[c] \in {"unpri", "putc"} /\ (pc[c] = "putc" => f.k = f.n)
      /\ DOMAIN f = Fields /\ Local(pc[c], f, data) /\ Owns(c, pc[c], f)
      /\ priLock' = NoCpu
      /\ UNCHANGED <<fdset, console, started, dlock, line, stream, data>>
  BY DEF IInv, Shape, PriUnlock, envVars, uartVars
<1>3. DOMAIN g = Fields /\ g.desc = f.desc /\ Local(f.then, g, data)
  <2> HIDE DEF f
  <2>1. QED
    BY <1>1, <1>2, UnlockLocal, Zenon
<1>4. f.then \in {"done", "body", "undesc"}
  BY <1>2, Zenon DEF Local, Typed
<1>5. /\ pc' \in [Cpus -> Labels] /\ loc' = [d \in Cpus |-> loc'[d]]
      /\ \A d \in Cpus : DOMAIN loc'[d] = Fields
      /\ pc'[c] = f.then /\ loc'[c] = g
      /\ \A d \in Cpus \ {c} : pc'[d] = pc[d] /\ loc'[d] = loc[d]
      /\ Alone'
  <2>1. Goto(c, f.then, g) /\ f.then \in Labels /\ pc[c] # "idle"
    BY <1>1, <1>2, <1>4, Zenon DEF Labels
  <2>2. QED
    BY <1>2, <1>3, <2>1, Moved
<1>6. priLock = c /\ \A d \in Cpus \ {c} : pc[d] \notin InPri
  BY <1>2, Zenon DEF IInv, Owns, InPri
<1> HIDE DEF f
<1>7. Shape'
  BY <1>2, <1>5 DEF Shape, IInv
<1>8. LineOK'
  <2>1. line.k = line.n
    <3>1. ASSUME line.k # line.n PROVE FALSE
      <4>1. PICK d \in Cpus : Last(d, pc[d], loc[d])
        BY <3>1, Zenon DEF IInv, LineOK
      <4>2. d = c
        BY <1>6, <4>1, Zenon DEF Last, InPri
      <4>3. line = [cpu |-> c, k |-> f.k, n |-> f.n] /\ f.k = f.n
        BY <1>2, <4>1, <4>2, Zenon DEF Last, f
      <4>4. QED
        BY <3>1, <4>3
    <3>2. QED
      BY <3>1
  <2>2. \A d \in Cpus : pc'[d] # "putc"
    BY <1>4, <1>5, <1>6 DEF InPri
  <2>3. QED
    BY <1>2, <2>1, <2>2, Zenon DEF LineOK
<1>9. StreamOK'
  BY <1>2, Zenon DEF StreamOK, IInv
<1>10. ASSUME NEW d \in Cpus PROVE Local(pc'[d], loc'[d], data') /\ Owns(d, pc[d], loc[d])'
  <2>1. CASE d = c
    <3>1. Owns(c, pc[c], loc[c])'
      BY <1>2, <1>3, <1>4, <1>5 DEF Owns, Inside, InPri
    <3>2. QED
      BY <1>2, <1>3, <1>5, <2>1, <3>1
  <2>2. CASE d # c
    BY <1>2, <1>5, <1>6, <2>2 DEF IInv, Owns
  <2>3. QED
    BY <2>1, <2>2
<1>11. QED
  BY <1>5, <1>7, <1>8, <1>9, <1>10 DEF IInv

\* A character goes to the UART, or nowhere when there is no console.
LEMMA PutcStep ==
  ASSUME IInv, NEW c \in Cpus, Putc(c)
  PROVE  IInv'
<1> DEFINE f == loc[c]
           mine == f.then = "body"
           g == [f EXCEPT !.k = @ + 1, !.put = IF mine THEN @ + 1 ELSE @]
<1>1. /\ pc[c] = "putc" /\ f.k < f.n /\ DOMAIN f = Fields /\ Local("putc", f, data) /\ Owns(c, "putc", f)
      /\ Goto(c, "putc", g)
      /\ UNCHANGED <<fdset, console, started, dlock, priLock, data>>
  BY DEF IInv, Shape, Putc, envVars, lockVars
<1>2. /\ console = "up" => line' = [cpu |-> c, k |-> f.k + 1, n |-> f.n]
      /\ console # "up" => line' = line
      /\ stream' = stream \/ (mine /\ stream' = [stream EXCEPT ![f.desc] = c])
  BY DEF Putc
<1> HIDE DEF f
<1>3. Same(g, f, {"k", "put"}) /\ g.k = f.k + 1 /\ g.put = IF mine THEN f.put + 1 ELSE f.put
  BY <1>1, Zenon DEF Same, Fields
<1>4. /\ pc' \in [Cpus -> Labels] /\ loc' = [d \in Cpus |-> loc'[d]]
      /\ \A d \in Cpus : DOMAIN loc'[d] = Fields
      /\ pc'[c] = "putc" /\ loc'[c] = g
      /\ \A d \in Cpus \ {c} : pc'[d] = pc[d] /\ loc'[d] = loc[d]
      /\ Alone'
  <2> HIDE DEF g
  <2>1. DOMAIN g = Fields /\ "putc" \in Labels /\ pc[c] # "idle"
    BY <1>1, <1>3, Zenon DEF Same, Labels
  <2>2. UNCHANGED started /\ Goto(c, "putc", g)
    BY <1>1, Zenon
  <2> QED BY <2>1, <2>2, Moved, Zenon
<1> HIDE DEF g
<1>5. /\ f.k \in Nat /\ f.n \in Nat /\ f.put \in Nat /\ f.res \in Int
      /\ f.op \notin {"read", "snprintf"} /\ f.then \in {"done", "body", "undesc"}
      /\ (mine => f.op \in {"write", "writev"})
  BY <1>1 DEF Local, Typed
<1>6. /\ g.op = f.op /\ g.then = f.then /\ g.n = f.n /\ g.res = f.res /\ g.iov = f.iov /\ g.desc = f.desc
      /\ g.mask = f.mask /\ g.i = f.i /\ g.ln = f.ln /\ g.count = f.count
  BY <1>3 DEF Same, Fields
<1>7. mine => f.desc \in Descs /\ dlock[f.desc] = c
  BY <1>1 DEF Owns, Inside, InPri
<1>8. priLock = c /\ \A d \in Cpus \ {c} : pc[d] \notin InPri
  BY <1>1 DEF IInv, Owns, InPri
<1>9. Shape'
  BY <1>1, <1>2, <1>4, <1>7 DEF Shape, IInv
<1>10. StreamOK'
  BY <1>1, <1>2, <1>7 DEF StreamOK, IInv, Shape
<1>11. LineOK'
  <2>1. CASE console = "up"
    <3>1. Last(c, pc[c], loc[c])'
      BY <1>2, <1>3, <1>4, <1>5, <1>6, <2>1 DEF Last
    <3>2. \A d \in Cpus \ {c} : pc'[d] # "putc"
      BY <1>4, <1>8 DEF InPri
    <3>3. QED
      BY <1>1, <2>1, <3>1, <3>2 DEF LineOK
  <2>2. CASE console # "up"
    <3>1. line.k = line.n
      BY <2>2 DEF IInv, LineOK
    <3>2. QED
      BY <1>1, <1>2, <2>2, <3>1, Zenon DEF LineOK
  <2>3. QED
    BY <2>1, <2>2
<1>12. Local("putc", g, data)
  <2> HIDE DEF mine
  <2>0. Typed("putc", f) /\ Counts("putc", f)
    BY <1>1, Zenon DEF Local
  <2>1. Typed("putc", g)
    <3>1. f.i \in Nat /\ f.ln \in Nat /\ f.count \in Nat /\ f.i >= 1
      BY <2>0 DEF Typed
    <3>2. g.put \in Nat /\ g.k \in Nat /\ g.k <= g.n
      <4>1. f.k < f.n /\ g.k = f.k + 1 /\ g.put = IF mine THEN f.put + 1 ELSE f.put
        BY <1>1, <1>3, Zenon
      <4> QED BY <1>5, <1>6, <4>1
    <3>3. g.then = "body" => g.op \in {"write", "writev"}
      BY <1>5, <1>6, Zenon DEF mine
    <3>4. QED
      BY <1>5, <1>6, <3>1, <3>2, <3>3 DEF Typed, InPri
  <2>2. Counts("putc", g)
    <3>1. g.op \in {"write", "writev"} =>
            /\ g.iov \in Seq([ok : BOOLEAN, len : Nat])
            /\ g.op = "write" => Len(g.iov) = 1
      BY <1>6, <2>0, Zenon DEF Counts
    <3>2. ASSUME f.op \in Moving
          PROVE  /\ f.then \in {"body", "undesc"}
                 /\ f.then = "body" => f.put = f.res + f.k
                 /\ f.then = "undesc" /\ f.res >= 0 => f.res = f.put
      BY <2>0, <3>2 DEF Counts, InPri
    <3>3. f.then = "body" /\ f.put = f.res + f.k => g.put = g.res + g.k
      BY <1>3, <1>5, <1>6 DEF mine
    <3>4. f.then = "undesc" => g.put = f.put
      BY <1>3 DEF mine
    <3>5. QED
      BY <1>5, <1>6, <3>1, <3>2, <3>3, <3>4 DEF Counts, InPri
  <2>3. Lined("putc", g, data)
    BY <1>1, <1>6 DEF Local, Lined, Inside, InPri
  <2>4. Buffered("putc", g)
    BY <1>5, <1>6 DEF Buffered
  <2>5. QED
    BY <2>1, <2>2, <2>3, <2>4 DEF Local
<1>13. ASSUME NEW d \in Cpus PROVE Local(pc'[d], loc'[d], data') /\ Owns(d, pc[d], loc[d])'
  <2>1. CASE d = c
    <3>1. Owns(c, pc[c], loc[c])'
      BY <1>1, <1>4, <1>6 DEF Owns, Inside, InPri
    <3>2. QED
      BY <1>1, <1>4, <1>12, <2>1, <3>1
  <2>2. CASE d # c
    BY <1>1, <1>4, <2>2 DEF IInv, Owns
  <2>3. QED
    BY <2>1, <2>2
<1>14. QED
  BY <1>4, <1>9, <1>10, <1>11, <1>13 DEF IInv

\* The lines of an ioctl that is not at work do not depend on the register.
LEMMA LinedOther ==
  ASSUME NEW p, NEW f, NEW d1, NEW d2, Lined(p, f, d1),
         f.op = "ioctl" => p \notin {"body", "line", "store", "undesc"}
  PROVE  Lined(p, f, d2)
  BY DEF Lined

\* gpio_v2_set writes the register: the CPU holds the lock of the GPIO, and
\* no other ioctl is at work.
LEMMA SetWriteStep ==
  ASSUME IInv, NEW c \in Cpus, GpioSetWrite(c)
  PROVE  IInv'
<1> DEFINE f == loc[c]
           g == [f EXCEPT !.copy = {}, !.ln = @ + 1]
           m == f.mask \cap 0 .. f.ln - 1
<1>1. /\ pc[c] = "store" /\ f.op = "ioctl" /\ DOMAIN f = Fields /\ Local("store", f, data) /\ Owns(c, "store", f)
      /\ f.mask \subseteq Lines /\ f.desc = Gpio /\ dlock[Gpio] = c /\ f.res = 0 /\ f.ln \in Nat
      /\ Goto(c, "line", g)
      /\ data' = (IF f.ln \in f.bits THEN f.copy \cup {f.ln} ELSE f.copy \ {f.ln})
      /\ UNCHANGED <<fdset, console, started, dlock, priLock, line, stream>>
  BY AtLine DEF IInv, Shape, GpioSetWrite, envVars, lockVars, uartVars
<1>2. f.cmd = "set" /\ f.copy = data /\ f.ln \in f.mask /\ data = (f.snap \ m) \cup (f.bits \cap m)
  BY <1>1 DEF Local, Lined
<1> HIDE DEF f
<1>3. Same(g, f, {"copy", "ln"}) /\ g.ln = f.ln + 1
  BY <1>1, Zenon DEF Same, Fields
<1> HIDE DEF g
<1>4. /\ pc' \in [Cpus -> Labels] /\ loc' = [d \in Cpus |-> loc'[d]]
      /\ \A d \in Cpus : DOMAIN loc'[d] = Fields
      /\ pc'[c] = "line" /\ loc'[c] = g
      /\ \A d \in Cpus \ {c} : pc'[d] = pc[d] /\ loc'[d] = loc[d]
      /\ Alone'
  BY <1>1, <1>3, Moved DEF Same, Labels
<1>5. /\ g.op = f.op /\ g.mask = f.mask /\ g.desc = f.desc /\ g.res = f.res /\ g.cmd = f.cmd
      /\ g.snap = f.snap /\ g.then = f.then /\ g.bits = f.bits
  BY <1>3 DEF Same, Fields
<1>6. Shape'
  BY <1>1, <1>4 DEF Shape, IInv
<1>7. LineOK'
  BY <1>1, <1>4 DEF LineOK, Last, IInv
<1>8. StreamOK'
  BY <1>1 DEF StreamOK, IInv
<1>9. Local("line", g, data')
  <2>1. Typed("line", g)
    <3>1. Typed("store", f)
      BY <1>1, Zenon DEF Local
    <3>2. g.put = f.put /\ g.k = f.k /\ g.n = f.n /\ g.i = f.i /\ g.count = f.count
      BY <1>3 DEF Same, Fields
    <3>3. g.ln \in Nat
      <4>1. f.ln \in Nat
        BY <3>1 DEF Typed
      <4> QED BY <1>3, <4>1
    <3>4. QED
      BY <1>1, <1>5, <3>1, <3>2, <3>3 DEF Typed, InPri
  <2>2. Counts("line", g) /\ Buffered("line", g)
    BY <1>1, <1>5, Zenon DEF Counts, Buffered, Moving
  <2>3. g.mask \cap 0 .. g.ln - 1 = m \cup {f.ln}
    <3>1. 0 .. g.ln - 1 = (0 .. f.ln - 1) \cup {f.ln}
      <4>1. f.ln \in Nat /\ g.ln = f.ln + 1
        BY <1>1, <1>3, Zenon DEF Local, Typed
      <4> QED BY <4>1
    <3>2. QED
      BY <1>2, <1>5, <3>1, Zenon
  <2>4. f.ln \notin m
    <3>1. f.ln \in Nat
      BY <1>1, Zenon DEF Local, Typed
    <3> QED BY <3>1
  <2> HIDE DEF m
  <2>5. data' = (f.snap \ (m \cup {f.ln})) \cup (f.bits \cap (m \cup {f.ln}))
    BY <1>1, <1>2, <2>4
  <2>6. Lined("line", g, data')
    BY <1>1, <1>2, <1>5, <2>3, <2>5, Zenon DEF Lined, InPri
  <2>7. QED
    BY <2>1, <2>2, <2>6 DEF Local
<1>10. ASSUME NEW d \in Cpus PROVE Local(pc'[d], loc'[d], data') /\ Owns(d, pc[d], loc[d])'
  <2>1. CASE d = c
    <3>1. Owns(c, pc[c], loc[c])'
      BY <1>1, <1>4, <1>5 DEF Owns, Inside, InPri
    <3>2. QED
      BY <1>4, <1>9, <2>1, <3>1
  <2>2. CASE d # c
    <3>1. Owns(d, pc[d], loc[d])'
      BY <1>1, <1>4, <2>2 DEF IInv, Owns
    <3>2. Local(pc[d], loc[d], data) /\ Owns(d, pc[d], loc[d])
      BY DEF IInv
    <3>3. loc[d].op = "ioctl" => pc[d] \notin {"body", "line", "store", "undesc"}
      BY <1>1, <2>2, <3>2, Zenon DEF Local, Lined, Owns, Inside
    <3>4. Lined(pc[d], loc[d], data')
      BY <3>2, <3>3, LinedOther, Zenon DEF Local
    <3>5. QED
      BY <1>4, <2>2, <3>1, <3>2, <3>4 DEF Local
  <2>3. QED
    BY <2>1, <2>2
<1>11. QED
  BY <1>4, <1>6, <1>7, <1>8, <1>10 DEF IInv
-----------------------------------------------------------------------------
(* The system.                                                             *)

\* Nothing runs before k_file_stdio_init.
LEMMA InitInv == ConsoleInit => IInv
<1> SUFFICES ASSUME ConsoleInit PROVE IInv
  OBVIOUS
<1>1. pc = [c \in Cpus |-> "idle"] /\ loc = [c \in Cpus |-> Frame]
  BY DEF ConsoleInit
<1>2. Shape
  BY <1>1, FrameLocal, Zenon DEF ConsoleInit, Shape, Labels, Descs, NoDesc
<1>3. Alone
  BY <1>1 DEF Alone
<1>4. LineOK
  BY <1>1 DEF ConsoleInit, LineOK
<1>5. StreamOK
  BY DEF ConsoleInit, StreamOK
<1>6. ASSUME NEW c \in Cpus PROVE Local(pc[c], loc[c], data) /\ Owns(c, pc[c], loc[c])
  BY <1>1, FrameLocal DEF Owns, Inside, InPri
<1>7. QED
  BY <1>2, <1>3, <1>4, <1>5, <1>6, Zenon DEF IInv

\* The UART and the start of the system.
LEMMA SystemStep ==
  ASSUME IInv, Drain \/ Arrive \/ UartAdd \/ UartProbed \/ StartProgram \/ UNCHANGED consoleVars
  PROVE  IInv'
<1>1. /\ UNCHANGED <<fdset, dlock, priLock, pc, loc, line, stream, data>>
      /\ console' = console \/ (~started /\ pc[BootCpu] = "idle" /\ console' \in {"bound", "up"})
      /\ started' = started \/ started' = TRUE
  BY DEF Drain, Arrive, UartAdd, UartProbed, StartProgram, consoleVars, envVars, lockVars, uartVars
<1>2. Shape'
  BY <1>1, Zenon DEF IInv, Shape
<1>3. Alone'
  <2>1. CASE started' = started
    BY <1>1, <2>1, Zenon DEF IInv, Alone
  <2>2. CASE started' = TRUE
    BY <2>2 DEF Alone
  <2>3. QED
    BY <1>1, <2>1, <2>2, Zenon
<1>4. LineOK'
  <2>1. CASE console' = console
    BY <1>1, <2>1, Zenon DEF IInv, LineOK, Last
  <2>2. CASE console' # console
    <3>1. \A c \in Cpus : pc[c] = "idle"
      BY <1>1, <2>2 DEF IInv, Alone
    <3>2. line.k = line.n
      BY <3>1 DEF IInv, LineOK, Last
    <3>3. QED
      BY <1>1, <3>1, <3>2 DEF LineOK
  <2>3. QED
    BY <2>1, <2>2
<1>5. StreamOK'
  BY <1>1 DEF IInv, StreamOK
<1>6. ASSUME NEW c \in Cpus PROVE Local(pc'[c], loc'[c], data') /\ Owns(c, pc[c], loc[c])'
  BY <1>1 DEF IInv, Owns
<1>7. QED
  BY <1>2, <1>3, <1>4, <1>5, <1>6 DEF IInv

\* Every step keeps the invariant.
LEMMA StepInv == IInv /\ [ConsoleNext]_consoleVars => IInv'
<1> SUFFICES ASSUME IInv, [ConsoleNext]_consoleVars PROVE IInv'
  OBVIOUS
<1>1. ASSUME NEW c \in Cpus, Step(c) PROVE IInv'
  <2>1. \/ QuietStep(c) \/ DescLock(c) \/ DescUnlock(c) \/ PriLock(c) \/ PriUnlock(c)
        \/ Putc(c) \/ GpioSetWrite(c)
    BY <1>1 DEF Step, QuietStep
  <2>2. QED
    BY <2>1, QuietSteps, DescLockStep, DescUnlockStep, PriLockStep, PriUnlockStep, PutcStep, SetWriteStep
<1>2. QED
  BY <1>1, EnterStep, SystemStep DEF ConsoleNext

\* The invariant of the console, the descriptors and the lines.
THEOREM ConsoleInvariant == ConsoleSpec => []IInv
<1>1. QED
  BY InitInv, StepInv, PTL DEF ConsoleSpec

\* The result of a read, write or writev is the number of characters it
\* moved, for any pieces and whatever the other CPUs print or close.
THEOREM ConsoleCounts == ConsoleSpec => []CountsMoved
<1>1. IInv => CountsMoved
  BY Zenon DEF IInv, Local, Counts, CountsMoved, Moving
<1>2. QED
  BY <1>1, ConsoleInvariant, PTL

\* An ioctl of the GPIO works on all of its lines at once, for any number of
\* lines, any masks and any number of CPUs.
THEOREM ConsoleLines == ConsoleSpec => []LinesTogether
<1>1. IInv => LinesTogether
  BY Zenon DEF IInv, Local, Lined, LinesTogether
<1>2. QED
  BY <1>1, ConsoleInvariant, PTL

\* k_snprintf keeps to its buffer, for any text and any size_t.
THEOREM ConsoleBuffer == ConsoleSpec => []BufferBounded
<1>1. IInv => BufferBounded
  BY Zenon DEF IInv, Local, Buffered, BufferBounded
<1>2. QED
  BY <1>1, ConsoleInvariant, PTL

\* The characters of a message follow each other on the line, and those of a
\* writev go through its descriptor before those of another call.
THEOREM ConsoleWhole == ConsoleSpec => MessagesWhole
<1> DEFINE Whole == line' # line =>
       /\ IF line'.k = 1 THEN line.k = line.n ELSE line = [line' EXCEPT !.k = @ - 1]
       /\ \A d \in Descs : stream[d] # NoCpu => stream'[d] \in {NoCpu, stream[d]}
<1>1. ASSUME IInv, [ConsoleNext]_consoleVars, line' # line PROVE Whole
  <2>1. PICK c \in Cpus : Putc(c)
    <3>1. \/ \E c \in Cpus : Putc(c)
          \/ UNCHANGED line
      <4>1. ASSUME NEW c \in Cpus, Enter(c) PROVE UNCHANGED line
        BY <4>1, Zenon DEF Enter, uartVars, SysRead, SysWrite, SysWritev, SysIoctl, SysPoll, SysClose,
           KernelMessage, KernelFormat
      <4>2. ASSUME NEW c \in Cpus, Step(c) PROVE Putc(c) \/ UNCHANGED line
        BY <4>2, Zenon DEF Step, uartVars, ClearDesc, DescLock, ReadBody, WriteBody, IoctlBody, NextLine,
           GpioGet, GpioSetRead, GpioSetWrite, DescUnlock, PriLock, Getc, Format, PriUnlock, Return
      <4>3. ASSUME Drain \/ Arrive \/ UartAdd \/ UartProbed \/ StartProgram PROVE UNCHANGED line
        BY <4>3, Zenon DEF uartVars, Drain, Arrive, UartAdd, UartProbed, StartProgram
      <4>4. ASSUME UNCHANGED consoleVars PROVE UNCHANGED line
        BY <4>4, Zenon DEF consoleVars, uartVars
      <4> QED BY <1>1, <4>1, <4>2, <4>3, <4>4, Zenon DEF ConsoleNext
    <3>2. QED
      BY <1>1, <3>1
  <2> DEFINE f == loc[c]
  <2>2. /\ pc[c] = "putc" /\ console = "up" /\ line' = [cpu |-> c, k |-> f.k + 1, n |-> f.n]
        /\ stream' = stream \/ (f.then = "body" /\ stream' = [stream EXCEPT ![f.desc] = c])
    BY <1>1, <2>1 DEF Putc
  <2>3. f.k \in Nat /\ f.n \in Nat /\ priLock = c /\ (f.then = "body" => f.desc \in Descs /\ dlock[f.desc] = c)
    BY <1>1, <2>2, Zenon DEF IInv, Local, Typed, Owns, Inside, InPri
  <2>4. CASE f.k = 0
    <3>1. line.k = line.n
      <4>1. \A d \in Cpus : pc[d] = "putc" => priLock = d
        BY <1>1, Zenon DEF IInv, Owns, InPri
      <4>2. \A d \in Cpus : Last(d, pc[d], loc[d]) => d = c
        BY <2>3, <4>1, Zenon DEF Last
      <4>3. ~Last(c, pc[c], f)
        BY <2>4 DEF Last
      <4>4. QED
        BY <1>1, <4>2, <4>3, Zenon DEF IInv, LineOK
    <3>2. line'.k = 1
      BY <2>2, <2>4
    <3>3. QED
      BY <1>1, <2>2, <2>3, <3>1, <3>2 DEF IInv, StreamOK, Shape
  <2>5. CASE f.k > 0
    <3>1. line = [cpu |-> c, k |-> f.k, n |-> f.n]
      BY <1>1, <2>2, <2>5, Zenon DEF IInv, LineOK, Last
    <3>2. line'.k # 1 /\ line = [line' EXCEPT !.k = @ - 1]
      BY <2>2, <2>3, <2>5, <3>1
    <3>3. QED
      BY <1>1, <2>2, <2>3, <3>2 DEF IInv, StreamOK, Shape
  <2>6. QED
    BY <2>3, <2>4, <2>5
<1>2. IInv /\ [ConsoleNext]_consoleVars => [Whole]_consoleVars
  BY <1>1
<1>3. QED
  BY <1>2, ConsoleInvariant, PTL DEF ConsoleSpec, MessagesWhole
=============================================================================
