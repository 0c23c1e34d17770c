------------------------------ MODULE Console -------------------------------
(***************************************************************************)
(* The file calls of the program (sys/syscall.c, sys/file.c), the console  *)
(* they share with the messages of the kernel (sys/printk.c, sys/vsprintf.c*)
(* and driver/uart), and the GPIO lines (driver/gpio).                     *)
(*                                                                         *)
(* A call runs in a trap or before the program starts, with the interrupts *)
(* of its CPU off: the save and restore around k_pri_lock changes nothing, *)
(* and a message of an interrupt handler is a call of its own.  The locks  *)
(* are modelled by their holder (Spinlock shows that they exclude).  A     *)
(* step is the code between two accesses to state that another CPU or the  *)
(* UART changes.  The descriptors are fds[0] to fds[3], named by their     *)
(* number; the ops of the first three are file_stdio_ops, those of Gpio    *)
(* gpio_line_ops.  A buffer of the program is its length.  The GPIO lines  *)
(* are outputs: their register reads back what was written to it.          *)
(*                                                                         *)
(* Left out: messages below the level of a warning.                        *)
(***************************************************************************)
EXTENDS Printf, FiniteSets

CONSTANTS
  Cpus,
  BootCpu,      \* runs alone until the program starts
  Boards,       \* what the configuration has
  MaxFd,        \* CONFIG_MAX_FD
  NumLines,     \* the lines k_gpio_line_get_values and _set_values go through
  Warning,      \* the length of the messages the calls print
  BootCalls,    \* the calls before the program starts, at each stage of the console
  RunCalls,     \* the calls of each CPU of the program
  MaxCalls,     \* bound on their number
  NoCpu

ASSUME ConsoleAssumption ==
  /\ BootCpu \in Cpus
  /\ NoCpu \notin Cpus
  /\ MaxFd \in Nat /\ MaxFd >= 4
  /\ {NumLines, Warning} \subseteq Nat
  /\ Boards \subseteq [uart : BOOLEAN, gpio : BOOLEAN]
  /\ MaxCalls \in [Cpus \cup {NoCpu} -> Nat]

VARIABLES
  fdset,        \* pi->fdset: the descriptor of each number
  console,      \* "null": no console, "bound": uart_default is set, "up": probed
  started,      \* the program runs, on all CPUs
  board,        \* its devices: has it a UART, is k_gpio_system set?
  dlock,        \* the CPU that holds desc->lock
  priLock,      \* the CPU that holds k_pri_lock
  pc, loc,      \* where the call of each CPU is, and its locals
  left,         \* calls still to come
  full,         \* the transmitter has a character to send
  avail,        \* the receiver has a character
  data,         \* the data register of the GPIO: the lines that are high
  line,         \* the character that reached the UART last
  stream        \* the CPU in the middle of output through each descriptor

envVars == <<console, started, board>>
lockVars == <<dlock, priLock>>
uartVars == <<full, avail, line, stream>>
consoleVars == <<fdset, envVars, lockVars, pc, loc, left, uartVars, data>>

NoDesc == -1
Descs == 0 .. 3
Gpio == 3
Lines == 0 .. NumLines - 1
EBADF == 9
EFAULT == 14
EINVAL == 22
ENOTTY == 25
ENOTSUP == 95

\* The ops of each descriptor.
Ops(d) == IF d = Gpio THEN {"read", "write", "ioctl", "poll", "close"} ELSE {"read", "write"}

\* The locals of a call: its arguments; the text fmt gives; the descriptor;
\* iov[i], and the n characters that are being put, k of them so far; the
\* label after that; the line and the copy of the register; history: put,
\* the characters moved, and snap, the register when the call got its lock;
\* the result.
Frame == [op |-> "none", fd |-> 0, ok |-> TRUE, count |-> 0, iov |-> << >>,
          cmd |-> "none", mask |-> {}, bits |-> {}, fmt |-> << >>,
          text |-> << >>, desc |-> NoDesc, i |-> 1, k |-> 0, n |-> 0, then |-> "done",
          ln |-> 0, copy |-> {}, buf |-> << >>, put |-> 0, snap |-> {}, res |-> 0]

Read(fd, ok, count) == [Frame EXCEPT !.op = "read", !.fd = fd, !.ok = ok, !.count = count]
Write(fd, ok, len) == [Frame EXCEPT !.op = "write", !.fd = fd, !.iov = <<[ok |-> ok, len |-> len]>>]
Writev(fd, ok, iov) == [Frame EXCEPT !.op = "writev", !.fd = fd, !.ok = ok, !.iov = iov]
Ioctl(fd, cmd, ok, mask, bits) ==
  [Frame EXCEPT !.op = "ioctl", !.fd = fd, !.cmd = cmd, !.ok = ok, !.mask = mask, !.bits = bits]
Close(fd) == [Frame EXCEPT !.op = "close", !.fd = fd]
Poll(ok, fds) == [Frame EXCEPT !.op = "poll", !.ok = ok, !.iov = fds]
Kprintf(fmt) == [Frame EXCEPT !.op = "printf", !.fmt = fmt]
Kputchar == [Frame EXCEPT !.op = "putchar"]
Kputs(len) == [Frame EXCEPT !.op = "puts", !.count = len]
Ksnprintf(buf, max, fmt) == [Frame EXCEPT !.op = "snprintf", !.buf = buf, !.count = max, !.fmt = fmt]

\* A call as its caller makes it: it sets nothing but arguments, a length is
\* a number and a size a size_t, the text of a format has a length, write has
\* one piece, and the mask of an ioctl has lines in it.
IsCall(f) ==
  /\ f = [Frame EXCEPT !.op = f.op, !.fd = f.fd, !.ok = f.ok, !.count = f.count,
                       !.iov = f.iov, !.cmd = f.cmd, !.mask = f.mask, !.bits = f.bits,
                       !.fmt = f.fmt, !.buf = f.buf]
  /\ f.count \in Nat
  /\ f.op \in {"write", "writev"} =>
       /\ f.iov \in Seq([ok : BOOLEAN, len : Nat])
       /\ f.op = "write" => Len(f.iov) = 1
  /\ f.op = "ioctl" => f.mask \subseteq Lines
  /\ f.op = "printf" => Len(OutChars(f.fmt)) \in Nat
  /\ f.op = "snprintf" =>
       /\ f.count < 2^LongBits
       /\ Len(Render(f.fmt)) \in Nat
       /\ \A i \in DOMAIN f.buf : i \in Nat /\ f.buf[i] = "junk"

ASSUME CallAssumption ==
  /\ \A stage \in {"null", "bound", "up"} : \A f \in BootCalls[stage] : IsCall(f)
  /\ \A c \in Cpus : \A f \in RunCalls[c] : IsCall(f)

\* k_file_stdio_init
ConsoleInit ==
  /\ fdset = [fd \in 0 .. MaxFd - 1 |-> IF fd \in Descs THEN fd ELSE NoDesc]
  /\ console = "null"
  /\ started = FALSE
  /\ board \in Boards
  /\ dlock = [d \in Descs |-> NoCpu]
  /\ priLock = NoCpu
  /\ pc = [c \in Cpus |-> "idle"]
  /\ loc = [c \in Cpus |-> Frame]
  /\ left = MaxCalls
  /\ full = FALSE
  /\ avail = FALSE
  /\ data = {}
  /\ line = [cpu |-> NoCpu, k |-> 0, n |-> 0]
  /\ stream = [d \in Descs |-> NoCpu]

Goto(c, label, f) ==
  /\ pc' = [pc EXCEPT ![c] = label]
  /\ loc' = [loc EXCEPT ![c] = f]
-----------------------------------------------------------------------------
(* The calls, up to the lock of the descriptor.                            *)

\* k_file_get_desc
GetDesc(fd) == IF fd \in DOMAIN fdset THEN fdset[fd] ELSE NoDesc

\* The calls CPU c may enter now; those before the program starts count for
\* NoCpu.
Caller(c) == IF started THEN c ELSE NoCpu
CallsOf(c) == IF left[Caller(c)] = 0 THEN {}
              ELSE IF started THEN RunCalls[c]
              ELSE IF c = BootCpu THEN BootCalls[console] ELSE {}
Enters(c, op, f) ==
  /\ f.op = op
  /\ left' = [left EXCEPT ![Caller(c)] = @ - 1]

\* The check that ends a call before it takes the lock: the descriptor has
\* the operation.
WithDesc(c, f, op, error) ==
  LET d == GetDesc(f.fd) IN
  IF d = NoDesc \/ op \notin Ops(d)
    THEN Goto(c, "done", [f EXCEPT !.res = -error])
    ELSE Goto(c, "desc", [f EXCEPT !.desc = d])

\* k_sys_read
SysRead(c) ==
  /\ pc[c] = "idle"
  /\ \E f \in CallsOf(c) : Enters(c, "read", f) /\ WithDesc(c, f, "read", EBADF)
  /\ UNCHANGED <<fdset, envVars, lockVars, uartVars, data>>

\* k_sys_write
SysWrite(c) ==
  /\ pc[c] = "idle"
  /\ \E f \in CallsOf(c) : Enters(c, "write", f) /\ WithDesc(c, f, "write", EBADF)
  /\ UNCHANGED <<fdset, envVars, lockVars, uartVars, data>>

\* k_sys_writev
SysWritev(c) ==
  /\ pc[c] = "idle"
  /\ \E f \in CallsOf(c) :
       /\ Enters(c, "writev", f)
       /\ IF GetDesc(f.fd) # NoDesc /\ (~f.ok \/ f.iov = << >>)
            THEN Goto(c, "done", [f EXCEPT !.res = IF f.ok THEN 0 ELSE -EINVAL])
            ELSE WithDesc(c, f, "write", EBADF)
  /\ UNCHANGED <<fdset, envVars, lockVars, uartVars, data>>

\* k_sys_ioctl
SysIoctl(c) ==
  /\ pc[c] = "idle"
  /\ \E f \in CallsOf(c) : Enters(c, "ioctl", f) /\ WithDesc(c, f, "ioctl", ENOTTY)
  /\ UNCHANGED <<fdset, envVars, lockVars, uartVars, data>>

\* k_sys_poll: "TODO: allocate descriptors array".
SysPoll(c) ==
  /\ pc[c] = "idle"
  /\ \E f \in CallsOf(c) :
       /\ Enters(c, "poll", f)
       /\ LET bad == \E i \in DOMAIN f.iov : \/ GetDesc(f.iov[i]) = NoDesc
                                             \/ "poll" \notin Ops(GetDesc(f.iov[i]))
          IN Goto(c, "done", [f EXCEPT !.res = IF ~f.ok THEN -EFAULT
                                               ELSE IF bad THEN -EBADF ELSE -ENOTSUP])
  /\ UNCHANGED <<fdset, envVars, lockVars, uartVars, data>>

\* k_sys_close up to k_file_set_desc; k_gpio_line_close does nothing.
SysClose(c) ==
  /\ pc[c] = "idle"
  /\ \E f \in CallsOf(c) :
       /\ Enters(c, "close", f)
       /\ IF GetDesc(f.fd) = NoDesc THEN Goto(c, "done", [f EXCEPT !.res = -EBADF])
                                    ELSE Goto(c, "clear", f)
  /\ UNCHANGED <<fdset, envVars, lockVars, uartVars, data>>

\* k_file_set_desc(fd, NULL), without a lock
ClearDesc(c) ==
  /\ pc[c] = "clear"
  /\ fdset' = [fdset EXCEPT ![loc[c].fd] = NoDesc]
  /\ Goto(c, "done", loc[c])
  /\ UNCHANGED <<envVars, lockVars, left, uartVars, data>>

\* The messages of the kernel: k_printf, k_puts with its newline, k_putchar.
KernelMessage(c) ==
  /\ pc[c] = "idle"
  /\ \E f \in CallsOf(c) :
       \/ Enters(c, "printf", f) /\ Goto(c, "pri", [f EXCEPT !.n = Len(OutChars(f.fmt))])
       \/ Enters(c, "puts", f) /\ Goto(c, "pri", [f EXCEPT !.n = f.count + 1])
       \/ Enters(c, "putchar", f) /\ Goto(c, "pri", [f EXCEPT !.n = 1])
  /\ UNCHANGED <<fdset, envVars, lockVars, uartVars, data>>

\* k_snprintf and k_sprintf; the arguments are the caller's own, so that the
\* text they give is known from the start.
KernelFormat(c) ==
  /\ pc[c] = "idle"
  /\ \E f \in CallsOf(c) : Enters(c, "snprintf", f) /\ Goto(c, "pri", [f EXCEPT !.text = Render(f.fmt)])
  /\ UNCHANGED <<fdset, envVars, lockVars, uartVars, data>>
-----------------------------------------------------------------------------
(* With the lock of the descriptor.                                        *)

\* Mutant: the descriptor is not locked.
DescLockNone(c) ==
  /\ pc[c] = "desc"
  /\ dlock' = [dlock EXCEPT ![loc[c].desc] = c]
  /\ Goto(c, "body", [loc[c] EXCEPT !.snap = data])
  /\ UNCHANGED <<fdset, envVars, priLock, left, uartVars, data>>

\* k_spinlock_lock(&desc->lock)
DescLock(c) ==
  /\ pc[c] = "desc"
  /\ dlock[loc[c].desc] = NoCpu
  /\ dlock' = [dlock EXCEPT ![loc[c].desc] = c]
  /\ Goto(c, "body", [loc[c] EXCEPT !.snap = data])
  /\ UNCHANGED <<fdset, envVars, priLock, left, uartVars, data>>

\* k_file_read_nolock, k_file_stdio_read and k_gpio_line_read
ReadBody(c) ==
  LET f == loc[c] IN
  /\ pc[c] = "body" /\ f.op = "read"
  /\ IF ~f.ok \/ f.count = 0
       THEN Goto(c, "undesc", [f EXCEPT !.res = -EINVAL])
       ELSE IF f.desc = Gpio THEN Goto(c, "undesc", f)
                             ELSE Goto(c, "pri", [f EXCEPT !.then = "undesc"])
  /\ UNCHANGED <<fdset, envVars, lockVars, left, uartVars, data>>

\* A message printed inside of a call, which then ends with an error.
Warn(c, f, error) ==
  Goto(c, "pri", [f EXCEPT !.n = Warning, !.then = "undesc", !.res = -error])

\* What k_file_write_nolock returns: k_file_stdio_write writes all of the
\* piece, k_gpio_line_write nothing.
WriteNolock(desc, piece) ==
  IF ~piece.ok THEN -EINVAL ELSE IF desc = Gpio THEN 0 ELSE piece.len

\* The loop of k_sys_writev, or k_file_write.  A negative wr is large when
\* compared with iov_len: it is an error, whatever has been written before.
WriteBody(c) ==
  LET f == loc[c]
      piece == f.iov[f.i]
      wr == WriteNolock(f.desc, piece)
  IN
  /\ pc[c] = "body" /\ f.op \in {"write", "writev"}
  /\ IF f.i > Len(f.iov) THEN Goto(c, "undesc", f)
     ELSE IF f.op = "writev" /\ piece.len = 0 THEN Goto(c, "body", [f EXCEPT !.i = @ + 1])
     ELSE IF wr < 0 /\ f.op = "writev" THEN Warn(c, f, -wr)
     ELSE IF wr <= 0 THEN Goto(c, "undesc", [f EXCEPT !.res = @ + wr])
     ELSE Goto(c, "pri", [f EXCEPT !.n = wr, !.then = "body"])
  /\ UNCHANGED <<fdset, envVars, lockVars, left, uartVars, data>>

\* k_gpio_line_ioctl up to the loop over the lines
IoctlBody(c) ==
  LET f == loc[c] IN
  /\ pc[c] = "body" /\ f.op = "ioctl"
  /\ IF ~board.gpio THEN Warn(c, f, EBADF)
     ELSE IF f.cmd \notin {"get", "set"} THEN Goto(c, "undesc", [f EXCEPT !.res = -ENOTTY])
     ELSE IF ~f.ok THEN Goto(c, "undesc", [f EXCEPT !.res = -EINVAL])
     ELSE Goto(c, "line", [f EXCEPT !.bits = IF f.cmd = "get" THEN {} ELSE @])
  /\ UNCHANGED <<fdset, envVars, lockVars, left, uartVars, data>>

\* The next line of the loop; the end of it.
NextLine(c) ==
  LET f == loc[c] IN
  /\ pc[c] = "line"
  /\ f.ln \notin f.mask
  /\ Goto(c, IF f.ln < NumLines THEN "line" ELSE "undesc",
          IF f.ln < NumLines THEN [f EXCEPT !.ln = @ + 1] ELSE f)
  /\ UNCHANGED <<fdset, envVars, lockVars, left, uartVars, data>>

\* k_gpio_line_get_values and gpio_v2_get: one line
GpioGet(c) ==
  LET f == loc[c] IN
  /\ pc[c] = "line" /\ f.cmd = "get"
  /\ f.ln \in f.mask
  /\ Goto(c, "line", [f EXCEPT !.bits = @ \cup ({f.ln} \cap data), !.ln = @ + 1])
  /\ UNCHANGED <<fdset, envVars, lockVars, left, uartVars, data>>

\* k_gpio_line_set_values and gpio_v2_set: the register is read ...
GpioSetRead(c) ==
  LET f == loc[c] IN
  /\ pc[c] = "line" /\ f.cmd = "set"
  /\ f.ln \in f.mask
  /\ Goto(c, "store", [f EXCEPT !.copy = data])
  /\ UNCHANGED <<fdset, envVars, lockVars, left, uartVars, data>>

\* ... and written with the line changed.
GpioSetWrite(c) ==
  LET f == loc[c] IN
  /\ pc[c] = "store"
  /\ data' = IF f.ln \in f.bits THEN f.copy \cup {f.ln} ELSE f.copy \ {f.ln}
  /\ Goto(c, "line", [f EXCEPT !.copy = {}, !.ln = @ + 1])
  /\ UNCHANGED <<fdset, envVars, lockVars, left, uartVars>>

\* Mutant: a call that fails keeps the descriptor locked.
DescUnlockKept(c) ==
  LET d == loc[c].desc IN
  /\ pc[c] = "undesc"
  /\ dlock' = IF loc[c].res < 0 THEN dlock ELSE [dlock EXCEPT ![d] = NoCpu]
  /\ stream' = [stream EXCEPT ![d] = IF @ = c THEN NoCpu ELSE @]
  /\ Goto(c, "done", loc[c])
  /\ UNCHANGED <<fdset, envVars, priLock, left, full, avail, line, data>>

\* k_spinlock_unlock(&desc->lock)
DescUnlock(c) ==
  LET d == loc[c].desc IN
  /\ pc[c] = "undesc"
  /\ dlock' = [dlock EXCEPT ![d] = NoCpu]
  /\ stream' = [stream EXCEPT ![d] = IF @ = c THEN NoCpu ELSE @]
  /\ Goto(c, "done", loc[c])
  /\ UNCHANGED <<fdset, envVars, priLock, left, full, avail, line, data>>

\* The call returns to the program, or to the code before it.
Return(c) ==
  /\ pc[c] = "done"
  /\ Goto(c, "idle", Frame)
  /\ UNCHANGED <<fdset, envVars, lockVars, left, uartVars, data>>
-----------------------------------------------------------------------------
(* With k_pri_lock.                                                        *)

PriBody(f) == IF f.op = "read" THEN "getc" ELSE IF f.op = "snprintf" THEN "format" ELSE "putc"

\* Mutant: a message does not wait for the one before it.
PriLockNone(c) ==
  /\ pc[c] = "pri"
  /\ priLock' = c
  /\ Goto(c, PriBody(loc[c]), loc[c])
  /\ UNCHANGED <<fdset, envVars, dlock, left, uartVars, data>>

\* k_spinlock_lock(&k_pri_lock)
PriLock(c) ==
  /\ pc[c] = "pri"
  /\ priLock = NoCpu
  /\ priLock' = c
  /\ Goto(c, PriBody(loc[c]), loc[c])
  /\ UNCHANGED <<fdset, envVars, dlock, left, uartVars, data>>

\* uart_ns16550_char_out and char_in wait for the transmitter and for a
\* character.
CharOut == ~full /\ full' = TRUE
CharIn == avail /\ avail' = FALSE

\* The loops of k_pri_write_stdout, k_puts_nolock and k_vprintf_nolock: a
\* character goes through null_putchar or uart_putc.  Without a probed UART
\* it is dropped.
Putc(c) ==
  LET f == loc[c]
      mine == f.then = "body"
  IN
  /\ pc[c] = "putc"
  /\ f.k < f.n
  /\ IF console = "up"
       THEN /\ CharOut
            /\ line' = [cpu |-> c, k |-> f.k + 1, n |-> f.n]
            /\ stream' = IF mine THEN [stream EXCEPT ![f.desc] = c] ELSE stream
       ELSE UNCHANGED <<full, line, stream>>
  /\ Goto(c, "putc", [f EXCEPT !.k = @ + 1, !.put = IF mine THEN @ + 1 ELSE @])
  /\ UNCHANGED <<fdset, envVars, lockVars, left, avail, data>>

\* k_pri_read_stdin with null_getchar or uart_getc
Getc(c) ==
  LET f == loc[c] IN
  /\ pc[c] = "getc"
  /\ IF console = "up"
       THEN CharIn /\ Goto(c, "unpri", [f EXCEPT !.put = 1, !.res = 1])
       ELSE Goto(c, "unpri", f) /\ UNCHANGED avail
  /\ UNCHANGED <<fdset, envVars, lockVars, left, full, line, stream, data>>

\* k_vsnprintf_nolock
Format(c) ==
  LET f == loc[c] IN
  /\ pc[c] = "format"
  /\ Goto(c, "unpri", [f EXCEPT !.buf = Vsnprintf(f.buf, f.count, f.text), !.res = Len(f.text)])
  /\ UNCHANGED <<fdset, envVars, lockVars, left, uartVars, data>>

\* Mutant: the result is that of the last piece.
PriUnlockLast(c) ==
  LET f == loc[c]
      g == [f EXCEPT !.k = 0, !.n = 0, !.then = "done"]
  IN
  /\ pc[c] = "unpri" \/ (pc[c] = "putc" /\ f.k = f.n)
  /\ priLock' = NoCpu
  /\ Goto(c, f.then, IF f.then = "body" THEN [g EXCEPT !.res = f.n, !.i = @ + 1] ELSE g)
  /\ UNCHANGED <<fdset, envVars, dlock, left, uartVars, data>>

\* k_spinlock_unlock(&k_pri_lock), back to the loop of k_sys_writev
PriUnlock(c) ==
  LET f == loc[c]
      g == [f EXCEPT !.k = 0, !.n = 0, !.then = "done"]
  IN
  /\ pc[c] = "unpri" \/ (pc[c] = "putc" /\ f.k = f.n)
  /\ priLock' = NoCpu
  /\ Goto(c, f.then, IF f.then = "body" THEN [g EXCEPT !.res = @ + f.n, !.i = @ + 1] ELSE g)
  /\ UNCHANGED <<fdset, envVars, dlock, left, uartVars, data>>
-----------------------------------------------------------------------------
(* The UART and the start of the system.                                   *)

\* The UART sends the character.
Drain ==
  /\ full
  /\ full' = FALSE
  /\ UNCHANGED <<fdset, envVars, lockVars, pc, loc, left, avail, line, stream, data>>

\* A character arrives.  It may have waited for the read, which makes no
\* difference to it.
Arrive ==
  /\ ~avail
  /\ \E c \in Cpus : pc[c] = "getc" /\ console = "up"
  /\ avail' = TRUE
  /\ UNCHANGED <<fdset, envVars, lockVars, pc, loc, left, full, line, stream, data>>

\* k_uart_add_device with k_uart_set_default_console
UartAdd ==
  /\ ~started /\ board.uart /\ console = "null" /\ pc[BootCpu] = "idle"
  /\ console' = "bound"
  /\ UNCHANGED <<fdset, started, board, lockVars, pc, loc, left, uartVars, data>>

\* device_probe of the UART
UartProbed ==
  /\ ~started /\ console = "bound" /\ pc[BootCpu] = "idle"
  /\ console' = "up"
  /\ UNCHANGED <<fdset, started, board, lockVars, pc, loc, left, uartVars, data>>

\* The drivers are probed and the program starts.
StartProgram ==
  /\ ~started /\ (board.uart => console = "up") /\ pc[BootCpu] = "idle"
  /\ started' = TRUE
  /\ left' = [left EXCEPT ![NoCpu] = 0]
  /\ UNCHANGED <<fdset, console, board, lockVars, pc, loc, uartVars, data>>

Step(c) ==
  \/ ClearDesc(c) \/ DescLock(c) \/ ReadBody(c) \/ WriteBody(c) \/ IoctlBody(c)
  \/ NextLine(c) \/ GpioGet(c) \/ GpioSetRead(c) \/ GpioSetWrite(c) \/ DescUnlock(c)
  \/ PriLock(c) \/ Putc(c) \/ Getc(c) \/ Format(c) \/ PriUnlock(c) \/ Return(c)
Enter(c) ==
  \/ SysRead(c) \/ SysWrite(c) \/ SysWritev(c) \/ SysIoctl(c) \/ SysPoll(c)
  \/ SysClose(c) \/ KernelMessage(c) \/ KernelFormat(c)

ConsoleNext ==
  \/ \E c \in Cpus : Step(c) \/ Enter(c)
  \/ Drain \/ Arrive \/ UartAdd \/ UartProbed \/ StartProgram

\* The CPUs run, and the UART sends.  Nobody has to type.
ConsoleFairness == WF_consoleVars(Drain) /\ \A c \in Cpus : WF_consoleVars(Step(c))
ConsoleSpec == ConsoleInit /\ [][ConsoleNext]_consoleVars /\ ConsoleFairness
-----------------------------------------------------------------------------
\* A piece of output reaches the line as a whole: between its characters
\* there is none of another CPU, neither of a program nor of the kernel
\* (k_pri_lock).  And between the pieces of a writev there is no output of
\* another call through the same descriptor (desc->lock).
MessagesWhole ==
  [][line' # line =>
       /\ IF line'.k = 1 THEN line.k = line.n ELSE line = [line' EXCEPT !.k = @ - 1]
       /\ \A d \in Descs : stream[d] # NoCpu => stream'[d] \in {NoCpu, stream[d]}]_consoleVars

\* A result that is no error tells the characters that were moved: those of
\* a write or writev that went to putchar, all of its pieces together, and
\* the one a read took from the UART.
CountsMoved ==
  \A c \in Cpus : pc[c] = "done" /\ loc[c].op \in {"read", "write", "writev"} /\ loc[c].res >= 0
                    => loc[c].res = loc[c].put

\* GPIO_V2_LINE_SET_VALUES_IOCTL leaves the lines outside of its mask as they
\* were and all lines of the mask as told, GPIO_V2_LINE_GET_VALUES_IOCTL
\* returns lines of one moment: the loops over the lines are not interleaved.
LinesTogether ==
  \A c \in Cpus :
    LET f == loc[c] IN
    pc[c] = "undesc" /\ f.op = "ioctl" /\ f.res = 0 =>
      /\ f.cmd = "set" => data = (f.snap \ f.mask) \cup (f.bits \cap f.mask)
      /\ f.cmd = "get" => f.bits = f.snap \cap f.mask /\ data = f.snap

\* k_snprintf writes no character behind the size it is given, ends the text
\* with a null character unless the size is 0, and returns the length the
\* text has without the bound.
BufferBounded ==
  \A c \in Cpus :
    LET f == loc[c]
        s == Render(f.fmt)
        end == Min({Len(s), f.count - 1})
    IN pc[c] = "unpri" /\ f.op = "snprintf" =>
         /\ f.res = Len(s)
         /\ \A i \in DOMAIN f.buf :
              f.buf[i] = IF i < end THEN s[i + 1] ELSE IF i = end THEN Nul ELSE "junk"

\* A conversion of an integer, a string, a character or a pointer gives the
\* text that C asks for, where the code keeps to C.
FormatsRight ==
  \A c \in Cpus :
    pc[c] = "unpri" /\ loc[c].op = "snprintf" =>
      \A i \in DOMAIN loc[c].fmt :
        LET d == loc[c].fmt[i] IN
        d.spec \notin {"lit", "%"} /\ KeepsToC(d) => IsFieldOf(Convert(d), d)

\* Every call returns, unless a read waits for a character that nobody
\* types: the locks are taken in one order, and none is kept.
ReadWaits == \E c \in Cpus : pc[c] = "getc" /\ console = "up" /\ ~avail
CallsReturn ==
  ([]<>~ReadWaits) => \A c \in Cpus : (pc[c] # "idle") ~> (pc[c] = "idle")
=============================================================================
