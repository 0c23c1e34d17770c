------------------------------ MODULE FutexAbs ------------------------------
(***************************************************************************)
(* What the futex system call promises to user space, whatever the number  *)
(* of cores: a wait ends only for a cause.  Either the word it waits on    *)
(* differed from the expected value while the call was in progress, or a   *)
(* wake on the same word with a common bit was in progress.                *)
(***************************************************************************)
CONSTANTS
  Cpus,       \* one task thread runs on each of them
  Addrs,      \* user words
  Vals,       \* their values
  Bits,       \* bits of a futex bitset
  NULL        \* no address

VARIABLES
  mem,        \* user memory
  wait,       \* the wait call each CPU is in
  wake        \* the wake call each CPU is in

vars == <<mem, wait, wake>>

NoWait == [st |-> "out", uaddr |-> NULL, val |-> NULL, bitset |-> {}]
NoWake == [uaddr |-> NULL, bitset |-> {}]

Idle(c) == wait[c] = NoWait /\ wake[c] = NoWake

Init ==
  /\ mem \in [Addrs -> Vals]
  /\ wait = [c \in Cpus |-> NoWait]
  /\ wake = [c \in Cpus |-> NoWake]

Store(c) ==
  /\ Idle(c)
  /\ \E a \in Addrs, v \in Vals : mem' = [mem EXCEPT ![a] = v]
  /\ UNCHANGED <<wait, wake>>

BeginWait(c) ==
  /\ Idle(c)
  /\ \E a \in Addrs, v \in Vals, b \in (SUBSET Bits) \ {{}} :
       wait' = [wait EXCEPT ![c] = [st |-> "in", uaddr |-> a, val |-> v, bitset |-> b]]
  /\ UNCHANGED <<mem, wake>>

\* A wait gets its cause to return.
Release(c) ==
  /\ wait[c].st = "in"
  /\ \/ mem[wait[c].uaddr] # wait[c].val
     \/ \E d \in Cpus : /\ wake[d].uaddr = wait[c].uaddr
                        /\ wake[d].bitset \cap wait[c].bitset # {}
  /\ wait' = [wait EXCEPT ![c].st = "done"]
  /\ UNCHANGED <<mem, wake>>

EndWait(c) ==
  /\ wait[c].st = "done"
  /\ wait' = [wait EXCEPT ![c] = NoWait]
  /\ UNCHANGED <<mem, wake>>

BeginWake(c) ==
  /\ Idle(c)
  /\ \E a \in Addrs, b \in (SUBSET Bits) \ {{}} :
       wake' = [wake EXCEPT ![c] = [uaddr |-> a, bitset |-> b]]
  /\ UNCHANGED <<mem, wait>>

EndWake(c) ==
  /\ wake[c] # NoWake
  /\ wake' = [wake EXCEPT ![c] = NoWake]
  /\ UNCHANGED <<mem, wait>>

Next == \E c \in Cpus : \/ Store(c) \/ BeginWait(c) \/ Release(c) \/ EndWait(c)
                        \/ BeginWake(c) \/ EndWake(c)

Spec == Init /\ [][Next]_vars
=============================================================================
