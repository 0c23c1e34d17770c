-------------------------------- MODULE Brk --------------------------------
(***************************************************************************)
(* k_sys_brk (sys/syscall.c): the threads of the program move the break of *)
(* one shared area.  The call reads the break before it takes lock_brk and *)
(* uses what it read inside the lock, so a call is two steps: the read,    *)
(* and the section under the lock.  The program writes to memory below the *)
(* break at any time.                                                      *)
(***************************************************************************)
EXTENDS Integers

CONSTANTS
    Threads,        \* threads of the program that call brk
    BrkSize,        \* CONFIG_BRK_SIZE, in cells
    NULL            \* the null pointer as the argument of brk

ASSUME BrkAssumption ==
    /\ BrkSize \in Nat
    /\ NULL \notin -1 .. BrkSize + 1

VARIABLES
    cur,    \* brk_cur, as the distance from brk_top
    dirty,  \* the cells of the area that are not zero
    pc,     \* of each thread: "user", or "lock" inside k_sys_brk
    addr,   \* the argument of its call
    seen,   \* the local brk_cur of its call
    clears  \* CONFIG_BRK_CLEAR_AT_SHRINK, fixed by the build

vars == <<cur, dirty, pc, addr, seen, clears>>

Cells == 0 .. BrkSize - 1

\* Addresses the program asks for: in the area, and one on either side.
Requests == -1 .. BrkSize + 1

Init ==
    /\ cur = 0
    /\ dirty = {}
    /\ pc = [t \in Threads |-> "user"]
    /\ addr = [t \in Threads |-> NULL]
    /\ seen = [t \in Threads |-> 0]
    /\ clears \in BOOLEAN

\* A thread of the program, whether it calls brk or not, writes a cell below
\* the break.
Write(i) ==
    /\ i < cur
    /\ dirty' = dirty \cup {i}
    /\ UNCHANGED <<cur, pc, addr, seen, clears>>

\* The entry of k_sys_brk, up to the read of the break.
Call(t, a) ==
    /\ pc[t] = "user"
    /\ pc' = [pc EXCEPT ![t] = "lock"]
    /\ addr' = [addr EXCEPT ![t] = a]
    /\ seen' = [seen EXCEPT ![t] = cur]
    /\ UNCHANGED <<cur, dirty, clears>>

InLock(t) == pc[t] = "lock" /\ pc' = [pc EXCEPT ![t] = "user"]

\* A query, or an address outside the area: the break stays.
Refuse(t) ==
    /\ InLock(t)
    /\ addr[t] \in {NULL, -1, BrkSize + 1}
    /\ UNCHANGED <<cur, dirty, addr, seen, clears>>

InArea(t) == addr[t] \in 0 .. BrkSize

ExpandOneShort(t) ==
    /\ InLock(t)
    /\ InArea(t) /\ addr[t] > seen[t]
    /\ dirty' = dirty \ (seen[t] .. addr[t] - 2)
    /\ cur' = addr[t]
    /\ UNCHANGED <<addr, seen, clears>>

ExpandFromTop(t) ==
    /\ InLock(t)
    /\ InArea(t) /\ addr[t] > seen[t]
    /\ dirty' = dirty \ (0 .. addr[t] - 1)
    /\ cur' = addr[t]
    /\ UNCHANGED <<addr, seen, clears>>

Expand(t) ==
    /\ InLock(t)
    /\ InArea(t) /\ addr[t] > seen[t]
    /\ dirty' = dirty \ (seen[t] .. addr[t] - 1)
    /\ cur' = addr[t]
    /\ UNCHANGED <<addr, seen, clears>>

Shrink(t) ==
    /\ InLock(t)
    /\ InArea(t) /\ addr[t] <= seen[t]
    /\ dirty' = IF clears THEN dirty \ (addr[t] .. seen[t] - 1) ELSE dirty
    /\ cur' = addr[t]
    /\ UNCHANGED <<addr, seen, clears>>

Next ==
    \/ \E i \in Cells : Write(i)
    \/ \E t \in Threads :
         \/ \E a \in Requests \cup {NULL} : Call(t, a)
         \/ Refuse(t) \/ Expand(t) \/ Shrink(t)

Spec == Init /\ [][Next]_vars

-----------------------------------------------------------------------------
TypeOK ==
    /\ cur \in 0 .. BrkSize
    /\ dirty \subseteq Cells
    /\ pc \in [Threads -> {"user", "lock"}]
    /\ addr \in [Threads -> Requests \cup {NULL}]
    /\ seen \in [Threads -> 0 .. BrkSize]
    /\ clears \in BOOLEAN

\* With CONFIG_BRK_CLEAR_AT_SHRINK no data of the program is left above the
\* break ("Shrink: zero clear for security"), through any sequence of calls
\* that grow and shrink the area.
NothingAboveBreak == clears => \A i \in dirty : i < cur

\* Only one thread of the program calls brk.
OneCaller == \A t, u \in Threads : t = u

\* The inductive invariant of a program whose calls do not overlap: the
\* break a call has read is still the break when the call is in the lock.
IInv ==
    /\ TypeOK
    /\ NothingAboveBreak
    /\ \A t \in Threads : pc[t] = "lock" => seen[t] = cur

\* Memory that a move of the break gives to the program is zero ("Expand:
\* should zero clear by specification"), also when it was in use before.
GainedIsZero == [][\A i \in cur .. cur' - 1 : i \notin dirty']_vars

\* A move of the break leaves the memory below both the old and the new
\* break alone: brk never wipes what the program keeps.
KeptIsKept == [][\A i \in dirty : i < cur /\ i < cur' => i \in dirty']_vars
=============================================================================
