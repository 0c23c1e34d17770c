------------------------------ MODULE MCClock -------------------------------
(***************************************************************************)
(* Two CPUs; the low half of mtime rolls over every second count.  A       *)
(* second has three counts and four nanoseconds, and so has a tick: the    *)
(* conversions round, and every tick carries into the seconds.  One CPU    *)
(* ticks, the mtimecmp of the other one is out of reach.                   *)
(***************************************************************************)
EXTENDS Clock, TLC

CONSTANTS c1, c2

MCTimes == {[sec |-> 2, nsec |-> 1]}
MCResets == {c1 :> 1 @@ c2 :> MaxTime + 1}
=============================================================================
