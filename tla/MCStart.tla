------------------------------- MODULE MCStart ------------------------------
(***************************************************************************)
(* Three cores of a chip of four harts; the main core is hart 1, as on     *)
(* hifive_unleashed, and hart 3 is not used.                               *)
(***************************************************************************)
EXTENDS Start

MCHartOf == [c \in 0 .. 2 |-> <<1, 0, 2>>[c + 1]]
=============================================================================
