------------------------------ MODULE MCFutex -------------------------------
(***************************************************************************)
(* Futexes of two cores, each of which can wait, wake and store.           *)
(***************************************************************************)
EXTENDS Futex
=============================================================================
