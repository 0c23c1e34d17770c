----------------------------- MODULE MCThreads ------------------------------
(***************************************************************************)
(* Threads of two and of three cores.                                      *)
(***************************************************************************)
EXTENDS Threads, TLC

Symmetry == Permutations(Words)
RaceSymmetry == Permutations(Words \ Cloners)

\* A bound for the run with racing clones: the program is followed until two
\* of its threads have gone, and nobody joins.
RaceBound ==
  /\ Cardinality({w \in Words : thr[w] = "gone"}) < 2
  /\ \A c \in Cpus : pc[c] # "join"
=============================================================================
