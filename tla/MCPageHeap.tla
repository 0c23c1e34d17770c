----------------------------- MODULE MCPageHeap -----------------------------
\* Instances of PageHeap for TLC.
EXTENDS PageHeap, TLC

\* Handles are interchangeable.
Symmetry == Permutations(Handles)
=============================================================================
