------------------------------ MODULE MCMemory ------------------------------
(***************************************************************************)
(* The memory system calls of one program: brk moves the break inside the  *)
(* brk area, and mmap and munmap work on the rest of the same heap.        *)
(***************************************************************************)
EXTENDS Brk, PageHeap, TLC

memoryVars == <<vars, heapVars>>

MemoryInit == Init /\ HeapInit

MemoryNext == (Next /\ UNCHANGED heapVars) \/ (HeapNext /\ UNCHANGED vars)

MemorySpec == MemoryInit /\ [][MemoryNext]_memoryVars

\* Handles are interchangeable.
Symmetry == Permutations(Handles)
=============================================================================
