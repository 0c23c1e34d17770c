------------------------------ MODULE PageHeap ------------------------------
(***************************************************************************)
(* The page heap of sys/memory.c as the program sees it through mmap and   *)
(* munmap (sys/syscall.c).  Every call changes the heap inside one section *)
(* of the node lock (include/bmetal/memory.h), so each is one action.      *)
(*                                                                         *)
(* Lengths are counted in units of which PageSize make a page.  Errors are *)
(* the negative numbers the code returns.  The contents of the pages, and  *)
(* what the runtime overwrites when it clears or flags pages that lie      *)
(* outside the heap, are not modelled.                                     *)
(***************************************************************************)
EXTENDS Integers, FiniteSets, FiniteSetsExt

CONSTANTS
    PageTotal,  \* pages of the heap, CONFIG_HEAP_SIZE / __PAGE_SIZE
    PageSize,   \* units in a page
    BrkPages,   \* pages of CONFIG_BRK_SIZE
    TagRange,   \* values of a byte of stat_page (256 in the code)
    Lens,       \* the lengths the program maps
    Handles,    \* what the program remembers an area by
    NoArea

ASSUME PageHeapAssumption ==
    /\ PageTotal \in Nat /\ BrkPages \in 1 .. PageTotal
    /\ PageSize \in Nat \ {0} /\ TagRange \in Nat \ {0, 1}
    /\ Lens \subseteq Nat

VARIABLES
    stat,       \* stat_page: 0 is free, otherwise the number of the allocation
    use,        \* page_use
    tag,        \* dbg_heap_num, as the byte that is stored in stat_page
    area        \* the area each handle stands for: first page and length

heapVars == <<stat, use, tag, area>>

EINVAL == -22
ENOMEM == -12
Pages == 0 .. PageTotal - 1

-----------------------------------------------------------------------------
\* k_mem_node_count_cont_pages: r counts the page it stops at.
CountContPages(off, lim) ==
    LET stops == {i \in off .. PageTotal - 1 : stat[i] # 0 \/ 1 + i - off >= lim}
    IN  1 - off + IF stops = {} THEN PageTotal ELSE Min(stops)

\* The search loop of k_mem_node_alloc_pages_nolock.
FirstFit(req) ==
    LET from[i \in 0 .. PageTotal + 1] ==
          IF i >= PageTotal THEN -1
          ELSE IF stat[i] # 0 THEN from[i + 1]
          ELSE LET cnt == CountContPages(i, req)
               IN  IF cnt >= req THEN i ELSE from[i + cnt]
    IN  from[0]

ReqPages(len) == (len + PageSize - 1) \div PageSize

\* What k_mem_node_alloc_pages_nolock returns.
AllocPages(len) ==
    IF len = 0 THEN EINVAL
    ELSE IF ReqPages(len) > PageTotal - use THEN ENOMEM
    ELSE FirstFit(ReqPages(len))

\* k_mem_node_set_page_flag
SetPageFlag(off, n, val) ==
    [i \in Pages |-> IF i \in off .. off + n - 1 THEN val ELSE stat[i]]

NextTagPlain == (tag + 1) % TagRange

\* dbg_heap_num never has a low byte of zero, which would read as free.
NextTag == IF (tag + 1) % TagRange = 0 THEN 1 ELSE (tag + 1) % TagRange

-----------------------------------------------------------------------------
\* k_mem_init: the brk area is the first allocation.
HeapInit ==
    /\ stat = [i \in Pages |-> IF i < BrkPages THEN 1 ELSE 0]
    /\ use = BrkPages
    /\ tag = IF TagRange = 2 THEN 1 ELSE 2
    /\ area = [h \in Handles |-> NoArea]

\* The length k_sys_mmap asks for: 4 bytes when the program asks for none.
MmapLen(len) == IF len = 0 THEN 1 ELSE len

MmapAlloc(h, len) ==
    LET page == AllocPages(MmapLen(len))
    IN  /\ area[h] = NoArea
        /\ page >= 0
        /\ stat' = SetPageFlag(page, ReqPages(MmapLen(len)), tag)
        /\ use' = use + ReqPages(MmapLen(len))
        /\ tag' = NextTag
        /\ area' = [area EXCEPT ![h] = [page |-> page, len |-> len]]

\* off_page is a size_t, so the test off_page < 0 never holds: a failed
\* allocation is handed out as the page with the number of the error.
MmapFail(h, len) ==
    LET page == AllocPages(MmapLen(len))
    IN  /\ area[h] = NoArea
        /\ page < 0
        /\ area' = [area EXCEPT ![h] = [page |-> page, len |-> len]]
        /\ UNCHANGED <<stat, use, tag>>

\* k_sys_munmap refuses a range that leaves the heap.
OutOfRange(a) ==
    a.page < 0 \/ PageTotal * PageSize < a.page * PageSize + a.len

MunmapRange(h) ==
    /\ area[h] # NoArea
    /\ OutOfRange(area[h])
    /\ UNCHANGED heapVars

\* n_page of k_mem_node_free_pages_nolock: rounded down, and nothing for a
\* length of 0.  The program gives back the start it was given, which is
\* aligned.
FreedPages(a) == a.len \div PageSize

MunmapKeepsUse(h) ==
    /\ area[h] # NoArea
    /\ ~OutOfRange(area[h])
    /\ stat' = SetPageFlag(area[h].page, FreedPages(area[h]), 0)
    /\ area' = [area EXCEPT ![h] = NoArea]
    /\ UNCHANGED <<use, tag>>

Munmap(h) ==
    /\ area[h] # NoArea
    /\ ~OutOfRange(area[h])
    /\ stat' = SetPageFlag(area[h].page, FreedPages(area[h]), 0)
    /\ use' = use - FreedPages(area[h])
    /\ area' = [area EXCEPT ![h] = NoArea]
    /\ UNCHANGED tag

HeapNext ==
    \E h \in Handles :
      \/ \E len \in Lens : MmapAlloc(h, len) \/ MmapFail(h, len)
      \/ MunmapRange(h)
      \/ Munmap(h)

HeapSpec == HeapInit /\ [][HeapNext]_heapVars

-----------------------------------------------------------------------------
\* The pages an area of the program covers.
PagesOf(a) == a.page .. a.page + ReqPages(MmapLen(a.len)) - 1

Held == {h \in Handles : area[h] # NoArea}
HeldInHeap == {h \in Held : area[h].page >= 0}

HeapTypeOK ==
    /\ stat \in [Pages -> 0 .. TagRange - 1]
    /\ use \in 0 .. PageTotal
    /\ tag \in 1 .. TagRange - 1
    /\ \A h \in Held : area[h].page \in Pages \cup {EINVAL, ENOMEM, -1}

\* page_use is the number of pages that are flagged, so that the test for
\* "no more pages" in alloc_pages refuses a page exactly when none is left.
UseCounted ==
    /\ HeapTypeOK
    /\ use = Cardinality({i \in Pages : stat[i] # 0})

\* Two areas that mmap has handed out, and the brk area, have no page in
\* common, whatever was unmapped and mapped again in between.
AreasDisjoint ==
    \A h \in HeldInHeap :
      /\ PagesOf(area[h]) \cap (0 .. BrkPages - 1) = {}
      /\ \A k \in HeldInHeap \ {h} : PagesOf(area[h]) \cap PagesOf(area[k]) = {}

\* The pages of an area the program holds are flagged until it unmaps them:
\* a program that unmaps each area once never meets the "double free"
\* warning of free_pages, and no area reaches beyond the heap.
AreasFlagged ==
    \A h \in HeldInHeap : \A i \in PagesOf(area[h]) : i \in Pages /\ stat[i] # 0
=============================================================================
