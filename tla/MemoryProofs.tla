---------------------------- MODULE MemoryProofs ----------------------------
(***************************************************************************)
(* Proofs about the memory calls, PageHeap and Brk.                        *)
(*                                                                         *)
(* The page heap is right for every size as long as no area is larger than *)
(* a page.  With larger ones the search hands out pages that are in use.   *)
(*                                                                         *)
(* k_sys_brk is right for every size of the area as long as only one       *)
(* thread calls it.  The invariant is that the break read before the lock  *)
(* is still current inside it, which is what overlapping calls break.      *)
(***************************************************************************)
EXTENDS Brk, PageHeap, WellFoundedInduction, FiniteSetTheorems, TLAPS

-----------------------------------------------------------------------------
(* The page heap.                                                          *)

\* A nonempty set of numbers has a least one.
LEMMA LeastNat ==
  ASSUME NEW T \in SUBSET Nat, T # {}
  PROVE  \E x \in T : \A y \in T : x <= y
<1>1. PICK x \in T : \A y \in T : ~(<<y, x>> \in OpToRel(<, Nat))
  BY NatLessThanWellFounded, WFMin, Zenon
<1>2. \A y \in T : ~(y < x)
  BY <1>1, Zenon DEF OpToRel
<1> QED BY <1>2

\* alloc_pages asks for one page for an area of at most one.
LEMMA OnePage ==
  ASSUME NEW len \in 1 .. PageSize
  PROVE  ReqPages(len) = 1
<1>1. PageSize \in Nat \ {0}
  BY PageHeapAssumption
<1> QED BY <1>1 DEF ReqPages

\* free_pages frees the page of an area of a whole page, and nothing of a
\* smaller one: its length is rounded down.
LEMMA OneFreed ==
  ASSUME NEW len \in 0 .. PageSize
  PROVE  len \div PageSize = IF len = PageSize THEN 1 ELSE 0
<1>1. PageSize \in Nat \ {0}
  BY PageHeapAssumption
<1> QED BY <1>1

\* k_mem_node_count_cont_pages is right when one page is asked for: the page
\* it stops at is the free one it starts at.
LEMMA CountOne ==
  ASSUME NEW i \in Pages
  PROVE  CountContPages(i, 1) = 1
<1> DEFINE stops == {j \in i .. PageTotal - 1 : stat[j] # 0 \/ 1 + j - i >= 1}
<1>1. i \in stops /\ \A j \in stops : i <= j
  BY PageHeapAssumption DEF Pages
<1>2. Min(stops) = i
  <2>1. \A j \in stops : j \in Int
    BY PageHeapAssumption DEF Pages
  <2> HIDE DEF stops
  <2>2. Min(stops) \in stops /\ \A j \in stops : Min(stops) <= j
    BY <1>1 DEF Min
  <2> QED BY <1>1, <2>1, <2>2
<1>3. CountContPages(i, 1) = 1 - i + (IF stops = {} THEN PageTotal ELSE Min(stops))
  BY DEF CountContPages
<1> HIDE DEF stops
<1> QED BY <1>1, <1>2, <1>3 DEF Pages

\* The loop body of the search for one page.
Turn(g, i) ==
  IF i >= PageTotal THEN -1
  ELSE IF stat[i] # 0 THEN g[i + 1]
  ELSE LET cnt == CountContPages(i, 1)
       IN  IF cnt >= 1 THEN i ELSE g[i + cnt]

\* The search is the function of its loop body.
LEMMA FirstFitIs ==
  FirstFit(1) = (CHOOSE g : g = [i \in 0 .. PageTotal + 1 |-> Turn(g, i)])[0]
  BY Zenon DEF FirstFit, Turn

\* The free pages from page i on.
Free(i) == {j \in Pages : j >= i /\ stat[j] = 0}

\* The search ends: there is a function that it computes.
LEMMA SearchEnds == \E g : g = [i \in 0 .. PageTotal + 1 |-> Turn(g, i)]
<1> DEFINE S == 0 .. PageTotal + 1
           g == [i \in S |-> IF Free(i) = {} THEN -1 ELSE Min(Free(i))]
<1>1. ASSUME NEW i \in S PROVE g[i] = Turn(g, i)
  <2>1. CASE i >= PageTotal
    <3>1. Free(i) = {}
      BY <2>1, PageHeapAssumption DEF Free, Pages
    <3> QED BY <2>1, <3>1 DEF Turn
  <2>2. CASE ~(i >= PageTotal) /\ stat[i] # 0
    <3>1. i + 1 \in S /\ Free(i) = Free(i + 1)
      BY <2>2, PageHeapAssumption DEF Free, Pages
    <3> QED BY <2>2, <3>1 DEF Turn
  <2>3. CASE ~(i >= PageTotal) /\ stat[i] = 0
    <3>1. i \in Pages /\ i \in Free(i) /\ (\A j \in Free(i) : i <= j) /\ Free(i) \subseteq Int
      BY <2>3, PageHeapAssumption DEF Free, Pages
    <3>2. Min(Free(i)) \in Free(i) /\ \A j \in Free(i) : Min(Free(i)) <= j
      BY <3>1 DEF Min
    <3>3. Min(Free(i)) = i
      BY <3>1, <3>2
    <3> QED BY <2>3, <3>1, <3>3, CountOne DEF Turn
  <2> QED BY <2>1, <2>2, <2>3
<1>2. g = [i \in S |-> Turn(g, i)]
  BY <1>1, Zenon
<1> HIDE DEF g
<1> QED BY <1>2

\* The search for one page finds a free one, or none.
LEMMA FirstFitOne == FirstFit(1) = -1 \/ (FirstFit(1) \in Pages /\ stat[FirstFit(1)] = 0)
<1> DEFINE S == 0 .. PageTotal + 1
           g == CHOOSE h : h = [i \in S |-> Turn(h, i)]
           Good(i) == g[i] = -1 \/ (g[i] \in Pages /\ stat[g[i]] = 0)
           Bad == {n \in Nat : n \in 0 .. PageTotal + 1 /\ ~Good(PageTotal + 1 - n)}
<1>1. g = [i \in S |-> Turn(g, i)]
  BY SearchEnds, Zenon
<1> HIDE DEF g
<1>2. \A i \in S : g[i] = Turn(g, i)
  BY <1>1, Zenon
<1>3. ASSUME NEW i \in S, i < PageTotal => Good(i + 1) PROVE Good(i)
  <2>1. CASE i >= PageTotal
    BY <1>2, <2>1 DEF Turn
  <2>2. CASE ~(i >= PageTotal) /\ stat[i] # 0
    <3>1. g[i] = g[i + 1]
      BY <1>2, <2>2 DEF Turn
    <3> QED BY <1>3, <2>2, <3>1, PageHeapAssumption
  <2>3. CASE ~(i >= PageTotal) /\ stat[i] = 0
    <3>1. i \in Pages
      BY <2>3, PageHeapAssumption DEF Pages
    <3>2. g[i] = i
      BY <1>2, <2>3, <3>1, CountOne DEF Turn
    <3> QED BY <2>3, <3>1, <3>2
  <2> QED BY <2>1, <2>2, <2>3
<1> HIDE DEF Good
<1>4. Bad = {}
  <2> SUFFICES ASSUME Bad # {} PROVE FALSE
    OBVIOUS
  <2>1. PICK n \in Bad : \A m \in Bad : n <= m
    BY LeastNat, Zenon
  <2>2. n \in 0 .. PageTotal + 1 /\ ~Good(PageTotal + 1 - n)
    BY <2>1
  <2> DEFINE i == PageTotal + 1 - n
  <2>3. i \in S /\ (i < PageTotal => n - 1 \in 0 .. PageTotal + 1 /\ n - 1 \notin Bad)
    BY <2>1, <2>2, PageHeapAssumption
  <2>4. i < PageTotal => Good(PageTotal + 1 - (n - 1))
    BY <2>3
  <2>5. PageTotal + 1 - (n - 1) = i + 1
    BY <2>2, PageHeapAssumption
  <2> QED BY <1>3, <2>2, <2>3, <2>4, <2>5
<1>5. Good(0)
  <2>1. PageTotal + 1 \in 0 .. PageTotal + 1 /\ PageTotal + 1 - (PageTotal + 1) = 0
    BY PageHeapAssumption
  <2> QED BY <1>4, <2>1
<1> QED BY <1>5, FirstFitIs DEF Good, g

\* The areas are of at most one page.
SmallAreas == \A len \in Lens : len <= PageSize

\* What a handle stands for.
Area == [page : Int, len : Lens]

\* The inductive invariant: the areas of the program and the brk area are
\* flagged as well as apart, so that munmap frees a page that is counted.
HeapIInv ==
  /\ area \in [Handles -> Area \cup {NoArea}]
  /\ UseCounted
  /\ AreasDisjoint
  /\ AreasFlagged
  /\ \A i \in 0 .. BrkPages - 1 : stat[i] # 0

\* An area covers the page it starts at, and no other.
LEMMA SmallArea ==
  ASSUME SmallAreas, NEW a \in Area
  PROVE  a.page \in Int /\ a.len \in 0 .. PageSize /\ PagesOf(a) = {a.page}
<1>1. PageSize \in Nat \ {0} /\ \A len \in Lens : len \in Nat /\ len <= PageSize
  BY PageHeapAssumption DEF SmallAreas
<1>2. a.page \in Int /\ a.len \in Lens
  BY DEF Area
<1>3. a.len \in 0 .. PageSize
  BY <1>1, <1>2
<1>4. MmapLen(a.len) \in 1 .. PageSize
  BY <1>1, <1>3 DEF MmapLen
<1>5. ReqPages(MmapLen(a.len)) = 1
  BY <1>4, OnePage
<1> QED BY <1>2, <1>3, <1>5 DEF PagesOf

\* The same with the pages written out.
LEMMA SmallFacts ==
  ASSUME SmallAreas, HeapIInv, NEW h \in HeldInHeap
  PROVE  /\ area[h].page \in Pages /\ stat[area[h].page] # 0 /\ area[h].page >= BrkPages
         /\ \A k \in HeldInHeap \ {h} : area[h].page # area[k].page
<1>0. \A k \in HeldInHeap : area[k] \in Area
  BY DEF HeapIInv, HeldInHeap, Held
<1>1. PagesOf(area[h]) = {area[h].page} /\ \A k \in HeldInHeap : PagesOf(area[k]) = {area[k].page}
  BY <1>0, SmallArea
<1>2. area[h].page \in Pages /\ stat[area[h].page] # 0
  BY <1>1 DEF HeapIInv, AreasFlagged
<1>3. area[h].page \notin 0 .. BrkPages - 1
  BY <1>1 DEF HeapIInv, AreasDisjoint
<1>4. \A k \in HeldInHeap \ {h} : area[h].page # area[k].page
  BY <1>1 DEF HeapIInv, AreasDisjoint
<1> QED BY <1>2, <1>3, <1>4, PageHeapAssumption DEF Pages

\* Areas at different pages behind the brk area have no page in common.
LEMMA PagesApart ==
  ASSUME SmallAreas, NEW H, NEW ar,
         \A h \in H : /\ ar[h] \in Area /\ ar[h].page \in Pages /\ ar[h].page >= BrkPages
                      /\ \A k \in H \ {h} : ar[h].page # ar[k].page
  PROVE  \A h \in H : /\ PagesOf(ar[h]) = {ar[h].page}
                      /\ PagesOf(ar[h]) \cap (0 .. BrkPages - 1) = {}
                      /\ \A k \in H \ {h} : PagesOf(ar[h]) \cap PagesOf(ar[k]) = {}
<1>1. \A h \in H : PagesOf(ar[h]) = {ar[h].page}
  BY SmallArea
<1>2. \A h \in H : ar[h].page \notin 0 .. BrkPages - 1
  BY PageHeapAssumption DEF Pages
<1>3. \A h \in H : PagesOf(ar[h]) \cap (0 .. BrkPages - 1) = {}
  BY <1>1, <1>2
<1>4. \A h \in H : \A k \in H \ {h} : PagesOf(ar[h]) \cap PagesOf(ar[k]) = {}
  BY <1>1
<1> QED BY <1>1, <1>3, <1>4

\* There are at most PageTotal pages of any kind.
LEMMA PagesFinite ==
  ASSUME NEW S \in SUBSET Pages
  PROVE  IsFiniteSet(S) /\ Cardinality(S) \in 0 .. PageTotal
<1>1. IsFiniteSet(Pages) /\ Cardinality(Pages) = PageTotal
  BY FS_Interval, PageHeapAssumption DEF Pages
<1>2. IsFiniteSet(S) /\ Cardinality(S) <= Cardinality(Pages)
  BY <1>1, FS_Subset
<1> QED BY <1>1, <1>2, FS_CardinalityType, PageHeapAssumption

\* k_mem_init sets up the brk area and nothing else.
LEMMA HeapInitInv == HeapInit => HeapIInv
<1> SUFFICES ASSUME HeapInit PROVE HeapIInv
  OBVIOUS
<1>1. Held = {} /\ HeldInHeap = {}
  BY DEF HeapInit, Held, HeldInHeap
<1>2. {i \in Pages : stat[i] # 0} = 0 .. BrkPages - 1
  BY PageHeapAssumption DEF HeapInit, Pages
<1>3. Cardinality(0 .. BrkPages - 1) = BrkPages
  BY FS_Interval, PageHeapAssumption
<1>4. HeapTypeOK
  BY <1>1, PageHeapAssumption DEF HeapInit, HeapTypeOK, Pages
<1>5. AreasDisjoint /\ AreasFlagged
  BY <1>1 DEF AreasDisjoint, AreasFlagged
<1> QED BY <1>2, <1>3, <1>4, <1>5, PageHeapAssumption, Zenon DEF HeapInit, HeapIInv, UseCounted, Pages

\* What mmap gets for an area of at most one page.
LEMMA SmallAlloc ==
  ASSUME SmallAreas, HeapIInv, NEW len \in Lens
  PROVE  LET page == AllocPages(MmapLen(len)) IN
         /\ ReqPages(MmapLen(len)) = 1
         /\ page \in {EINVAL, ENOMEM, -1} \/ (page \in Pages /\ stat[page] = 0)
<1>1. MmapLen(len) \in 1 .. PageSize
  BY PageHeapAssumption DEF SmallAreas, MmapLen
<1>2. ReqPages(MmapLen(len)) = 1
  BY <1>1, OnePage
<1> QED BY <1>2, FirstFitOne DEF AllocPages

\* mmap that finds a page.
LEMMA HeapAlloc ==
  ASSUME SmallAreas, HeapIInv, NEW h \in Handles, NEW len \in Lens, MmapAlloc(h, len)
  PROVE  HeapIInv'
<1>1. PICK p \in Int : p = AllocPages(MmapLen(len))
  BY SmallAlloc DEF EINVAL, ENOMEM, Pages
<1>2. /\ p \in Pages /\ stat[p] = 0
      /\ stat' = [i \in Pages |-> IF i = p THEN tag ELSE stat[i]]
      /\ use' = use + 1 /\ tag' = NextTag
      /\ area[h] = NoArea /\ area' = [area EXCEPT ![h] = [page |-> p, len |-> len]]
  BY <1>1, SmallAlloc DEF MmapAlloc, SetPageFlag, EINVAL, ENOMEM
<1>3. tag \in 1 .. TagRange - 1 /\ tag' \in 1 .. TagRange - 1
  BY <1>2, PageHeapAssumption DEF HeapIInv, UseCounted, HeapTypeOK, NextTag
<1>4. stat' \in [Pages -> 0 .. TagRange - 1] /\ \A i \in Pages : stat'[i] # 0 <=> i = p \/ stat[i] # 0
  BY <1>2, <1>3 DEF HeapIInv, UseCounted, HeapTypeOK
<1>5. [page |-> p, len |-> len] \in Area
  BY DEF Area
<1>6. area' \in [Handles -> Area \cup {NoArea}]
  BY <1>2, <1>5 DEF HeapIInv
<1>7. use' = Cardinality({i \in Pages : stat'[i] # 0}) /\ use' \in 0 .. PageTotal
  <2> DEFINE S == {i \in Pages : stat[i] # 0}
             T == {i \in Pages : stat'[i] # 0}
  <2>1. T = S \cup {p} /\ p \notin S
    BY <1>2, <1>4
  <2>2. IsFiniteSet(S) /\ Cardinality(T) \in 0 .. PageTotal
    BY PagesFinite
  <2>3. use = Cardinality(S)
    BY DEF HeapIInv, UseCounted
  <2>4. Cardinality(T) = Cardinality(S) + 1
    BY <2>1, <2>2, FS_AddElement, Zenon
  <2> QED BY <1>2, <2>2, <2>3, <2>4
<1>8. \A k \in Held' : k = h \/ (k \in Held /\ area'[k] = area[k])
  BY <1>2 DEF Held, HeapIInv
<1>9. area'[h].page = p
  BY <1>2 DEF HeapIInv
<1>10. HeapTypeOK'
  <2>1. \A k \in Held' : area'[k].page \in Pages \cup {EINVAL, ENOMEM, -1}
    BY <1>2, <1>8, <1>9 DEF HeapIInv, UseCounted, HeapTypeOK
  <2> QED BY <1>3, <1>4, <1>7, <2>1 DEF HeapTypeOK
<1>11. p >= BrkPages
  BY <1>2, PageHeapAssumption DEF HeapIInv, Pages
<1>12. AreasDisjoint' /\ AreasFlagged'
  <2>1. \A k \in HeldInHeap' : k = h \/ (k \in HeldInHeap /\ area'[k] = area[k])
    BY <1>8 DEF HeldInHeap
  <2>2. \A k \in HeldInHeap : /\ area[k].page \in Pages /\ stat[area[k].page] # 0
                               /\ area[k].page >= BrkPages
                               /\ \A l \in HeldInHeap \ {k} : area[k].page # area[l].page
    BY SmallFacts
  <2>3. \A k \in HeldInHeap' : area'[k] \in Area
    BY <1>6 DEF HeldInHeap, Held
  <2>4. ASSUME NEW k \in HeldInHeap'
        PROVE  area'[k].page \in Pages /\ stat'[area'[k].page] # 0 /\ area'[k].page >= BrkPages
    BY <1>2, <1>4, <1>9, <1>11, <2>1, <2>2
  <2>5. ASSUME NEW k \in HeldInHeap', NEW l \in HeldInHeap' \ {k}
        PROVE  area'[k].page # area'[l].page
    BY <1>2, <1>9, <2>1, <2>2
  <2>6. \A k \in HeldInHeap' :
          /\ PagesOf(area'[k]) = {area'[k].page}
          /\ PagesOf(area'[k]) \cap (0 .. BrkPages - 1) = {}
          /\ \A l \in HeldInHeap' \ {k} : PagesOf(area'[k]) \cap PagesOf(area'[l]) = {}
    BY <2>3, <2>4, <2>5, PagesApart, Zenon
  <2>7. AreasDisjoint'
    BY <2>6 DEF AreasDisjoint
  <2>8. AreasFlagged'
    BY <2>4, <2>6 DEF AreasFlagged
  <2> QED BY <2>7, <2>8
<1> QED BY <1>2, <1>4, <1>6, <1>7, <1>10, <1>12, PageHeapAssumption DEF HeapIInv, UseCounted, Pages

\* mmap that finds none hands out the number of the error.
LEMMA HeapFail ==
  ASSUME SmallAreas, HeapIInv, NEW h \in Handles, NEW len \in Lens, MmapFail(h, len)
  PROVE  HeapIInv'
<1>1. PICK p \in Int : p = AllocPages(MmapLen(len))
  BY SmallAlloc DEF EINVAL, ENOMEM, Pages
<1>2. /\ p \in {EINVAL, ENOMEM, -1} /\ p < 0
      /\ UNCHANGED <<stat, use, tag>>
      /\ area[h] = NoArea /\ area' = [area EXCEPT ![h] = [page |-> p, len |-> len]]
  BY <1>1, SmallAlloc DEF MmapFail, Pages
<1>3. [page |-> p, len |-> len] \in Area
  BY DEF Area
<1>4. area' \in [Handles -> Area \cup {NoArea}] /\ area'[h].page = p
  BY <1>2, <1>3 DEF HeapIInv
<1>5. \A k \in Held' : k = h \/ (k \in Held /\ area'[k] = area[k])
  BY <1>2 DEF Held, HeapIInv
<1>6. \A k \in HeldInHeap' : k \in HeldInHeap /\ area'[k] = area[k]
  BY <1>2, <1>4, <1>5 DEF HeldInHeap
<1>7. HeapTypeOK'
  BY <1>2, <1>4, <1>5 DEF HeapIInv, UseCounted, HeapTypeOK
<1>8. AreasDisjoint' /\ AreasFlagged'
  BY <1>2, <1>6 DEF HeapIInv, AreasDisjoint, AreasFlagged
<1> QED BY <1>2, <1>4, <1>7, <1>8 DEF HeapIInv, UseCounted

\* munmap gives back the page of the area, if it was a whole one.
LEMMA HeapUnmap ==
  ASSUME SmallAreas, HeapIInv, NEW h \in Handles, Munmap(h)
  PROVE  HeapIInv'
<1>1. area[h] \in Area /\ h \in Held
  BY DEF Munmap, HeapIInv, Held
<1>2. PICK p \in Int, len \in 0 .. PageSize : p = area[h].page /\ len = area[h].len
  BY <1>1, SmallArea
<1>3. h \in HeldInHeap
  BY <1>1, <1>2 DEF Munmap, OutOfRange, HeldInHeap
<1>4. p \in Pages /\ stat[p] # 0 /\ p >= BrkPages /\ \A k \in HeldInHeap \ {h} : area[k].page # p
  BY <1>2, <1>3, SmallFacts
<1>5. PICK n \in {0, 1} : n = FreedPages(area[h])
  BY <1>2, OneFreed DEF FreedPages
<1>6. /\ stat' = [i \in Pages |-> IF i = p /\ n = 1 THEN 0 ELSE stat[i]]
      /\ use' = use - n /\ tag' = tag
      /\ area' = [area EXCEPT ![h] = NoArea]
  BY <1>2, <1>5 DEF Munmap, SetPageFlag, Pages
<1>7. stat' \in [Pages -> 0 .. TagRange - 1] /\ \A i \in Pages : i # p => stat'[i] = stat[i]
  BY <1>6, PageHeapAssumption DEF HeapIInv, UseCounted, HeapTypeOK
<1>8. area' \in [Handles -> Area \cup {NoArea}]
  BY <1>6 DEF HeapIInv
<1>9. use' = Cardinality({i \in Pages : stat'[i] # 0}) /\ use' \in 0 .. PageTotal
  <2> DEFINE S == {i \in Pages : stat[i] # 0}
             T == {i \in Pages : stat'[i] # 0}
  <2>1. use = Cardinality(S) /\ use \in 0 .. PageTotal
    BY DEF HeapIInv, UseCounted, HeapTypeOK
  <2>2. CASE n = 0
    <3>1. T = S
      BY <1>6, <2>2
    <3>2. Cardinality(T) = Cardinality(S)
      BY <3>1, Zenon
    <3> QED BY <1>6, <2>1, <2>2, <3>2
  <2>3. CASE n = 1
    <3>1. T = S \ {p} /\ p \in S
      BY <1>4, <1>6, <2>3
    <3>2. IsFiniteSet(S) /\ Cardinality(T) \in 0 .. PageTotal
      BY PagesFinite
    <3>3. Cardinality(T) = Cardinality(S) - 1
      BY <3>1, <3>2, FS_RemoveElement
    <3> QED BY <1>6, <2>1, <2>3, <3>2, <3>3
  <2> QED BY <2>2, <2>3
<1>10. \A k \in Held' : k \in Held /\ (k # h => area'[k] = area[k]) /\ (k = h => area'[k] = NoArea)
  BY <1>6 DEF Held, HeapIInv
<1>11. \A k \in Held' : k # h
  BY <1>6 DEF Held, HeapIInv
<1>12. HeapTypeOK'
  BY <1>6, <1>7, <1>9, <1>10, <1>11 DEF HeapIInv, UseCounted, HeapTypeOK
<1>13. AreasDisjoint' /\ AreasFlagged'
  <2>1. \A k \in HeldInHeap' : k \in HeldInHeap \ {h} /\ area'[k] = area[k]
    BY <1>10, <1>11 DEF HeldInHeap
  <2>2. \A k \in HeldInHeap : /\ area[k].page \in Pages /\ stat[area[k].page] # 0
                               /\ area[k].page >= BrkPages
                               /\ \A l \in HeldInHeap \ {k} : area[k].page # area[l].page
    BY SmallFacts
  <2>3. \A k \in HeldInHeap' : area'[k] \in Area
    BY <1>8 DEF HeldInHeap, Held
  <2>4. ASSUME NEW k \in HeldInHeap'
        PROVE  area'[k].page \in Pages /\ stat'[area'[k].page] # 0 /\ area'[k].page >= BrkPages
    <3>1. k \in HeldInHeap \ {h} /\ area'[k] = area[k]
      BY <2>1
    <3>2. area[k].page \in Pages /\ stat[area[k].page] # 0 /\ area[k].page >= BrkPages /\ area[k].page # p
      BY <1>4, <2>2, <3>1
    <3> QED BY <1>7, <3>1, <3>2
  <2>5. ASSUME NEW k \in HeldInHeap', NEW l \in HeldInHeap' \ {k}
        PROVE  area'[k].page # area'[l].page
    BY <2>1, <2>2
  <2>6. \A k \in HeldInHeap' :
          /\ PagesOf(area'[k]) = {area'[k].page}
          /\ PagesOf(area'[k]) \cap (0 .. BrkPages - 1) = {}
          /\ \A l \in HeldInHeap' \ {k} : PagesOf(area'[k]) \cap PagesOf(area'[l]) = {}
    BY <2>3, <2>4, <2>5, PagesApart, Zenon
  <2>7. AreasDisjoint'
    BY <2>6 DEF AreasDisjoint
  <2>8. AreasFlagged'
    BY <2>4, <2>6 DEF AreasFlagged
  <2> QED BY <2>7, <2>8
<1>14. \A i \in 0 .. BrkPages - 1 : stat'[i] # 0
  <2>1. \A i \in 0 .. BrkPages - 1 : stat[i] # 0
    BY Zenon DEF HeapIInv
  <2> QED BY <1>4, <1>7, <2>1, PageHeapAssumption DEF Pages
<1> QED BY <1>8, <1>9, <1>12, <1>13, <1>14 DEF HeapIInv, UseCounted

\* Every call keeps the invariant.
LEMMA HeapStep ==
  ASSUME SmallAreas
  PROVE  HeapIInv /\ [HeapNext]_heapVars => HeapIInv'
<1> SUFFICES ASSUME HeapIInv, [HeapNext]_heapVars PROVE HeapIInv'
  OBVIOUS
<1>1. CASE UNCHANGED heapVars
  BY <1>1 DEF heapVars, HeapIInv, UseCounted, HeapTypeOK, AreasDisjoint, AreasFlagged, Held, HeldInHeap
<1> QED BY <1>1, HeapAlloc, HeapFail, HeapUnmap DEF HeapNext, MunmapRange

\* The inductive invariant of a heap of small areas.
THEOREM SmallHeapInvariant ==
  ASSUME SmallAreas
  PROVE  HeapSpec => []HeapIInv
  BY HeapInitInv, HeapStep, PTL DEF HeapSpec

\* page_use is the number of flagged pages, for areas of at most one page:
\* alloc_pages says "no more pages" exactly when none is left.
THEOREM SmallHeapCounted ==
  ASSUME SmallAreas
  PROVE  HeapSpec => []UseCounted
<1>1. HeapIInv => UseCounted
  BY DEF HeapIInv
<1> QED BY <1>1, SmallHeapInvariant, PTL

\* Areas of at most one page have no page in common with each other or with
\* the brk area, whatever was unmapped and mapped again.
THEOREM SmallHeapDisjoint ==
  ASSUME SmallAreas
  PROVE  HeapSpec => []AreasDisjoint
<1>1. HeapIInv => AreasDisjoint
  BY DEF HeapIInv
<1> QED BY <1>1, SmallHeapInvariant, PTL

\* A program that unmaps each area of at most one page once never meets the
\* "double free" warning of free_pages.
THEOREM SmallHeapFlagged ==
  ASSUME SmallAreas
  PROVE  HeapSpec => []AreasFlagged
<1>1. HeapIInv => AreasFlagged
  BY DEF HeapIInv
<1> QED BY <1>1, SmallHeapInvariant, PTL
-----------------------------------------------------------------------------
(* brk.                                                                    *)

USE BrkAssumption

\* The break starts at brk_top, with nothing written.
LEMMA BrkInit == Init => IInv
  BY DEF Init, IInv, TypeOK, NothingAboveBreak, Requests

\* Every step of the only caller keeps the invariant.
LEMMA BrkStep ==
  ASSUME OneCaller, IInv, [Next]_vars
  PROVE  IInv'
<1> USE DEF IInv, TypeOK, NothingAboveBreak, Cells
<1>1. ASSUME NEW i \in Cells, Write(i)
      PROVE  IInv'
  BY <1>1 DEF Write
<1>2. ASSUME NEW t \in Threads, NEW a \in Requests \cup {NULL}, Call(t, a)
      PROVE  IInv'
  BY <1>2 DEF Call
<1>3. ASSUME NEW t \in Threads, Refuse(t)
      PROVE  IInv'
  BY <1>3 DEF Refuse, InLock
<1>4. ASSUME NEW t \in Threads, Expand(t)
      PROVE  IInv'
  <2>1. TypeOK'
    BY <1>4, Zenon DEF Expand, InLock, InArea
  <2>2. NothingAboveBreak'
    BY <1>4 DEF Expand, InLock, InArea
  <2>3. \A u \in Threads : pc'[u] # "lock"
    BY <1>4 DEF Expand, InLock, OneCaller
  <2> QED BY <2>1, <2>2, <2>3
<1>5. ASSUME NEW t \in Threads, Shrink(t)
      PROVE  IInv'
  <2>1. TypeOK'
    BY <1>5, Zenon DEF Shrink, InLock, InArea
  <2>2. NothingAboveBreak'
    BY <1>5 DEF Shrink, InLock, InArea
  <2>3. \A u \in Threads : pc'[u] # "lock"
    BY <1>5 DEF Shrink, InLock, OneCaller
  <2> QED BY <2>1, <2>2, <2>3
<1>6. CASE UNCHANGED vars
  BY <1>6 DEF vars
<1> QED BY <1>1, <1>2, <1>3, <1>4, <1>5, <1>6 DEF Next

\* In a step of the only caller the cells gained are zero afterwards.
LEMMA GainStep ==
  ASSUME OneCaller, IInv, [Next]_vars
  PROVE  \A i \in cur .. cur' - 1 : i \notin dirty'
<1> USE DEF IInv, TypeOK
<1>1. ASSUME cur' = cur
      PROVE  \A i \in cur .. cur' - 1 : i \notin dirty'
  BY <1>1
<1>2. ASSUME NEW t \in Threads, Expand(t)
      PROVE  \A i \in cur .. cur' - 1 : i \notin dirty'
  BY <1>2 DEF Expand, InLock, InArea
<1>3. ASSUME NEW t \in Threads, Shrink(t)
      PROVE  \A i \in cur .. cur' - 1 : i \notin dirty'
  BY <1>3 DEF Shrink, InLock, InArea
<1> QED BY <1>1, <1>2, <1>3 DEF Next, Write, Call, Refuse, vars

\* In a step of the only caller the cells kept are left alone.
LEMMA KeepStep ==
  ASSUME OneCaller, IInv, [Next]_vars
  PROVE  \A i \in dirty : i < cur /\ i < cur' => i \in dirty'
<1> USE DEF IInv, TypeOK, Cells
<1>1. ASSUME dirty \subseteq dirty'
      PROVE  \A i \in dirty : i < cur /\ i < cur' => i \in dirty'
  BY <1>1
<1>2. ASSUME NEW t \in Threads, Expand(t)
      PROVE  \A i \in dirty : i < cur /\ i < cur' => i \in dirty'
  BY <1>2 DEF Expand, InLock, InArea
<1>3. ASSUME NEW t \in Threads, Shrink(t)
      PROVE  \A i \in dirty : i < cur /\ i < cur' => i \in dirty'
  BY <1>3 DEF Shrink, InLock, InArea
<1> QED BY <1>1, <1>2, <1>3 DEF Next, Write, Call, Refuse, vars

\* Inductive invariant of k_sys_brk for one calling thread: the break it
\* read is current, and nothing is left above it.
THEOREM BrkInvariant == ASSUME OneCaller PROVE Spec => []IInv
  BY BrkInit, BrkStep, PTL DEF Spec

\* k_sys_brk hands out zeroed memory to a single caller, for every size of
\* the area and with or without CONFIG_BRK_CLEAR_AT_SHRINK.
THEOREM BrkGainedIsZero == ASSUME OneCaller PROVE Spec => GainedIsZero
  BY BrkInvariant, GainStep, PTL DEF Spec, GainedIsZero

\* k_sys_brk never wipes memory that a single caller keeps.
THEOREM BrkKeptIsKept == ASSUME OneCaller PROVE Spec => KeptIsKept
  BY BrkInvariant, KeepStep, PTL DEF Spec, KeptIsKept
=============================================================================
