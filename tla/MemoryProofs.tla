---------------------------- MODULE MemoryProofs ----------------------------
(***************************************************************************)
(* Pages, frames and blocks for any numbers of processes, pages and frames *)
(* and any sizes of blocks.  PagesInv of module Memory is inductive while  *)
(* no process takes memory in the middle of main's calls, Inv also needs   *)
(* programs linked above the heap; the properties follow from them, that   *)
(* a frame has one owner where each page table that is asked for is given. *)
(***************************************************************************)
EXTENDS Memory, FiniteSetTheorems, SequenceTheorems, TLAPS

-----------------------------------------------------------------------------
(* Numbers and finite sets                                                 *)

(* What the names of the spaces and the numbers are.                       *)
LEMMA Constants ==
    /\ Kernel \in Space /\ Kernel \notin Process /\ Nobody \notin Space /\ init \in Process
    /\ Process \subseteq Space /\ \A s \in Space : s = Kernel \/ s \in Process
    /\ KernelFrames \in Nat /\ UserFrames \in Nat /\ KernelPages \in Nat /\ UserPages \in Nat
    /\ KernelFrames > 0 /\ UserFrames > 0 /\ KernelPages > 2 /\ UserPages > 2
    /\ PerArena \in Nat /\ PerArena > 1
    /\ \A n \in LargeSizes : n \in Nat /\ n > 0
    /\ \A page \in Image : page \in Nat /\ page < UserPages - 1
<1>1. {KernelFrames, UserFrames, KernelPages, UserPages, PerArena} \subseteq Nat \ {0}
  BY MemoryAssumption
<1>2. \A n \in {KernelFrames, UserFrames, KernelPages, UserPages, PerArena} : n \in Nat /\ n > 0
  BY <1>1
<1>3. LargeSizes \subseteq Nat \ {0} /\ Image \subseteq 0..UserPages - 2
  BY MemoryAssumption
<1>4. \A n \in LargeSizes : n \in Nat /\ n > 0
  BY <1>3
<1>5. \A page \in Image : page \in Nat /\ page < UserPages - 1
  BY <1>2, <1>3
<1>6. Kernel \notin Process /\ Nobody \notin Process /\ Nobody # Kernel
  BY MemoryAssumption DEF Kernel, Nobody
<1>7. KernelPages > 2 /\ UserPages > 2 /\ PerArena > 1 /\ init \in Process
  BY MemoryAssumption
<1> QED BY <1>2, <1>4, <1>5, <1>6, <1>7 DEF Space

(* Pages and frames are numbers.                                           *)
LEMMA PageNumbers ==
    /\ \A page \in Page : page \in Nat
    /\ \A s \in Space : 0..Size(s) \subseteq Page /\ Size(s) \in Nat /\ Size(s) > 2
    /\ StackPage \in Page /\ StackPage \in Nat /\ StackPage > 1 /\ StackPage < UserPages
    /\ NoPage \notin Nat
BY Constants DEF Page, Size, StackPage, NoPage

LEMMA PoolNumbers ==
    /\ \A s \in Space : PoolOf(s) \subseteq Frame
    /\ \A f \in Frame : f \in Nat /\ f # NoFrame
    /\ \A p \in Process : PoolOf(p) \cap PoolOf(Kernel) = {}
    /\ IsFiniteSet(Frame)
    /\ \A s \in Space : IsFiniteSet(PoolOf(s))
<1>1. IsFiniteSet(Frame)
  BY FS_Interval, Constants DEF Frame
<1>2. \A s \in Space : PoolOf(s) \subseteq Frame
  BY Constants DEF PoolOf, Frame
<1>3. \A f \in Frame : f \in Nat /\ f # NoFrame
  BY Constants DEF Frame, NoFrame
<1>4. \A p \in Process : PoolOf(p) \cap PoolOf(Kernel) = {}
  BY Constants DEF PoolOf
<1> QED BY <1>1, <1>2, <1>3, <1>4, FS_Subset

(* Every nonempty set of naturals has a smallest element.                  *)
LEMMA SmallestPage ==
    ASSUME NEW S, S \subseteq Nat, S # {}
    PROVE  Min(S) \in S /\ \A x \in S : Min(S) <= x
<1> DEFINE Less == OpToRel(<, Nat)
<1>1. IsWellFoundedOn(Less, Nat)
  BY NatLessThanWellFounded
<1>2. PICK low \in S : \A n \in S : ~(<<n, low>> \in Less)
  <2> HIDE DEF Less
  <2> QED BY ONLY <1>1, WFMin, S \subseteq Nat, S # {}
<1>3. \A n \in S : ~(n < low)
  BY <1>2 DEF OpToRel
<1>4. \A n \in S : low <= n
  BY <1>3
<1> QED BY <1>4 DEF Min

(* The ranks of a finite set's numbers are different.                      *)
LEMMA Ranks ==
    ASSUME NEW S, S \subseteq Nat, IsFiniteSet(S)
    PROVE  /\ Cardinality(S) \in Nat
           /\ \A x \in S : Rank(S, x) \in 1..Cardinality(S)
           /\ \A a, b \in S : Rank(S, a) = Rank(S, b) => a = b
<1> DEFINE C == Cardinality(S)
<1>1. C \in Nat
  BY FS_CardinalityType
<1>2. ASSUME NEW x \in S
      PROVE  /\ IsFiniteSet({y \in S : y <= x})
             /\ Rank(S, x) \in 1..C
  <2> DEFINE T == {y \in S : y <= x}
  <2>1. T \in SUBSET S /\ x \in T
    BY <1>2
  <2>2. IsFiniteSet(T) /\ Cardinality(T) <= C
    BY <2>1, FS_Subset
  <2>3. Cardinality(T) \in Nat /\ Cardinality(T) # 0
    BY <2>1, <2>2, FS_CardinalityType, FS_EmptySet
  <2> QED BY <1>1, <2>2, <2>3 DEF Rank
<1>3. ASSUME NEW a \in S, NEW b \in S, Rank(S, a) = Rank(S, b), a < b
      PROVE  FALSE
  <2> DEFINE A == {y \in S : y <= a}
             B == {y \in S : y <= b}
  <2>0. a \in Nat /\ b \in Nat /\ \A y \in S : y \in Nat
    BY S \subseteq Nat
  <2>1. A \in SUBSET B /\ b \in B /\ b \notin A
    <3>1. \A y \in S : y <= a => y <= b
      BY ONLY <1>3, <2>0
    <3>2. b <= b /\ ~(b <= a)
      BY ONLY <1>3, <2>0
    <3>3. A \subseteq B
      BY ONLY <3>1
    <3>4. b \in B /\ b \notin A
      BY ONLY <3>2, b \in S
    <3> QED BY <3>3, <3>4
  <2>2. IsFiniteSet(B) /\ Cardinality(B) = Cardinality(A)
    BY <1>2, <1>3 DEF Rank
  <2>3. B = A
    BY <2>1, <2>2, FS_Subset
  <2> QED BY <2>1, <2>3
<1>4. \A a, b \in S : a = b \/ a < b \/ b < a
  BY S \subseteq Nat
<1>5. ASSUME NEW a \in S, NEW b \in S, Rank(S, a) = Rank(S, b)
      PROVE  a = b
  BY <1>3, <1>4, <1>5
<1> QED BY <1>1, <1>2, <1>5

(* The k-th element of a finite set of numbers exists: the ranks of its    *)
(* elements are as many different numbers as there are elements.           *)
LEMMA NthExists ==
    ASSUME NEW S, S \subseteq Nat, IsFiniteSet(S), NEW k \in 1..Cardinality(S)
    PROVE  Nth(S, k) \in S /\ Rank(S, Nth(S, k)) = k
<1> DEFINE R == [x \in S |-> Rank(S, x)]
           C == Cardinality(S)
<1>1. /\ C \in Nat
      /\ \A x \in S : Rank(S, x) \in 1..C
      /\ \A a, b \in S : Rank(S, a) = Rank(S, b) => a = b
  BY Ranks
<1>4. R \in Injection(S, 1..C)
  <2>1. R \in [S -> 1..C]
    BY <1>1
  <2>2. \A a, b \in S : R[a] = R[b] => a = b
    BY <1>1
  <2> QED BY <2>1, <2>2 DEF Injection, IsInjective
<1>5. IsFiniteSet(1..C) /\ Cardinality(1..C) = C
  BY <1>1, FS_Interval
<1>6. R \in Surjection(S, 1..C)
  <2> HIDE DEF R, C
  <2>1. Cardinality(S) = Cardinality(1..C)
    BY <1>5 DEF C
  <2> QED BY <1>4, <1>5, <2>1, FS_Injection
<1>7. \E x \in S : Rank(S, x) = k
  BY <1>6 DEF Surjection
<1> QED BY <1>7 DEF Nth

-----------------------------------------------------------------------------
(* The bitmaps                                                             *)

(* bitmap_scan returns a free range that ends at most one past the end of  *)
(* the bitmap, and starts inside.                                          *)
LEMMA ScanResult ==
    ASSUME NEW bits, NEW size \in Nat, NEW cnt \in Nat, cnt > 0,
           NEW start, start = bitmap_scan(bits, size, cnt), start # NoPage
    PROVE  /\ start \in Nat /\ start < size
           /\ start + cnt - 1 <= size
           /\ cnt = 1 => start + cnt - 1 < size
           /\ (start..start + cnt - 1) \cap bits = {}
<1> DEFINE last == IF cnt = 1 THEN size - 1 ELSE size
           fits == {s \in 0..size - 1 : s + cnt - 1 <= last /\ (s..s + cnt - 1) \cap bits = {}}
<1>1. fits # {} /\ start = Min(fits)
  BY DEF bitmap_scan
<1>2. fits \subseteq Nat
  OBVIOUS
<1>3. start \in fits
  <2> HIDE DEF fits
  <2> QED BY <1>1, <1>2, SmallestPage
<1>4. start \in 0..size - 1 /\ start + cnt - 1 <= last /\ (start..start + cnt - 1) \cap bits = {}
  BY <1>3
<1> QED BY <1>4

(* palloc returns an unmarked frame of the pool.                           *)
LEMMA PallocResult ==
    ASSUME NEW m, NEW s \in Space, palloc_scan(m, s) # NoFrame
    PROVE  palloc_scan(m, s) \in PoolOf(s) \ m.pbits
<1> DEFINE unused == PoolOf(s) \ m.pbits
<1>1. unused # {} /\ palloc_scan(m, s) = Min(unused)
  BY DEF palloc_scan
<1>2. unused \subseteq Nat
  BY PoolNumbers
<1> HIDE DEF unused
<1>3. Min(unused) \in unused
  BY <1>1, <1>2, SmallestPage
<1> QED BY <1>1, <1>3 DEF unused

(* So do the calls for one page after the other, each another one.         *)
LEMMA FrameForResult ==
    ASSUME NEW m, NEW s \in Space, NEW pages, pages \subseteq Page
    PROVE  /\ \A page \in pages : FrameFor(m, s, pages, page) # NoFrame =>
                    FrameFor(m, s, pages, page) \in PoolOf(s) \ m.pbits
           /\ \A p, q \in pages :
                    FrameFor(m, s, pages, p) = FrameFor(m, s, pages, q)
                    /\ FrameFor(m, s, pages, p) # NoFrame => p = q
           /\ Cardinality(pages) <= Cardinality(PoolOf(s) \ m.pbits) =>
                    \A page \in pages : FrameFor(m, s, pages, page) # NoFrame
<1> DEFINE unused == PoolOf(s) \ m.pbits
           U == Cardinality(unused)
           upto(page) == {q \in pages : q <= page}
           k(page) == Rank(pages, page)
<1>1. IsFiniteSet(unused) /\ unused \subseteq Nat /\ NoFrame \notin unused /\ U \in Nat
  <2>1. unused \in SUBSET PoolOf(s) /\ IsFiniteSet(PoolOf(s))
    BY PoolNumbers
  <2>2. IsFiniteSet(unused)
    BY <2>1, FS_Subset
  <2> QED BY <2>1, <2>2, PoolNumbers, FS_CardinalityType
<1>2. IsFiniteSet(pages) /\ \A page \in pages : page \in Nat
  <2>1. IsFiniteSet(0..KernelPages) /\ IsFiniteSet(0..UserPages)
    BY FS_Interval, Constants
  <2>2. IsFiniteSet(Page)
    BY <2>1, FS_Union DEF Page
  <2>3. pages \in SUBSET Page
    OBVIOUS
  <2> QED BY <2>2, <2>3, FS_Subset, PageNumbers
<1>3. ASSUME NEW page \in pages
      PROVE  IsFiniteSet(upto(page)) /\ k(page) \in Nat /\ k(page) > 0 /\ k(page) <= Cardinality(pages)
  <2>1. upto(page) \in SUBSET pages /\ page \in upto(page)
    BY <1>2, <1>3
  <2>2. IsFiniteSet(upto(page)) /\ k(page) <= Cardinality(pages)
    BY <1>2, <2>1, FS_Subset DEF Rank
  <2>3. k(page) \in Nat /\ k(page) # 0
    BY <2>1, <2>2, FS_CardinalityType, FS_EmptySet DEF Rank
  <2> QED BY <2>2, <2>3
<1>4. ASSUME NEW page \in pages
      PROVE  FrameFor(m, s, pages, page) = IF k(page) <= U THEN Nth(unused, k(page)) ELSE NoFrame
  BY DEF FrameFor
<1>5. ASSUME NEW page \in pages, k(page) <= U
      PROVE  /\ Nth(unused, k(page)) \in unused
             /\ Rank(unused, Nth(unused, k(page))) = k(page)
  <2>1. k(page) \in 1..U
    <3> HIDE DEF unused, k, U, upto
    <3> QED BY ONLY <1>1, <1>3, <1>5, page \in pages
  <2>2. PICK S, j : S = unused /\ j = k(page)
    OBVIOUS
  <2>3. S \subseteq Nat /\ IsFiniteSet(S) /\ j \in 1..Cardinality(S)
    BY <1>1, <2>1, <2>2
  <2>4. Nth(S, j) \in S /\ Rank(S, Nth(S, j)) = j
    BY ONLY <2>3, NthExists
  <2> QED BY ONLY <2>2, <2>4
<1>6. ASSUME NEW p \in pages, NEW q \in pages, p < q
      PROVE  k(p) # k(q)
  <2>0. p \in Nat /\ q \in Nat
    BY <1>2
  <2>1. \A y \in pages : y <= p => y <= q
    BY ONLY <1>2, <1>6, <2>0
  <2>2. q <= q /\ ~(q <= p)
    BY ONLY <1>6, <2>0
  <2>3. upto(p) \in SUBSET upto(q)
    BY ONLY <2>1
  <2>4. q \in upto(q) /\ q \notin upto(p)
    BY ONLY <2>2, q \in pages
  <2>5. k(p) = k(q) => upto(p) = upto(q)
    BY <1>3, <2>3, FS_Subset DEF Rank
  <2> QED BY <2>4, <2>5
<1>7. ASSUME NEW p \in pages, NEW q \in pages, k(p) = k(q)
      PROVE  p = q
  <2>1. p < q \/ q < p \/ p = q
    BY <1>2
  <2> QED BY <1>6, <1>7, <2>1
<1> HIDE DEF k, U, unused
<1>8. \A page \in pages : FrameFor(m, s, pages, page) # NoFrame => FrameFor(m, s, pages, page) \in unused
  BY <1>4, <1>5
<1>9. ASSUME NEW p \in pages, NEW q \in pages, FrameFor(m, s, pages, p) = FrameFor(m, s, pages, q),
             FrameFor(m, s, pages, p) # NoFrame
      PROVE  p = q
  <2>1. k(p) <= U /\ k(q) <= U /\ Nth(unused, k(p)) = Nth(unused, k(q))
    BY <1>4, <1>9
  <2> QED BY <1>5, <1>7, <2>1
<1>10. ASSUME Cardinality(pages) <= U, NEW page \in pages
       PROVE  FrameFor(m, s, pages, page) # NoFrame
  <2>1. Cardinality(pages) \in Nat
    BY <1>2, FS_CardinalityType
  <2>3. k(page) \in Nat /\ k(page) <= Cardinality(pages)
    BY <1>3
  <2>4. U \in Nat /\ Cardinality(pages) <= U
    BY <1>1, <1>10
  <2>2. k(page) <= U
    BY ONLY <2>1, <2>3, <2>4
  <2> QED BY <1>1, <1>4, <1>5, <2>2
<1> QED BY <1>8, <1>9, <1>10 DEF U, unused

-----------------------------------------------------------------------------
(* Page tables                                                             *)

LEMMA MemoryFields ==
    ASSUME NEW m \in Memory
    PROVE  /\ m.vbits \in [Space -> SUBSET Page] /\ m.pbits \subseteq Frame
           /\ m.pte \in [Space -> [Page -> Frame \cup {NoFrame}]]
           /\ m.table \in [Process -> [Region -> SUBSET (Frame \cup {NoFrame})]]
           /\ m.arena \in [Space -> [Page -> Arena]]
           /\ m.free \in [Space -> Seq(Block)] /\ m.live \in [Space -> SUBSET Block]
           /\ m.own \in [Process -> SUBSET Page] /\ m.lost \subseteq Space \X Page
BY DEF Memory

(* No entry written twice: page_table_add's ASSERTs.                       *)
LEMMA NoRepeat ==
    ASSUME NEW m \in Memory
    PROVE  m.repeat = FALSE
BY DEF Memory

(* What only page tables and frames change leaves alone.                   *)
SameHeap(m, n) ==
    n.arena = m.arena /\ n.free = m.free /\ n.live = m.live /\ n.own = m.own /\ n.lost = m.lost

(* A new page table takes an unmarked frame, or none.                      *)
LEMMA AddTableSound ==
    ASSUME NEW m \in Memory, NEW s \in Space, NEW r \in Region,
           NEW n, n = AddTable(m, s, r)
    PROVE  /\ n \in Memory /\ SameHeap(m, n) /\ n.vbits = m.vbits /\ n.pte = m.pte
           /\ \A p \in Process : n.pbits \cap PoolOf(p) = m.pbits \cap PoolOf(p)
           /\ PagesSound(m, {}) => PagesSound(n, {})
<1> DEFINE t == palloc_scan(m, Kernel)
<1>1. CASE s = Kernel \/ (s \in Process /\ m.table[s][r] # {})
  <2>1. n = m
    BY <1>1, Constants DEF AddTable
  <2> QED BY <2>1 DEF SameHeap
<1>2. CASE s # Kernel /\ s \in Process /\ m.table[s][r] = {}
  <2>0. t = NoFrame \/ t \in PoolOf(Kernel) \ m.pbits
    BY Constants, PallocResult
  <2>1. n = [m EXCEPT !.table[s][r] = {t}, !.pbits = @ \cup ({t} \ {NoFrame})]
    BY <1>2, Constants DEF AddTable
  <2> HIDE DEF t
  <2>2. t \in Frame \cup {NoFrame}
    BY <2>0, PoolNumbers, Constants
  <2>3. m.table[s] \in [Region -> SUBSET (Frame \cup {NoFrame})]
    BY <1>2, MemoryFields
  <2>4. n.table = [m.table EXCEPT ![s] = [@ EXCEPT ![r] = {t}]] /\ n.pbits = m.pbits \cup ({t} \ {NoFrame})
        /\ n.vbits = m.vbits /\ n.pte = m.pte /\ n.arena = m.arena /\ n.free = m.free
        /\ n.live = m.live /\ n.own = m.own /\ n.lost = m.lost
    BY <2>1 DEF Memory
  <2>5. n \in Memory
    <3>1. [m.table EXCEPT ![s] = [@ EXCEPT ![r] = {t}]]
            \in [Process -> [Region -> SUBSET (Frame \cup {NoFrame})]]
      BY <1>2, <2>2, <2>3, MemoryFields
    <3> QED BY <2>1, <2>2, <2>4, <3>1, MemoryFields, ZenonT(60) DEF Memory
  <2>6. \A c \in Process, u \in Region :
            n.table[c][u] = IF c = s /\ u = r THEN {t} ELSE m.table[c][u]
    BY <1>2, <2>3, <2>4, MemoryFields
  <2>7. \A p \in Process : n.pbits \cap PoolOf(p) = m.pbits \cap PoolOf(p)
    BY <2>0, <2>4, PoolNumbers
  <2>8. ASSUME PagesSound(m, {})
        PROVE  PagesSound(n, {})
    <3>1. EntriesSound(m, {}) /\ TablesSound(m) /\ m.pbits \subseteq Frames(m) /\ SpacesSound(m)
      BY <2>8 DEF PagesSound
    <3>2. \A f \in m.pbits : f # t
      BY <2>0, <2>2, MemoryFields, PoolNumbers
    <3>3. EntriesSound(n, {})
      BY <2>4, <2>6, <3>1, <3>2 DEF EntriesSound
    <3>4. TablesSound(n)
      <4> SUFFICES ASSUME NEW p \in Process, NEW u \in Region, NEW f \in n.table[p][u] \ {NoFrame}
                   PROVE  /\ f \in PoolOf(Kernel) /\ f \in n.pbits
                          /\ \A c \in Process, v \in Region : f \in n.table[c][v] => c = p /\ v = u
        BY DEF TablesSound
      <4>1. CASE p = s /\ u = r
        <5>1. f = t /\ f \in PoolOf(Kernel) \ m.pbits /\ f \in n.pbits
          BY <2>0, <2>4, <2>6, <4>1
        <5>2. \A c \in Process, v \in Region : f \notin m.table[c][v]
          BY <3>1, <5>1 DEF TablesSound
        <5> QED BY <2>6, <4>1, <5>1, <5>2
      <4>2. CASE ~(p = s /\ u = r)
        <5>1. f \in m.table[p][u] \ {NoFrame}
          BY <2>6, <4>2
        <5>2. f \in PoolOf(Kernel) /\ f \in m.pbits
              /\ \A c \in Process, v \in Region : f \in m.table[c][v] => c = p /\ v = u
          BY <3>1, <5>1 DEF TablesSound
        <5> QED BY <2>4, <2>6, <3>2, <5>2
      <4> QED BY <4>1, <4>2
    <3>5. n.pbits \subseteq Frames(n)
      <4>1. ASSUME NEW f \in m.pbits
            PROVE  f \in Frames(n)
        <5>1. f \in Frames(m)
          BY <3>1
        <5>2. CASE \E x \in Space : f \in {m.pte[x][page] : page \in Page}
          BY <2>4, <5>2 DEF Frames
        <5>3. CASE \E x \in Process \X Region : f \in m.table[x[1]][x[2]]
          <6>1. PICK x \in Process \X Region : f \in m.table[x[1]][x[2]]
            BY <5>3
          <6>2. x[1] \in Process /\ x[2] \in Region
            OBVIOUS
          <6>3. f \in n.table[x[1]][x[2]]
            BY <1>2, <2>6, <6>1, <6>2
          <6> QED BY <6>3 DEF Frames
        <5> QED BY <5>1, <5>2, <5>3 DEF Frames
      <4>2. t \in Frames(n)
        <5>1. t \in n.table[s][r] /\ <<s, r>> \in Process \X Region
          BY <1>2, <2>6
        <5>2. \E x \in Process \X Region : t \in n.table[x[1]][x[2]]
          BY <5>1
        <5> QED BY <5>2 DEF Frames
      <4> QED BY <2>4, <4>1, <4>2
    <3>6. SpacesSound(n)
      BY <2>4, <3>1 DEF SpacesSound, Arenas, PagesOf
    <3> QED BY <3>3, <3>4, <3>5, <3>6 DEF PagesSound
  <2> QED BY <2>4, <2>5, <2>7, <2>8 DEF SameHeap
<1> QED BY <1>1, <1>2, Constants

(* Unmarked frames for marked pages that have none.                        *)
Placeable(m, s, D, frames) ==
    /\ D \subseteq Page /\ frames \in [D -> PoolOf(s)]
    /\ \A q \in D : frames[q] \notin m.pbits
    /\ \A p, q \in D : frames[p] = frames[q] => p = q
    /\ \A q \in D : q \in m.vbits[s] /\ m.pte[s][q] = NoFrame

(* page_table_add maps each of these pages to its frame.                   *)
LEMMA PlacedSound ==
    ASSUME NEW m \in Memory, PagesSound(m, {}), NEW s \in Space,
           NEW D, NEW frames, Placeable(m, s, D, frames),
           NEW n, n = SetEntries(m, s, frames)
    PROVE  /\ n \in Memory /\ SameHeap(m, n) /\ n.vbits = m.vbits /\ PagesSound(n, {})
           /\ n.table = m.table
           /\ \A t \in Space, q \in Page :
                    n.pte[t][q] = IF t = s /\ q \in D THEN frames[q] ELSE m.pte[t][q]
<1>0. /\ D \subseteq Page /\ frames \in [D -> PoolOf(s)]
      /\ \A q \in D : frames[q] \notin m.pbits
      /\ \A p, q \in D : frames[p] = frames[q] => p = q
      /\ \A q \in D : q \in m.vbits[s] /\ m.pte[s][q] = NoFrame
  BY DEF Placeable
<1>1. DOMAIN frames = D
  BY <1>0
<1> DEFINE P == m.pbits \cup {frames[page] : page \in D}
<1>2. PICK F : F = [page \in Page |-> IF page \in D THEN frames[page] ELSE m.pte[s][page]]
  OBVIOUS
<1>3. \A q \in D : frames[q] \in PoolOf(s) /\ frames[q] \in Frame /\ frames[q] # NoFrame
  BY <1>0, PoolNumbers
<1>4. m.pte[s] \in [Page -> Frame \cup {NoFrame}]
  BY MemoryFields
<1>5. F \in [Page -> Frame \cup {NoFrame}]
  BY <1>0, <1>2, <1>3, <1>4
<1>16. (m.repeat \/ \E page \in D : m.pte[s][page] # NoFrame) = FALSE
  BY <1>0, NoRepeat
<1>6. n = [m EXCEPT !.repeat = FALSE, !.pbits = P, !.pte = [m.pte EXCEPT ![s] = F]]
  BY <1>1, <1>2, <1>16 DEF SetEntries, Memory
<1>7. /\ n.pbits = P /\ n.pte = [m.pte EXCEPT ![s] = F]
      /\ n.vbits = m.vbits /\ n.table = m.table /\ n.arena = m.arena /\ n.free = m.free
      /\ n.live = m.live /\ n.own = m.own /\ n.lost = m.lost
  BY <1>6 DEF Memory
<1>8. /\ n \in Memory
      /\ \A t \in Space, q \in Page :
            n.pte[t][q] = IF t = s /\ q \in D THEN frames[q] ELSE m.pte[t][q]
  <2>1. \A f \in P : f \in m.pbits \/ \E q \in D : f = frames[q]
    OBVIOUS
  <2>2. P \subseteq Frame
    BY ONLY <1>3, <2>1, MemoryFields, m \in Memory
  <2>3. [m.pte EXCEPT ![s] = F] \in [Space -> [Page -> Frame \cup {NoFrame}]]
    BY <1>5, MemoryFields
  <2>4. n \in Memory
    BY <1>6, <2>2, <2>3 DEF Memory
  <2>5. \A q \in Page : F[q] = IF q \in D THEN frames[q] ELSE m.pte[s][q]
    BY <1>2
  <2>6. \A t \in Space : n.pte[t] = IF t = s THEN F ELSE m.pte[t]
    BY <1>7, MemoryFields
  <2> QED BY <2>4, <2>5, <2>6
<1>9. EntriesSound(m, {}) /\ TablesSound(m) /\ m.pbits \subseteq Frames(m) /\ SpacesSound(m)
  BY DEF PagesSound
<1>10. \A t \in Space, q \in Page : m.pte[t][q] # NoFrame => m.pte[t][q] \in m.pbits
  BY <1>9 DEF EntriesSound
<1>11. \A q \in D, c \in Process, r \in Region : frames[q] \notin m.table[c][r]
  BY <1>0, <1>3, <1>9 DEF TablesSound
<1>12. EntriesSound(n, {})
  <2> SUFFICES ASSUME NEW t \in Space, NEW page \in Page, n.pte[t][page] # NoFrame
               PROVE  /\ n.pte[t][page] \in PoolOf(t)
                      /\ page \in n.vbits[t]
                      /\ n.pte[t][page] \in n.pbits
                      /\ \A u \in Space, q \in Page : n.pte[u][q] = n.pte[t][page] => u = t /\ q = page
                      /\ \A c \in Process, r \in Region : n.pte[t][page] \notin n.table[c][r]
    BY DEF EntriesSound
  <2>1. CASE t = s /\ page \in D
    <3>1. n.pte[t][page] = frames[page] /\ frames[page] \in PoolOf(s) /\ page \in n.vbits[s]
      BY <1>0, <1>7, <1>3, <1>8, <2>1
    <3>2. frames[page] \in n.pbits /\ frames[page] \notin m.pbits /\ frames[page] # NoFrame
      BY <1>0, <1>7, <1>3, <2>1
    <3>3. \A u \in Space, q \in Page : n.pte[u][q] = frames[page] => u = s /\ q = page
      <4> TAKE u \in Space, q \in Page
      <4> HAVE n.pte[u][q] = frames[page]
      <4>1. CASE u = s /\ q \in D
        BY <1>0, <1>8, <2>1, <4>1
      <4>2. CASE ~(u = s /\ q \in D)
        <5>1. n.pte[u][q] = m.pte[u][q]
          BY <1>8, <4>2
        <5>2. m.pte[u][q] = frames[page] /\ m.pte[u][q] # NoFrame
          BY <3>2, <5>1
        <5>3. FALSE
          BY <1>10, <3>2, <5>2
        <5> QED BY <5>3
      <4> QED BY <4>1, <4>2
    <3> QED BY <1>7, <1>11, <2>1, <3>1, <3>2, <3>3
  <2>2. CASE ~(t = s /\ page \in D)
    <3>1. n.pte[t][page] = m.pte[t][page] /\ m.pte[t][page] # NoFrame
      BY <1>8, <2>2
    <3>2. /\ m.pte[t][page] \in PoolOf(t) /\ page \in m.vbits[t]
          /\ \A u \in Space, q \in Page : m.pte[u][q] = m.pte[t][page] => u = t /\ q = page
          /\ \A c \in Process, r \in Region : m.pte[t][page] \notin m.table[c][r]
      BY <1>9, <3>1 DEF EntriesSound
    <3>3. m.pte[t][page] \in m.pbits
      BY <1>10, <3>1
    <3>4. \A u \in Space, q \in Page : n.pte[u][q] = m.pte[t][page] => u = t /\ q = page
      <4> TAKE u \in Space, q \in Page
      <4> HAVE n.pte[u][q] = m.pte[t][page]
      <4>1. ~(u = s /\ q \in D)
        BY <1>0, <1>8, <3>3
      <4>2. m.pte[u][q] = m.pte[t][page]
        BY <1>8, <4>1
      <4> QED BY <3>2, <4>2
    <3> QED BY <1>7, <3>1, <3>2, <3>3, <3>4
  <2> QED BY <2>1, <2>2
<1>13. TablesSound(n)
  BY <1>7, <1>9 DEF TablesSound
<1>14. n.pbits \subseteq Frames(n)
  <2>1. ASSUME NEW t \in Space, NEW page \in Page
        PROVE  n.pte[t][page] \in Frames(n)
    BY DEF Frames
  <2>2. ASSUME NEW f \in m.pbits
        PROVE  f \in Frames(n)
    <3>0. f # NoFrame
      BY MemoryFields, PoolNumbers
    <3>1. CASE \E t \in Space, page \in Page : f = m.pte[t][page]
      <4>1. PICK t \in Space, page \in Page : f = m.pte[t][page]
        BY <3>1
      <4>2. n.pte[t][page] = f
        BY <1>0, <1>8, <3>0, <4>1
      <4> QED BY <2>1, <4>2
    <3>2. CASE \E x \in Process \X Region : f \in m.table[x[1]][x[2]]
      BY <1>7, <3>2 DEF Frames
    <3>3. f \in Frames(m)
      BY <1>9
    <3> QED BY <3>1, <3>2, <3>3 DEF Frames
  <2>3. ASSUME NEW q \in D
        PROVE  frames[q] \in Frames(n)
    <3>1. n.pte[s][q] = frames[q] /\ q \in Page
      BY <1>0, <1>8
    <3> QED BY <2>1, <3>1
  <2>4. \A f \in n.pbits : f \in m.pbits \/ \E q \in D : f = frames[q]
    BY <1>7
  <2> QED BY <2>2, <2>3, <2>4
<1>15. SpacesSound(n)
  BY <1>7, <1>9 DEF SpacesSound, Arenas, PagesOf
<1> QED BY <1>7, <1>8, <1>12, <1>13, <1>14, <1>15 DEF PagesSound, SameHeap

LEMMA PageTableAdd ==
    ASSUME NEW m \in Memory, PagesSound(m, {}), NEW s \in Space,
           NEW D, NEW frames, Placeable(m, s, D, frames),
           NEW n, n = page_table_add(m, s, frames)
    PROVE  /\ n \in Memory /\ SameHeap(m, n) /\ n.vbits = m.vbits /\ PagesSound(n, {})
           /\ s = Kernel => n.table = m.table
           /\ \A t \in Space, q \in Page :
                    n.pte[t][q] = IF t = s /\ q \in D THEN frames[q] ELSE m.pte[t][q]
<1>1. PICK placed : placed = SetEntries(m, s, frames)
  OBVIOUS
<1>2. /\ placed \in Memory /\ SameHeap(m, placed) /\ placed.vbits = m.vbits /\ PagesSound(placed, {})
      /\ placed.table = m.table
      /\ \A t \in Space, q \in Page :
                placed.pte[t][q] = IF t = s /\ q \in D THEN frames[q] ELSE m.pte[t][q]
  BY <1>1, PlacedSound
<1>3. PICK regions : regions = {RegionOf(page) : page \in DOMAIN frames}
  OBVIOUS
<1>4. PICK heap : heap = IF "heap" \in regions THEN AddTable(placed, s, "heap") ELSE placed
  OBVIOUS
<1>5. n = IF "stack" \in regions THEN AddTable(heap, s, "stack") ELSE heap
  BY <1>1, <1>3, <1>4 DEF page_table_add
<1>6. "heap" \in Region /\ "stack" \in Region
  BY DEF Region
<1>7. /\ heap \in Memory /\ SameHeap(placed, heap) /\ heap.vbits = placed.vbits
      /\ heap.pte = placed.pte /\ PagesSound(heap, {})
  BY <1>2, <1>4, <1>6, AddTableSound DEF SameHeap
<1>8. /\ n \in Memory /\ SameHeap(heap, n) /\ n.vbits = heap.vbits
      /\ n.pte = heap.pte /\ PagesSound(n, {})
  BY <1>5, <1>6, <1>7, AddTableSound DEF SameHeap
<1>9. s = Kernel => n = placed
  BY <1>4, <1>5 DEF AddTable
<1> QED BY <1>2, <1>7, <1>8, <1>9 DEF SameHeap

(* The pages that palloc has frames for are mapped, all of them if there   *)
(* are as many frames.                                                     *)
Fillable(m, s, pages) ==
    pages \subseteq Page /\ \A q \in pages : q \in m.vbits[s] /\ m.pte[s][q] = NoFrame
Filled(m, s, pages, n) ==
    /\ n \in Memory /\ SameHeap(m, n) /\ n.vbits = m.vbits /\ PagesSound(n, {})
    /\ s = Kernel => n.table = m.table
    /\ \A t \in Space, q \in Page : ~(t = s /\ q \in pages) => n.pte[t][q] = m.pte[t][q]
    /\ Cardinality(pages) <= Cardinality(PoolOf(s) \ m.pbits) =>
             \A q \in pages : n.pte[s][q] # NoFrame

LEMMA MapPagesSound ==
    ASSUME NEW m \in Memory, PagesSound(m, {}), NEW s \in Space,
           NEW pages, Fillable(m, s, pages), NEW n, n = MapPages(m, s, pages)
    PROVE  Filled(m, s, pages, n)
<1>0. pages \subseteq Page /\ \A q \in pages : q \in m.vbits[s] /\ m.pte[s][q] = NoFrame
  BY DEF Fillable
<1> DEFINE D == {q \in pages : FrameFor(m, s, pages, q) # NoFrame}
           frames == [page \in D |-> FrameFor(m, s, pages, page)]
<1>1. n = page_table_add(m, s, frames)
  BY DEF MapPages
<1>2. Placeable(m, s, D, frames)
  <2>1. D \subseteq Page
    BY <1>0
  <2>2. \A q \in D : frames[q] = FrameFor(m, s, pages, q) /\ q \in pages
    OBVIOUS
  <2>3. \A q \in D : frames[q] \in PoolOf(s) \ m.pbits
    BY <1>0, <2>2, FrameForResult
  <2>4. frames \in [D -> PoolOf(s)]
    BY <2>3
  <2>5. \A p, q \in D : frames[p] = frames[q] => p = q
    <3>1. \A q \in D : FrameFor(m, s, pages, q) # NoFrame
      OBVIOUS
    <3> HIDE DEF frames, D
    <3>2. \A p, q \in pages : FrameFor(m, s, pages, p) = FrameFor(m, s, pages, q)
                               /\ FrameFor(m, s, pages, p) # NoFrame => p = q
      BY <1>0, FrameForResult
    <3> QED BY ONLY <2>2, <3>1, <3>2
  <2> HIDE DEF frames, D
  <2> QED BY <1>0, <2>1, <2>2, <2>3, <2>4, <2>5 DEF Placeable
<1>3. /\ n \in Memory /\ SameHeap(m, n) /\ n.vbits = m.vbits /\ PagesSound(n, {})
      /\ s = Kernel => n.table = m.table
      /\ \A t \in Space, q \in Page : n.pte[t][q] = IF t = s /\ q \in D THEN frames[q] ELSE m.pte[t][q]
  <2> HIDE DEF frames, D
  <2> QED BY <1>1, <1>2, PageTableAdd
<1>4. ASSUME Cardinality(pages) <= Cardinality(PoolOf(s) \ m.pbits), NEW q \in pages
      PROVE  n.pte[s][q] # NoFrame
  <2>1. FrameFor(m, s, pages, q) # NoFrame
    BY <1>0, <1>4, FrameForResult
  <2>2. q \in D /\ q \in Page /\ frames[q] = FrameFor(m, s, pages, q)
    BY <1>0, <2>1
  <2>3. n.pte[s][q] = frames[q]
    BY <1>3, <2>2
  <2> QED BY <2>1, <2>2, <2>3
<1>5. \A q \in D : q \in pages
  OBVIOUS
<1> HIDE DEF frames, D
<1> QED BY <1>3, <1>4, <1>5 DEF Filled

(* One page and one frame.                                                 *)
LEMMA MapPageSound ==
    ASSUME NEW m \in Memory, PagesSound(m, {}), NEW s \in Space, NEW page \in m.vbits[s],
           m.pte[s][page] = NoFrame, NEW f \in PoolOf(s) \ m.pbits,
           NEW n, n = MapPage(m, s, page, f)
    PROVE  /\ n \in Memory /\ SameHeap(m, n) /\ n.vbits = m.vbits /\ PagesSound(n, {})
           /\ s = Kernel => n.table = m.table
           /\ \A t \in Space, q \in Page : ~(t = s /\ q = page) => n.pte[t][q] = m.pte[t][q]
           /\ n.pte[s][page] # NoFrame
<1> DEFINE frames == [q \in {page} |-> f]
<1>1. n = page_table_add(m, s, frames)
  BY DEF MapPage
<1>0. page \in Page
  BY MemoryFields
<1>2. Placeable(m, s, {page}, frames) /\ frames[page] = f
  BY <1>0 DEF Placeable
<1> HIDE DEF frames
<1>3. /\ n \in Memory /\ SameHeap(m, n) /\ n.vbits = m.vbits /\ PagesSound(n, {})
      /\ s = Kernel => n.table = m.table
      /\ \A t \in Space, q \in Page : n.pte[t][q] = IF t = s /\ q \in {page} THEN frames[q] ELSE m.pte[t][q]
  BY <1>1, <1>2, PageTableAdd
<1>4. f # NoFrame
  BY PoolNumbers
<1> QED BY <1>0, <1>2, <1>3, <1>4

-----------------------------------------------------------------------------
(* Marks and ranges                                                        *)

(* Pages a space has, and that a process which is there may mark.          *)
Markable(m, s, range) ==
    /\ range \subseteq 0..Size(s)
    /\ s \in Process => UserPages \notin range /\ m.own[s] # {}

(* Marking more virtual pages.                                             *)
LEMMA MarkSound ==
    ASSUME NEW m \in Memory, NEW half, PagesSound(m, half), NEW s \in Space,
           NEW range, Markable(m, s, range),
           NEW n, n = Marked(m, s, range)
    PROVE  /\ n \in Memory /\ SameHeap(m, n) /\ n.pte = m.pte /\ n.pbits = m.pbits /\ n.table = m.table
           /\ \A t \in Space : n.vbits[t] = IF t = s THEN m.vbits[s] \cup range ELSE m.vbits[t]
           /\ PagesSound(n, half)
<1>1. /\ n.pte = m.pte /\ n.pbits = m.pbits /\ n.table = m.table /\ SameHeap(m, n)
      /\ n.vbits = [m.vbits EXCEPT ![s] = @ \cup range]
      /\ n = [m EXCEPT !.vbits = [m.vbits EXCEPT ![s] = @ \cup range]]
  BY DEF Marked, Memory, SameHeap
<1>0. range \subseteq 0..Size(s) /\ (s \in Process => UserPages \notin range /\ m.own[s] # {})
  BY DEF Markable
<1>2. range \subseteq Page
  BY <1>0, PageNumbers
<1>3. [m.vbits EXCEPT ![s] = @ \cup range] \in [Space -> SUBSET Page]
  BY <1>2, MemoryFields
<1>4. n \in Memory
  BY <1>1, <1>3 DEF Memory
<1>5. \A t \in Space : n.vbits[t] = IF t = s THEN m.vbits[s] \cup range ELSE m.vbits[t]
  BY <1>1, MemoryFields
<1>6. EntriesSound(m, half) /\ TablesSound(m) /\ m.pbits \subseteq Frames(m) /\ SpacesSound(m)
  BY DEF PagesSound
<1>7. EntriesSound(n, half)
  BY <1>1, <1>5, <1>6 DEF EntriesSound
<1>8. TablesSound(n) /\ n.pbits \subseteq Frames(n)
  BY <1>1, <1>6 DEF TablesSound, Frames
<1>9. SpacesSound(n)
  BY <1>0, <1>1, <1>5, <1>6, Constants DEF SpacesSound, SameHeap, Arenas, PagesOf
<1> QED BY <1>1, <1>4, <1>5, <1>7, <1>8, <1>9 DEF PagesSound

(* What a step of the heap, of PCBs or of lost pages leaves sound.         *)
LEMMA HeapChange ==
    ASSUME NEW m \in Memory, NEW n \in Memory, NEW half, PagesSound(m, half),
           n.vbits = m.vbits, n.pbits = m.pbits, n.pte = m.pte, n.table = m.table,
           \A p \in Process : n.own[p] = {} => m.own[p] = {},
           \A s \in Space : \A page \in Arenas(n, s) : PagesOf(n, s, page) \subseteq Page
    PROVE  PagesSound(n, half)
<1>1. EntriesSound(m, half) /\ TablesSound(m) /\ m.pbits \subseteq Frames(m) /\ SpacesSound(m)
  BY DEF PagesSound
<1>2. EntriesSound(n, half)
  BY <1>1 DEF EntriesSound
<1>3. TablesSound(n) /\ n.pbits \subseteq Frames(n)
  BY <1>1 DEF TablesSound, Frames
<1>4. SpacesSound(n)
  BY <1>1 DEF SpacesSound
<1> QED BY <1>2, <1>3, <1>4 DEF PagesSound

-----------------------------------------------------------------------------
(* Giving pages back                                                       *)

(* pfree: the frames of the range are free, the entries still there.       *)
LEMMA PfreeSound ==
    ASSUME NEW m \in Memory, PagesSound(m, {}), NEW s \in Space, NEW range, range \subseteq Page,
           NEW n, n = pfree(m, {m.pte[s][page] : page \in range})
    PROVE  /\ n \in Memory /\ SameHeap(m, n) /\ n.pte = m.pte /\ n.vbits = m.vbits
           /\ PagesSound(n, {s} \X range)
<1> DEFINE freed == {m.pte[s][page] : page \in range}
<1>1. /\ n = [m EXCEPT !.pbits = m.pbits \ freed] /\ n.pbits = m.pbits \ freed
      /\ n.pte = m.pte /\ n.vbits = m.vbits /\ n.table = m.table /\ SameHeap(m, n)
  BY DEF pfree, Memory, SameHeap
<1>2. n \in Memory
  BY <1>1 DEF Memory
<1>3. EntriesSound(m, {}) /\ TablesSound(m) /\ m.pbits \subseteq Frames(m) /\ SpacesSound(m)
  BY DEF PagesSound
<1>4. \A t \in Space, page \in Page : m.pte[t][page] # NoFrame =>
            (m.pte[t][page] \in freed <=> <<t, page>> \in {s} \X range)
  <2> SUFFICES ASSUME NEW t \in Space, NEW page \in Page, m.pte[t][page] # NoFrame
               PROVE  m.pte[t][page] \in freed <=> <<t, page>> \in {s} \X range
    OBVIOUS
  <2>1. \A q \in range : m.pte[s][q] = m.pte[t][page] => s = t /\ q = page
    BY <1>3 DEF EntriesSound
  <2>2. m.pte[t][page] \in freed <=> \E q \in range : m.pte[s][q] = m.pte[t][page]
    OBVIOUS
  <2>3. <<t, page>> \in {s} \X range <=> t = s /\ page \in range
    OBVIOUS
  <2> QED BY ONLY <2>1, <2>2, <2>3
<1> HIDE DEF freed
<1>5. EntriesSound(n, {s} \X range)
  <2>1. \A t \in Space, page \in Page : m.pte[t][page] # NoFrame =>
            /\ m.pte[t][page] \in PoolOf(t) /\ page \in m.vbits[t] /\ m.pte[t][page] \in m.pbits
            /\ \A u \in Space, q \in Page : m.pte[u][q] = m.pte[t][page] => u = t /\ q = page
            /\ \A c \in Process, r \in Region : m.pte[t][page] \notin m.table[c][r]
    BY <1>3 DEF EntriesSound
  <2> QED BY ONLY <1>1, <1>4, <2>1 DEF EntriesSound
<1>6. TablesSound(n)
  <2>1. \A p \in Process, r \in Region : \A f \in m.table[p][r] \ {NoFrame} : f \notin freed
    <3> SUFFICES ASSUME NEW p \in Process, NEW r \in Region, NEW f \in m.table[p][r] \ {NoFrame},
                        f \in freed
                 PROVE  FALSE
      OBVIOUS
    <3>1. PICK page \in range : f = m.pte[s][page]
      BY DEF freed
    <3> QED BY <1>3, <3>1 DEF EntriesSound
  <2> QED BY <1>1, <1>3, <2>1 DEF TablesSound
<1>7. n.pbits \subseteq Frames(n)
  <2>1. Frames(n) = Frames(m)
    BY ONLY <1>1 DEF Frames
  <2> QED BY <1>1, <1>3, <2>1
<1>8. SpacesSound(n)
  BY <1>1, <1>3 DEF SpacesSound, SameHeap, Arenas, PagesOf
<1> QED BY <1>1, <1>2, <1>5, <1>6, <1>7, <1>8 DEF PagesSound

(* page_table_pte_remove: the entries of free frames go.                   *)
LEMMA PteRemoveSound ==
    ASSUME NEW m \in Memory, NEW s \in Space, NEW range, range \subseteq Page,
           PagesSound(m, {s} \X range),
           NEW n, n = page_table_pte_remove(m, s, range)
    PROVE  /\ n \in Memory /\ SameHeap(m, n) /\ n.pbits = m.pbits /\ n.vbits = m.vbits
           /\ \A t \in Space, page \in Page :
                    n.pte[t][page] = IF t = s /\ page \in range THEN NoFrame ELSE m.pte[t][page]
           /\ PagesSound(n, {})
<1>1. PICK F : F = [page \in Page |-> IF page \in range THEN NoFrame ELSE m.pte[s][page]]
  OBVIOUS
<1>2. /\ n = [m EXCEPT !.pte = [m.pte EXCEPT ![s] = F]] /\ n.pte = [m.pte EXCEPT ![s] = F]
      /\ n.pbits = m.pbits /\ n.vbits = m.vbits /\ n.table = m.table /\ SameHeap(m, n)
  BY <1>1 DEF page_table_pte_remove, Memory, SameHeap
<1>3. F \in [Page -> Frame \cup {NoFrame}]
  BY <1>1, MemoryFields
<1>4. [m.pte EXCEPT ![s] = F] \in [Space -> [Page -> Frame \cup {NoFrame}]]
  BY <1>3, MemoryFields
<1>5. n \in Memory
  BY <1>2, <1>4 DEF Memory
<1>6. \A t \in Space, page \in Page :
            n.pte[t][page] = IF t = s /\ page \in range THEN NoFrame ELSE m.pte[t][page]
  BY <1>1, <1>2, MemoryFields
<1>7. EntriesSound(m, {s} \X range) /\ TablesSound(m) /\ m.pbits \subseteq Frames(m) /\ SpacesSound(m)
  BY DEF PagesSound
<1>8. \A t \in Space, page \in Page : <<t, page>> \in {s} \X range <=> t = s /\ page \in range
  OBVIOUS
<1>9. EntriesSound(n, {})
  <2> SUFFICES ASSUME NEW t \in Space, NEW page \in Page, n.pte[t][page] # NoFrame
               PROVE  /\ n.pte[t][page] \in PoolOf(t)
                      /\ page \in n.vbits[t]
                      /\ n.pte[t][page] \in n.pbits
                      /\ \A u \in Space, q \in Page : n.pte[u][q] = n.pte[t][page] => u = t /\ q = page
                      /\ \A c \in Process, r \in Region : n.pte[t][page] \notin n.table[c][r]
    BY DEF EntriesSound
  <2>1. n.pte[t][page] = m.pte[t][page] /\ ~(t = s /\ page \in range)
    BY <1>6
  <2>2. /\ m.pte[t][page] \in PoolOf(t) /\ page \in m.vbits[t]
        /\ m.pte[t][page] \in m.pbits
        /\ \A u \in Space, q \in Page : m.pte[u][q] = m.pte[t][page] => u = t /\ q = page
        /\ \A c \in Process, r \in Region : m.pte[t][page] \notin m.table[c][r]
    BY <1>7, <1>8, <2>1, ZenonT(120) DEF EntriesSound
  <2>3. \A u \in Space, q \in Page : n.pte[u][q] = n.pte[t][page] => n.pte[u][q] = m.pte[u][q]
    BY <1>6
  <2> QED BY ONLY <1>2, <2>1, <2>2, <2>3
<1>10. TablesSound(n)
  BY <1>2, <1>7 DEF TablesSound
<1>11. n.pbits \subseteq Frames(n)
  <2> SUFFICES ASSUME NEW f \in m.pbits
               PROVE  f \in Frames(n)
    BY <1>2
  <2>0. f # NoFrame
    BY MemoryFields, PoolNumbers
  <2>1. CASE \E t \in Space, page \in Page : f = m.pte[t][page]
    <3>1. PICK t \in Space, page \in Page : f = m.pte[t][page]
      BY <2>1
    <3>2. ~(t = s /\ page \in range)
      BY <1>7, <1>8, <2>0, <3>1 DEF EntriesSound
    <3>3. n.pte[t][page] = f
      BY <1>6, <3>1, <3>2
    <3> QED BY <3>3 DEF Frames
  <2>2. CASE \E x \in Process \X Region : f \in m.table[x[1]][x[2]]
    BY <1>2, <2>2 DEF Frames
  <2>3. f \in Frames(m)
    BY <1>7
  <2> QED BY <2>1, <2>2, <2>3 DEF Frames
<1>12. SpacesSound(n)
  BY <1>2, <1>7 DEF SpacesSound, SameHeap, Arenas, PagesOf
<1> QED BY <1>2, <1>5, <1>6, <1>9, <1>10, <1>11, <1>12 DEF PagesSound

(* vaddr_remove: pages without a frame lose their mark.                    *)
LEMMA VaddrRemoveSound ==
    ASSUME NEW m \in Memory, PagesSound(m, {}), NEW s \in Space, NEW range,
           \A page \in range \cap Page : m.pte[s][page] = NoFrame,
           NEW n, n = vaddr_remove(m, s, range)
    PROVE  /\ n \in Memory /\ SameHeap(m, n) /\ n.pbits = m.pbits /\ n.pte = m.pte
           /\ n.vbits = [m.vbits EXCEPT ![s] = @ \ range]
           /\ PagesSound(n, {})
<1>1. /\ n = [m EXCEPT !.vbits = [m.vbits EXCEPT ![s] = @ \ range]]
      /\ n.vbits = [m.vbits EXCEPT ![s] = @ \ range]
      /\ n.pbits = m.pbits /\ n.pte = m.pte /\ n.table = m.table /\ SameHeap(m, n)
  BY DEF vaddr_remove, Memory, SameHeap
<1>2. [m.vbits EXCEPT ![s] = @ \ range] \in [Space -> SUBSET Page]
  BY MemoryFields
<1>3. n \in Memory
  BY <1>1, <1>2 DEF Memory
<1>4. \A t \in Space : n.vbits[t] = IF t = s THEN m.vbits[s] \ range ELSE m.vbits[t]
  BY <1>1, MemoryFields
<1>5. EntriesSound(m, {}) /\ TablesSound(m) /\ m.pbits \subseteq Frames(m) /\ SpacesSound(m)
  BY DEF PagesSound
<1>6. \A t \in Space, page \in Page : m.pte[t][page] # NoFrame => page \in n.vbits[t]
  BY <1>4, <1>5 DEF EntriesSound
<1>7. EntriesSound(n, {})
  BY <1>1, <1>5, <1>6 DEF EntriesSound
<1>8. TablesSound(n) /\ n.pbits \subseteq Frames(n)
  BY <1>1, <1>5 DEF TablesSound, Frames
<1>9. \A t \in Space : n.vbits[t] \subseteq m.vbits[t]
  BY <1>4
<1>10. SpacesSound(n)
  BY <1>1, <1>5, <1>9, Constants DEF SpacesSound, SameHeap, Arenas, PagesOf
<1> QED BY <1>1, <1>3, <1>7, <1>8, <1>10 DEF PagesSound

(* mfree_page as a whole.                                                  *)
LEMMA MfreeSound ==
    ASSUME NEW m \in Memory, PagesSound(m, {}), NEW s \in Space, NEW range, range \subseteq Page,
           NEW n, n = mfree_page(m, s, range)
    PROVE  /\ n \in Memory /\ SameHeap(m, n)
           /\ n.vbits = [m.vbits EXCEPT ![s] = @ \ range]
           /\ \A t \in Space, page \in Page :
                    n.pte[t][page] = IF t = s /\ page \in range THEN NoFrame ELSE m.pte[t][page]
           /\ PagesSound(n, {})
<1>1. PICK freed : freed = pfree(m, {m.pte[s][page] : page \in range})
  OBVIOUS
<1>2. PICK cleared : cleared = page_table_pte_remove(freed, s, range)
  OBVIOUS
<1>3. n = vaddr_remove(cleared, s, range)
  BY <1>1, <1>2 DEF mfree_page
<1>4. /\ freed \in Memory /\ SameHeap(m, freed) /\ freed.pte = m.pte /\ freed.vbits = m.vbits
      /\ PagesSound(freed, {s} \X range)
  BY <1>1, PfreeSound
<1>5. /\ cleared \in Memory /\ SameHeap(freed, cleared) /\ cleared.vbits = freed.vbits
      /\ \A t \in Space, page \in Page :
                cleared.pte[t][page] = IF t = s /\ page \in range THEN NoFrame ELSE freed.pte[t][page]
      /\ PagesSound(cleared, {})
  BY <1>2, <1>4, PteRemoveSound
<1>6. \A page \in range \cap Page : cleared.pte[s][page] = NoFrame
  BY <1>5
<1>7. /\ n \in Memory /\ SameHeap(cleared, n) /\ n.pte = cleared.pte
      /\ n.vbits = [cleared.vbits EXCEPT ![s] = @ \ range] /\ PagesSound(n, {})
  BY <1>3, <1>5, <1>6, VaddrRemoveSound
<1> QED BY <1>4, <1>5, <1>7 DEF SameHeap

-----------------------------------------------------------------------------
(* Taking pages                                                            *)

(* What is said of lost pages changes nothing else.                        *)
LEMMA GiveUpSound ==
    ASSUME NEW m \in Memory, PagesSound(m, {}), NEW s \in Space, NEW range, range \subseteq Page,
           NEW n, n = GiveUp(m, s, range)
    PROVE  /\ n \in Memory /\ PagesSound(n, {}) /\ n.lost = m.lost \cup ({s} \X range)
           /\ n.vbits = m.vbits /\ n.pte = m.pte /\ n.pbits = m.pbits /\ n.table = m.table
           /\ n.arena = m.arena /\ n.free = m.free /\ n.live = m.live /\ n.own = m.own
<1>1. /\ n = [m EXCEPT !.lost = m.lost \cup ({s} \X range)] /\ n.lost = m.lost \cup ({s} \X range)
      /\ n.vbits = m.vbits /\ n.pte = m.pte /\ n.pbits = m.pbits /\ n.table = m.table
      /\ n.arena = m.arena /\ n.free = m.free /\ n.live = m.live /\ n.own = m.own
  BY DEF GiveUp, Memory
<1>2. m.lost \cup ({s} \X range) \subseteq Space \X Page
  BY MemoryFields
<1>3. n \in Memory
  BY <1>1, <1>2 DEF Memory
<1>4. \A t \in Space : \A page \in Arenas(n, t) : PagesOf(n, t, page) \subseteq Page
  BY <1>1 DEF PagesSound, SpacesSound, Arenas, PagesOf
<1> QED BY <1>1, <1>3, <1>4, HeapChange

(* The result r of a call for n pages: with ok the range at r.page is      *)
(* marked and mapped, else what was marked is lost.                        *)
Allocated(m, s, n, r) ==
    LET range == r.page..r.page + n - 1
    IN  /\ r.m \in Memory /\ PagesSound(r.m, {}) /\ r.ok \in BOOLEAN
        /\ r.m.arena = m.arena /\ r.m.free = m.free /\ r.m.live = m.live /\ r.m.own = m.own
        /\ s = Kernel => r.m.table = m.table
        /\ r.page = NoPage => ~r.ok /\ r.m = m
        /\ r.page # NoPage =>
            /\ r.page \in Nat /\ r.page < Size(s) /\ range \subseteq 0..Size(s)
            /\ s \in Process => UserPages \notin range
            /\ range \cap m.vbits[s] = {}
            /\ r.m.vbits = [m.vbits EXCEPT ![s] = @ \cup range]
            /\ r.m.lost = IF r.ok THEN m.lost ELSE m.lost \cup ({s} \X range)
            /\ \A t \in Space, q \in Page : ~(t = s /\ q \in range) => r.m.pte[t][q] = m.pte[t][q]
            /\ r.ok => \A q \in range : r.m.pte[s][q] # NoFrame

(* A process that is there takes a single page, or has its stack marked,   *)
(* which keeps a range of pages from the end of its space.                 *)
MayTake(m, s, n) == s \in Process => m.own[s] # {} /\ (n = 1 \/ StackPage \in m.vbits[s])

LEMMA MallocPage ==
    ASSUME NEW m \in Memory, PagesSound(m, {}), NEW s \in Space, NEW n \in Nat, n > 0, MayTake(m, s, n),
           NEW r, r = malloc_page(m, s, n)
    PROVE  Allocated(m, s, n, r)
<1>1. PICK start : start = bitmap_scan(m.vbits[s], Size(s), n)
  OBVIOUS
<1>2. PICK range : range = start..start + n - 1
  OBVIOUS
<1>3. PICK marked : marked = Marked(m, s, range)
  OBVIOUS
<1>4. PICK mapped : mapped = MapPages(marked, s, range)
  OBVIOUS
<1>5. r = IF start = NoPage THEN [ok |-> FALSE, m |-> m, page |-> start]
          ELSE IF n <= Cardinality(PoolOf(s) \ m.pbits) THEN [ok |-> TRUE, m |-> mapped, page |-> start]
          ELSE [ok |-> FALSE, m |-> GiveUp(mapped, s, range), page |-> start]
  BY <1>1, <1>2, <1>3, <1>4 DEF malloc_page
<1>6. CASE start = NoPage
  BY <1>5, <1>6 DEF Allocated
<1>7. CASE start # NoPage
  <2>1. /\ start \in Nat /\ start < Size(s) /\ start + n - 1 <= Size(s)
        /\ n = 1 => start + n - 1 < Size(s)
        /\ range \cap m.vbits[s] = {}
    <3>1. PICK bits, size : bits = m.vbits[s] /\ size = Size(s)
      OBVIOUS
    <3>2. size \in Nat /\ start = bitmap_scan(bits, size, n)
      BY <1>1, <3>1, PageNumbers
    <3> QED BY ONLY <1>2, <1>7, <3>1, <3>2, ScanResult, n \in Nat, n > 0
  <2>2. range \subseteq 0..Size(s)
    BY ONLY <1>2, <2>1, PageNumbers, n \in Nat, s \in Space
  <2>3. s \in Process => UserPages \notin range
    <3> SUFFICES ASSUME s \in Process, UserPages \in range
                 PROVE  FALSE
      OBVIOUS
    <3>1. Size(s) = UserPages /\ UserPages \in Nat /\ StackPage = UserPages - 1
      BY Constants DEF Size, StackPage
    <3>2. n # 1 => StackPage \in range
      BY ONLY <1>2, <2>1, <3>1, UserPages \in range, n \in Nat, n > 0
    <3>3. n # 1
      BY ONLY <1>2, <2>1, <3>1, UserPages \in range
    <3> QED BY <2>1, <3>2, <3>3 DEF MayTake
  <2>4. /\ marked \in Memory /\ SameHeap(m, marked) /\ marked.pte = m.pte /\ marked.pbits = m.pbits
        /\ marked.vbits = [m.vbits EXCEPT ![s] = @ \cup range] /\ PagesSound(marked, {})
        /\ marked.table = m.table
    <3>1. Markable(m, s, range)
      BY <2>2, <2>3 DEF Markable, MayTake
    <3>2. marked \in Memory /\ SameHeap(m, marked) /\ PagesSound(marked, {})
      BY ONLY <1>3, <3>1, MarkSound, m \in Memory, PagesSound(m, {}), s \in Space
    <3>3. /\ marked.vbits = [m.vbits EXCEPT ![s] = @ \cup range]
          /\ marked.pte = m.pte /\ marked.pbits = m.pbits /\ marked.table = m.table
      BY <1>3 DEF Marked, Memory
    <3> QED BY <3>2, <3>3
  <2>5. range \subseteq Page
    BY <2>2, PageNumbers
  <2>6. \A q \in range : q \in marked.vbits[s] /\ marked.pte[s][q] = NoFrame
    <3>1. \A q \in range : m.pte[s][q] = NoFrame
      BY <2>1, <2>5 DEF PagesSound, EntriesSound
    <3>2. marked.vbits[s] = m.vbits[s] \cup range
      BY <2>4, MemoryFields
    <3> QED BY <2>4, <3>1, <3>2
  <2>7. /\ mapped \in Memory /\ SameHeap(marked, mapped) /\ mapped.vbits = marked.vbits
        /\ PagesSound(mapped, {}) /\ (s = Kernel => mapped.table = marked.table)
        /\ \A t \in Space, q \in Page : ~(t = s /\ q \in range) => mapped.pte[t][q] = marked.pte[t][q]
        /\ Cardinality(range) <= Cardinality(PoolOf(s) \ marked.pbits) =>
                    \A q \in range : mapped.pte[s][q] # NoFrame
    <3>1. marked \in Memory /\ PagesSound(marked, {}) /\ Fillable(marked, s, range)
      BY <2>4, <2>5, <2>6 DEF Fillable
    <3>2. Filled(marked, s, range, mapped)
      BY ONLY <1>4, <3>1, MapPagesSound, s \in Space
    <3> QED BY ONLY <3>2 DEF Filled
  <2>8. Cardinality(range) = n
    <3>1. start \in Int /\ start + n - 1 \in Int /\ ~(start > start + n - 1)
          /\ (start + n - 1) - start + 1 = n
      BY ONLY <2>1, n \in Nat, n > 0
    <3>2. PICK last : last = start + n - 1
      OBVIOUS
    <3>3. Cardinality(start..last) = last - start + 1
      BY ONLY <3>1, <3>2, FS_Interval
    <3> QED BY ONLY <1>2, <3>1, <3>2, <3>3
  <2>9. CASE n <= Cardinality(PoolOf(s) \ m.pbits)
    <3>1. r = [ok |-> TRUE, m |-> mapped, page |-> start]
      BY <1>5, <1>7, <2>9
    <3>2. r.ok = TRUE /\ r.m = mapped /\ r.page = start
      BY <3>1
    <3>3. \A q \in range : mapped.pte[s][q] # NoFrame
      BY <2>4, <2>7, <2>8, <2>9
    <3>4. /\ mapped.arena = m.arena /\ mapped.free = m.free /\ mapped.live = m.live
          /\ mapped.own = m.own /\ mapped.lost = m.lost
          /\ (s = Kernel => mapped.table = m.table)
          /\ mapped.vbits = [m.vbits EXCEPT ![s] = @ \cup range]
          /\ \A t \in Space, q \in Page : ~(t = s /\ q \in range) => mapped.pte[t][q] = m.pte[t][q]
      BY ONLY <2>4, <2>7 DEF SameHeap
    <3> QED BY ONLY <1>2, <1>7, <2>1, <2>2, <2>3, <2>7, <3>2, <3>3, <3>4, ZenonT(60) DEF Allocated
  <2>10. CASE ~(n <= Cardinality(PoolOf(s) \ m.pbits))
    <3>1. r = [ok |-> FALSE, m |-> GiveUp(mapped, s, range), page |-> start]
      BY <1>5, <1>7, <2>10
    <3>2. r.ok = FALSE /\ r.m = GiveUp(mapped, s, range) /\ r.page = start
      BY <3>1
    <3>3. PICK given : given = GiveUp(mapped, s, range)
      OBVIOUS
    <3>4. /\ given \in Memory /\ PagesSound(given, {}) /\ given.lost = mapped.lost \cup ({s} \X range)
          /\ given.vbits = mapped.vbits /\ given.pte = mapped.pte /\ given.table = mapped.table
          /\ given.arena = mapped.arena /\ given.free = mapped.free /\ given.live = mapped.live
          /\ given.own = mapped.own
      BY <2>5, <2>7, <3>3, GiveUpSound
    <3>5. /\ given.arena = m.arena /\ given.free = m.free /\ given.live = m.live
          /\ given.own = m.own /\ given.lost = m.lost \cup ({s} \X range)
          /\ (s = Kernel => given.table = m.table)
          /\ given.vbits = [m.vbits EXCEPT ![s] = @ \cup range]
          /\ \A t \in Space, q \in Page : ~(t = s /\ q \in range) => given.pte[t][q] = m.pte[t][q]
      BY ONLY <2>4, <2>7, <3>4 DEF SameHeap
    <3>6. r.m = given
      BY <3>2, <3>3
    <3> QED BY ONLY <1>2, <1>7, <2>1, <2>2, <2>3, <3>2, <3>4, <3>5, <3>6, ZenonT(30) DEF Allocated
  <2> QED BY <2>9, <2>10
<1> QED BY <1>6, <1>7

(* The ASSERT-free part of get_a_page: the page is marked, and mapped when *)
(* there is a frame.                                                       *)
Got(m, p, page, r) ==
    /\ r.m \in Memory /\ PagesSound(r.m, {}) /\ r.why = "" /\ r.holds \in BOOLEAN
    /\ r.m.arena = m.arena /\ r.m.free = m.free /\ r.m.live = m.live /\ r.m.own = m.own
    /\ \A t \in Space : r.m.vbits[t] = IF t = p THEN m.vbits[p] \cup {page} ELSE m.vbits[t]
    /\ r.m.lost = IF r.holds THEN m.lost \cup ({p} \X {page}) ELSE m.lost
    /\ \A t \in Space, q \in Page : ~(t = p /\ q = page) => r.m.pte[t][q] = m.pte[t][q]
    /\ ~r.holds => r.m.pte[p][page] # NoFrame

MayGet(m, p, page) == m.own[p] # {} /\ page \in 0..StackPage /\ m.pte[p][page] = NoFrame

LEMMA GetAPage ==
    ASSUME NEW m \in Memory, PagesSound(m, {}), NEW p \in Process, NEW page, MayGet(m, p, page),
           NEW r, r = get_a_page(m, p, page)
    PROVE  Got(m, p, page, r)
<1>0. m.own[p] # {} /\ page \in 0..StackPage /\ m.pte[p][page] = NoFrame
  BY DEF MayGet
<1>1. PICK f : f = palloc_scan(m, p)
  OBVIOUS
<1>2. PICK range : range = {page}
  OBVIOUS
<1>3. PICK marked : marked = Marked(m, p, range)
  OBVIOUS
<1>4. p \in Space /\ page \in Page
  BY <1>0, PageNumbers, Constants DEF Size, StackPage
<1>5. Markable(m, p, range)
  BY <1>0, <1>2, Constants DEF Markable, Size, StackPage
<1>6. marked \in Memory /\ SameHeap(m, marked) /\ PagesSound(marked, {})
  BY ONLY <1>3, <1>4, <1>5, MarkSound, m \in Memory, PagesSound(m, {})
<1>7. marked.vbits = [m.vbits EXCEPT ![p] = @ \cup range] /\ marked.pte = m.pte /\ marked.pbits = m.pbits
  BY <1>3 DEF Marked, Memory
<1>8. \A t \in Space : marked.vbits[t] = IF t = p THEN m.vbits[p] \cup {page} ELSE m.vbits[t]
  BY <1>2, <1>7, MemoryFields
<1>9. CASE f # NoFrame
  <2>1. PICK mapped : mapped = MapPage(marked, p, page, f)
    OBVIOUS
  <2>2. r = Done(mapped)
    BY <1>1, <1>2, <1>3, <1>9, <2>1 DEF get_a_page
  <2>3. r.m = mapped /\ r.why = "" /\ r.holds = FALSE
    BY ONLY <2>2 DEF Done
  <2>4. f \in PoolOf(p) \ marked.pbits
    BY <1>1, <1>4, <1>7, <1>9, PallocResult
  <2>5. page \in marked.vbits[p] /\ marked.pte[p][page] = NoFrame
    BY <1>0, <1>4, <1>7, <1>8
  <2>6. /\ mapped \in Memory /\ SameHeap(marked, mapped) /\ mapped.vbits = marked.vbits
        /\ PagesSound(mapped, {}) /\ mapped.pte[p][page] # NoFrame
        /\ \A t \in Space, q \in Page : ~(t = p /\ q = page) => mapped.pte[t][q] = marked.pte[t][q]
    BY <1>4, <1>6, <2>1, <2>4, <2>5, MapPageSound
  <2>7. /\ mapped.arena = m.arena /\ mapped.free = m.free /\ mapped.live = m.live
        /\ mapped.own = m.own /\ mapped.lost = m.lost
    BY ONLY <1>6, <2>6 DEF SameHeap
  <2> QED BY ONLY <1>7, <1>8, <2>3, <2>6, <2>7, ZenonT(30) DEF Got
<1>10. CASE f = NoFrame
  <2>1. PICK given : given = GiveUp(marked, p, range)
    OBVIOUS
  <2>2. r = [Done(given) EXCEPT !.holds = TRUE]
    BY <1>1, <1>2, <1>3, <1>10, <2>1 DEF get_a_page
  <2>3. r.m = given /\ r.why = "" /\ r.holds = TRUE
    BY <2>2 DEF Done
  <2>4. range \subseteq Page
    BY <1>2, <1>4
  <2>5. /\ given.lost = marked.lost \cup ({p} \X range)
        /\ given.vbits = marked.vbits /\ given.pte = marked.pte
        /\ given.arena = marked.arena /\ given.free = marked.free /\ given.live = marked.live
        /\ given.own = marked.own
    BY ONLY <1>6, <2>1 DEF GiveUp, Memory
  <2>7. given \in Memory /\ PagesSound(given, {})
    BY ONLY <1>4, <1>6, <2>1, <2>4, GiveUpSound
  <2>6. /\ given.arena = m.arena /\ given.free = m.free /\ given.live = m.live
        /\ given.own = m.own /\ given.lost = m.lost \cup ({p} \X {page})
    BY ONLY <1>2, <1>6, <2>5 DEF SameHeap
  <2> QED BY ONLY <1>7, <1>8, <2>3, <2>5, <2>6, <2>7 DEF Got
<1> QED BY <1>9, <1>10

-----------------------------------------------------------------------------
(* The heap and the pages                                                  *)

(* What a step of the heap leaves alone.                                   *)
SamePages(m, n) ==
    n.vbits = m.vbits /\ n.pbits = m.pbits /\ n.pte = m.pte /\ n.table = m.table
    /\ n.own = m.own /\ n.lost = m.lost

(* Entry by entry what PopBlock does.                                      *)
Popped(m, s, n) ==
    LET b == Head(m.free[s])
    IN  /\ n.free = [m.free EXCEPT ![s] = Tail(m.free[s])]
        /\ n.live = [m.live EXCEPT ![s] = m.live[s] \cup {b}]
        /\ \A t \in Space, page \in Page :
              n.arena[t][page] = IF t = s /\ page = b[1]
                                 THEN [m.arena[t][page] EXCEPT !.cnt = @ - 1] ELSE m.arena[t][page]

LEMMA PopBlockSound ==
    ASSUME NEW m \in Memory, NEW half, PagesSound(m, half), NEW s \in Space, m.free[s] # <<>>,
           NEW n, n = PopBlock(m, s)
    PROVE  n \in Memory /\ SamePages(m, n) /\ PagesSound(n, half) /\ Popped(m, s, n)
<1>1. PICK b : b = Head(m.free[s])
  OBVIOUS
<1>2. m.free[s] \in Seq(Block)
  BY MemoryFields
<1>3. b \in Block /\ Tail(m.free[s]) \in Seq(Block)
  BY <1>1, <1>2
<1>4. b[1] \in Page
  BY <1>3 DEF Block
<1>5. PICK a : a = [m.arena[s][b[1]] EXCEPT !.cnt = @ - 1]
  OBVIOUS
<1>6. m.arena[s] \in [Page -> Arena] /\ m.arena[s][b[1]] \in Arena
  BY <1>4, MemoryFields
<1>7. a \in Arena
  BY <1>5, <1>6 DEF Arena
<1>8. PICK A : A = [m.arena EXCEPT ![s] = [m.arena[s] EXCEPT ![b[1]] = a]]
  OBVIOUS
<1>9. A \in [Space -> [Page -> Arena]]
  BY <1>6, <1>7, <1>8, MemoryFields
<1>10. PICK F : F = [m.free EXCEPT ![s] = Tail(m.free[s])]
  OBVIOUS
<1>11. F \in [Space -> Seq(Block)]
  BY <1>3, <1>10, MemoryFields
<1>12. PICK L : L = [m.live EXCEPT ![s] = m.live[s] \cup {b}]
  OBVIOUS
<1>13. L \in [Space -> SUBSET Block]
  BY <1>3, <1>12, MemoryFields
<1>14. n = [m EXCEPT !.free = F, !.live = L, !.arena = A]
  BY <1>1, <1>5, <1>8, <1>10, <1>12 DEF PopBlock, Memory
<1>15. n \in Memory
  BY <1>9, <1>11, <1>13, <1>14 DEF Memory
<1>16. n.free = F /\ n.live = L /\ n.arena = A /\ SamePages(m, n)
  BY <1>14 DEF Memory, SamePages
<1>17. \A t \in Space, page \in Page :
            n.arena[t][page] = IF t = s /\ page = b[1] THEN a ELSE m.arena[t][page]
  BY <1>4, <1>6, <1>8, <1>16, MemoryFields
<1>18. Popped(m, s, n)
  <2>1. \A t \in Space, page \in Page :
              n.arena[t][page] = IF t = s /\ page = b[1]
                                 THEN [m.arena[t][page] EXCEPT !.cnt = @ - 1] ELSE m.arena[t][page]
    BY ONLY <1>5, <1>17
  <2> QED BY ONLY <1>1, <1>10, <1>12, <1>16, <2>1 DEF Popped
<1>19. ASSUME NEW t \in Space, NEW page \in Arenas(n, t)
       PROVE  PagesOf(n, t, page) \subseteq Page
  <2>1. page \in Page /\ \A q \in Arenas(m, t) : PagesOf(m, t, q) \subseteq Page
    BY <1>19 DEF Arenas, PagesSound, SpacesSound
  <2>2. CASE ~(t = s /\ page = b[1])
    <3>1. n.arena[t][page] = m.arena[t][page]
      BY <1>17, <2>1, <2>2
    <3>2. page \in Arenas(m, t) /\ PagesOf(n, t, page) = PagesOf(m, t, page)
      BY <1>19, <2>1, <3>1 DEF Arenas, PagesOf
    <3> QED BY <2>1, <3>2
  <2>3. CASE t = s /\ page = b[1]
    <3>1. n.arena[t][page] = a
      BY <1>17, <2>1, <2>3
    <3>2. m.arena[t][page].large = a.large /\ a.cnt = m.arena[t][page].cnt - 1 /\ m.arena[t][page].cnt \in Int
      BY <1>5, <1>6, <2>3 DEF Arena
    <3>3. CASE a.large
      <4>1. m.arena[t][page] # NoArena
        <5>1. NoArena.large = FALSE /\ a.large = TRUE
          BY ONLY <3>3, <1>7 DEF NoArena, Arena
        <5> QED BY ONLY <3>2, <5>1
      <4>2. PagesOf(m, t, page) = page..page + m.arena[t][page].cnt - 1
        BY <3>2, <3>3 DEF PagesOf
      <4>3. PagesOf(n, t, page) = page..page + m.arena[t][page].cnt - 1 - 1
        <5>1. page \in Nat /\ page + a.cnt - 1 = page + m.arena[t][page].cnt - 1 - 1
          BY <2>1, <3>2, PageNumbers
        <5> QED BY <3>1, <3>3, <5>1 DEF PagesOf
      <4>4. PagesOf(n, t, page) \subseteq PagesOf(m, t, page)
        <5>1. PICK low, cnt : low = page /\ cnt = m.arena[t][page].cnt
          OBVIOUS
        <5>2. low \in Nat /\ cnt \in Int
          BY <2>1, <3>2, <5>1, PageNumbers
        <5>3. low..low + cnt - 1 - 1 \subseteq low..low + cnt - 1
          BY ONLY <5>2
        <5> QED BY ONLY <4>2, <4>3, <5>1, <5>3
      <4> QED BY <2>1, <4>1, <4>4 DEF Arenas
    <3>4. CASE ~a.large
      BY <2>1, <3>1, <3>4 DEF PagesOf
    <3> QED BY <3>3, <3>4
  <2> QED BY <2>2, <2>3
<1>20. PagesSound(n, half)
  BY <1>15, <1>16, <1>19, HeapChange DEF SamePages
<1> QED BY <1>15, <1>16, <1>18, <1>20

(* Any other arenas and blocks of a space s, whose large blocks end inside *)
(* the range of pages.                                                     *)
Edited(m, s, F, L, A) == [m EXCEPT !.free[s] = F, !.live[s] = L, !.arena[s] = A]
Fits(A) == \A page \in Page : A[page].large => page..page + A[page].cnt - 1 \subseteq Page
HeapParts(F, L, A) ==
    F \in Seq(Block) /\ L \in SUBSET Block /\ A \in [Page -> Arena] /\ Fits(A)

LEMMA EditedSound ==
    ASSUME NEW m \in Memory, NEW half, PagesSound(m, half), NEW s \in Space,
           NEW F, NEW L, NEW A, HeapParts(F, L, A),
           NEW n, n = Edited(m, s, F, L, A)
    PROVE  /\ n \in Memory /\ SamePages(m, n) /\ PagesSound(n, half)
           /\ \A t \in Space : n.free[t] = IF t = s THEN F ELSE m.free[t]
           /\ \A t \in Space : n.live[t] = IF t = s THEN L ELSE m.live[t]
           /\ \A t \in Space : n.arena[t] = IF t = s THEN A ELSE m.arena[t]
<1>0. F \in Seq(Block) /\ L \in SUBSET Block /\ A \in [Page -> Arena] /\ Fits(A)
  BY DEF HeapParts
<1>1. PICK F2, L2, A2 : /\ F2 = [m.free EXCEPT ![s] = F] /\ L2 = [m.live EXCEPT ![s] = L]
                        /\ A2 = [m.arena EXCEPT ![s] = A]
  OBVIOUS
<1>2. /\ F2 \in [Space -> Seq(Block)] /\ L2 \in [Space -> SUBSET Block]
      /\ A2 \in [Space -> [Page -> Arena]]
  BY <1>0, <1>1, MemoryFields
<1>3. n = [m EXCEPT !.free = F2, !.live = L2, !.arena = A2]
  BY <1>1 DEF Edited, Memory
<1>4. n \in Memory
  BY <1>2, <1>3 DEF Memory
<1>5. n.free = F2 /\ n.live = L2 /\ n.arena = A2 /\ SamePages(m, n)
  BY <1>3 DEF Memory, SamePages
<1>6. /\ \A t \in Space : n.free[t] = IF t = s THEN F ELSE m.free[t]
      /\ \A t \in Space : n.live[t] = IF t = s THEN L ELSE m.live[t]
      /\ \A t \in Space : n.arena[t] = IF t = s THEN A ELSE m.arena[t]
  BY <1>1, <1>5, MemoryFields
<1>7. ASSUME NEW t \in Space, NEW page \in Arenas(n, t)
      PROVE  PagesOf(n, t, page) \subseteq Page
  <2>1. page \in Page /\ \A q \in Arenas(m, t) : PagesOf(m, t, q) \subseteq Page
    BY <1>7 DEF Arenas, PagesSound, SpacesSound
  <2>2. CASE t = s
    <3>1. n.arena[t][page] = A[page] /\ A[page] \in Arena
      BY <1>0, <1>6, <2>1, <2>2
    <3>2. A[page].large \in BOOLEAN
      BY <3>1 DEF Arena
    <3>3. CASE A[page].large
      BY <1>0, <2>1, <3>1, <3>3 DEF Fits, PagesOf
    <3>4. CASE ~A[page].large
      BY <2>1, <3>1, <3>4 DEF PagesOf
    <3> QED BY <3>3, <3>4
  <2>3. CASE t # s
    <3>1. n.arena[t] = m.arena[t]
      BY <1>6, <2>3
    <3>2. page \in Arenas(m, t) /\ PagesOf(n, t, page) = PagesOf(m, t, page)
      BY <1>7, <3>1 DEF Arenas, PagesOf
    <3> QED BY <2>1, <3>2
  <2> QED BY <2>2, <2>3
<1>8. PagesSound(n, half)
  BY <1>4, <1>5, <1>7, HeapChange DEF SamePages
<1> QED BY <1>4, <1>5, <1>6, <1>8

(* The arenas of a sound state fit.                                        *)
LEMMA ArenasFit ==
    ASSUME NEW m \in Memory, NEW half, PagesSound(m, half), NEW s \in Space
    PROVE  m.arena[s] \in [Page -> Arena] /\ Fits(m.arena[s])
<1>1. m.arena[s] \in [Page -> Arena]
  BY MemoryFields
<1>2. ASSUME NEW page \in Page, m.arena[s][page].large
      PROVE  page..page + m.arena[s][page].cnt - 1 \subseteq Page
  <2>1. NoArena.large = FALSE
    BY DEF NoArena
  <2>2. m.arena[s][page].large = TRUE
    BY <1>1, <1>2 DEF Arena
  <2>3. page \in Arenas(m, s)
    BY <2>1, <2>2 DEF Arenas
  <2>4. PagesOf(m, s, page) = page..page + m.arena[s][page].cnt - 1
    BY <2>2 DEF PagesOf
  <2> QED BY <2>3, <2>4 DEF PagesSound, SpacesSound
<1> QED BY <1>1, <1>2 DEF Fits

(* A new large block or a new arena at a page, and which blocks it brings. *)
LargeMade(m, s, page, cnt, n) ==
    /\ n.free = m.free
    /\ \A t \in Space : n.live[t] = IF t = s THEN m.live[s] \cup {<<page, 0>>} ELSE m.live[t]
    /\ \A t \in Space, q \in Page :
          n.arena[t][q] = IF t = s /\ q = page THEN [cnt |-> cnt, large |-> TRUE, desc |-> s]
                          ELSE m.arena[t][q]

LEMMA NewLargeSound ==
    ASSUME NEW m \in Memory, NEW half, PagesSound(m, half), NEW s \in Space, NEW page \in Page,
           NEW cnt \in Nat, page..page + cnt - 1 \subseteq Page,
           NEW n, n = NewLarge(m, s, page, cnt)
    PROVE  n \in Memory /\ SamePages(m, n) /\ PagesSound(n, half) /\ LargeMade(m, s, page, cnt, n)
<1>1. PICK new : new = [cnt |-> cnt, large |-> TRUE, desc |-> s]
  OBVIOUS
<1>2. PICK A : A = [m.arena[s] EXCEPT ![page] = new]
  OBVIOUS
<1>3. PICK L : L = m.live[s] \cup {<<page, 0>>}
  OBVIOUS
<1>4. new \in Arena /\ new.large = TRUE /\ new.cnt = cnt
  BY <1>1 DEF Arena
<1>5. m.arena[s] \in [Page -> Arena] /\ Fits(m.arena[s])
  BY ArenasFit
<1>6. A \in [Page -> Arena] /\ \A q \in Page : A[q] = IF q = page THEN new ELSE m.arena[s][q]
  BY <1>2, <1>4, <1>5
<1>7. Fits(A)
  BY <1>4, <1>5, <1>6 DEF Fits
<1>8. L \in SUBSET Block
  BY <1>3, Constants, MemoryFields DEF Block
<1>9. m.free[s] \in Seq(Block)
  BY MemoryFields
<1>14. PICK F : F = m.free[s]
  OBVIOUS
<1>15. HeapParts(F, L, A)
  BY <1>6, <1>7, <1>8, <1>9, <1>14 DEF HeapParts
<1>10. n = Edited(m, s, F, L, A)
  <2>1. n = [m EXCEPT !.live[s] = L, !.arena[s] = A]
    BY <1>1, <1>2, <1>3 DEF NewLarge, Memory
  <2>2. m.free = [m.free EXCEPT ![s] = m.free[s]]
    BY MemoryFields
  <2> QED BY ZenonT(120), <1>14, <2>1, <2>2 DEF Edited, Memory
<1>11. /\ n \in Memory /\ SamePages(m, n) /\ PagesSound(n, half)
       /\ \A t \in Space : n.live[t] = IF t = s THEN L ELSE m.live[t]
       /\ \A t \in Space : n.arena[t] = IF t = s THEN A ELSE m.arena[t]
  BY ONLY <1>10, <1>15, EditedSound, m \in Memory, PagesSound(m, half), s \in Space
<1>12. n.free = m.free
  BY DEF NewLarge, Memory
<1>13. \A t \in Space, q \in Page :
            n.arena[t][q] = IF t = s /\ q = page THEN new ELSE m.arena[t][q]
  BY ONLY <1>6, <1>11
<1> QED BY ONLY <1>1, <1>3, <1>11, <1>12, <1>13 DEF LargeMade

(* The blocks of a new arena as a list.                                    *)
LEMMA ArenaBlocksResult ==
    ASSUME NEW page \in Page
    PROVE  /\ ArenaBlocks(page) \in Seq(Block) /\ Len(ArenaBlocks(page)) = PerArena
           /\ Range(ArenaBlocks(page)) = BlocksOf(page) /\ BlocksOf(page) \subseteq Block
           /\ IsInjective(ArenaBlocks(page))
<1>1. \A i \in 1..PerArena : <<page, i>> \in Block
  BY Constants DEF Block
<1>2. ArenaBlocks(page) \in Seq(Block) /\ Len(ArenaBlocks(page)) = PerArena
  BY <1>1, Constants DEF ArenaBlocks
<1> QED BY <1>1, <1>2 DEF ArenaBlocks, BlocksOf, Range, IsInjective

ArenaMade(m, s, page, n) ==
    /\ n.live = m.live
    /\ n.free[s] = m.free[s] \o ArenaBlocks(page)
    /\ \A t \in Space : t # s => n.free[t] = m.free[t]
    /\ \A t \in Space, q \in Page :
          n.arena[t][q] = IF t = s /\ q = page
                          THEN [cnt |-> PerArena, large |-> FALSE, desc |-> s] ELSE m.arena[t][q]

LEMMA NewArenaSound ==
    ASSUME NEW m \in Memory, NEW half, PagesSound(m, half), NEW s \in Space, NEW page \in Page,
           NEW n, n = NewArena(m, s, page)
    PROVE  n \in Memory /\ SamePages(m, n) /\ PagesSound(n, half) /\ ArenaMade(m, s, page, n)
<1>1. PICK new : new = [cnt |-> PerArena, large |-> FALSE, desc |-> s]
  OBVIOUS
<1>2. PICK A : A = [m.arena[s] EXCEPT ![page] = new]
  OBVIOUS
<1>3. PICK blocks : blocks = ArenaBlocks(page)
  OBVIOUS
<1>4. new \in Arena /\ new.large = FALSE
  BY <1>1, Constants DEF Arena
<1>5. m.arena[s] \in [Page -> Arena] /\ Fits(m.arena[s])
  BY ArenasFit
<1>6. A \in [Page -> Arena] /\ \A q \in Page : A[q] = IF q = page THEN new ELSE m.arena[s][q]
  BY <1>2, <1>4, <1>5
<1>7. Fits(A)
  BY <1>4, <1>5, <1>6 DEF Fits
<1>8. blocks \in Seq(Block)
  BY <1>3, ArenaBlocksResult
<1>9. m.free[s] \o blocks \in Seq(Block)
  BY <1>8, MemoryFields
<1>10. m.live[s] \in SUBSET Block
  BY MemoryFields
<1>15. PICK F, L : F = m.free[s] \o blocks /\ L = m.live[s]
  OBVIOUS
<1>16. HeapParts(F, L, A)
  BY <1>6, <1>7, <1>9, <1>10, <1>15 DEF HeapParts
<1>11. n = Edited(m, s, F, L, A)
  <2>1. n = [m EXCEPT !.free[s] = F, !.arena[s] = A]
    BY <1>1, <1>2, <1>3, <1>15 DEF NewArena, Memory
  <2>2. m.live = [m.live EXCEPT ![s] = m.live[s]]
    BY MemoryFields
  <2> QED BY ZenonT(120), <1>15, <2>1, <2>2 DEF Edited, Memory
<1>12. /\ n \in Memory /\ SamePages(m, n) /\ PagesSound(n, half)
       /\ \A t \in Space : n.free[t] = IF t = s THEN F ELSE m.free[t]
       /\ \A t \in Space : n.arena[t] = IF t = s THEN A ELSE m.arena[t]
  BY ONLY <1>11, <1>16, EditedSound, m \in Memory, PagesSound(m, half), s \in Space
<1>13. n.live = m.live
  BY DEF NewArena, Memory
<1>14. \A t \in Space, q \in Page :
            n.arena[t][q] = IF t = s /\ q = page THEN new ELSE m.arena[t][q]
  BY ONLY <1>6, <1>12
<1> QED BY ONLY <1>1, <1>3, <1>12, <1>13, <1>14, <1>15 DEF ArenaMade

(* The pages of a freed range lose their headers.                          *)
IsCleared(m, s, range, n) ==
    /\ n.free = m.free /\ n.live = m.live
    /\ \A t \in Space, q \in Page :
          n.arena[t][q] = IF t = s /\ q \in range THEN NoArena ELSE m.arena[t][q]

LEMMA ClearedSound ==
    ASSUME NEW m \in Memory, NEW half, PagesSound(m, half), NEW s \in Space, NEW range,
           NEW n, n = Cleared(m, s, range)
    PROVE  n \in Memory /\ SamePages(m, n) /\ PagesSound(n, half) /\ IsCleared(m, s, range, n)
<1>1. PICK A : A = [page \in Page |-> IF page \in range THEN NoArena ELSE m.arena[s][page]]
  OBVIOUS
<1>2. m.arena[s] \in [Page -> Arena] /\ Fits(m.arena[s])
  BY ArenasFit
<1>3. NoArena \in Arena /\ NoArena.large = FALSE
  BY DEF NoArena, Arena
<1>4. A \in [Page -> Arena] /\ \A q \in Page : A[q] = IF q \in range THEN NoArena ELSE m.arena[s][q]
  BY <1>1, <1>2, <1>3
<1>5. Fits(A)
  BY <1>2, <1>3, <1>4 DEF Fits
<1>6. m.free[s] \in Seq(Block) /\ m.live[s] \in SUBSET Block
  BY MemoryFields
<1>10. PICK F, L : F = m.free[s] /\ L = m.live[s]
  OBVIOUS
<1>11. HeapParts(F, L, A)
  BY <1>4, <1>5, <1>6, <1>10 DEF HeapParts
<1>7. n = Edited(m, s, F, L, A)
  <2>1. n = [m EXCEPT !.arena[s] = A]
    BY <1>1 DEF Cleared, Memory
  <2>2. m.free = [m.free EXCEPT ![s] = m.free[s]] /\ m.live = [m.live EXCEPT ![s] = m.live[s]]
    BY MemoryFields
  <2> QED BY ONLY <1>10, <2>1, <2>2, m \in Memory DEF Edited, Memory
<1>8. /\ n \in Memory /\ SamePages(m, n) /\ PagesSound(n, half)
      /\ \A t \in Space : n.arena[t] = IF t = s THEN A ELSE m.arena[t]
  BY ONLY <1>7, <1>11, EditedSound, m \in Memory, PagesSound(m, half), s \in Space
<1>9. n.free = m.free /\ n.live = m.live
  BY DEF Cleared, Memory
<1> QED BY ONLY <1>4, <1>8, <1>9 DEF IsCleared

(* sys_free's list_remove keeps the blocks of the other pages.             *)
LEMMA WithoutResult ==
    ASSUME NEW list \in Seq(Block), NEW page, NEW w, w = Without(list, page)
    PROVE  /\ w \in Seq(Block)
           /\ \A b : b \in Range(w) <=> b \in Range(list) /\ b[1] # page
           /\ IsInjective(list) => IsInjective(w)
<1>1. PICK others : others = {i \in DOMAIN list : list[i][1] # page}
  OBVIOUS
<1>2. PICK C : C = Cardinality(others)
  OBVIOUS
<1>3. DOMAIN list = 1..Len(list) /\ Len(list) \in Nat
  OBVIOUS
<1>4. IsFiniteSet(others) /\ others \subseteq Nat
  <2>1. IsFiniteSet(1..Len(list)) /\ others \in SUBSET (1..Len(list))
    BY <1>1, <1>3, FS_Interval
  <2>2. \A i \in 1..Len(list) : i \in Nat
    BY <1>3
  <2> QED BY <2>1, <2>2, FS_Subset
<1>5. /\ C \in Nat
      /\ \A x \in others : Rank(others, x) \in 1..C
      /\ \A a, b \in others : Rank(others, a) = Rank(others, b) => a = b
  BY ONLY <1>2, <1>4, Ranks
<1>6. \A k \in 1..C : Nth(others, k) \in others /\ Rank(others, Nth(others, k)) = k
  BY ONLY <1>2, <1>4, NthExists
<1>7. w = [k \in 1..C |-> list[Nth(others, k)]]
  BY <1>1, <1>2 DEF Without
<1>8. DOMAIN w = 1..C /\ \A k \in 1..C : w[k] = list[Nth(others, k)]
  BY <1>7
<1>9. \A i \in others : list[i] \in Block /\ list[i] \in Range(list) /\ list[i][1] # page /\ i \in DOMAIN list
  BY <1>1, <1>3 DEF Range
<1>10. w \in Seq(Block)
  <2>1. \A k \in 1..C : list[Nth(others, k)] \in Block
    BY <1>6, <1>9
  <2> QED BY <1>5, <1>7, <2>1
<1>11. ASSUME NEW b, b \in Range(w)
       PROVE  b \in Range(list) /\ b[1] # page
  <2>1. PICK k \in 1..C : b = w[k]
    BY <1>8, <1>11 DEF Range
  <2> QED BY <1>6, <1>8, <1>9, <2>1
<1>12. ASSUME NEW b, b \in Range(list), b[1] # page
       PROVE  b \in Range(w)
  <2>1. PICK i \in DOMAIN list : b = list[i]
    BY <1>12 DEF Range
  <2>2. i \in others
    BY <1>1, <1>12, <2>1
  <2>3. PICK k : k = Rank(others, i)
    OBVIOUS
  <2>4. k \in 1..C /\ Nth(others, k) \in others
        /\ Rank(others, Nth(others, k)) = Rank(others, i)
    BY <1>5, <1>6, <2>2, <2>3
  <2>5. Nth(others, k) = i
    BY <1>5, <2>2, <2>4
  <2>6. b = w[k] /\ k \in DOMAIN w
    BY <1>8, <2>1, <2>4, <2>5
  <2> QED BY <2>6 DEF Range
<1>13. ASSUME IsInjective(list)
       PROVE  IsInjective(w)
  <2>1. \A i, j \in others : list[i] = list[j] => i = j
    BY <1>9, <1>13 DEF IsInjective
  <2>2. \A k, l \in 1..C : Nth(others, k) = Nth(others, l) => k = l
    BY <1>6
  <2>3. \A k, l \in 1..C : w[k] = w[l] => k = l
    BY ONLY <1>6, <1>8, <2>1, <2>2
  <2> QED BY <1>8, <2>3 DEF IsInjective
<1> QED BY <1>10, <1>11, <1>12, <1>13

(* A block that comes back, entry by entry.                                *)
Returned(m, s, b, n) ==
    LET a == m.arena[s][b[1]]
        list == Append(m.free[s], b)
    IN  /\ \A t \in Space : n.live[t] = IF t = s THEN m.live[s] \ {b} ELSE m.live[t]
        /\ \A t \in Space : n.free[t] = IF t # s \/ a.large THEN m.free[t]
                                        ELSE IF a.cnt + 1 < PerArena THEN list
                                        ELSE Without(list, b[1])
        /\ \A t \in Space, q \in Page :
              n.arena[t][q] = IF t = s /\ q = b[1] /\ ~a.large
                              THEN [m.arena[t][q] EXCEPT !.cnt = @ + 1] ELSE m.arena[t][q]

LEMMA ReturnBlockSound ==
    ASSUME NEW m \in Memory, NEW half, PagesSound(m, half), NEW s \in Space, NEW b \in Block,
           NEW n, n = ReturnBlock(m, s, b)
    PROVE  n \in Memory /\ SamePages(m, n) /\ PagesSound(n, half) /\ Returned(m, s, b, n)
<1>1. PICK a : a = m.arena[s][b[1]]
  OBVIOUS
<1>2. b[1] \in Page /\ b = <<b[1], b[2]>>
  BY DEF Block
<1>3. m.arena[s] \in [Page -> Arena] /\ Fits(m.arena[s]) /\ a \in Arena
  BY <1>1, <1>2, ArenasFit
<1>4. PICK list : list = Append(m.free[s], b)
  OBVIOUS
<1>5. m.free[s] \in Seq(Block) /\ m.live[s] \in SUBSET Block
  BY MemoryFields
<1>6. list \in Seq(Block)
  BY <1>4, <1>5
<1>7. PICK F, L, A :
         /\ F = IF a.large THEN m.free[s] ELSE IF a.cnt + 1 < PerArena THEN list ELSE Without(list, b[1])
         /\ L = m.live[s] \ {b}
         /\ A = IF a.large THEN m.arena[s] ELSE [m.arena[s] EXCEPT ![b[1]] = [a EXCEPT !.cnt = @ + 1]]
  OBVIOUS
<1>8. n = Edited(m, s, F, L, A)
  <2>1. m.free = [m.free EXCEPT ![s] = m.free[s]] /\ m.arena = [m.arena EXCEPT ![s] = m.arena[s]]
    BY MemoryFields
  <2>2. PICK back : back = [m EXCEPT !.live[s] = L, !.free[s] = list,
                                     !.arena[s] = [m.arena[s] EXCEPT ![b[1]] = [a EXCEPT !.cnt = @ + 1]]]
    OBVIOUS
  <2>3. back = [m EXCEPT !.live[s] = @ \ {b}, !.free[s] = Append(@, b), !.arena[s][b[1]].cnt = @ + 1]
    BY <1>1, <1>4, <1>7, <2>2 DEF Memory
  <2>4. CASE a.large
    <3>1. n = [m EXCEPT !.live[s] = L]
      BY <1>1, <1>7, <2>4 DEF ReturnBlock
    <3>2. F = m.free[s] /\ A = m.arena[s]
      BY ONLY <1>7, <2>4
    <3> QED BY ONLY <2>1, <3>1, <3>2, m \in Memory DEF Edited, Memory
  <2>5. CASE ~a.large /\ a.cnt + 1 < PerArena
    <3>1. n = back
      BY <1>1, <2>3, <2>5 DEF ReturnBlock
    <3>2. F = list /\ A = [m.arena[s] EXCEPT ![b[1]] = [a EXCEPT !.cnt = @ + 1]]
      BY <1>7, <2>5
    <3> QED BY <2>2, <3>1, <3>2 DEF Edited, Memory
  <2>6. CASE ~a.large /\ ~(a.cnt + 1 < PerArena)
    <3>1. n = [back EXCEPT !.free[s] = Without(@, b[1])]
      BY <1>1, <2>3, <2>6 DEF ReturnBlock
    <3>2. F = Without(list, b[1]) /\ A = [m.arena[s] EXCEPT ![b[1]] = [a EXCEPT !.cnt = @ + 1]]
      BY <1>7, <2>6
    <3>3. back.free = [m.free EXCEPT ![s] = list]
      BY <2>2 DEF Memory
    <3>4. back.free[s] = list /\ [back.free EXCEPT ![s] = F] = [m.free EXCEPT ![s] = F]
      BY <3>3, MemoryFields
    <3>5. n = [back EXCEPT !.free = [m.free EXCEPT ![s] = F]]
      BY <2>2, <3>1, <3>2, <3>4 DEF Memory
    <3> QED BY <2>2, <3>2, <3>5 DEF Edited, Memory
  <2> QED BY <2>4, <2>5, <2>6
<1>9. F \in Seq(Block)
  BY <1>5, <1>6, <1>7, WithoutResult
<1>10. /\ A \in [Page -> Arena]
       /\ \A q \in Page : A[q] = IF q = b[1] /\ ~a.large THEN [m.arena[s][q] EXCEPT !.cnt = @ + 1]
                                 ELSE m.arena[s][q]
  <2>1. [a EXCEPT !.cnt = @ + 1] \in Arena
    BY <1>3 DEF Arena
  <2> QED BY <1>1, <1>2, <1>3, <1>7, <2>1
<1>11. Fits(A)
  <2> SUFFICES ASSUME NEW page \in Page, A[page].large
               PROVE  page..page + A[page].cnt - 1 \subseteq Page
    BY DEF Fits
  <2>1. A[page] = m.arena[s][page]
    <3>1. CASE page = b[1] /\ ~a.large
      <4>1. A[page] = [a EXCEPT !.cnt = @ + 1]
        BY ONLY <1>1, <1>10, <3>1, page \in Page
      <4>2. A[page].large = a.large
        BY ONLY <1>3, <4>1 DEF Arena
      <4> QED BY <3>1, <4>2
    <3>2. CASE ~(page = b[1] /\ ~a.large)
      BY ONLY <1>10, <3>2, page \in Page
    <3> QED BY <3>1, <3>2
  <2> QED BY <1>3, <2>1 DEF Fits
<1>12. HeapParts(F, L, A)
  BY <1>5, <1>7, <1>9, <1>10, <1>11 DEF HeapParts
<1>13. /\ n \in Memory /\ SamePages(m, n) /\ PagesSound(n, half)
       /\ \A t \in Space : n.free[t] = IF t = s THEN F ELSE m.free[t]
       /\ \A t \in Space : n.live[t] = IF t = s THEN L ELSE m.live[t]
       /\ \A t \in Space : n.arena[t] = IF t = s THEN A ELSE m.arena[t]
  BY ONLY <1>8, <1>12, EditedSound, m \in Memory, PagesSound(m, half), s \in Space
<1>14. Returned(m, s, b, n)
  <2>1. \A t \in Space, q \in Page :
              n.arena[t][q] = IF t = s /\ q = b[1] /\ ~a.large
                              THEN [m.arena[t][q] EXCEPT !.cnt = @ + 1] ELSE m.arena[t][q]
    BY ONLY <1>10, <1>13
  <2>2. \A t \in Space : n.free[t] = IF t # s \/ a.large THEN m.free[t]
                                        ELSE IF a.cnt + 1 < PerArena THEN list
                                        ELSE Without(list, b[1])
    BY ONLY <1>7, <1>13
  <2> QED BY ONLY <1>1, <1>4, <1>7, <1>13, <2>1, <2>2 DEF Returned
<1> QED BY <1>13, <1>14

(* What goes back are pages.                                               *)
LEMMA ReturnedPages ==
    ASSUME NEW m \in Memory, NEW half, PagesSound(m, half), NEW s \in Space, NEW b \in Block
    PROVE  PagesReturned(m, s, b) \subseteq Page
<1>1. b[1] \in Page
  BY DEF Block
<1>2. m.arena[s] \in [Page -> Arena] /\ Fits(m.arena[s])
  BY ArenasFit
<1>3. CASE m.arena[s][b[1]].large
  BY <1>1, <1>2, <1>3 DEF Fits, PagesReturned
<1>4. CASE ~m.arena[s][b[1]].large
  BY <1>1, <1>4 DEF PagesReturned
<1> QED BY <1>3, <1>4

(* sys_free as a whole.                                                    *)
SameOwn(m, n) == n.own = m.own

LEMMA SysFreeSound ==
    ASSUME NEW m \in Memory, PagesSound(m, {}), NEW s \in Space, NEW b \in Block,
           NEW n, n = sys_free(m, s, b)
    PROVE  n \in Memory /\ PagesSound(n, {}) /\ SameOwn(m, n)
<1>1. PICK range : range = PagesReturned(m, s, b)
  OBVIOUS
<1>2. PICK returned : returned = ReturnBlock(m, s, b)
  OBVIOUS
<1>3. PICK freed : freed = mfree_page(returned, s, range)
  OBVIOUS
<1>4. n = Cleared(freed, s, range)
  BY <1>1, <1>2, <1>3 DEF sys_free
<1>5. returned \in Memory /\ SamePages(m, returned) /\ PagesSound(returned, {})
  BY <1>2, ReturnBlockSound
<1>6. range \subseteq Page
  BY <1>1, ReturnedPages
<1>7. freed \in Memory /\ SameHeap(returned, freed) /\ PagesSound(freed, {})
  BY ONLY <1>3, <1>5, <1>6, MfreeSound, s \in Space
<1>8. n \in Memory /\ SamePages(freed, n) /\ PagesSound(n, {})
  BY ONLY <1>4, <1>7, ClearedSound, s \in Space
<1> QED BY <1>5, <1>7, <1>8 DEF SamePages, SameHeap, SameOwn

(* Furnish of the pages that a call has found.                             *)
LEMMA FurnishSound ==
    ASSUME NEW m \in Memory, NEW half, PagesSound(m, half), NEW s \in Space, NEW page \in Page,
           NEW n \in {0} \cup LargeSizes, n # 0 => page..page + n - 1 \subseteq Page,
           NEW r, r = Furnish(m, s, page, n)
    PROVE  r \in Memory /\ SamePages(m, r) /\ PagesSound(r, half)
<1>1. CASE n = 0
  <2>1. PICK arena : arena = NewArena(m, s, page)
    OBVIOUS
  <2>2. r = PopBlock(arena, s)
    BY <1>1, <2>1 DEF Furnish
  <2>3. arena \in Memory /\ SamePages(m, arena) /\ PagesSound(arena, half)
    BY ONLY <2>1, NewArenaSound, m \in Memory, PagesSound(m, half), s \in Space, page \in Page
  <2>4. arena.free[s] # <<>>
    <3>1. PICK old, blocks : old = m.free[s] /\ blocks = ArenaBlocks(page)
      OBVIOUS
    <3>2. old \in Seq(Block) /\ blocks \in Seq(Block) /\ Len(blocks) = PerArena
      BY <3>1, MemoryFields, ArenaBlocksResult
    <3>3. arena.free[s] = old \o blocks
      BY <2>1, <3>1, MemoryFields DEF NewArena, Memory
    <3>4. Len(old \o blocks) = Len(old) + PerArena /\ Len(old) \in Nat
      BY ONLY <3>2, ConcatProperties, LenProperties
    <3> QED BY <3>3, <3>4, Constants
  <2>5. r \in Memory /\ SamePages(arena, r) /\ PagesSound(r, half)
    BY ONLY <2>2, <2>3, <2>4, PopBlockSound, s \in Space
  <2> QED BY <2>3, <2>5 DEF SamePages
<1>2. CASE n # 0
  <2>1. r = NewLarge(m, s, page, n) /\ n \in Nat /\ page..page + n - 1 \subseteq Page
    BY <1>2, Constants DEF Furnish
  <2> QED BY <2>1, NewLargeSound
<1> QED BY <1>1, <1>2

(* sys_malloc as a whole.                                                  *)
LEMMA SysMallocSound ==
    ASSUME NEW m \in Memory, PagesSound(m, {}), NEW s \in Space,
           NEW n \in {0} \cup LargeSizes, MayTake(m, s, PagesFor(n)),
           NEW r, r = sys_malloc(m, s, n)
    PROVE  r \in Memory /\ PagesSound(r, {}) /\ SameOwn(m, r)
<1>1. PICK got : got = malloc_page(m, s, PagesFor(n))
  OBVIOUS
<1>2. PagesFor(n) \in Nat /\ PagesFor(n) > 0 /\ (n # 0 => PagesFor(n) = n)
  BY Constants DEF PagesFor
<1>3. CASE ~NeedsPages(m, s, n)
  <2>1. r = PopBlock(m, s) /\ m.free[s] # <<>>
    BY <1>3 DEF sys_malloc, NeedsPages
  <2> QED BY <2>1, PopBlockSound DEF SamePages, SameOwn
<1>4. CASE NeedsPages(m, s, n)
  <2>1. PICK cnt : cnt = PagesFor(n)
    OBVIOUS
  <2>2. Allocated(m, s, cnt, got)
    BY <1>1, <1>2, <2>1, MallocPage
  <2>3. CASE got.ok
    <3>1. r = Furnish(got.m, s, got.page, n)
      BY <1>1, <1>4, <2>3 DEF sys_malloc
    <3>2. /\ got.m \in Memory /\ PagesSound(got.m, {}) /\ got.m.own = m.own
          /\ got.page \in Nat /\ got.page < Size(s) /\ got.page..got.page + cnt - 1 \subseteq 0..Size(s)
      BY <2>2, <2>3 DEF Allocated
    <3>3. got.page \in Page /\ (n # 0 => got.page..got.page + n - 1 \subseteq Page)
      BY <1>2, <2>1, <3>2, PageNumbers
    <3>4. PICK gm, page : gm = got.m /\ page = got.page
      OBVIOUS
    <3>5. r \in Memory /\ SamePages(gm, r) /\ PagesSound(r, {})
      BY ONLY <3>1, <3>2, <3>3, <3>4, FurnishSound, s \in Space, n \in {0} \cup LargeSizes
    <3> QED BY <3>2, <3>4, <3>5 DEF SamePages, SameOwn
  <2>4. CASE ~got.ok
    <3>1. r = got.m
      BY <1>1, <1>4, <2>4 DEF sys_malloc
    <3> QED BY <2>2, <3>1 DEF Allocated, SameOwn
  <2> QED BY <2>3, <2>4
<1> QED BY <1>3, <1>4

-----------------------------------------------------------------------------
(* What processes do                                                       *)

Sound(m) == m \in Memory /\ PagesSound(m, {})
Keeps(m, n) == \A q \in Process : m.own[q] # {} => n.own[q] # {}

(* A page of the kernel changes nothing for the processes.                 *)
SameProcesses(m, n) ==
    /\ n.arena = m.arena /\ n.free = m.free /\ n.live = m.live /\ n.own = m.own /\ n.table = m.table
    /\ \A p \in Process : n.vbits[p] = m.vbits[p] /\ \A q \in Page : n.pte[p][q] = m.pte[p][q]

LEMMA KernelPage ==
    ASSUME NEW m, Sound(m), NEW r, r = get_kernel_pages(m, 1)
    PROVE  /\ Allocated(m, Kernel, 1, r) /\ Sound(r.m) /\ SameProcesses(m, r.m)
           /\ r.page # NoPage => r.page \in Page
           /\ r.ok => r.page # NoPage
<1>1. m \in Memory /\ PagesSound(m, {}) /\ Kernel \in Space /\ Kernel \notin Process
  BY Constants DEF Sound
<1>2. MayTake(m, Kernel, 1) /\ r = malloc_page(m, Kernel, 1)
  BY <1>1 DEF MayTake, get_kernel_pages
<1>3. Allocated(m, Kernel, 1, r)
  BY ONLY <1>1, <1>2, MallocPage, 1 \in Nat, 1 > 0
<1>4. /\ Sound(r.m) /\ r.m.arena = m.arena /\ r.m.free = m.free /\ r.m.live = m.live /\ r.m.own = m.own
      /\ r.m.table = m.table
  BY <1>3 DEF Allocated, Sound
<1>5. ASSUME NEW p \in Process
      PROVE  r.m.vbits[p] = m.vbits[p] /\ \A q \in Page : r.m.pte[p][q] = m.pte[p][q]
  <2>1. p \in Space /\ p # Kernel
    BY Constants
  <2>2. CASE r.page = NoPage
    BY <1>3, <2>2 DEF Allocated
  <2>3. CASE r.page # NoPage
    <3>1. /\ r.m.vbits = [m.vbits EXCEPT ![Kernel] = @ \cup (r.page..r.page + 1 - 1)]
          /\ \A t \in Space, q \in Page : ~(t = Kernel /\ q \in r.page..r.page + 1 - 1) => r.m.pte[t][q] = m.pte[t][q]
      BY <1>3, <2>3 DEF Allocated
    <3>2. r.m.vbits[p] = m.vbits[p]
      BY <1>1, <2>1, <3>1, MemoryFields
    <3> QED BY <2>1, <3>1, <3>2
  <2> QED BY <2>2, <2>3
<1>6. r.page # NoPage => r.page \in Page
  BY <1>1, <1>3, PageNumbers DEF Allocated
<1>7. r.ok => r.page # NoPage
  BY <1>3 DEF Allocated
<1> QED BY <1>3, <1>4, <1>5, <1>6, <1>7 DEF SameProcesses

(* The child of a fork before its pages are copied.                        *)
MayFork(m, p, c) == p \in Process /\ m.own[p] # {} /\ c \in Process /\ m.own[c] = {}
IsForked(m, d, p, c, own, n) ==
    /\ n.pte = d.pte /\ n.pbits = d.pbits /\ n.table = d.table
    /\ n.vbits = [d.vbits EXCEPT ![c] = m.vbits[p]]
    /\ n.own = [d.own EXCEPT ![c] = own]
    /\ n.arena = [d.arena EXCEPT ![c] = m.arena[p]]
    /\ n.live = [d.live EXCEPT ![c] = m.live[p]]
    /\ n.free = [d.free EXCEPT ![c] = <<>>]
    /\ n.lost = d.lost \cup ({c} \X Kept(m, p))
    /\ \A q \in Page : n.pte[c][q] = NoFrame

LEMMA ForkedSound ==
    ASSUME NEW m, Sound(m), NEW d, Sound(d), SameProcesses(m, d),
           NEW p, NEW c, MayFork(m, p, c),
           NEW own, own \subseteq Page, own # {}, NEW n, n = Forked(m, d, p, c, own)
    PROVE  Sound(n) /\ IsForked(m, d, p, c, own, n)
<1>00. p \in Process /\ m.own[p] # {} /\ c \in Process /\ m.own[c] = {}
  BY DEF MayFork
<1>0. p \in Space /\ c \in Space /\ p # c
  BY <1>00, Constants
<1>1. m \in Memory /\ d \in Memory /\ PagesSound(m, {}) /\ PagesSound(d, {})
  BY DEF Sound
<1>2. PICK O, V, A, L, F : /\ O = [d.own EXCEPT ![c] = own]
                           /\ V = [d.vbits EXCEPT ![c] = m.vbits[p]]
                           /\ A = [d.arena EXCEPT ![c] = m.arena[p]]
                           /\ L = [d.live EXCEPT ![c] = m.live[p]]
                           /\ F = [d.free EXCEPT ![c] = <<>>]
  OBVIOUS
<1>3. PICK lost : lost = d.lost \cup ({c} \X Kept(m, p))
  OBVIOUS
<1>4. n = [d EXCEPT !.own = O, !.vbits = V, !.lost = lost, !.arena = A, !.live = L, !.free = F]
  BY <1>1, <1>2, <1>3 DEF Forked, Memory
<1>5. /\ m.vbits[p] \subseteq Page /\ m.arena[p] \in [Page -> Arena]
      /\ m.live[p] \subseteq Block /\ <<>> \in Seq(Block)
  BY <1>0, <1>1, MemoryFields
<1>6. O \in [Process -> SUBSET Page]
  BY <1>00, <1>1, <1>2, MemoryFields
<1>7. V \in [Space -> SUBSET Page]
  BY <1>1, <1>2, <1>5, MemoryFields
<1>8. A \in [Space -> [Page -> Arena]]
  BY <1>1, <1>2, <1>5, MemoryFields
<1>9. L \in [Space -> SUBSET Block]
  BY <1>1, <1>2, <1>5, MemoryFields
<1>10. F \in [Space -> Seq(Block)]
  BY <1>1, <1>2, <1>5, MemoryFields
<1>11. lost \subseteq Space \X Page
  BY <1>0, <1>1, <1>3, MemoryFields DEF Kept
<1>12. n \in Memory
  <2>1. PICK TB, TP, TE, TT, TA, TF, TL, TO, TX, TR :
          /\ TB = [Space -> SUBSET Page] /\ TP = SUBSET Frame
          /\ TE = [Space -> [Page -> Frame \cup {NoFrame}]]
          /\ TT = [Process -> [Region -> SUBSET (Frame \cup {NoFrame})]]
          /\ TA = [Space -> [Page -> Arena]] /\ TF = [Space -> Seq(Block)]
          /\ TL = [Space -> SUBSET Block] /\ TO = [Process -> SUBSET Page]
          /\ TX = SUBSET (Space \X Page) /\ TR = {FALSE}
    OBVIOUS
  <2>2. Memory = [vbits : TB, pbits : TP, pte : TE, table : TT, arena : TA, free : TF,
                  live : TL, own : TO, lost : TX, repeat : TR]
    BY ONLY <2>1 DEF Memory
  <2>3. V \in TB /\ A \in TA /\ F \in TF /\ L \in TL /\ O \in TO /\ lost \in TX
    BY <1>6, <1>7, <1>8, <1>9, <1>10, <1>11, <2>1
  <2>4. d \in [vbits : TB, pbits : TP, pte : TE, table : TT, arena : TA, free : TF,
              live : TL, own : TO, lost : TX, repeat : TR]
    BY ONLY <1>1, <2>2
  <2> QED BY ONLY <1>4, <2>2, <2>3, <2>4
<1>13. /\ n.own = O /\ n.vbits = V /\ n.lost = lost /\ n.arena = A /\ n.live = L /\ n.free = F
       /\ n.pte = d.pte /\ n.pbits = d.pbits /\ n.table = d.table
  BY <1>1, <1>4 DEF Memory
<1>14. EntriesSound(d, {}) /\ TablesSound(d) /\ d.pbits \subseteq Frames(d) /\ SpacesSound(d) /\ SpacesSound(m)
  BY <1>1 DEF PagesSound
<1>15. d.vbits[c] = {} /\ d.own = m.own
  BY <1>00, <1>14 DEF SpacesSound, SameProcesses
<1>16. \A q \in Page : d.pte[c][q] = NoFrame
  BY <1>0, <1>14, <1>15 DEF EntriesSound
<1>17. \A t \in Space : V[t] = IF t = c THEN m.vbits[p] ELSE d.vbits[t]
  BY <1>1, <1>2, MemoryFields
<1>18. EntriesSound(n, {})
  <2>1. \A t \in Space, q \in Page : d.pte[t][q] # NoFrame => q \in n.vbits[t]
    BY <1>13, <1>14, <1>16, <1>17 DEF EntriesSound
  <2> QED BY <1>13, <1>14, <2>1 DEF EntriesSound
<1>19. TablesSound(n) /\ n.pbits \subseteq Frames(n)
  BY <1>13, <1>14 DEF TablesSound, Frames
<1>20. SpacesSound(n)
  <2>1. \A t \in Space : n.vbits[t] \subseteq 0..Size(t)
    <3>1. Size(c) = Size(p)
      BY <1>00, Constants DEF Size
    <3>2. \A t \in Space : d.vbits[t] \subseteq 0..Size(t) /\ m.vbits[t] \subseteq 0..Size(t)
      BY <1>14 DEF SpacesSound
    <3> QED BY ONLY <1>0, <1>13, <1>17, <3>1, <3>2
  <2>2. \A q \in Process : UserPages \notin n.vbits[q]
    BY <1>00, <1>13, <1>14, <1>17, Constants DEF SpacesSound
  <2>3. \A q \in Process : n.own[q] = {} => n.vbits[q] = {}
    <3>1. \A q \in Process : O[q] = IF q = c THEN own ELSE d.own[q]
      BY <1>1, <1>2, MemoryFields
    <3> QED BY <1>13, <1>14, <1>17, <3>1, Constants DEF SpacesSound
  <2>4. ASSUME NEW t \in Space, NEW page \in Arenas(n, t)
        PROVE  PagesOf(n, t, page) \subseteq Page
    <3>1. n.arena[t] = IF t = c THEN m.arena[p] ELSE d.arena[t]
      BY <1>1, <1>2, <1>13, MemoryFields
    <3>2. CASE t = c
      <4>1. page \in Arenas(m, p) /\ PagesOf(n, t, page) = PagesOf(m, p, page)
        BY <3>1, <3>2, <2>4 DEF Arenas, PagesOf
      <4> QED BY <1>0, <1>14, <4>1 DEF SpacesSound
    <3>3. CASE t # c
      <4>1. page \in Arenas(d, t) /\ PagesOf(n, t, page) = PagesOf(d, t, page)
        BY <3>1, <3>3, <2>4 DEF Arenas, PagesOf
      <4> QED BY <1>14, <4>1 DEF SpacesSound
    <3> QED BY <3>2, <3>3
  <2> QED BY <2>1, <2>2, <2>3, <2>4 DEF SpacesSound
<1>21. Sound(n)
  BY <1>12, <1>18, <1>19, <1>20 DEF Sound, PagesSound
<1> QED BY <1>2, <1>3, <1>13, <1>16, <1>21 DEF IsForked

(* copy_body_stack3 maps frames into the child.                            *)
Blank(m, p, c) ==
    p \in Process /\ c \in Process /\ m.vbits[p] = m.vbits[c] /\ \A q \in Page : m.pte[c][q] = NoFrame
Copied(m, c, r) ==
    /\ Sound(r.m) /\ SameHeap(m, r.m) /\ r.m.vbits = m.vbits
    /\ \A t \in Space, q \in Page : t # c => r.m.pte[t][q] = m.pte[t][q]
    /\ r.why \in {"", "page fault in fork"} /\ r.holds = FALSE
    /\ r.why = "" => \A page \in m.vbits[c] : r.m.pte[c][page] # NoFrame

LEMMA CopySound ==
    ASSUME NEW m, Sound(m), NEW p, NEW c, Blank(m, p, c), NEW r, r = copy_body_stack3(m, p, c)
    PROVE  Copied(m, c, r)
<1>0. p \in Process /\ c \in Process /\ m.vbits[p] = m.vbits[c] /\ \A q \in Page : m.pte[c][q] = NoFrame
  BY DEF Blank
<1>1. m \in Memory /\ PagesSound(m, {}) /\ c \in Space /\ p \in Space
  BY <1>0, Constants DEF Sound
<1>2. PICK there : there = {page \in m.vbits[p] : \A q \in m.vbits[p] : q <= page => m.pte[p][q] # NoFrame}
  OBVIOUS
<1>3. PICK copied : copied = MapPages(m, c, there)
  OBVIOUS
<1>4. r = IF \A page \in m.vbits[p] : copied.pte[c][page] # NoFrame THEN Done(copied)
          ELSE Fault(copied, "page fault in fork")
  BY <1>2, <1>3 DEF copy_body_stack3
<1>5. there \subseteq m.vbits[c] /\ m.vbits[c] \subseteq Page
  BY <1>0, <1>1, <1>2, MemoryFields
<1>6. there \subseteq Page /\ \A q \in there : q \in m.vbits[c] /\ m.pte[c][q] = NoFrame
  BY <1>0, <1>5
<1>7. /\ copied \in Memory /\ SameHeap(m, copied) /\ PagesSound(copied, {}) /\ copied.vbits = m.vbits
      /\ \A t \in Space, q \in Page : ~(t = c /\ q \in there) => copied.pte[t][q] = m.pte[t][q]
  <2>1. Fillable(m, c, there)
    BY <1>6 DEF Fillable
  <2>2. Filled(m, c, there, copied)
    BY ONLY <1>1, <1>3, <2>1, MapPagesSound
  <2> QED BY ONLY <2>2 DEF Filled
<1>8. r.m = copied /\ r.why \in {"", "page fault in fork"} /\ r.holds = FALSE
  BY ONLY <1>4 DEF Done, Fault
<1>9. r.why = "" => \A page \in m.vbits[p] : copied.pte[c][page] # NoFrame
  BY ONLY <1>4 DEF Done, Fault
<1> QED BY <1>0, <1>6, <1>7, <1>8, <1>9 DEF Sound, Copied

(* What is mapped for the kernel stays while it takes more pages.          *)
LEMMA PageStays ==
    ASSUME NEW m, Sound(m), NEW page \in Page, m.pte[Kernel][page] # NoFrame,
           NEW r, r = get_kernel_pages(m, 1)
    PROVE  Sound(r.m) /\ r.m.pte[Kernel][page] # NoFrame
<1>1. Allocated(m, Kernel, 1, r) /\ Sound(r.m)
  BY KernelPage
<1>2. page \in m.vbits[Kernel]
  BY Constants DEF Sound, PagesSound, EntriesSound
<1>3. r.m.pte[Kernel][page] = m.pte[Kernel][page]
  <2>1. CASE r.page = NoPage
    BY <1>1, <2>1 DEF Allocated
  <2>2. CASE r.page # NoPage
    <3>1. PICK range : range = r.page..r.page + 1 - 1
      OBVIOUS
    <3>2. /\ range \cap m.vbits[Kernel] = {}
          /\ \A t \in Space, q \in Page : ~(t = Kernel /\ q \in range) => r.m.pte[t][q] = m.pte[t][q]
      BY ONLY <1>1, <2>2, <3>1, Zenon DEF Allocated
    <3> QED BY ONLY <1>2, <3>2, Constants, page \in Page
  <2> QED BY <2>1, <2>2
<1> QED BY <1>1, <1>3

(* The page that a fork copies through is mapped when it is freed: the     *)
(* ASSERTs of mfree_page hold.                                             *)
LEMMA BufferMapped ==
    ASSUME NEW m, Sound(m), NEW p, NEW c, MayFork(m, p, c),
           NEW pcb, pcb = get_kernel_pages(m, 1), NEW buf, buf = get_kernel_pages(pcb.m, 1),
           NEW bits, bits = get_kernel_pages(buf.m, 1), NEW dir, dir = get_kernel_pages(bits.m, 1),
           pcb.ok, buf.ok, bits.ok, dir.ok,
           NEW own, own = {pcb.page, bits.page, dir.page},
           NEW made, made = Forked(m, dir.m, p, c, own), NEW copied, copied = copy_body_stack3(made, p, c)
    PROVE  FreesFrames(copied.m, Kernel, {buf.page})
<1>0. p \in Process /\ c \in Process /\ p # c /\ p \in Space /\ c \in Space /\ c # Kernel /\ Kernel \in Space
  BY Constants DEF MayFork
<1>1. Sound(pcb.m) /\ SameProcesses(m, pcb.m) /\ pcb.page \in Page
  BY KernelPage
<1>2. /\ Sound(buf.m) /\ SameProcesses(pcb.m, buf.m) /\ buf.page \in Page
      /\ Allocated(pcb.m, Kernel, 1, buf) /\ buf.page # NoPage
  BY <1>1, KernelPage
<1>3. buf.m.pte[Kernel][buf.page] # NoFrame
  <2>1. \A q \in buf.page..buf.page + 1 - 1 : buf.m.pte[Kernel][q] # NoFrame
    BY <1>2 DEF Allocated
  <2>2. buf.page \in Nat
    BY <1>2 DEF Allocated
  <2> QED BY ONLY <2>1, <2>2
<1>4. Sound(bits.m) /\ bits.m.pte[Kernel][buf.page] # NoFrame
  BY <1>2, <1>3, PageStays
<1>5. Sound(dir.m) /\ dir.m.pte[Kernel][buf.page] # NoFrame
  BY <1>2, <1>4, PageStays
<1>6. SameProcesses(buf.m, bits.m) /\ SameProcesses(bits.m, dir.m) /\ bits.page \in Page /\ dir.page \in Page
  BY <1>2, <1>4, KernelPage
<1>7. SameProcesses(m, dir.m) /\ own \subseteq Page /\ own # {}
  <2>1. PICK a, b, d, e : a = pcb.m /\ b = buf.m /\ d = bits.m /\ e = dir.m
    OBVIOUS
  <2>2. SameProcesses(m, a) /\ SameProcesses(a, b) /\ SameProcesses(b, d) /\ SameProcesses(d, e)
    BY ONLY <1>1, <1>2, <1>6, <2>1
  <2>3. SameProcesses(m, b)
    BY ONLY <2>2 DEF SameProcesses
  <2>4. SameProcesses(m, d)
    BY ONLY <2>2, <2>3 DEF SameProcesses
  <2>5. SameProcesses(m, e)
    BY ONLY <2>2, <2>4 DEF SameProcesses
  <2>6. own \subseteq Page /\ own # {}
    BY ONLY <1>1, <1>6, own = {pcb.page, bits.page, dir.page}
  <2> QED BY ONLY <2>1, <2>5, <2>6
<1>8. Sound(made) /\ IsForked(m, dir.m, p, c, own, made)
  <2>1. PICK d : d = dir.m
    OBVIOUS
  <2> QED BY ONLY <1>5, <1>7, <2>1, ForkedSound, Sound(m), MayFork(m, p, c), made = Forked(m, dir.m, p, c, own)
<1>9. made.pte = dir.m.pte /\ made.vbits = [dir.m.vbits EXCEPT ![c] = m.vbits[p]]
  BY ONLY <1>8, Zenon DEF IsForked
<1>10. made.vbits[p] = made.vbits[c]
  <2>1. dir.m.vbits[p] = m.vbits[p]
    BY <1>0, <1>7 DEF SameProcesses
  <2>2. dir.m.vbits \in [Space -> SUBSET Page]
    BY <1>5, MemoryFields DEF Sound
  <2> QED BY ONLY <1>0, <1>9, <2>1, <2>2
<1>11. Copied(made, c, copied)
  <2>1. Blank(made, p, c)
    BY ONLY <1>0, <1>8, <1>10, Zenon DEF Blank, IsForked
  <2> QED BY ONLY <1>8, <2>1, CopySound, copied = copy_body_stack3(made, p, c)
<1>12. copied.m.pte[Kernel][buf.page] # NoFrame /\ Sound(copied.m)
  <2>1. PICK there, page : there = copied.m /\ page = buf.page
    OBVIOUS
  <2>2. page \in Page /\ Copied(made, c, copied) /\ Kernel \in Space /\ c # Kernel
    BY ONLY <1>0, <1>2, <1>11, <2>1
  <2>3. there.pte[Kernel][page] = made.pte[Kernel][page] /\ Sound(there)
    BY ONLY <2>1, <2>2, Zenon DEF Copied
  <2> QED BY ONLY <1>5, <1>9, <2>1, <2>3
<1>13. copied.m.pte[Kernel][buf.page] \in PoolOf(Kernel)
  BY ONLY <1>0, <1>2, <1>12 DEF Sound, PagesSound, EntriesSound
<1> QED BY ONLY <1>13 DEF FreesFrames

(* sys_fork as a whole, on the way from one page to the next.              *)
LEMMA SysForkSound ==
    ASSUME NEW m, Sound(m), NEW p \in Process, m.own[p] # {}, NEW c \in Process, m.own[c] = {},
           NEW r, r = sys_fork(m, p, c)
    PROVE  Sound(r.m) /\ Keeps(m, r.m) /\ r.why \in {"", "page fault in fork"} /\ r.holds = FALSE
<1>1. PICK pcb : pcb = get_kernel_pages(m, 1)
  OBVIOUS
<1>2. PICK buf : buf = get_kernel_pages(pcb.m, 1)
  OBVIOUS
<1>3. PICK bits : bits = get_kernel_pages(buf.m, 1)
  OBVIOUS
<1>4. PICK dir : dir = get_kernel_pages(bits.m, 1)
  OBVIOUS
<1>5. PICK own : own = {pcb.page, bits.page, dir.page}
  OBVIOUS
<1>6. PICK made : made = Forked(m, dir.m, p, c, own)
  OBVIOUS
<1>7. PICK copied : copied = copy_body_stack3(made, p, c)
  OBVIOUS
<1>8. r = IF ~pcb.ok THEN Done(pcb.m)
          ELSE IF ~buf.ok THEN Done(GiveUp(buf.m, Kernel, {pcb.page}))
          ELSE IF ~bits.ok THEN Fault(bits.m, "page fault in fork")
          ELSE IF ~dir.ok THEN Done(GiveUp(dir.m, Kernel, {pcb.page, buf.page, bits.page}))
          ELSE IF copied.why # "" THEN copied
          ELSE IF ~FreesFrames(copied.m, Kernel, {buf.page}) THEN Fault(copied.m, "ASSERT in mfree_page")
          ELSE Done(mfree_page(copied.m, Kernel, {buf.page}))
  BY <1>1, <1>2, <1>3, <1>4, <1>5, <1>6, <1>7 DEF sys_fork
<1>9. Kernel \in Space
  BY Constants
<1>10. Sound(pcb.m) /\ SameProcesses(m, pcb.m) /\ (pcb.ok => pcb.page \in Page)
  BY <1>1, KernelPage
<1>11. Sound(buf.m) /\ SameProcesses(pcb.m, buf.m) /\ (buf.ok => buf.page \in Page)
  BY <1>2, <1>10, KernelPage
<1>12. Sound(bits.m) /\ SameProcesses(buf.m, bits.m) /\ (bits.ok => bits.page \in Page)
  BY <1>3, <1>11, KernelPage
<1>13. Sound(dir.m) /\ SameProcesses(bits.m, dir.m) /\ (dir.ok => dir.page \in Page)
  BY <1>4, <1>12, KernelPage
<1>14. SameProcesses(m, buf.m) /\ SameProcesses(m, bits.m) /\ SameProcesses(m, dir.m)
  BY <1>10, <1>11, <1>12, <1>13 DEF SameProcesses
<1>15. CASE ~pcb.ok
  <2>1. r.m = pcb.m /\ r.why = "" /\ r.holds = FALSE
    BY ONLY <1>8, <1>15 DEF Done
  <2> QED BY <1>10, <2>1 DEF Keeps, SameProcesses
<1>16. CASE pcb.ok /\ ~buf.ok
  <2>1. r.m = GiveUp(buf.m, Kernel, {pcb.page}) /\ r.why = "" /\ r.holds = FALSE
    BY ONLY <1>8, <1>16 DEF Done
  <2>2. PICK range, bm, given : range = {pcb.page} /\ bm = buf.m /\ given = GiveUp(bm, Kernel, range)
    OBVIOUS
  <2>3. range \subseteq Page /\ bm \in Memory /\ PagesSound(bm, {})
    BY <1>10, <1>11, <1>16, <2>2 DEF Sound
  <2>4. given \in Memory /\ PagesSound(given, {})
    BY ONLY <1>9, <2>2, <2>3, GiveUpSound
  <2>5. given.own = bm.own
    BY ONLY <2>2, <2>3 DEF GiveUp, Memory
  <2> QED BY <1>14, <2>1, <2>2, <2>4, <2>5 DEF Sound, Keeps, SameProcesses
<1>17. CASE pcb.ok /\ buf.ok /\ ~bits.ok
  <2>1. r.m = bits.m /\ r.why = "page fault in fork" /\ r.holds = FALSE
    BY ONLY <1>8, <1>17 DEF Fault
  <2> QED BY <1>12, <1>14, <2>1, ZenonT(30) DEF Keeps, SameProcesses
<1>18. CASE pcb.ok /\ buf.ok /\ bits.ok /\ ~dir.ok
  <2>1. r.m = GiveUp(dir.m, Kernel, {pcb.page, buf.page, bits.page}) /\ r.why = "" /\ r.holds = FALSE
    BY ONLY <1>8, <1>18 DEF Done
  <2>2. PICK range, dm, given : /\ range = {pcb.page, buf.page, bits.page} /\ dm = dir.m
                                /\ given = GiveUp(dm, Kernel, range)
    OBVIOUS
  <2>3. range \subseteq Page /\ dm \in Memory /\ PagesSound(dm, {})
    BY <1>10, <1>11, <1>12, <1>13, <1>18, <2>2 DEF Sound
  <2>4. given \in Memory /\ PagesSound(given, {})
    BY ONLY <1>9, <2>2, <2>3, GiveUpSound
  <2>5. given.own = dm.own
    BY ONLY <2>2, <2>3 DEF GiveUp, Memory
  <2> QED BY <1>14, <2>1, <2>2, <2>4, <2>5 DEF Sound, Keeps, SameProcesses
<1>19. CASE pcb.ok /\ buf.ok /\ bits.ok /\ dir.ok
  <2>1. own \subseteq Page /\ own # {}
    BY <1>5, <1>10, <1>12, <1>13, <1>19
  <2>2. PICK dm : dm = dir.m
    OBVIOUS
  <2>3. Sound(dm) /\ SameProcesses(m, dm) /\ made = Forked(m, dm, p, c, own)
    BY <1>6, <1>13, <1>14, <2>2
  <2>4. /\ Sound(made)
        /\ made.vbits = [dm.vbits EXCEPT ![c] = m.vbits[p]]
        /\ made.own = [dm.own EXCEPT ![c] = own]
        /\ \A q \in Page : made.pte[c][q] = NoFrame
    <3>1. MayFork(m, p, c)
      BY DEF MayFork
    <3>2. Sound(made) /\ IsForked(m, dm, p, c, own, made)
      BY ONLY <2>1, <2>3, <3>1, ForkedSound, Sound(m)
    <3> QED BY ONLY <3>2 DEF IsForked
  <2>5. dm \in Memory /\ dm.vbits[p] = m.vbits[p] /\ p \in Space /\ c \in Space /\ p # c
    BY <2>3, Constants DEF Sound, SameProcesses
  <2>6. made.vbits[p] = made.vbits[c]
    BY <2>4, <2>5, MemoryFields
  <2>7. \A q \in Process : made.own[q] = IF q = c THEN own ELSE dm.own[q]
    BY <2>4, <2>5, MemoryFields
  <2>8. Keeps(m, made)
    BY <2>1, <2>3, <2>7 DEF Keeps, SameProcesses
  <2>9. /\ Sound(copied.m) /\ SameHeap(made, copied.m) /\ copied.why \in {"", "page fault in fork"}
        /\ copied.holds = FALSE
    <3>1. Sound(made) /\ Blank(made, p, c)
      BY <2>4, <2>6 DEF Blank
    <3>2. Copied(made, c, copied)
      BY ONLY <1>7, <3>1, CopySound
    <3> QED BY ONLY <3>2 DEF Copied
  <2>10. Keeps(m, copied.m)
    BY <2>8, <2>9 DEF Keeps, SameHeap
  <2>11. CASE copied.why # ""
    <3>1. r = copied
      BY ONLY <1>8, <1>19, <2>11
    <3> QED BY <2>9, <2>10, <3>1
  <2>12. CASE copied.why = ""
    <3>1. PICK range, cm, freed : /\ range = {buf.page} /\ cm = copied.m
                                  /\ freed = mfree_page(cm, Kernel, range)
      OBVIOUS
    <3>5. FreesFrames(copied.m, Kernel, {buf.page})
      <4>1. MayFork(m, p, c)
        BY DEF MayFork
      <4> QED BY ONLY <1>1, <1>2, <1>3, <1>4, <1>5, <1>6, <1>7, <1>19, <4>1, BufferMapped, Sound(m)
    <3>2. r.m = freed /\ r.why = "" /\ r.holds = FALSE
      BY ONLY <1>8, <1>19, <2>12, <3>1, <3>5 DEF Done
    <3>3. range \subseteq Page /\ cm \in Memory /\ PagesSound(cm, {})
      BY <1>11, <1>19, <2>9, <3>1 DEF Sound
    <3>4. freed \in Memory /\ SameHeap(cm, freed) /\ PagesSound(freed, {})
      BY ONLY <1>9, <3>1, <3>3, MfreeSound, ZenonT(150)
    <3> QED BY <2>10, <3>1, <3>2, <3>4 DEF Sound, Keeps, SameHeap
  <2> QED BY <2>11, <2>12
<1>20. pcb.ok \in BOOLEAN
  BY <1>1, KernelPage DEF Allocated
<1> QED BY <1>15, <1>16, <1>17, <1>18, <1>19

(* segment_load of one page: the page, the buffer, the buffer's way back.  *)
LEMMA SegmentLoadSound ==
    ASSUME NEW m, Sound(m), NEW p \in Process, m.own[p] # {}, NEW page \in 0..StackPage,
           NEW r, r = segment_load(m, p, page)
    PROVE  Sound(r.m) /\ Keeps(m, r.m) /\ r.holds \in BOOLEAN
<1>1. PICK got : got = IF m.pte[p][page] # NoFrame THEN Done(m)
                       ELSE IF page = 0 THEN Fault(m, "ASSERT(bit_idx > 0)")
                       ELSE get_a_page(m, p, page)
  OBVIOUS
<1>2. PICK buffered : buffered = sys_malloc(got.m, p, 0)
  OBVIOUS
<1>3. PICK buffer : buffer = buffered.live[p] \ got.m.live[p]
  OBVIOUS
<1>4. PICK read : read = IF buffer = {} THEN buffered
                         ELSE sys_free(buffered, p, Only(buffer))
  OBVIOUS
<1>5. r = IF got.why # "" \/ got.holds THEN got
          ELSE IF buffer \cap BlocksOf(page) # {} THEN Fault(buffered, "page fault in sys_free")
          ELSE IF buffer # {} /\ ~FreeAsserts(buffered, p, Only(buffer))
          THEN Fault(buffered, "ASSERT in sys_free")
          ELSE Done(Cleared(read, p, {page}))
  BY <1>1, <1>2, <1>3, <1>4 DEF segment_load
<1>6. Sound(got.m) /\ SameOwn(m, got.m) /\ got.holds \in BOOLEAN
  <2>1. CASE m.pte[p][page] # NoFrame
    <3>1. got.m = m /\ got.holds = FALSE
      BY ONLY <1>1, <2>1 DEF Done
    <3> QED BY <3>1 DEF SameOwn
  <2>2. CASE m.pte[p][page] = NoFrame /\ page = 0
    <3>1. got.m = m /\ got.holds = FALSE
      BY ONLY <1>1, <2>2 DEF Fault
    <3> QED BY <3>1 DEF SameOwn
  <2>3. CASE m.pte[p][page] = NoFrame /\ page # 0
    <3>1. MayGet(m, p, page) /\ got = get_a_page(m, p, page) /\ m \in Memory /\ PagesSound(m, {})
      BY <1>1, <2>3 DEF MayGet, Sound
    <3>2. Got(m, p, page, got)
      BY ONLY <3>1, GetAPage, p \in Process
    <3> QED BY <3>2 DEF Got, Sound, SameOwn
  <2> QED BY <2>1, <2>2, <2>3
<1>7. Sound(buffered) /\ SameOwn(m, buffered)
  <2>1. PICK gm : gm = got.m
    OBVIOUS
  <2>2. gm \in Memory /\ PagesSound(gm, {}) /\ MayTake(gm, p, PagesFor(0)) /\ SameOwn(m, gm)
    BY <1>6, <2>1 DEF Sound, MayTake, PagesFor, SameOwn
  <2>3. p \in Space /\ 0 \in {0} \cup LargeSizes
    BY Constants
  <2>4. buffered \in Memory /\ PagesSound(buffered, {}) /\ SameOwn(gm, buffered)
    BY ONLY <1>2, <2>1, <2>2, <2>3, SysMallocSound
  <2> QED BY <2>2, <2>4 DEF Sound, SameOwn
<1>8. Sound(read) /\ SameOwn(m, read)
  <2>1. CASE buffer = {}
    BY <1>4, <1>7, <2>1
  <2>2. CASE buffer # {}
    <3>1. PICK b : b = Only(buffer)
      OBVIOUS
    <3>2. b \in buffer
      BY <2>2, <3>1 DEF Only
    <3>3. p \in Space /\ buffered \in Memory /\ PagesSound(buffered, {})
      BY <1>7, Constants DEF Sound
    <3>4. b \in Block
      BY <1>3, <3>2, <3>3, MemoryFields
    <3>5. read = sys_free(buffered, p, b)
      BY <1>4, <2>2, <3>1
    <3>6. read \in Memory /\ PagesSound(read, {}) /\ SameOwn(buffered, read)
      BY ONLY <3>3, <3>4, <3>5, SysFreeSound
    <3> QED BY <1>7, <3>6 DEF Sound, SameOwn
  <2> QED BY <2>1, <2>2
<1>9. CASE got.why # "" \/ got.holds
  <2>1. r = got
    BY <1>5, <1>9
  <2> QED BY <1>6, <2>1 DEF Keeps, SameOwn
<1>10. CASE ~(got.why # "" \/ got.holds) /\ buffer \cap BlocksOf(page) # {}
  <2>1. r.m = buffered /\ r.holds = FALSE
    BY ONLY <1>5, <1>10 DEF Fault
  <2> QED BY <1>7, <2>1 DEF Keeps, SameOwn
<1>12. CASE /\ ~(got.why # "" \/ got.holds) /\ buffer \cap BlocksOf(page) = {}
            /\ buffer # {} /\ ~FreeAsserts(buffered, p, Only(buffer))
  <2>1. r.m = buffered /\ r.holds = FALSE
    BY ONLY <1>5, <1>12 DEF Fault
  <2> QED BY <1>7, <2>1 DEF Keeps, SameOwn
<1>11. CASE /\ ~(got.why # "" \/ got.holds) /\ buffer \cap BlocksOf(page) = {}
            /\ ~(buffer # {} /\ ~FreeAsserts(buffered, p, Only(buffer)))
  <2>1. PICK range, cleared : range = {page} /\ cleared = Cleared(read, p, range)
    OBVIOUS
  <2>2. r.m = cleared /\ r.holds = FALSE
    BY ONLY <1>5, <1>11, <2>1 DEF Done
  <2>3. p \in Space /\ read \in Memory /\ PagesSound(read, {})
    BY <1>8, Constants DEF Sound
  <2>4. cleared \in Memory /\ SamePages(read, cleared) /\ PagesSound(cleared, {})
    BY ONLY <2>1, <2>3, ClearedSound
  <2> QED BY <1>8, <2>2, <2>4 DEF Sound, Keeps, SameOwn, SamePages
<1> QED BY ONLY <1>9, <1>10, <1>11, <1>12, Zenon

(* process_execute takes three different pages.                            *)
LEMMA BootSound == Boot \in Memory /\ PagesSound(Boot, {})
<1>1. /\ Boot.vbits = [s \in Space |-> {}] /\ Boot.pbits = {}
      /\ Boot.pte = [s \in Space |-> [p \in Page |-> NoFrame]]
      /\ Boot.table = [p \in Process |-> [r \in Region |-> {}]]
      /\ Boot.arena = [s \in Space |-> [p \in Page |-> NoArena]]
      /\ Boot.free = [s \in Space |-> <<>>] /\ Boot.live = [s \in Space |-> {}]
      /\ Boot.own = [p \in Process |-> {}] /\ Boot.lost = {} /\ Boot.repeat = FALSE
  BY DEF Boot
<1>2. NoArena \in Arena
  BY DEF NoArena, Arena
<1>3. Boot \in Memory
  BY <1>2 DEF Boot, Memory
<1>4. EntriesSound(Boot, {}) /\ TablesSound(Boot) /\ Boot.pbits \subseteq Frames(Boot)
  BY <1>1 DEF EntriesSound, TablesSound
<1>5. SpacesSound(Boot)
  BY <1>1, Constants DEF SpacesSound, Arenas
<1> QED BY <1>3, <1>4, <1>5 DEF PagesSound

(* bitmap_scan for one bit finds one if there is one.                      *)
HasRoom(m) == \E page \in 0..KernelPages - 1 : page \notin m.vbits[Kernel]
Took(m, r) ==
    /\ r.page \in 0..KernelPages - 1 /\ r.page \notin m.vbits[Kernel]
    /\ r.m.vbits[Kernel] = m.vbits[Kernel] \cup {r.page}

LEMMA KernelRoom ==
    ASSUME NEW m, Sound(m), HasRoom(m), NEW r, r = get_kernel_pages(m, 1)
    PROVE  Took(m, r) /\ Sound(r.m) /\ SameProcesses(m, r.m)
<1>1. PICK bits, start : bits = m.vbits[Kernel] /\ start = bitmap_scan(m.vbits[Kernel], Size(Kernel), 1)
  OBVIOUS
<1>2. Size(Kernel) = KernelPages
  BY DEF Size
<1>3. start = bitmap_scan(bits, KernelPages, 1)
  BY <1>1, <1>2
<1>4. PICK page \in 0..KernelPages - 1 : page \notin bits
  BY <1>1 DEF HasRoom
<1>5. start # NoPage
  <2>1. PICK fits : fits = {s \in 0..KernelPages - 1 :
                              s + 1 - 1 <= KernelPages - 1 /\ (s..s + 1 - 1) \cap bits = {}}
    OBVIOUS
  <2>2. start = IF fits = {} THEN NoPage ELSE Min(fits)
    BY <1>3, <2>1 DEF bitmap_scan
  <2>3. fits # {} /\ fits \subseteq Nat
    BY <1>4, <2>1, Constants
  <2>4. Min(fits) \in fits
    BY <2>3, SmallestPage
  <2> QED BY <2>2, <2>3, <2>4, PageNumbers
<1>6. r.page = start
  <2>0. PICK n : n = 1
    OBVIOUS
  <2>1. PICK range : range = start..start + n - 1
    OBVIOUS
  <2>2. PICK mapped : mapped = MapPages(Marked(m, Kernel, range), Kernel, range)
    OBVIOUS
  <2>4. r = malloc_page(m, Kernel, n) /\ start = bitmap_scan(m.vbits[Kernel], Size(Kernel), n)
    BY <1>1, <2>0 DEF get_kernel_pages
  <2>3. r = IF start = NoPage THEN [ok |-> FALSE, m |-> m, page |-> start]
            ELSE IF n <= Cardinality(PoolOf(Kernel) \ m.pbits) THEN [ok |-> TRUE, m |-> mapped, page |-> start]
            ELSE [ok |-> FALSE, m |-> GiveUp(mapped, Kernel, range), page |-> start]
    BY ONLY <2>1, <2>2, <2>4 DEF malloc_page
  <2> QED BY ONLY <2>3
<1>7. Allocated(m, Kernel, 1, r) /\ Sound(r.m) /\ SameProcesses(m, r.m)
  BY KernelPage
<1>8. /\ r.page \in Nat /\ r.page < KernelPages
      /\ (r.page..r.page + 1 - 1) \cap m.vbits[Kernel] = {}
      /\ r.m.vbits = [m.vbits EXCEPT ![Kernel] = @ \cup (r.page..r.page + 1 - 1)]
  BY <1>2, <1>5, <1>6, <1>7 DEF Allocated
<1>9. r.page..r.page + 1 - 1 = {r.page}
  BY <1>8
<1>10. m.vbits \in [Space -> SUBSET Page] /\ Kernel \in Space
  BY MemoryFields, Constants DEF Sound
<1>11. r.m.vbits[Kernel] = m.vbits[Kernel] \cup {r.page}
  BY <1>8, <1>9, <1>10
<1> QED BY <1>7, <1>8, <1>9, <1>11, Constants DEF Took

LEMMA ExecuteSound ==
    ASSUME NEW n, n = process_execute(Boot, init)
    PROVE  /\ Sound(n) /\ SameProcesses(Boot, [n EXCEPT !.own = Boot.own])
           /\ n.own = [p \in Process |-> IF p = init THEN n.vbits[Kernel] ELSE {}]
           /\ n.own[init] # {} /\ n.vbits[Kernel] \subseteq 0..KernelPages - 1
<1>1. PICK pcb : pcb = get_kernel_pages(Boot, 1)
  OBVIOUS
<1>2. PICK bits : bits = get_kernel_pages(pcb.m, 1)
  OBVIOUS
<1>3. PICK dir : dir = get_kernel_pages(bits.m, 1)
  OBVIOUS
<1>4. PICK own : own = {pcb.page, bits.page, dir.page}
  OBVIOUS
<1>5. n = [dir.m EXCEPT !.own[init] = own]
  BY <1>1, <1>2, <1>3, <1>4 DEF process_execute
<1>6. 0 \in 0..KernelPages - 1 /\ 1 \in 0..KernelPages - 1 /\ 2 \in 0..KernelPages - 1
  BY Constants
<1>7. Sound(Boot) /\ Boot.vbits[Kernel] = {} /\ Boot.own = [p \in Process |-> {}]
  BY BootSound, Constants DEF Sound, Boot
<1>8. HasRoom(Boot)
  BY <1>6, <1>7 DEF HasRoom
<1>9. Took(Boot, pcb) /\ Sound(pcb.m) /\ SameProcesses(Boot, pcb.m)
  BY ONLY <1>1, <1>7, <1>8, KernelRoom
<1>10. pcb.m.vbits[Kernel] = {pcb.page} /\ pcb.page \in 0..KernelPages - 1
  BY <1>7, <1>9 DEF Took
<1>11. HasRoom(pcb.m)
  BY <1>6, <1>10 DEF HasRoom
<1>12. Took(pcb.m, bits) /\ Sound(bits.m) /\ SameProcesses(pcb.m, bits.m)
  <2>1. PICK pm : pm = pcb.m
    OBVIOUS
  <2> QED BY ONLY <1>2, <1>9, <1>11, <2>1, KernelRoom
<1>13. bits.m.vbits[Kernel] = {pcb.page, bits.page} /\ bits.page \in 0..KernelPages - 1
  BY <1>10, <1>12 DEF Took
<1>14. HasRoom(bits.m)
  BY <1>6, <1>13 DEF HasRoom
<1>15. Took(bits.m, dir) /\ Sound(dir.m) /\ SameProcesses(bits.m, dir.m)
  <2>1. PICK pm : pm = bits.m
    OBVIOUS
  <2> QED BY ONLY <1>3, <1>12, <1>14, <2>1, KernelRoom
<1>16. dir.m.vbits[Kernel] = own /\ own \subseteq 0..KernelPages - 1 /\ own # {}
  BY <1>4, <1>10, <1>13, <1>15 DEF Took
<1>17. PICK dm, O : dm = dir.m /\ O = [dir.m.own EXCEPT ![init] = own]
  OBVIOUS
<1>18. dm \in Memory /\ PagesSound(dm, {}) /\ SameProcesses(Boot, dm)
  BY <1>9, <1>12, <1>15, <1>17 DEF Sound, SameProcesses
<1>19. own \subseteq Page
  BY <1>16, PageNumbers, Constants DEF Size
<1>20. O \in [Process -> SUBSET Page] /\ n = [dm EXCEPT !.own = O]
  BY <1>5, <1>17, <1>18, <1>19, MemoryFields DEF Memory
<1>21. n \in Memory
  BY <1>18, <1>20 DEF Memory
<1>22. /\ n.vbits = dm.vbits /\ n.pbits = dm.pbits /\ n.pte = dm.pte /\ n.table = dm.table
       /\ n.arena = dm.arena /\ n.free = dm.free /\ n.live = dm.live /\ n.own = O
  BY <1>18, <1>20 DEF Memory
<1>23. \A p \in Process : O[p] = IF p = init THEN own ELSE {}
  BY <1>7, <1>17, <1>18 DEF SameProcesses
<1>24. n.own = [p \in Process |-> IF p = init THEN n.vbits[Kernel] ELSE {}]
  BY <1>16, <1>17, <1>20, <1>22, <1>23
<1>25. PagesSound(n, {})
  <2>1. \A p \in Process : n.own[p] = {} => dm.own[p] = {}
    BY <1>7, <1>18, <1>22, <1>23, <1>16 DEF SameProcesses
  <2>2. \A s \in Space : \A page \in Arenas(n, s) : PagesOf(n, s, page) \subseteq Page
    BY <1>18, <1>22 DEF Arenas, PagesOf, PagesSound, SpacesSound
  <2> QED BY <1>18, <1>21, <1>22, <2>1, <2>2, HeapChange
<1>26. SameProcesses(Boot, [n EXCEPT !.own = Boot.own])
  <2>1. PICK k : k = [n EXCEPT !.own = Boot.own]
    OBVIOUS
  <2>2. /\ k.arena = n.arena /\ k.free = n.free /\ k.live = n.live /\ k.own = Boot.own /\ k.table = n.table
        /\ k.vbits = n.vbits /\ k.pte = n.pte
    BY <1>21, <2>1 DEF Memory
  <2> QED BY <1>18, <1>22, <2>1, <2>2 DEF SameProcesses
<1>27. init \in Process /\ n.own[init] # {} /\ n.vbits[Kernel] \subseteq 0..KernelPages - 1
  BY <1>16, <1>17, <1>22, <1>23, Constants
<1> QED BY <1>21, <1>24, <1>25, <1>26, <1>27 DEF Sound

-----------------------------------------------------------------------------
(* The pages stay sound.                                                   *)

LEMMA PagesInit == Init => PagesInv
<1> SUFFICES ASSUME Init
             PROVE  PagesInv
  OBVIOUS
<1>1. /\ mem = process_execute(Boot, init) /\ at = Outside /\ held = Nobody
      /\ loading = [p \in Process |-> {}]
  BY DEF Init
<1>2. Sound(mem) /\ SameProcesses(Boot, [mem EXCEPT !.own = Boot.own])
  BY <1>1, ExecuteSound
<1>3. at.pc = "run" /\ at \in Point
  BY <1>1 DEF Outside, Point
<1>4. StateOK
  BY <1>1, <1>2, <1>3 DEF StateOK, Sound
<1>5. PagesSound(mem, Half(at)) /\ MainSound(mem, at)
  BY <1>2, <1>3 DEF Half, MainSound, Sound
<1>6. TablesThere
  <2>1. mem.table = Boot.table
    BY <1>2 DEF SameProcesses, Sound, Memory
  <2>2. \A p \in Process, r \in Region : Boot.table[p][r] = {}
    BY DEF Boot
  <2> QED BY <2>1, <2>2 DEF TablesThere
<1>7. mem.own[init] # {}
  BY <1>1, ExecuteSound
<1> QED BY <1>1, <1>4, <1>5, <1>6, <1>7 DEF PagesInv

(* A system call that leaves the pages sound.                              *)
LEMMA InKernelSound ==
    ASSUME PagesInv, "main undisturbed" \in Habits, NEW p \in Process, NEW r, InKernel(p, r),
           Sound(r.m), Keeps(mem, r.m), r.holds \in BOOLEAN,
           loading' \in [Process -> SUBSET Image],
           \A q \in Process : loading'[q] # {} => mem.own[q] # {}
    PROVE  PagesInv'
<1>1. /\ at.pc = "run" /\ at' = at /\ mem' = r.m /\ TablesHaveRoom
      /\ held' = (IF r.holds THEN p ELSE held)
  BY DEF InKernel, MainUndisturbed
<1>2. StateOK'
  BY <1>1 DEF PagesInv, StateOK, Sound
<1>3. PagesSound(mem, Half(at))' /\ MainSound(mem, at)'
  <2>1. Half(at)' = {} /\ at'.pc = "run"
    BY <1>1 DEF Half
  <2> QED BY <1>1, <2>1 DEF Sound, MainSound
<1>4. TablesThere'
  BY <1>1 DEF TablesThere, TablesHaveRoom
<1>5. mem'.own[init] # {} /\ \A q \in Process : loading'[q] # {} => mem'.own[q] # {}
  BY <1>1, Constants DEF Keeps, PagesInv
<1> QED BY <1>2, <1>3, <1>4, <1>5 DEF PagesInv

(* A call for which the loading pages stay.                                *)
LEMMA CallSound ==
    ASSUME PagesInv, "main undisturbed" \in Habits, NEW p \in Process, NEW r, Call(p, r),
           Sound(r.m), Keeps(mem, r.m), r.holds \in BOOLEAN
    PROVE  PagesInv'
<1>1. InKernel(p, r) /\ loading' = loading
  BY DEF Call
<1>2. loading' \in [Process -> SUBSET Image] /\ \A q \in Process : loading'[q] # {} => mem.own[q] # {}
  BY <1>1 DEF PagesInv, StateOK
<1> QED BY <1>1, <1>2, InKernelSound

(* What a process that runs, or that loads its program, may rely on.       *)
LEMMA ProcessFacts ==
    ASSUME PagesInv, at.pc = "run", NEW p \in Process
    PROVE  /\ Sound(mem) /\ p \in Space
           /\ Runs(p) => mem.own[p] # {} /\ StackPage \in mem.vbits[p]
           /\ loading[p] # {} => mem.own[p] # {}
           /\ \A n : Runs(p) => MayTake(mem, p, n)
           /\ \A n : MayTake(mem, Kernel, n)
<1>1. Sound(mem)
  BY DEF PagesInv, StateOK, Half, Sound
<1>2. p \in Space /\ StackPage \in Page /\ Kernel \notin Process
  BY Constants, PageNumbers
<1>3. Runs(p) => mem.own[p] # {} /\ StackPage \in mem.vbits[p]
  BY <1>1, <1>2 DEF Runs, Sound, PagesSound, EntriesSound
<1> QED BY <1>1, <1>2, <1>3 DEF PagesInv, MayTake

LEMMA FreedBlock ==
    ASSUME PagesInv, at.pc = "run", NEW s \in Space, NEW b \in mem.live[s], NEW r,
           r = IF FreeAsserts(mem, s, b) THEN Done(sys_free(mem, s, b)) ELSE Fault(mem, "ASSERT in sys_free")
    PROVE  Sound(r.m) /\ SameOwn(mem, r.m) /\ r.holds = FALSE
<1>1. mem \in Memory /\ PagesSound(mem, {})
  BY DEF PagesInv, StateOK, Half
<1>2. b \in Block
  BY <1>1, MemoryFields
<1>3. PICK freed : freed = sys_free(mem, s, b)
  OBVIOUS
<1>4. freed \in Memory /\ PagesSound(freed, {}) /\ SameOwn(mem, freed)
  BY ONLY <1>1, <1>2, <1>3, SysFreeSound, s \in Space
<1>5. CASE FreeAsserts(mem, s, b)
  <2>1. r = Done(freed)
    BY <1>3, <1>5
  <2>2. r.m = freed /\ r.holds = FALSE
    BY ONLY <2>1 DEF Done
  <2> QED BY <1>4, <2>2 DEF Sound
<1>6. CASE ~FreeAsserts(mem, s, b)
  <2>1. r = Fault(mem, "ASSERT in sys_free")
    BY <1>6
  <2>2. r.m = mem /\ r.holds = FALSE
    BY ONLY <2>1 DEF Fault
  <2> QED BY <1>1, <2>2 DEF Sound, SameOwn
<1> QED BY <1>5, <1>6

LEMMA MallocedBlock ==
    ASSUME PagesInv, at.pc = "run", NEW s \in Space, NEW n \in {0} \cup LargeSizes,
           MayTake(mem, s, PagesFor(n)), NEW r, r = Done(sys_malloc(mem, s, n))
    PROVE  Sound(r.m) /\ SameOwn(mem, r.m) /\ r.holds = FALSE
<1>1. mem \in Memory /\ PagesSound(mem, {})
  BY DEF PagesInv, StateOK, Half
<1>2. PICK got : got = sys_malloc(mem, s, n)
  OBVIOUS
<1>3. got \in Memory /\ PagesSound(got, {}) /\ SameOwn(mem, got)
  BY ONLY <1>1, <1>2, SysMallocSound, s \in Space, n \in {0} \cup LargeSizes, MayTake(mem, s, PagesFor(n))
<1>4. r.m = got /\ r.holds = FALSE
  BY ONLY <1>2, r = Done(sys_malloc(mem, s, n)) DEF Done
<1> QED BY <1>3, <1>4 DEF Sound

LEMMA PagesProcess ==
    ASSUME PagesInv, "main undisturbed" \in Habits, NEW p \in Process, ProcessNext(p)
    PROVE  PagesInv'
<1>0. \A m, n : SameOwn(m, n) => Keeps(m, n)
  BY DEF SameOwn, Keeps
<1>00. FALSE \in BOOLEAN /\ 0 \in {0} \cup LargeSizes /\ Kernel \in Space
  BY Constants
<1>1. ASSUME NEW n \in {0} \cup LargeSizes, ProcessMallocs(p, n)
      PROVE  PagesInv'
  <2>1. PICK r : r = Done(sys_malloc(mem, p, n))
    OBVIOUS
  <2>2. Runs(p) /\ Call(p, r) /\ at.pc = "run"
    BY <1>1, <2>1 DEF ProcessMallocs, Call, InKernel, MainUndisturbed
  <2>3. p \in Space /\ MayTake(mem, p, PagesFor(n))
    BY <2>2, ProcessFacts
  <2>4. Sound(r.m) /\ SameOwn(mem, r.m) /\ r.holds = FALSE
    BY <2>1, <2>2, <2>3, MallocedBlock
  <2> QED BY <1>0, <1>00, <2>2, <2>4, CallSound
<1>2. ASSUME NEW b \in mem.live[p], ProcessFrees(p, b)
      PROVE  PagesInv'
  <2>1. PICK r : r = IF FreeAsserts(mem, p, b) THEN Done(sys_free(mem, p, b))
                     ELSE Fault(mem, "ASSERT in sys_free")
    OBVIOUS
  <2>2. Runs(p) /\ Call(p, r) /\ at.pc = "run"
    BY <1>2, <2>1 DEF ProcessFrees, Call, InKernel, MainUndisturbed
  <2>3. p \in Space
    BY <2>2, ProcessFacts
  <2>4. Sound(r.m) /\ SameOwn(mem, r.m) /\ r.holds = FALSE
    BY <2>1, <2>2, <2>3, FreedBlock
  <2> QED BY <1>0, <1>00, <2>2, <2>4, CallSound
<1>3. ASSUME ProcessOpensInode(p)
      PROVE  PagesInv'
  <2>1. PICK r : r = Done(sys_malloc(mem, Kernel, 0))
    OBVIOUS
  <2>2. Call(p, r) /\ at.pc = "run"
    BY <1>3, <2>1 DEF ProcessOpensInode
  <2>3. MayTake(mem, Kernel, PagesFor(0))
    BY <2>2, ProcessFacts
  <2>4. Sound(r.m) /\ SameOwn(mem, r.m) /\ r.holds = FALSE
    BY <1>00, <2>1, <2>2, <2>3, MallocedBlock
  <2> QED BY <1>0, <1>00, <2>2, <2>4, CallSound
<1>4. ASSUME NEW b \in mem.live[Kernel], ProcessClosesInode(p, b)
      PROVE  PagesInv'
  <2>1. PICK r : r = IF FreeAsserts(mem, Kernel, b) THEN Done(sys_free(mem, Kernel, b))
                     ELSE Fault(mem, "ASSERT in sys_free")
    OBVIOUS
  <2>2. Call(p, r) /\ at.pc = "run"
    BY <1>4, <2>1 DEF ProcessClosesInode
  <2>4. Sound(r.m) /\ SameOwn(mem, r.m) /\ r.holds = FALSE
    BY <1>00, <2>1, <2>2, FreedBlock
  <2> QED BY <1>0, <1>00, <2>2, <2>4, CallSound
<1>5. ASSUME NEW c \in Process, ProcessForks(p, c)
      PROVE  PagesInv'
  <2>1. PICK r : r = sys_fork(mem, p, c)
    OBVIOUS
  <2>2. Runs(p) /\ Call(p, r) /\ at.pc = "run" /\ mem.own[c] = {}
    BY <1>5, <2>1 DEF ProcessForks, Call, InKernel, MainUndisturbed
  <2>3. Sound(mem) /\ mem.own[p] # {}
    BY <2>2, ProcessFacts
  <2>4. Sound(r.m) /\ Keeps(mem, r.m) /\ r.holds = FALSE
    BY <2>1, <2>2, <2>3, SysForkSound
  <2> QED BY <1>00, <2>2, <2>4, CallSound
<1>6. ASSUME sys_execv(p)
      PROVE  PagesInv'
  <2>1. PICK r : r = Done(mem)
    OBVIOUS
  <2>2. Runs(p) /\ InKernel(p, r) /\ at.pc = "run" /\ loading' = [loading EXCEPT ![p] = Image]
    BY <1>6, <2>1 DEF sys_execv, InKernel, MainUndisturbed
  <2>3. r.m = mem /\ r.holds = FALSE
    BY ONLY <2>1 DEF Done
  <2>4. Sound(mem) /\ mem.own[p] # {}
    BY <2>2, ProcessFacts
  <2>5. loading \in [Process -> SUBSET Image] /\ \A q \in Process : loading[q] # {} => mem.own[q] # {}
    BY DEF PagesInv, StateOK
  <2>6. loading' \in [Process -> SUBSET Image] /\ \A q \in Process : loading'[q] # {} => mem.own[q] # {}
    BY <2>2, <2>4, <2>5
  <2>7. Keeps(mem, mem)
    BY DEF Keeps
  <2> QED BY <1>00, <2>2, <2>3, <2>4, <2>6, <2>7, InKernelSound
<1>7. ASSUME ProcessLoads(p)
      PROVE  PagesInv'
  <2>1. PICK page, r, rest : /\ page = Min(loading[p]) /\ r = segment_load(mem, p, page)
                             /\ rest = IF r.why = "" /\ ~r.holds THEN loading[p] \ {page} ELSE {}
    OBVIOUS
  <2>2. /\ loading[p] # {} /\ InKernel(p, r) /\ at.pc = "run"
        /\ loading' = [loading EXCEPT ![p] = rest]
    BY <1>7, <2>1 DEF ProcessLoads, InKernel, MainUndisturbed
  <2>3. Sound(mem) /\ mem.own[p] # {}
    BY <2>2, ProcessFacts
  <2>4. loading \in [Process -> SUBSET Image] /\ \A q \in Process : loading[q] # {} => mem.own[q] # {}
    BY DEF PagesInv, StateOK
  <2>5. page \in Image
    <3>1. loading[p] \subseteq Nat
      BY <2>4, Constants
    <3>2. PICK S : S = loading[p]
      OBVIOUS
    <3>3. S \subseteq Nat /\ S # {}
      BY <2>2, <3>1, <3>2
    <3>4. Min(S) \in S
      BY ONLY <3>3, SmallestPage
    <3> QED BY <2>1, <2>4, <3>2, <3>4
  <2>6. page \in 0..StackPage
    <3>1. page \in Nat /\ page < UserPages - 1 /\ UserPages \in Nat
      BY <2>5, Constants
    <3> QED BY ONLY <3>1 DEF StackPage
  <2>7. Sound(r.m) /\ Keeps(mem, r.m) /\ r.holds \in BOOLEAN
    BY <2>1, <2>3, <2>6, SegmentLoadSound
  <2>8. rest \subseteq loading[p]
    BY <2>1
  <2>9. loading' \in [Process -> SUBSET Image] /\ \A q \in Process : loading'[q] # {} => mem.own[q] # {}
    BY <2>2, <2>3, <2>4, <2>8
  <2> QED BY <2>2, <2>7, <2>9, InKernelSound
<1> QED BY <1>1, <1>2, <1>3, <1>4, <1>5, <1>6, <1>7 DEF ProcessNext

(* start_process takes the first page of init's stack.                     *)
LEMMA PagesStart ==
    ASSUME PagesInv, "main undisturbed" \in Habits, start_process
    PROVE  PagesInv'
<1>1. PICK r : r = get_a_page(mem, init, StackPage)
  OBVIOUS
<1>2. Call(init, r) /\ mem.pte[init][StackPage] = NoFrame
  BY <1>1 DEF start_process
<1>3. at.pc = "run"
  BY <1>2 DEF Call, InKernel, MainUndisturbed
<1>30. Half(at) = {} /\ init \in Process /\ StackPage \in 0..StackPage
  <2>1. Half(at) = {}
    BY <1>3 DEF Half
  <2>2. StackPage \in Nat
    BY PageNumbers
  <2>3. StackPage \in 0..StackPage
    BY ONLY <2>2
  <2> QED BY <2>1, <2>3, Constants
<1>31. mem \in Memory /\ PagesSound(mem, {}) /\ mem.own[init] # {}
  BY <1>30 DEF PagesInv, StateOK
<1>32. MayGet(mem, init, StackPage)
  BY <1>2, <1>30, <1>31 DEF MayGet
<1>4. Got(mem, init, StackPage, r)
  BY ONLY <1>1, <1>30, <1>31, <1>32, GetAPage
<1>5. Sound(r.m) /\ Keeps(mem, r.m) /\ r.holds \in BOOLEAN
  BY <1>4 DEF Got, Sound, Keeps
<1> QED BY <1>2, <1>30, <1>5, CallSound

-----------------------------------------------------------------------------
(* The steps of main                                                       *)

MainState(m, x) == m \in Memory /\ x \in Point /\ PagesSound(m, Half(x)) /\ MainSound(m, x)
MainKeeps(m, n) == n.own = m.own /\ n.table = m.table

LEMMA MainMoved ==
    ASSUME PagesInv, NEW m, NEW x, MainStep(m, x), MainState(m, x), MainKeeps(mem, m)
    PROVE  PagesInv'
<1>1. mem' = m /\ at' = x /\ held' = held /\ loading' = loading
  BY DEF MainStep
<1>2. m \in Memory /\ x \in Point /\ PagesSound(m, Half(x)) /\ MainSound(m, x)
  BY DEF MainState
<1>3. m.own = mem.own /\ m.table = mem.table
  BY DEF MainKeeps
<1>4. StateOK /\ TablesThere /\ mem.own[init] # {} /\ \A p \in Process : loading[p] # {} => mem.own[p] # {}
  BY DEF PagesInv
<1>5. StateOK'
  BY <1>1, <1>2, <1>4 DEF StateOK
<1>6. PagesSound(mem, Half(at))' /\ MainSound(mem, at)'
  BY <1>1, <1>2
<1>7. TablesThere'
  BY <1>1, <1>3, <1>4 DEF TablesThere
<1> QED BY <1>1, <1>3, <1>4, <1>5, <1>6, <1>7 DEF PagesInv

LEMMA OutsideSound ==
    ASSUME NEW m \in Memory, PagesSound(m, {})
    PROVE  MainState(m, Outside)
<1>1. Outside.pc = "run" /\ Outside \in Point
  BY DEF Outside, Point
<1>2. Half(Outside) = {} /\ MainSound(m, Outside)
  BY ONLY <1>1 DEF Half, MainSound
<1> QED BY <1>1, <1>2 DEF MainState

(* The pages a call of main asks for, those it has no frame for yet.       *)
Asked(m, pages, left, n) ==
    /\ pages \subseteq Page /\ left \subseteq pages /\ left # {} /\ n \in {0} \cup LargeSizes
    /\ \E start \in 0..KernelPages - 1 : pages = start..start + PagesFor(n) - 1
    /\ pages \subseteq 0..KernelPages /\ pages \subseteq m.vbits[Kernel]
    /\ n = 0 => m.free[Kernel] = <<>>
    /\ \A page \in left : m.pte[Kernel][page] = NoFrame
    /\ \A page \in pages \ left : m.pte[Kernel][page] # NoFrame

LEMMA FindFrameSound ==
    ASSUME PagesInv, NEW m \in Memory, PagesSound(m, {}), MainKeeps(mem, m),
           NEW pages, NEW left, NEW n, Asked(m, pages, left, n), FindFrame(m, pages, left, n)
    PROVE  PagesInv'
<1>1. PICK f : f = palloc_scan(m, Kernel)
  OBVIOUS
<1>2. /\ pages \subseteq Page /\ left \subseteq pages /\ left # {} /\ n \in {0} \cup LargeSizes
      /\ \E start \in 0..KernelPages - 1 : pages = start..start + PagesFor(n) - 1
      /\ pages \subseteq 0..KernelPages /\ pages \subseteq m.vbits[Kernel]
      /\ n = 0 => m.free[Kernel] = <<>>
      /\ \A page \in left : m.pte[Kernel][page] = NoFrame
      /\ \A page \in pages \ left : m.pte[Kernel][page] # NoFrame
  BY DEF Asked
<1>3. CASE f = NoFrame
  <2>1. PICK given : given = GiveUp(m, Kernel, pages)
    OBVIOUS
  <2>2. MainStep(given, Outside)
    BY <1>1, <1>3, <2>1 DEF FindFrame
  <2>3. given \in Memory /\ PagesSound(given, {}) /\ given.own = m.own /\ given.table = m.table
    <3>1. Kernel \in Space /\ pages \subseteq Page
      BY <1>2, Constants
    <3> QED BY ONLY <2>1, <3>1, GiveUpSound, m \in Memory, PagesSound(m, {})
  <2>4. MainState(given, Outside)
    BY <2>3, OutsideSound
  <2>5. MainKeeps(mem, given)
    BY <2>3 DEF MainKeeps
  <2> QED BY <2>2, <2>4, <2>5, MainMoved
<1>4. CASE f # NoFrame
  <2>1. PICK x : x = [pc |-> "map", n |-> n, pages |-> pages, left |-> left, frame |-> f]
    OBVIOUS
  <2>2. MainStep(m, x)
    BY <1>1, <1>4, <2>1 DEF FindFrame
  <2>3. f \in PoolOf(Kernel) \ m.pbits /\ f \in Frame
    BY <1>1, <1>4, PallocResult, PoolNumbers, Constants
  <2>4. x.pc = "map" /\ x.n = n /\ x.pages = pages /\ x.left = left /\ x.frame = f
    BY ONLY <2>1
  <2>5. x \in Point
    BY <1>2, <2>1, <2>3 DEF Point
  <2>6. MainSound(m, x)
    BY ONLY <1>2, <2>3, <2>4 DEF MainSound
  <2>7. Half(x) = {}
    BY ONLY <2>4 DEF Half
  <2>8. MainState(m, x)
    BY <2>5, <2>6, <2>7 DEF MainState
  <2> QED BY <2>2, <2>8, MainMoved
<1> QED BY <1>3, <1>4

LEMMA MarkStep ==
    ASSUME PagesInv, vaddr_set
    PROVE  PagesInv'
<1>1. PICK pages, left, n : pages = at.pages /\ left = at.left /\ n = at.n
  OBVIOUS
<1>2. PICK marked : marked = Marked(mem, Kernel, pages)
  OBVIOUS
<1>3. at.pc = "mark" /\ FindFrame(marked, pages, left, n)
  BY <1>1, <1>2 DEF vaddr_set
<1>4. mem \in Memory /\ at \in Point /\ PagesSound(mem, {}) /\ MainSound(mem, at)
  BY <1>3 DEF PagesInv, StateOK, Half
<1>5. /\ left = pages /\ left # {} /\ n \in {0} \cup LargeSizes /\ pages \subseteq Page
      /\ \E start \in 0..KernelPages - 1 : pages = start..start + PagesFor(n) - 1
      /\ pages \subseteq 0..KernelPages
      /\ n = 0 => mem.free[Kernel] = <<>>
      /\ \A page \in left : mem.pte[Kernel][page] = NoFrame
  BY <1>1, <1>3, <1>4 DEF MainSound, Point
<1>6. Markable(mem, Kernel, pages)
  BY <1>5, Constants DEF Markable, Size
<1>7. /\ marked \in Memory /\ SameHeap(mem, marked) /\ marked.pte = mem.pte /\ marked.table = mem.table
      /\ marked.vbits[Kernel] = mem.vbits[Kernel] \cup pages
      /\ PagesSound(marked, {})
  <2>1. Kernel \in Space
    BY Constants
  <2>2. /\ marked \in Memory /\ SameHeap(mem, marked) /\ marked.pte = mem.pte
        /\ marked.table = mem.table /\ PagesSound(marked, {})
        /\ \A s \in Space : marked.vbits[s] = IF s = Kernel THEN mem.vbits[Kernel] \cup pages
                                            ELSE mem.vbits[s]
    BY ONLY <1>2, <1>4, <1>6, <2>1, MarkSound
  <2> QED BY <2>1, <2>2
<1>8. Asked(marked, pages, left, n)
  BY ONLY <1>5, <1>7 DEF Asked, SameHeap
<1>9. MainKeeps(mem, marked)
  BY <1>7 DEF MainKeeps, SameHeap
<1> QED BY <1>3, <1>7, <1>8, <1>9, FindFrameSound

(* One page is mapped, the call goes on or the block is made.              *)
LEMMA MapStep ==
    ASSUME PagesInv, frame_set, mem.pte[Kernel][Min(at.left)] = NoFrame
    PROVE  PagesInv'
<1>1. PICK pages, left, n, f : pages = at.pages /\ left = at.left /\ n = at.n /\ f = at.frame
  OBVIOUS
<1>2. PICK page : page = Min(left)
  OBVIOUS
<1>3. PICK mapped : mapped = MapPage(mem, Kernel, page, f)
  OBVIOUS
<1>4. PICK start : start = Min(pages)
  OBVIOUS
<1>5. at.pc = "map" /\ mem.pte[Kernel][page] = NoFrame
  BY <1>1, <1>2 DEF frame_set
<1>6. /\ left = {page} => MainStep(Furnish(mapped, Kernel, start, n), Outside)
      /\ left # {page} => FindFrame(mapped, pages, left \ {page}, n)
  BY <1>1, <1>2, <1>3, <1>4, <1>5 DEF frame_set
<1>7. mem \in Memory /\ at \in Point /\ PagesSound(mem, {}) /\ MainSound(mem, at)
  BY <1>5 DEF PagesInv, StateOK, Half
<1>8. /\ left \subseteq pages /\ left # {} /\ n \in {0} \cup LargeSizes /\ pages \subseteq Page
      /\ \E s \in 0..KernelPages - 1 : pages = s..s + PagesFor(n) - 1
      /\ pages \subseteq 0..KernelPages /\ pages \subseteq mem.vbits[Kernel]
      /\ n = 0 => mem.free[Kernel] = <<>>
      /\ \A q \in left : mem.pte[Kernel][q] = NoFrame
      /\ \A q \in pages \ left : mem.pte[Kernel][q] # NoFrame
      /\ f \in PoolOf(Kernel) \ mem.pbits
  BY <1>1, <1>5, <1>7 DEF MainSound, Point
<1>9. pages \subseteq Nat /\ left \subseteq Nat
  BY <1>8, PageNumbers
<1>10. page \in left
  BY ONLY <1>2, <1>8, <1>9, SmallestPage
<1>11. Kernel \in Space /\ page \in mem.vbits[Kernel]
  BY <1>8, <1>10, Constants
<1>12. /\ mapped \in Memory /\ SameHeap(mem, mapped) /\ mapped.vbits = mem.vbits /\ PagesSound(mapped, {})
       /\ mapped.table = mem.table
       /\ \A t \in Space, q \in Page : ~(t = Kernel /\ q = page) => mapped.pte[t][q] = mem.pte[t][q]
       /\ mapped.pte[Kernel][page] # NoFrame
  BY ONLY <1>3, <1>5, <1>7, <1>8, <1>11, MapPageSound
<1>13. MainKeeps(mem, mapped)
  BY ONLY <1>12 DEF MainKeeps, SameHeap
<1>14. CASE left = {page}
  <2>1. PICK made : made = Furnish(mapped, Kernel, start, n)
    OBVIOUS
  <2>2. PICK first \in 0..KernelPages - 1 : pages = first..first + PagesFor(n) - 1
    BY <1>8
  <2>3. start \in pages /\ \A q \in pages : start <= q
    <3>1. pages # {}
      BY <1>8
    <3> QED BY ONLY <1>4, <1>9, <3>1, SmallestPage
  <2>4. first \in Nat /\ PagesFor(n) \in Nat /\ PagesFor(n) > 0
    BY <1>8, Constants DEF PagesFor
  <2>5. first \in pages
    BY ONLY <2>2, <2>4
  <2>6. start = first
    <3>1. start <= first
      BY <2>3, <2>5
    <3>2. start \in first..first + PagesFor(n) - 1
      BY <2>2, <2>3
    <3> QED BY ONLY <2>4, <3>1, <3>2
  <2>7. start \in Page /\ (n # 0 => start..start + n - 1 \subseteq Page)
    BY <1>8, <2>2, <2>3, <2>6 DEF PagesFor
  <2>8. made \in Memory /\ SamePages(mapped, made) /\ PagesSound(made, {})
    BY ONLY <1>8, <1>11, <1>12, <2>1, <2>7, FurnishSound
  <2>9. MainKeeps(mem, made)
    BY <1>13, <2>8 DEF MainKeeps, SamePages
  <2>10. MainState(made, Outside)
    BY <2>8, OutsideSound
  <2>11. MainStep(made, Outside)
    BY <1>6, <1>14, <2>1
  <2> QED BY <2>9, <2>10, <2>11, MainMoved
<1>15. CASE left # {page}
  <2>1. PICK rest : rest = left \ {page}
    OBVIOUS
  <2>2. rest \subseteq pages /\ rest # {} /\ page \notin rest /\ pages \ rest = (pages \ left) \cup {page}
    BY <1>8, <1>10, <1>15, <2>1
  <2>3. \A q \in rest : mapped.pte[Kernel][q] = NoFrame
    BY <1>8, <1>11, <1>12, <2>1, <2>2
  <2>4. \A q \in pages \ rest : mapped.pte[Kernel][q] # NoFrame
    BY <1>8, <1>11, <1>12, <2>2
  <2>5. mapped.free = mem.free
    BY <1>12 DEF SameHeap
  <2>6. Asked(mapped, pages, rest, n)
    BY ONLY <1>8, <1>12, <2>2, <2>3, <2>4, <2>5 DEF Asked
  <2>7. FindFrame(mapped, pages, rest, n)
    BY <1>6, <1>15, <2>1
  <2> QED BY <1>12, <1>13, <2>6, <2>7, FindFrameSound
<1> QED BY <1>14, <1>15

(* The first step of a call.                                               *)
LEMMA ScanStep ==
    ASSUME PagesInv, NEW n \in {0} \cup LargeSizes, vaddr_scan(n)
    PROVE  PagesInv'
<1>1. PICK start, range : /\ start = bitmap_scan(mem.vbits[Kernel], KernelPages, PagesFor(n))
                          /\ range = start..start + PagesFor(n) - 1
  OBVIOUS
<1>2. at.pc = "run"
  BY DEF vaddr_scan
<1>3. mem \in Memory /\ at \in Point /\ PagesSound(mem, {}) /\ MainSound(mem, at)
  BY <1>2 DEF PagesInv, StateOK, Half
<1>4. CASE ~NeedsPages(mem, Kernel, n)
  <2>1. PICK popped : popped = PopBlock(mem, Kernel)
    OBVIOUS
  <2>2. MainStep(popped, at)
    BY <1>4, <2>1 DEF vaddr_scan
  <2>3. Kernel \in Space /\ mem.free[Kernel] # <<>>
    BY <1>4, Constants DEF NeedsPages
  <2>4. popped \in Memory /\ SamePages(mem, popped) /\ PagesSound(popped, {})
    BY ONLY <1>3, <2>1, <2>3, PopBlockSound
  <2>5. MainState(popped, at)
    BY <1>2, <1>3, <2>4 DEF MainState, Half, MainSound
  <2>6. MainKeeps(mem, popped)
    BY <2>4 DEF MainKeeps, SamePages
  <2> QED BY <2>2, <2>5, <2>6, MainMoved
<1>5. CASE NeedsPages(mem, Kernel, n)
  <2>1. PICK x : x = [pc |-> "mark", n |-> n, pages |-> range, left |-> range, frame |-> NoFrame]
    OBVIOUS
  <2>2. start # NoPage /\ MainStep(mem, x)
    BY <1>1, <1>5, <2>1 DEF vaddr_scan
  <2>3. x.pc = "mark" /\ x.n = n /\ x.pages = range /\ x.left = range /\ x.frame = NoFrame
    BY ONLY <2>1
  <2>4. /\ start \in 0..KernelPages - 1 /\ range \subseteq 0..KernelPages
        /\ range \cap mem.vbits[Kernel] = {} /\ range # {}
    <3>1. PagesFor(n) \in Nat /\ PagesFor(n) > 0 /\ KernelPages \in Nat /\ KernelPages > 2
      BY Constants DEF PagesFor
    <3> QED BY <1>1, <2>2, <3>1, ScanResult
  <2>5. range \subseteq Page
    BY <2>4 DEF Page
  <2>6. x \in Point
    BY <2>1, <2>5 DEF Point
  <2>7. \A page \in range : mem.pte[Kernel][page] = NoFrame
    BY <1>3, <2>4, <2>5, Constants DEF PagesSound, EntriesSound
  <2>8. n = 0 => mem.free[Kernel] = <<>>
    BY <1>5, Constants DEF NeedsPages
  <2>9. \E s \in 0..KernelPages - 1 : range = s..s + PagesFor(n) - 1
    BY <1>1, <2>4
  <2>10. MainSound(mem, x)
    BY ONLY <2>3, <2>4, <2>7, <2>8, <2>9 DEF MainSound
  <2>11. Half(x) = {}
    BY ONLY <2>3 DEF Half
  <2>12. MainState(mem, x)
    BY <1>3, <2>6, <2>10, <2>11 DEF MainState
  <2>13. MainKeeps(mem, mem)
    BY DEF MainKeeps
  <2> QED BY <2>2, <2>12, <2>13, MainMoved
<1> QED BY <1>4, <1>5

(* mfree_page's next frame.                                                *)
LEMMA ClearFrameSound ==
    ASSUME PagesInv, NEW m \in Memory, PagesSound(m, {}), MainKeeps(mem, m),
           NEW pages, NEW left, ClearFrame(m, pages, left),
           pages \subseteq Page, left \subseteq pages, left # {},
           \A page \in pages \ left : m.pte[Kernel][page] = NoFrame
    PROVE  PagesInv'
<1>1. PICK page : page = Min(left)
  OBVIOUS
<1>2. PICK range : range = {page}
  OBVIOUS
<1>3. PICK freed : freed = pfree(m, {m.pte[Kernel][q] : q \in range})
  OBVIOUS
<1>4. PICK x : x = [Outside EXCEPT !.pc = "unmap", !.pages = pages, !.left = left]
  OBVIOUS
<1>5. {m.pte[Kernel][q] : q \in range} = {m.pte[Kernel][page]}
  BY ONLY <1>2
<1>6. MainStep(freed, x)
  BY <1>1, <1>3, <1>4, <1>5 DEF ClearFrame
<1>7. page \in left
  <2>1. left \subseteq Nat
    BY PageNumbers
  <2> QED BY ONLY <1>1, <2>1, SmallestPage, left # {}
<1>8. Kernel \in Space /\ range \subseteq Page
  BY <1>2, <1>7, Constants
<1>9. /\ freed \in Memory /\ SameHeap(m, freed) /\ freed.pte = m.pte
      /\ PagesSound(freed, {Kernel} \X range)
  BY ONLY <1>3, <1>8, PfreeSound, m \in Memory, PagesSound(m, {}), ZenonT(120)
<1>10. freed.table = m.table
  BY <1>3 DEF pfree, Memory
<1>11. x.pc = "unmap" /\ x.pages = pages /\ x.left = left /\ x \in Point
  BY <1>4 DEF Outside, Point
<1>12. Half(x) = {Kernel} \X range
  BY ONLY <1>1, <1>2, <1>11 DEF Half
<1>13. MainSound(freed, x)
  BY <1>9, <1>11 DEF MainSound
<1>14. MainState(freed, x)
  BY <1>9, <1>11, <1>12, <1>13 DEF MainState
<1>15. MainKeeps(mem, freed)
  BY <1>9, <1>10 DEF MainKeeps, SameHeap
<1> QED BY <1>6, <1>14, <1>15, MainMoved

LEMMA FreeStep ==
    ASSUME PagesInv, NEW b \in mem.live[Kernel], main_free(b), FreeAsserts(mem, Kernel, b)
    PROVE  PagesInv'
<1>1. PICK range : range = PagesReturned(mem, Kernel, b)
  OBVIOUS
<1>2. PICK returned : returned = ReturnBlock(mem, Kernel, b)
  OBVIOUS
<1>3. PICK cleared : cleared = Cleared(returned, Kernel, range)
  OBVIOUS
<1>4. /\ at.pc = "run"
      /\ range = {} => MainStep(cleared, at)
      /\ range # {} => ClearFrame(cleared, range, range)
  BY <1>1, <1>2, <1>3 DEF main_free
<1>5. mem \in Memory /\ at \in Point /\ PagesSound(mem, {}) /\ MainSound(mem, at)
  BY <1>4 DEF PagesInv, StateOK, Half
<1>6. Kernel \in Space /\ b \in Block
  BY <1>5, Constants, MemoryFields
<1>7. returned \in Memory /\ SamePages(mem, returned) /\ PagesSound(returned, {})
  BY ONLY <1>2, <1>5, <1>6, ReturnBlockSound
<1>8. cleared \in Memory /\ SamePages(returned, cleared) /\ PagesSound(cleared, {})
  BY ONLY <1>3, <1>6, <1>7, ClearedSound
<1>9. MainKeeps(mem, cleared)
  BY ONLY <1>7, <1>8 DEF MainKeeps, SamePages
<1>10. CASE range = {}
  <2>1. MainState(cleared, at)
    BY <1>4, <1>5, <1>8 DEF MainState, Half, MainSound
  <2> QED BY <1>4, <1>9, <1>10, <2>1, MainMoved
<1>11. CASE range # {}
  <2>1. range \subseteq Page
    BY ONLY <1>1, <1>5, <1>6, ReturnedPages
  <2> QED BY <1>4, <1>8, <1>9, <1>11, <2>1, ClearFrameSound
<1> QED BY <1>10, <1>11

(* The entry goes, and after the last one the marks.                       *)
LEMMA UnmapStep ==
    ASSUME PagesInv, pte_clear
    PROVE  PagesInv'
<1>1. PICK pages, left : pages = at.pages /\ left = at.left
  OBVIOUS
<1>2. PICK page : page = Min(left)
  OBVIOUS
<1>3. PICK range : range = {page}
  OBVIOUS
<1>4. PICK cleared : cleared = page_table_pte_remove(mem, Kernel, range)
  OBVIOUS
<1>5. /\ at.pc = "unmap"
      /\ left = {page} => MainStep(vaddr_remove(cleared, Kernel, pages), Outside)
      /\ left # {page} => ClearFrame(cleared, pages, left \ {page})
  BY <1>1, <1>2, <1>3, <1>4 DEF pte_clear
<1>6. mem \in Memory /\ at \in Point /\ PagesSound(mem, Half(at)) /\ MainSound(mem, at)
  BY DEF PagesInv, StateOK
<1>7. /\ left \subseteq pages /\ left # {} /\ pages \subseteq Page
      /\ \A q \in pages \ left : mem.pte[Kernel][q] = NoFrame
  BY <1>1, <1>5, <1>6 DEF MainSound, Point
<1>8. page \in left
  <2>1. left \subseteq Nat
    BY <1>7, PageNumbers
  <2> QED BY ONLY <1>2, <1>7, <2>1, SmallestPage
<1>9. Half(at) = {Kernel} \X range
  BY ONLY <1>1, <1>2, <1>3, <1>5 DEF Half
<1>10. Kernel \in Space /\ range \subseteq Page /\ PagesSound(mem, {Kernel} \X range)
  BY <1>3, <1>6, <1>7, <1>8, <1>9, Constants
<1>11. /\ cleared \in Memory /\ SameHeap(mem, cleared)
       /\ \A s \in Space, q \in Page :
                cleared.pte[s][q] = IF s = Kernel /\ q \in range THEN NoFrame ELSE mem.pte[s][q]
       /\ PagesSound(cleared, {})
  BY ONLY <1>4, <1>6, <1>10, PteRemoveSound
<1>12. cleared.table = mem.table
  BY <1>4, <1>6 DEF page_table_pte_remove, Memory
<1>13. MainKeeps(mem, cleared)
  BY <1>11, <1>12 DEF MainKeeps, SameHeap
<1>14. \A q \in pages \ (left \ {page}) : cleared.pte[Kernel][q] = NoFrame
  BY <1>3, <1>7, <1>10, <1>11
<1>15. CASE left = {page}
  <2>1. PICK removed : removed = vaddr_remove(cleared, Kernel, pages)
    OBVIOUS
  <2>2. \A q \in pages \cap Page : cleared.pte[Kernel][q] = NoFrame
    BY <1>14, <1>15
  <2>3. removed \in Memory /\ SameHeap(cleared, removed) /\ PagesSound(removed, {})
    BY ONLY <1>10, <1>11, <2>1, <2>2, VaddrRemoveSound
  <2>4. removed.table = cleared.table
    BY <1>11, <2>1 DEF vaddr_remove, Memory
  <2>5. MainKeeps(mem, removed)
    BY <1>13, <2>3, <2>4 DEF MainKeeps, SameHeap
  <2>6. MainState(removed, Outside)
    BY <2>3, OutsideSound
  <2>7. MainStep(removed, Outside)
    BY <1>5, <1>15, <2>1
  <2> QED BY <2>5, <2>6, <2>7, MainMoved
<1>16. CASE left # {page}
  <2>1. PICK rest : rest = left \ {page}
    OBVIOUS
  <2>2. rest \subseteq pages /\ rest # {} /\ ClearFrame(cleared, pages, rest)
        /\ \A q \in pages \ rest : cleared.pte[Kernel][q] = NoFrame
    BY <1>5, <1>7, <1>8, <1>14, <1>16, <2>1
  <2> QED BY <1>7, <1>11, <1>13, <2>2, ClearFrameSound
<1> QED BY <1>15, <1>16

(* Where the machine stops nothing else changes.                           *)
LEMMA PagesStay == PagesInv /\ UNCHANGED <<mem, at, held, loading>> => PagesInv'
BY DEF PagesInv, StateOK, TablesThere

LEMMA PagesMain == PagesInv /\ MainNext => PagesInv'
<1> SUFFICES ASSUME PagesInv, MainNext
             PROVE  PagesInv'
  OBVIOUS
<1>1. CASE \E n \in {0} \cup LargeSizes : vaddr_scan(n)
  BY <1>1, ScanStep
<1>2. CASE vaddr_set
  BY <1>2, MarkStep
<1>3. CASE frame_set
  <2>1. CASE mem.pte[Kernel][Min(at.left)] = NoFrame
    BY <1>3, <2>1, MapStep
  <2>2. CASE mem.pte[Kernel][Min(at.left)] # NoFrame
    BY <1>3, <2>2, PagesStay DEF frame_set
  <2> QED BY <2>1, <2>2
<1>4. ASSUME NEW b \in mem.live[Kernel], main_free(b)
      PROVE  PagesInv'
  <2>1. CASE FreeAsserts(mem, Kernel, b)
    BY <1>4, <2>1, FreeStep
  <2>2. CASE ~FreeAsserts(mem, Kernel, b)
    BY <1>4, <2>2, PagesStay DEF main_free
  <2> QED BY <2>1, <2>2
<1>5. CASE pte_clear
  BY <1>5, UnmapStep
<1> QED BY <1>1, <1>2, <1>3, <1>4, <1>5 DEF MainNext

(* While no process takes memory in the middle of main's calls, frames and *)
(* pages stay sound through every call of malloc_page, mfree_page,         *)
(* sys_malloc, sys_free, fork and execv.                                   *)
THEOREM PagesInvariance == "main undisturbed" \in Habits /\ Spec => []PagesInv
<1>1. CASE "main undisturbed" \in Habits
  <2>1. Init => PagesInv
    BY PagesInit
  <2>2. PagesInv /\ [Next]_vars => PagesInv'
    <3> SUFFICES ASSUME PagesInv, [Next]_vars
                 PROVE  PagesInv'
      OBVIOUS
    <3>1. CASE start_process
      BY <1>1, <3>1, PagesStart
    <3>2. CASE MainNext
      BY <3>2, PagesMain
    <3>3. CASE \E p \in Process : ProcessNext(p)
      BY <1>1, <3>3, PagesProcess
    <3>4. CASE UNCHANGED vars
      BY <3>4, PagesStay DEF vars
    <3> QED BY <3>1, <3>2, <3>3, <3>4 DEF Next
  <2> QED BY <2>1, <2>2, PTL DEF Spec
<1>2. CASE "main undisturbed" \notin Habits
  BY <1>2
<1> QED BY <1>1, <1>2

LEMMA Pairs ==
    ASSUME NEW S, NEW T, NEW x \in S \X T
    PROVE  x[1] \in S /\ x[2] \in T /\ x = <<x[1], x[2]>>
<1>1. PICK a \in S, b \in T : x = <<a, b>>
  OBVIOUS
<1> QED BY <1>1

(* PagesHaveOneOwner: no frame of user_pool or kernel_pool is the data of  *)
(* two pages, or data and page table at once, and what is mapped stays     *)
(* marked in both bitmaps, while main's calls are undisturbed and every    *)
(* page table gets a frame.                                                *)
THEOREM OneOwner ==
    {"main undisturbed", "room for page tables"} \subseteq Habits /\ Spec => []PagesHaveOneOwner
<1>1. "room for page tables" \in Habits /\ PagesInv => PagesHaveOneOwner
  <2> SUFFICES ASSUME "room for page tables" \in Habits, PagesInv
               PROVE  PagesHaveOneOwner
    OBVIOUS
  <2> DEFINE mapped == {x \in Space \X Page : mem.pte[x[1]][x[2]] # NoFrame}
             tables == {y \in Process \X Region : mem.table[y[1]][y[2]] # {}}
  <2>1. EntriesSound(mem, Half(at)) /\ TablesSound(mem)
    BY DEF PagesInv, PagesSound
  <2>2. \A y \in Process \X Region : NoFrame \notin mem.table[y[1]][y[2]]
    BY DEF PagesInv, TablesThere
  <2>3. \A x \in Space \X Page : x[1] \in Space /\ x[2] \in Page /\ x = <<x[1], x[2]>>
    BY Pairs
  <2>4. \A y \in Process \X Region : y[1] \in Process /\ y[2] \in Region /\ y = <<y[1], y[2]>>
    BY Pairs
  <2>5. ASSUME NEW x \in mapped
        PROVE  /\ x[2] \in mem.vbits[x[1]]
               /\ at.pc # "unmap" => mem.pte[x[1]][x[2]] \in mem.pbits
               /\ \A y \in mapped : mem.pte[x[1]][x[2]] = mem.pte[y[1]][y[2]] => x = y
               /\ \A y \in tables : mem.pte[x[1]][x[2]] \notin mem.table[y[1]][y[2]]
    <3>1. PICK s, page : s = x[1] /\ page = x[2]
      OBVIOUS
    <3>2. s \in Space /\ page \in Page /\ x = <<s, page>> /\ mem.pte[s][page] # NoFrame
      BY <2>3, <3>1
    <3>3. /\ page \in mem.vbits[s]
          /\ mem.pte[s][page] \in mem.pbits <=> <<s, page>> \notin Half(at)
          /\ \A u \in Space, q \in Page : mem.pte[u][q] = mem.pte[s][page] => u = s /\ q = page
          /\ \A c \in Process, r \in Region : mem.pte[s][page] \notin mem.table[c][r]
      BY <2>1, <3>2 DEF EntriesSound
    <3>4. at.pc # "unmap" => Half(at) = {}
      BY DEF Half
    <3>5. \A y \in mapped : mem.pte[s][page] = mem.pte[y[1]][y[2]] => x = y
      BY <2>3, <3>2, <3>3
    <3>6. \A y \in tables : mem.pte[s][page] \notin mem.table[y[1]][y[2]]
      BY <2>4, <3>3
    <3> QED BY <3>1, <3>3, <3>4, <3>5, <3>6
  <2>6. ASSUME NEW y \in tables
        PROVE  /\ mem.table[y[1]][y[2]] \subseteq mem.pbits
               /\ \A z \in tables : mem.table[y[1]][y[2]] \cap mem.table[z[1]][z[2]] # {} => y = z
    <3>1. PICK p, r : p = y[1] /\ r = y[2]
      OBVIOUS
    <3>2. p \in Process /\ r \in Region /\ y = <<p, r>> /\ NoFrame \notin mem.table[p][r]
      BY <2>2, <2>4, <3>1
    <3>3. \A f \in mem.table[p][r] :
              f \in mem.pbits /\ \A c \in Process, u \in Region : f \in mem.table[c][u] => c = p /\ u = r
      BY <2>1, <3>2 DEF TablesSound
    <3>4. ASSUME NEW z \in tables, mem.table[p][r] \cap mem.table[z[1]][z[2]] # {}
          PROVE  y = z
      <4>1. PICK f : f \in mem.table[p][r] /\ f \in mem.table[z[1]][z[2]]
        BY ONLY <3>4
      <4>2. z[1] \in Process /\ z[2] \in Region /\ z = <<z[1], z[2]>>
        BY <2>4
      <4>3. z[1] = p /\ z[2] = r
        BY ONLY <3>3, <4>1, <4>2, Zenon
      <4> QED BY ONLY <3>2, <4>2, <4>3, Zenon
    <3> QED BY <3>1, <3>3, <3>4
  <2> QED BY ONLY <2>5, <2>6 DEF PagesHaveOneOwner
<1>2. CASE {"main undisturbed", "room for page tables"} \subseteq Habits
  <2>1. "main undisturbed" \in Habits /\ "room for page tables" \in Habits
    BY <1>2
  <2>2. PagesInv => PagesHaveOneOwner
    BY <1>1, <2>1
  <2>3. Spec => []PagesInv
    BY <2>1, PagesInvariance
  <2> QED BY <2>2, <2>3, PTL
<1>3. CASE ~({"main undisturbed", "room for page tables"} \subseteq Habits)
  BY <1>3
<1> QED BY <1>2, <1>3

-----------------------------------------------------------------------------
(* What arenas and large blocks cover                                      *)

LEMMA SameCover ==
    ASSUME NEW A, NEW A2, NEW size, Laid(A, size),
           \A p \in Page : A2[p] # NoArena <=> A[p] # NoArena,
           \A p \in Page : A[p] # NoArena => PagesAt(A2, p) = PagesAt(A, p)
    PROVE  Laid(A2, size) /\ Covered(A2) = Covered(A)
<1>1. Laid(A2, size)
  BY DEF Laid
<1>2. Covered(A2) = Covered(A)
  BY DEF Covered
<1> QED BY <1>1, <1>2

(* A new one at a page.                                                    *)
LEMMA AddCover ==
    ASSUME NEW A, NEW A2, NEW size, Laid(A, size), NEW page \in Page, page < size,
           A[page] = NoArena, A2[page] # NoArena, \A q \in Page : q # page => A2[q] = A[q],
           NEW range, range = PagesAt(A2, page), range \subseteq Page, range \cap Covered(A) = {}
    PROVE  Laid(A2, size) /\ Covered(A2) = Covered(A) \cup range
<1>1. \A q \in Page : q # page => PagesAt(A2, q) = PagesAt(A, q)
  BY DEF PagesAt
<1>2. \A q \in Page : A[q] # NoArena => q < size /\ PagesAt(A, q) \subseteq Covered(A) /\ PagesAt(A, q) \subseteq Page
  BY DEF Laid, Covered
<1>3. \A p, q \in Page : A[p] # NoArena /\ A[q] # NoArena /\ PagesAt(A, p) \cap PagesAt(A, q) # {} => p = q
  BY DEF Laid
<1>4. ASSUME NEW p \in Page, A2[p] # NoArena
      PROVE  /\ p < size /\ PagesAt(A2, p) \subseteq Page
             /\ \A q \in Page : A2[q] # NoArena /\ PagesAt(A2, p) \cap PagesAt(A2, q) # {} => p = q
  <2>1. p # page => A[p] # NoArena /\ PagesAt(A2, p) = PagesAt(A, p)
    BY <1>1, <1>4
  <2>2. \A q \in Page : q # page /\ A2[q] # NoArena => A[q] # NoArena /\ PagesAt(A2, q) = PagesAt(A, q)
    BY <1>1
  <2>3. \A q \in Page : q # page /\ A2[q] # NoArena => PagesAt(A2, q) \cap range = {}
    BY <1>2, <2>2
  <2> QED BY <1>2, <1>3, <1>4, <2>1, <2>2, <2>3
<1>5. Laid(A2, size)
  BY <1>4 DEF Laid
<1>6. Covered(A2) = Covered(A) \cup range
  <2>1. \A q \in Page : q \in Covered(A2) <=> \E p \in Page : A2[p] # NoArena /\ q \in PagesAt(A2, p)
    BY DEF Covered
  <2>2. \A q \in Page : q \in Covered(A) <=> \E p \in Page : A[p] # NoArena /\ q \in PagesAt(A, p)
    BY DEF Covered
  <2>3. \A q \in Page : q \in Covered(A2) <=> q \in Covered(A) \/ q \in range
    BY <1>1, <2>1, <2>2
  <2>4. Covered(A2) \subseteq Page /\ Covered(A) \subseteq Page
    BY DEF Covered
  <2> QED BY <2>3, <2>4
<1> QED BY <1>5, <1>6

(* One that goes, with the headers of all its pages.                       *)
InPlace(A) == \A q \in Page : A[q] # NoArena => q \in PagesAt(A, q)

LEMMA DropCover ==
    ASSUME NEW A, NEW A2, NEW size, Laid(A, size), InPlace(A), NEW page \in Page, A[page] # NoArena,
           NEW range, range = PagesAt(A, page),
           \A q \in Page : A2[q] = IF q \in range THEN NoArena ELSE A[q]
    PROVE  /\ Laid(A2, size) /\ Covered(A2) = Covered(A) \ range
           /\ \A q \in Page : A2[q] = IF q = page THEN NoArena ELSE A[q]
<1>1. \A p, q \in Page : A[p] # NoArena /\ A[q] # NoArena /\ PagesAt(A, p) \cap PagesAt(A, q) # {} => p = q
  BY DEF Laid
<1>2. \A q \in Page : A[q] # NoArena => q \in PagesAt(A, q)
  BY DEF InPlace
<1>3. ASSUME NEW q \in Page
      PROVE  A2[q] = IF q = page THEN NoArena ELSE A[q]
  <2>1. CASE q \in range
    <3>1. A[q] # NoArena => q = page
      BY <1>1, <1>2, <2>1
    <3> QED BY <2>1, <3>1
  <2>2. CASE q \notin range
    BY <1>2, <2>2
  <2> QED BY <2>1, <2>2
<1>4. \A q \in Page : q # page => PagesAt(A2, q) = PagesAt(A, q)
  BY <1>3 DEF PagesAt
<1>5. \A q \in Page : A2[q] # NoArena => q # page /\ A[q] # NoArena /\ PagesAt(A2, q) = PagesAt(A, q)
  BY <1>3, <1>4
<1>6. Laid(A2, size)
  BY <1>5 DEF Laid
<1>7. \A x \in Page : x \in Covered(A2) <=> x \in Covered(A) /\ x \notin range
  <2>1. \A x \in Page : x \in Covered(A2) <=> \E q \in Page : A2[q] # NoArena /\ x \in PagesAt(A2, q)
    BY DEF Covered
  <2>2. \A x \in Page : x \in Covered(A) <=> \E q \in Page : A[q] # NoArena /\ x \in PagesAt(A, q)
    BY DEF Covered
  <2>3. \A q \in Page : A2[q] # NoArena <=> q # page /\ A[q] # NoArena
    BY <1>3
  <2>4. \A q \in Page : q # page /\ A[q] # NoArena => PagesAt(A, q) \cap range = {}
    BY <1>1
  <2> QED BY ONLY <1>5, <2>1, <2>2, <2>3, <2>4, range = PagesAt(A, page), page \in Page, A[page] # NoArena
<1>8. Covered(A2) = Covered(A) \ range
  <2>1. Covered(A2) \subseteq Page /\ Covered(A) \subseteq Page
    BY DEF Covered
  <2> QED BY <1>7, <2>1
<1> QED BY <1>3, <1>6, <1>8

(* The pages of a space in sets.                                           *)
LEMMA TakeDivided ==
    ASSUME NEW s, NEW H, NEW V, NEW K, NEW E, NEW R, NEW B, Divided(s, H, V, K, E, R, B),
           NEW range, range \cap V = {}, Whole(range, Size(s))
    PROVE  Divided(s, H, V \cup range, K, E, R, B \cup range)
BY DEF Divided, Whole

LEMMA LoseDivided ==
    ASSUME NEW s, NEW H, NEW V, NEW K, NEW E, NEW R, NEW B, Divided(s, H, V, K, E, R, B),
           NEW range, range \subseteq B, Whole(range, Size(s)), Whole(B \ range, Size(s))
    PROVE  Divided(s, H, V, K \cup range, E, R, B \ range)
BY DEF Divided, Whole

LEMMA FillDivided ==
    ASSUME NEW s, NEW H, NEW V, NEW K, NEW E, NEW R, NEW B, Divided(s, H, V, K, E, R, B),
           NEW range, range \subseteq B, range \subseteq E, Whole(B \ range, Size(s))
    PROVE  Divided(s, H \cup range, V, K, E, R, B \ range)
BY DEF Divided, Whole

LEMMA ReturnDivided ==
    ASSUME NEW s, NEW H, NEW V, NEW K, NEW E, NEW R, NEW B, Divided(s, H, V, K, E, R, B),
           NEW range, range \subseteq H, Whole(B \cup range, Size(s))
    PROVE  Divided(s, H \ range, V, K, E, R, B \cup range)
BY DEF Divided, Whole

LEMMA ReleaseDivided ==
    ASSUME NEW s, NEW H, NEW V, NEW K, NEW E, NEW R, NEW B, Divided(s, H, V, K, E, R, B),
           NEW range, range \subseteq B, NEW E2, E \ B \subseteq E2, Whole(B \ range, Size(s))
    PROVE  Divided(s, H, V \ range, K, E2, R, B \ range)
BY DEF Divided, Whole

LEMMA ReserveDivided ==
    ASSUME NEW s, NEW H, NEW V, NEW K, NEW E, NEW R, NEW B, Divided(s, H, V, K, E, R, B),
           NEW range, range \subseteq B, Whole(range, Size(s)), Whole(B \ range, Size(s))
    PROVE  Divided(s, H, V, K, E, R \cup range, B \ range)
BY DEF Divided, Whole

-----------------------------------------------------------------------------
(* The blocks of a space                                                   *)

LEMMA BlockNumbers ==
    ASSUME NEW page \in Page
    PROVE  /\ IsFiniteSet(BlocksOf(page)) /\ Cardinality(BlocksOf(page)) = PerArena
           /\ BlocksOf(page) \subseteq Block
           /\ \A b \in BlocksOf(page) : b[1] = page /\ b[2] \in 1..PerArena
           /\ \A b \in Block : b[1] = page /\ b[2] # 0 => b \in BlocksOf(page)
<1>1. BlocksOf(page) = {page} \X (1..PerArena)
  BY DEF BlocksOf
<1>2. IsFiniteSet({page}) /\ Cardinality({page}) = 1
  BY FS_Singleton
<1>3. IsFiniteSet(1..PerArena) /\ Cardinality(1..PerArena) = PerArena
  BY FS_Interval, Constants
<1>4. IsFiniteSet(BlocksOf(page)) /\ Cardinality(BlocksOf(page)) = 1 * PerArena
  BY <1>1, <1>2, <1>3, FS_Product, ZenonT(120)
<1>5. BlocksOf(page) \subseteq Block /\ \A b \in BlocksOf(page) : b[1] = page /\ b[2] \in 1..PerArena
  BY Constants DEF BlocksOf, Block
<1>6. \A b \in Block : b[1] = page /\ b[2] # 0 => b \in BlocksOf(page)
  BY Constants DEF BlocksOf, Block
<1> QED BY <1>4, <1>5, <1>6, Constants

LEMMA TailResult ==
    ASSUME NEW S, NEW list \in Seq(S), list # <<>>, IsInjective(list)
    PROVE  /\ Tail(list) \in Seq(S) /\ Head(list) \in Range(list)
           /\ Range(Tail(list)) = Range(list) \ {Head(list)} /\ IsInjective(Tail(list))
<1>1. PICK t, n : t = Tail(list) /\ n = Len(list)
  OBVIOUS
<1>2. /\ n \in Nat /\ n > 0 /\ DOMAIN list = 1..n /\ t \in Seq(S) /\ Len(t) = n - 1
      /\ DOMAIN t = 1..n - 1 /\ \A i \in 1..n - 1 : t[i] = list[i + 1]
      /\ Head(list) = list[1]
  BY <1>1, HeadTailProperties, LenProperties, EmptySeq
<1>3. \A i, j \in 1..n : list[i] = list[j] => i = j
  BY <1>2 DEF IsInjective
<1>4. IsInjective(t)
  <2> SUFFICES ASSUME NEW i \in 1..n - 1, NEW j \in 1..n - 1, t[i] = t[j]
               PROVE  i = j
    BY <1>2 DEF IsInjective
  <2>1. i + 1 \in 1..n /\ j + 1 \in 1..n /\ list[i + 1] = list[j + 1]
    BY <1>2
  <2> QED BY <1>3, <2>1, <1>2
<1>5. ASSUME NEW x
      PROVE  x \in Range(t) <=> x \in Range(list) /\ x # list[1]
  <2>1. x \in Range(t) <=> \E i \in 1..n - 1 : x = list[i + 1]
    BY <1>2 DEF Range
  <2>2. x \in Range(list) <=> \E i \in 1..n : x = list[i]
    BY <1>2 DEF Range
  <2>3. ASSUME NEW i \in 1..n - 1, x = list[i + 1]
        PROVE  x \in Range(list) /\ x # list[1]
    BY <1>2, <1>3, <2>2, <2>3
  <2>4. ASSUME NEW i \in 1..n, x = list[i], x # list[1]
        PROVE  x \in Range(t)
    <3>1. i # 1 /\ i - 1 \in 1..n - 1 /\ x = list[(i - 1) + 1]
      BY <1>2, <2>4
    <3> QED BY <2>1, <3>1
  <2> QED BY <2>1, <2>2, <2>3, <2>4
<1>6. list[1] \in Range(list)
  BY <1>2 DEF Range
<1> QED BY <1>1, <1>2, <1>4, <1>5, <1>6

LEMMA AppendResult ==
    ASSUME NEW S, NEW list \in Seq(S), NEW b \in S, b \notin Range(list), IsInjective(list)
    PROVE  /\ Append(list, b) \in Seq(S) /\ IsInjective(Append(list, b))
           /\ Range(Append(list, b)) = Range(list) \cup {b}
<1>1. PICK t, n : t = Append(list, b) /\ n = Len(list)
  OBVIOUS
<1>2. /\ n \in Nat /\ DOMAIN list = 1..n /\ t \in Seq(S) /\ DOMAIN t = 1..n + 1
      /\ \A i \in 1..n : t[i] = list[i]
      /\ t[n + 1] = b
  BY <1>1, AppendProperties, LenProperties
<1>3. \A i, j \in 1..n : list[i] = list[j] => i = j
  BY <1>2 DEF IsInjective
<1>4. \A i \in 1..n : list[i] # b /\ list[i] \in Range(list)
  BY <1>2 DEF Range
<1>5. \A i \in 1..n + 1 : i \in 1..n \/ i = n + 1
  BY <1>2
<1>6. IsInjective(t)
  BY <1>2, <1>3, <1>4, <1>5 DEF IsInjective
<1>7. ASSUME NEW x
      PROVE  x \in Range(t) <=> x \in Range(list) \/ x = b
  <2>1. x \in Range(t) <=> \E i \in 1..n + 1 : x = t[i]
    BY <1>2 DEF Range
  <2>2. x \in Range(list) <=> \E i \in 1..n : x = list[i]
    BY <1>2 DEF Range
  <2>3. n + 1 \in 1..n + 1 /\ \A i \in 1..n : i \in 1..n + 1
    BY <1>2
  <2> QED BY <1>2, <1>5, <2>1, <2>2, <2>3
<1> QED BY <1>1, <1>2, <1>6, <1>7

(* A header that is there lies in the pages it stands for.                 *)
LEMMA HeadersInPlace ==
    ASSUME NEW s, NEW F, NEW L, NEW A \in [Page -> Arena], NEW P, HeapSound(s, F, L, A, P)
    PROVE  InPlace(A)
<1> SUFFICES ASSUME NEW q \in Page, A[q] # NoArena
             PROVE  q \in PagesAt(A, q)
  BY DEF InPlace
<1>1. q \in Nat /\ A[q].cnt \in Int
  BY PageNumbers DEF Arena
<1>2. A[q].large => A[q].cnt > 0
  BY DEF HeapSound, ArenaSound
<1> QED BY <1>1, <1>2 DEF PagesAt

(* The header at a page counts d blocks more.                              *)
Counted(A, A2, page, d) ==
    \A q \in Page : A2[q] = IF q = page THEN [A[q] EXCEPT !.cnt = @ + d] ELSE A[q]

Recounted(A, A2, page, d) ==
    /\ \A q \in Page : A2[q].large = A[q].large /\ A2[q].desc = A[q].desc
    /\ A2[page].cnt = A[page].cnt + d
    /\ \A q \in Page : q # page => A2[q] = A[q]

LEMMA CountedResult ==
    ASSUME NEW A \in [Page -> Arena], NEW A2, NEW page \in Page, NEW d \in Int, Counted(A, A2, page, d)
    PROVE  Recounted(A, A2, page, d)
<1>1. A[page] \in Arena /\ A2[page] = [A[page] EXCEPT !.cnt = @ + d]
  BY DEF Counted
<1>2. A2[page].large = A[page].large /\ A2[page].desc = A[page].desc /\ A2[page].cnt = A[page].cnt + d
  BY <1>1 DEF Arena
<1>3. \A q \in Page : q # page => A2[q] = A[q]
  BY DEF Counted
<1>4. \A q \in Page : A2[q].large = A[q].large /\ A2[q].desc = A[q].desc
  BY <1>2, <1>3
<1> QED BY <1>2, <1>3, <1>4 DEF Recounted

(* A count that changes leaves the header what it is, where it is.         *)
LEMMA CountedCover ==
    ASSUME NEW A, NEW A2, NEW page \in Page, NEW d, Recounted(A, A2, page, d), NEW size, Laid(A, size),
           ~A[page].large, A[page] # NoArena, A[page].desc # Nobody
    PROVE  /\ Laid(A2, size) /\ Covered(A2) = Covered(A)
           /\ \A q \in Page : A2[q] # NoArena <=> A[q] # NoArena
<1>1. A2[page].desc = A[page].desc /\ \A q \in Page : q # page => A2[q] = A[q]
  BY DEF Recounted
<1>2. NoArena.desc = Nobody
  BY DEF NoArena
<1>3. \A q \in Page : A2[q] # NoArena <=> A[q] # NoArena
  BY <1>1, <1>2
<1>4. \A q \in Page : A2[q].large = A[q].large /\ (q # page => A2[q] = A[q])
  BY DEF Recounted
<1>5. \A q \in Page : PagesAt(A2, q) = PagesAt(A, q)
  BY <1>4 DEF PagesAt
<1> QED BY ONLY <1>3, <1>5, SameCover, Laid(A, size)

(* PopBlock: the first free block is in use.                               *)
Popping(F, L, b, page, F2, L2) ==
    F # <<>> /\ b = Head(F) /\ page = b[1] /\ F2 = Tail(F) /\ L2 = L \cup {b}
Idle(s, F, L, A, P, page, size) == HeapSound(s, F, L, A, P) /\ NoneIdle(L, A, {page}) /\ Laid(A, size)
Settled(s, F, L, A, P, size) == HeapSound(s, F, L, A, P) /\ NoneIdle(L, A, {}) /\ Laid(A, size)
Fewer(A, A2, page) == Counted(A, A2, page, -1)

LEMMA PopHeap ==
    ASSUME NEW s \in Space, NEW F \in Seq(Block), NEW L \in SUBSET Block,
           NEW A \in [Page -> Arena], NEW P \in SUBSET Process, NEW b, NEW page, NEW F2, NEW L2,
           Popping(F, L, b, page, F2, L2), NEW size, Idle(s, F, L, A, P, page, size),
           NEW A2, Fewer(A, A2, page)
    PROVE  Settled(s, F2, L2, A2, P, size) /\ Covered(A2) = Covered(A)
<1>0. /\ L \subseteq Block /\ P \subseteq Process
      /\ F # <<>> /\ b = Head(F) /\ page = b[1] /\ F2 = Tail(F) /\ L2 = L \cup {b}
      /\ HeapSound(s, F, L, A, P) /\ NoneIdle(L, A, {page}) /\ Laid(A, size)
      /\ Counted(A, A2, page, -1)
  BY DEF Popping, Idle, Fewer
<1>1. PICK listed, rest : listed = Range(F) /\ rest = Range(F2)
  OBVIOUS
<1>2. IsInjective(F) /\ listed \cap L = {}
  BY <1>0, <1>1 DEF HeapSound
<1>3. /\ F2 \in Seq(Block) /\ b \in listed /\ rest = listed \ {b} /\ IsInjective(F2)
  BY <1>0, <1>1, <1>2, TailResult
<1>4. b \in Block /\ page \in Page /\ b[2] \in 0..PerArena /\ b = <<page, b[2]>> /\ b \notin L
  BY <1>0, <1>1, <1>2, <1>3 DEF Block
<1>5. A[page] # NoArena /\ (A[page].large <=> b[2] = 0)
  BY <1>0, <1>1, <1>3 DEF HeapSound
<1>6. ArenaSound(s, A[page], page, listed, L, P)
  BY <1>0, <1>1, <1>4, <1>5 DEF HeapSound
<1>7. ~A[page].large /\ b[2] # 0
  BY <1>0, <1>4, <1>5, <1>6 DEF ArenaSound
<1>8. b \in BlocksOf(page)
  BY <1>0, <1>1, <1>4, <1>7, BlockNumbers
<1>9. A[page].desc = s /\ BlocksOf(page) \subseteq listed \cup L
  BY <1>0, <1>3, <1>6, <1>7, <1>8 DEF ArenaSound
<1>10. Recounted(A, A2, page, -1)
  BY <1>0, <1>1, <1>4, CountedResult
<1>11. A[page].desc # Nobody
  BY <1>0, <1>9, Constants
<1>12. /\ Laid(A2, size) /\ Covered(A2) = Covered(A)
       /\ \A q \in Page : A2[q] # NoArena <=> A[q] # NoArena
  BY ONLY <1>4, <1>5, <1>7, <1>10, <1>11, CountedCover, <1>0
<1>13. rest \cup L2 = listed \cup L /\ rest \cap L2 = {}
  BY <1>0, <1>1, <1>2, <1>3
<1>14. \A c \in rest \cup L2 : A2[c[1]] # NoArena /\ (A2[c[1]].large <=> c[2] = 0)
  <2>1. \A c \in listed \cup L : c \in Block /\ c[1] \in Page
    <3>1. listed \subseteq Block
      BY <1>0, <1>1 DEF Range
    <3> QED BY <3>1 DEF Block
  <2>2. \A c \in listed \cup L : A[c[1]] # NoArena /\ (A[c[1]].large <=> c[2] = 0)
    BY <1>0, <1>1 DEF HeapSound
  <2> QED BY <1>0, <1>10, <1>12, <1>13, <2>1, <2>2 DEF Recounted
<1>15. ASSUME NEW q \in Page, A2[q] # NoArena
       PROVE  ArenaSound(s, A2[q], q, rest, L2, P)
  <2>1. ArenaSound(s, A[q], q, listed, L, P)
    BY <1>0, <1>1, <1>12, <1>15 DEF HeapSound
  <2>2. CASE q = page
    <3>1. Cardinality(BlocksOf(page) \cap L2) = Cardinality(BlocksOf(page) \cap L) + 1
      <4>1. IsFiniteSet(BlocksOf(page) \cap L) /\ b \notin BlocksOf(page) \cap L
        BY <1>0, <1>4, BlockNumbers, FS_Intersection
      <4>2. BlocksOf(page) \cap L2 = (BlocksOf(page) \cap L) \cup {b}
        BY <1>0, <1>1, <1>8
      <4> QED BY ONLY <4>1, <4>2, FS_AddElement
    <3>2. Cardinality(BlocksOf(page) \cap L) \in Int /\ A[page].cnt \in Int
      <4>1. IsFiniteSet(BlocksOf(page) \cap L)
        BY <1>0, <1>4, BlockNumbers, FS_Intersection
      <4>2. Cardinality(BlocksOf(page) \cap L) \in Nat
        BY ONLY <4>1, FS_CardinalityType
      <4>3. A[page].cnt \in Int
        BY <1>0, <1>4 DEF Arena
      <4> QED BY <4>2, <4>3
    <3>3. A2[page].large = A[page].large /\ A2[page].desc = A[page].desc /\ A2[page].cnt = A[page].cnt - 1
      BY <1>0, <1>10, <3>2, <1>4 DEF Recounted
    <3>4. A[page].cnt + Cardinality(BlocksOf(page) \cap L) = PerArena
      BY <1>0, <1>6, <1>7 DEF ArenaSound
    <3>5. A2[page].cnt + Cardinality(BlocksOf(page) \cap L2) = PerArena
      BY ONLY <3>1, <3>2, <3>3, <3>4
    <3>6. A2[page].desc \in IF s = Kernel THEN {Kernel} ELSE P
      BY <1>0, <1>6, <3>3 DEF ArenaSound
    <3> QED BY <1>0, <1>7, <1>9, <1>13, <2>2, <3>3, <3>5, <3>6 DEF ArenaSound
  <2>3. CASE q # page
    <3>1. A2[q] = A[q]
      BY <1>0, <1>10, <2>3 DEF Recounted
    <3>2. b \notin BlocksOf(q) /\ b # <<q, 0>>
      BY <1>0, <1>1, <1>4, <2>3, BlockNumbers
    <3>3. BlocksOf(q) \cap L2 = BlocksOf(q) \cap L /\ (<<q, 0>> \in L2 <=> <<q, 0>> \in L)
      BY <1>0, <1>1, <3>2
    <3>4. BlocksOf(q) \cap rest = BlocksOf(q) \cap listed
      BY <1>0, <1>3, <3>2
    <3> QED BY ONLY <1>13, <2>1, <3>1, <3>3, <3>4 DEF ArenaSound
  <2> QED BY <2>2, <2>3
<1>16. HeapSound(s, F2, L2, A2, P)
  BY <1>0, <1>1, <1>3, <1>13, <1>14, <1>15 DEF HeapSound
<1>17. NoneIdle(L2, A2, {})
  <2> SUFFICES ASSUME NEW q \in Page, A2[q] # NoArena, ~A2[q].large
               PROVE  BlocksOf(q) \cap L2 # {}
    BY <1>0 DEF NoneIdle
  <2>1. CASE q = page
    BY <1>0, <1>1, <1>8, <2>1
  <2>2. CASE q # page
    <3>1. A2[q] = A[q]
      BY <1>0, <1>10, <2>2 DEF Recounted
    <3>2. BlocksOf(q) \cap L # {}
      BY <1>0, <1>1, <2>2, <3>1 DEF NoneIdle
    <3> QED BY <1>0, <1>1, <3>2
  <2> QED BY <2>1, <2>2
<1> QED BY <1>0, <1>1, <1>12, <1>16, <1>17 DEF Settled

(* A change of the blocks and the header of one page.                      *)
SameElsewhere(page, F, L, A, F2, L2, A2) ==
    /\ \A q \in Page : q # page => A2[q] = A[q]
    /\ \A b \in Block : b[1] # page => (b \in Range(F2) <=> b \in Range(F)) /\ (b \in L2 <=> b \in L)
SoundHere(s, page, F, L, A, P) ==
    /\ \A b \in Range(F) \cup L : b[1] = page =>
            A[page] # NoArena /\ (A[page].large <=> b[2] = 0) /\ ~(b \in Range(F) /\ b \in L)
    /\ A[page] # NoArena => ArenaSound(s, A[page], page, Range(F), L, P)

LEMMA LocalHeap ==
    ASSUME NEW s \in Space, NEW F \in Seq(Block), NEW L, L \subseteq Block, NEW A, NEW P,
           HeapSound(s, F, L, A, P), NEW page \in Page,
           NEW F2 \in Seq(Block), NEW L2, L2 \subseteq Block, NEW A2, IsInjective(F2),
           SameElsewhere(page, F, L, A, F2, L2, A2), SoundHere(s, page, F2, L2, A2, P)
    PROVE  /\ HeapSound(s, F2, L2, A2, P)
           /\ NoneIdle(L, A, {page}) => NoneIdle(L2, A2, {page})
<1>1. PICK listed, now : listed = Range(F) /\ now = Range(F2)
  OBVIOUS
<1>2. listed \subseteq Block /\ now \subseteq Block
  BY <1>1 DEF Range
<1>3. \A q \in Page : q # page => A2[q] = A[q]
  BY DEF SameElsewhere
<1>4. \A b \in Block : b[1] # page => (b \in now <=> b \in listed) /\ (b \in L2 <=> b \in L)
  BY <1>1 DEF SameElsewhere
<1>5. now \cap L2 = {}
  <2> SUFFICES ASSUME NEW b \in now, b \in L2
               PROVE  FALSE
    OBVIOUS
  <2>1. b \in Block
    BY <1>2
  <2>2. CASE b[1] = page
    BY <1>1, <2>2 DEF SoundHere
  <2>3. CASE b[1] # page
    BY <1>1, <1>4, <2>1, <2>3 DEF HeapSound
  <2> QED BY <2>2, <2>3
<1>6. ASSUME NEW b \in now \cup L2
      PROVE  A2[b[1]] # NoArena /\ (A2[b[1]].large <=> b[2] = 0)
  <2>1. b \in Block /\ b[1] \in Page
    BY <1>2 DEF Block
  <2>2. CASE b[1] = page
    BY <1>1, <2>2 DEF SoundHere
  <2>3. CASE b[1] # page
    <3>1. b \in listed \cup L /\ A2[b[1]] = A[b[1]]
      BY <1>3, <1>4, <2>1, <2>3
    <3> QED BY <1>1, <3>1 DEF HeapSound
  <2> QED BY <2>2, <2>3
<1>7. ASSUME NEW q \in Page, q # page
      PROVE  /\ BlocksOf(q) \cap L2 = BlocksOf(q) \cap L /\ (<<q, 0>> \in L2 <=> <<q, 0>> \in L)
             /\ BlocksOf(q) \cap now = BlocksOf(q) \cap listed
  <2>1. \A b \in BlocksOf(q) : b \in Block /\ b[1] # page
    BY <1>7, BlockNumbers
  <2>2. <<q, 0>> \in Block /\ <<q, 0>>[1] # page
    BY <1>7, Constants DEF Block
  <2> QED BY <1>4, <2>1, <2>2
<1>8. ASSUME NEW q \in Page, A2[q] # NoArena
      PROVE  ArenaSound(s, A2[q], q, now, L2, P)
  <2>1. CASE q = page
    BY <1>1, <1>8, <2>1 DEF SoundHere
  <2>2. CASE q # page
    <3>1. A2[q] = A[q] /\ ArenaSound(s, A[q], q, listed, L, P)
      BY <1>1, <1>3, <1>8, <2>2 DEF HeapSound
    <3>2. /\ BlocksOf(q) \cap L2 = BlocksOf(q) \cap L /\ (<<q, 0>> \in L2 <=> <<q, 0>> \in L)
          /\ BlocksOf(q) \cap now = BlocksOf(q) \cap listed
      BY <1>7, <2>2
    <3>3. BlocksOf(q) \subseteq listed \cup L => BlocksOf(q) \subseteq now \cup L2
      BY ONLY <3>2
    <3> QED BY ONLY <3>1, <3>2, <3>3 DEF ArenaSound
  <2> QED BY <2>1, <2>2
<1>9. HeapSound(s, F2, L2, A2, P)
  BY <1>1, <1>5, <1>6, <1>8 DEF HeapSound
<1>10. NoneIdle(L, A, {page}) => NoneIdle(L2, A2, {page})
  BY <1>3, <1>7 DEF NoneIdle
<1> QED BY <1>9, <1>10

(* No block lies in a page that is not part of the heap.                   *)
Bare(F, L, A, page) == A[page] = NoArena /\ \A b \in Range(F) \cup L : b[1] # page

LEMMA NoBlockHere ==
    ASSUME NEW s, NEW F \in Seq(Block), NEW L, L \subseteq Block, NEW A \in [Page -> Arena], NEW P,
           HeapSound(s, F, L, A, P), NEW page \in Page, page \notin Covered(A)
    PROVE  Bare(F, L, A, page)
<1>1. InPlace(A)
  BY HeadersInPlace
<1>2. A[page] = NoArena
  BY <1>1 DEF InPlace, Covered
<1> QED BY <1>2 DEF HeapSound, Bare

Shrinks(A, A2, range) == Covered(A2) = Covered(A) \ range /\ range \subseteq Covered(A)
SameCovered(A, A2) == Covered(A2) = Covered(A)
Grows(A, A2, range) == Covered(A2) = Covered(A) \cup range
Opened(A, A2, page, a) == \A q \in Page : A2[q] = IF q = page THEN a ELSE A[q]

(* NewArena's blocks are free and in no list yet.                          *)
Room(s, A, P, page, range, size) ==
    s \in P \cup {Kernel} /\ page < size /\ range \subseteq Page /\ range \cap Covered(A) = {}
ArenaPut(s, F, A, page, range, F2, A2) ==
    /\ F = <<>> /\ range = {page} /\ F2 = ArenaBlocks(page)
    /\ Opened(A, A2, page, [cnt |-> PerArena, large |-> FALSE, desc |-> s])

LEMMA ArenaHeap ==
    ASSUME NEW s \in Space, NEW F, NEW L \in SUBSET Block, NEW A \in [Page -> Arena], NEW P, NEW size,
           Settled(s, F, L, A, P, size), NEW page \in Page, NEW range, Room(s, A, P, page, range, size),
           NEW F2, NEW A2, ArenaPut(s, F, A, page, range, F2, A2)
    PROVE  Idle(s, F2, L, A2, P, page, size) /\ Grows(A, A2, range)
<1>0. /\ L \subseteq Block /\ s \in P \cup {Kernel}
      /\ HeapSound(s, <<>>, L, A, P) /\ NoneIdle(L, A, {}) /\ Laid(A, size)
      /\ page < size /\ page \notin Covered(A) /\ range = {page} /\ F2 = ArenaBlocks(page) /\ F = <<>>
      /\ Opened(A, A2, page, [cnt |-> PerArena, large |-> FALSE, desc |-> s])
  BY DEF Settled, Room, ArenaPut
<1>00. PICK a : a = [cnt |-> PerArena, large |-> FALSE, desc |-> s]
  OBVIOUS
<1>1. <<>> \in Seq(Block) /\ Range(<<>>) = {}
  BY <1>0 DEF Range
<1>2. A[page] = NoArena /\ \A b \in L : b[1] # page
  <2>1. PICK none : none = <<>>
    OBVIOUS
  <2>2. none \in Seq(Block) /\ HeapSound(s, none, L, A, P)
    BY <1>0, <1>1, <2>1
  <2>3. Bare(none, L, A, page)
    BY ONLY <1>0, <2>2, NoBlockHere, L \subseteq Block, A \in [Page -> Arena], page \in Page, page \notin Covered(A)
  <2> QED BY <1>0, <1>1, <2>1, <2>3 DEF Bare
<1>3. a.cnt = PerArena /\ a.large = FALSE /\ a.desc = s /\ a # NoArena
  BY <1>00, <1>0, Constants DEF NoArena
<1>4. A2[page] = a /\ \A q \in Page : q # page => A2[q] = A[q]
  BY <1>00, <1>0 DEF Opened
<1>6. F2 \in Seq(Block) /\ Range(F2) = BlocksOf(page) /\ IsInjective(F2)
  BY <1>0, ArenaBlocksResult
<1>7. SameElsewhere(page, <<>>, L, A, F2, L, A2)
  BY <1>0, <1>1, <1>4, <1>6, BlockNumbers DEF SameElsewhere
<1>8. SoundHere(s, page, F2, L, A2, P)
  <2>1. BlocksOf(page) \cap L = {}
    BY <1>0, <1>2, BlockNumbers
  <2>2. \A b \in BlocksOf(page) \cup L : b[1] = page => b \in BlocksOf(page) /\ b \notin L /\ b[2] # 0
    BY <1>0, <1>2, BlockNumbers
  <2>3. PerArena + Cardinality({}) = PerArena
    BY <1>0, FS_EmptySet, Constants
  <2>4. ArenaSound(s, a, page, BlocksOf(page), L, P)
    BY <1>0, <1>3, <2>1, <2>3, Constants DEF ArenaSound
  <2> QED BY <1>0, <1>3, <1>4, <1>6, <2>2, <2>4 DEF SoundHere
<1>9. NoneIdle(L, A, {page})
  BY <1>0 DEF NoneIdle
<1>10. HeapSound(s, F2, L, A2, P) /\ NoneIdle(L, A2, {page})
  BY ONLY <1>0, <1>1, <1>6, <1>7, <1>8, <1>9, LocalHeap, s \in Space, L \subseteq Block, page \in Page,
          HeapSound(s, <<>>, L, A, P)
<1>11. PagesAt(A2, page) = {page}
  BY <1>0, <1>3, <1>4 DEF PagesAt
<1>12. Laid(A2, size) /\ Covered(A2) = Covered(A) \cup {page}
  <2>1. Laid(A, size) /\ page < size /\ \A q \in Page : q # page => A2[q] = A[q]
    BY <1>0, <1>4
  <2>2. /\ range = PagesAt(A2, page) /\ range \subseteq Page /\ range \cap Covered(A) = {}
        /\ A2[page] # NoArena /\ A[page] = NoArena
    BY <1>0, <1>2, <1>3, <1>4, <1>11
  <2>3. Laid(A2, size) /\ Covered(A2) = Covered(A) \cup range
    BY ONLY <2>1, <2>2, AddCover, page \in Page
  <2> QED BY <1>0, <2>3
<1> QED BY <1>0, <1>10, <1>12 DEF Idle, Grows

(* A large block over a range.                                             *)
LargePut(s, L, A, page, n, range, L2, A2) ==
    /\ n \in Nat /\ n > 0 /\ range = page..page + n - 1 /\ L2 = L \cup {<<page, 0>>}
    /\ Opened(A, A2, page, [cnt |-> n, large |-> TRUE, desc |-> s])

LEMMA LargeHeap ==
    ASSUME NEW s \in Space, NEW F \in Seq(Block), NEW L \in SUBSET Block, NEW A \in [Page -> Arena], NEW P,
           NEW size, Settled(s, F, L, A, P, size), NEW page \in Page, NEW range,
           Room(s, A, P, page, range, size), NEW n, NEW L2, NEW A2, LargePut(s, L, A, page, n, range, L2, A2)
    PROVE  Settled(s, F, L2, A2, P, size) /\ Grows(A, A2, range)
<1>0. /\ L \subseteq Block /\ s \in P \cup {Kernel}
      /\ HeapSound(s, F, L, A, P) /\ NoneIdle(L, A, {}) /\ Laid(A, size)
      /\ page < size /\ range \subseteq Page /\ range \cap Covered(A) = {}
      /\ n \in Nat /\ n > 0 /\ range = page..page + n - 1 /\ L2 = L \cup {<<page, 0>>}
      /\ Opened(A, A2, page, [cnt |-> n, large |-> TRUE, desc |-> s])
  BY DEF Settled, Room, LargePut
<1>00. PICK a : a = [cnt |-> n, large |-> TRUE, desc |-> s]
  OBVIOUS
<1>2. page \in range /\ page \notin Covered(A)
  <2>1. page \in Int
    BY <1>0, PageNumbers
  <2>2. page \in range
    BY <1>0, <2>1
  <2> QED BY <1>0, <2>2
<1>3. A[page] = NoArena /\ \A b \in Range(F) \cup L : b[1] # page
  <2>1. Bare(F, L, A, page)
    BY ONLY <1>0, <1>2, NoBlockHere, F \in Seq(Block), L \subseteq Block, A \in [Page -> Arena], page \in Page,
            HeapSound(s, F, L, A, P)
  <2> QED BY <1>0, <2>1 DEF Bare
<1>4. a.cnt = n /\ a.large = TRUE /\ a.desc = s /\ a # NoArena
  BY <1>00, <1>0, Constants DEF NoArena
<1>5. A2[page] = a /\ \A q \in Page : q # page => A2[q] = A[q]
  BY <1>00, <1>0 DEF Opened
<1>6. L2 \subseteq Block /\ IsInjective(F)
  BY <1>0, Constants DEF Block, HeapSound
<1>7. SameElsewhere(page, F, L, A, F, L2, A2)
  BY <1>0, <1>5 DEF SameElsewhere
<1>8. SoundHere(s, page, F, L2, A2, P)
  <2>1. \A b \in Range(F) \cup L2 : b[1] = page => b = <<page, 0>> /\ b[2] = 0 /\ b \notin Range(F)
    BY <1>0, <1>3
  <2>2. ArenaSound(s, a, page, Range(F), L2, P)
    BY <1>0, <1>4, Constants DEF ArenaSound
  <2> QED BY <1>0, <1>4, <1>5, <2>1, <2>2 DEF SoundHere
<1>9. NoneIdle(L, A, {page})
  BY <1>0 DEF NoneIdle
<1>10. HeapSound(s, F, L2, A2, P) /\ NoneIdle(L2, A2, {page})
  <2>1. L \subseteq Block /\ HeapSound(s, F, L, A, P)
    BY <1>0
  <2> QED BY ONLY <1>6, <1>7, <1>8, <1>9, <2>1, LocalHeap, s \in Space, F \in Seq(Block), page \in Page
<1>11. NoneIdle(L2, A2, {})
  BY <1>0, <1>4, <1>5, <1>10 DEF NoneIdle
<1>12. PagesAt(A2, page) = range
  BY <1>0, <1>4, <1>5 DEF PagesAt
<1>13. Laid(A2, size) /\ Covered(A2) = Covered(A) \cup range
  <2>1. A2[page] # NoArena /\ A[page] = NoArena /\ range = PagesAt(A2, page)
    BY <1>3, <1>4, <1>5, <1>12
  <2>2. Laid(A, size) /\ page < size /\ range \subseteq Page /\ range \cap Covered(A) = {}
    BY <1>0
  <2>3. \A q \in Page : q # page => A2[q] = A[q]
    BY <1>5
  <2> QED BY ONLY <2>1, <2>2, <2>3, AddCover, page \in Page
<1> QED BY <1>0, <1>10, <1>11, <1>13 DEF Settled, Grows

(* sys_free of a large block: it goes with the headers of its pages.       *)
LargeGone(L, A, b, page, range, L2, A2) ==
    /\ b \in L /\ page = b[1] /\ A[page].large /\ range = PagesAt(A, page) /\ L2 = L \ {b}
    /\ \A q \in Page : A2[q] = IF q \in range THEN NoArena ELSE A[q]

LEMMA LargeReturns ==
    ASSUME NEW s \in Space, NEW F \in Seq(Block), NEW L \in SUBSET Block, NEW A \in [Page -> Arena], NEW P,
           NEW size, Settled(s, F, L, A, P, size), NEW b, NEW page, NEW range, NEW L2, NEW A2,
           LargeGone(L, A, b, page, range, L2, A2)
    PROVE  Settled(s, F, L2, A2, P, size) /\ Shrinks(A, A2, range)
<1>0. /\ L \subseteq Block /\ b \in L /\ page = b[1] /\ A[page].large
      /\ HeapSound(s, F, L, A, P) /\ NoneIdle(L, A, {}) /\ Laid(A, size)
      /\ range = PagesAt(A, page) /\ L2 = L \ {b}
      /\ \A q \in Page : A2[q] = IF q \in range THEN NoArena ELSE A[q]
  BY DEF Settled, LargeGone
<1>1. b \in Block /\ page \in Page /\ b = <<page, b[2]>> /\ b \notin Range(F) /\ L2 \subseteq Block
  BY <1>0 DEF Block, HeapSound
<1>2. A[page] # NoArena /\ IsInjective(F)
  BY <1>0, <1>1 DEF HeapSound
<1>3. InPlace(A)
  BY <1>0, HeadersInPlace
<1>4. /\ Laid(A2, size) /\ Covered(A2) = Covered(A) \ range
      /\ \A q \in Page : A2[q] = IF q = page THEN NoArena ELSE A[q]
  BY ONLY <1>0, <1>1, <1>2, <1>3, DropCover, Laid(A, size), range = PagesAt(A, page),
          \A q \in Page : A2[q] = IF q \in range THEN NoArena ELSE A[q]
<1>5. range \subseteq Covered(A)
  BY <1>0, <1>1, <1>2 DEF Covered, Laid
<1>6. SameElsewhere(page, F, L, A, F, L2, A2)
  BY <1>0, <1>4 DEF SameElsewhere
<1>7. \A c \in Range(F) \cup L2 : c[1] # page
  <2> SUFFICES ASSUME NEW c \in Range(F) \cup L2, c[1] = page
               PROVE  FALSE
    OBVIOUS
  <2>1. Range(F) \subseteq Block
    BY <1>0 DEF Range
  <2>2. c \in Block /\ c = <<page, c[2]>>
    BY <1>0, <1>1, <2>1 DEF Block
  <2>3. c[2] = 0 /\ b[2] = 0
    BY <1>0, <1>1 DEF HeapSound
  <2> QED BY <1>0, <1>1, <2>2, <2>3
<1>8. SoundHere(s, page, F, L2, A2, P)
  BY <1>0, <1>1, <1>4, <1>7 DEF SoundHere
<1>9. NoneIdle(L, A, {page})
  BY <1>0 DEF NoneIdle
<1>10. HeapSound(s, F, L2, A2, P) /\ NoneIdle(L2, A2, {page})
  BY ONLY <1>0, <1>1, <1>2, <1>6, <1>8, <1>9, LocalHeap, s \in Space, F \in Seq(Block), L \subseteq Block,
          HeapSound(s, F, L, A, P)
<1>11. NoneIdle(L2, A2, {})
  BY <1>0, <1>4, <1>10 DEF NoneIdle
<1> QED BY <1>0, <1>4, <1>5, <1>10, <1>11 DEF Settled, Shrinks

(* What a small block in use says of its arena.                            *)
InUse(A, L, F, page) ==
    /\ IsFiniteSet(BlocksOf(page) \cap L) /\ Cardinality(BlocksOf(page) \cap L) \in Nat \ {0}
    /\ A[page].cnt \in Int /\ A[page].cnt + Cardinality(BlocksOf(page) \cap L) = PerArena
    /\ BlocksOf(page) \subseteq Range(F) \cup L

LEMMA SmallInUse ==
    ASSUME NEW s \in Space, NEW F \in Seq(Block), NEW L, L \subseteq Block, NEW A \in [Page -> Arena], NEW P,
           HeapSound(s, F, L, A, P), NEW b \in L, NEW page, page = b[1],
           NEW a, a = A[page], ~a.large, a.desc = s
    PROVE  /\ b \in BlocksOf(page) /\ b \notin Range(F) /\ page \in Page /\ b \in Block
           /\ A[page] # NoArena /\ IsInjective(F) /\ InUse(A, L, F, page)
<1>1. b \in Block /\ page \in Page /\ b \notin Range(F) /\ IsInjective(F)
  BY DEF Block, HeapSound
<1>2. A[page] # NoArena /\ b[2] # 0
  BY <1>1 DEF HeapSound
<1>3. b \in BlocksOf(page)
  BY <1>1, <1>2, BlockNumbers
<1>4. ArenaSound(s, A[page], page, Range(F), L, P)
  BY <1>1, <1>2 DEF HeapSound
<1>5. A[page].cnt + Cardinality(BlocksOf(page) \cap L) = PerArena /\ BlocksOf(page) \subseteq Range(F) \cup L
  BY <1>4 DEF ArenaSound
<1>6. IsFiniteSet(BlocksOf(page) \cap L)
  BY <1>1, BlockNumbers, FS_Intersection
<1>7. Cardinality(BlocksOf(page) \cap L) \in Nat /\ Cardinality(BlocksOf(page) \cap L) # 0
  BY <1>3, <1>6, FS_CardinalityType, FS_EmptySet
<1>8. A[page].cnt \in Int
  BY <1>1 DEF Arena
<1> QED BY <1>1, <1>2, <1>3, <1>5, <1>6, <1>7, <1>8 DEF InUse

(* A small block whose arena stays.                                        *)
SmallBack(s, F, L, A, b, page, F2, L2, A2) ==
    /\ b \in L /\ page = b[1] /\ ~A[page].large /\ A[page].desc = s /\ A[page].cnt + 1 < PerArena
    /\ F2 = Append(F, b) /\ L2 = L \ {b} /\ Counted(A, A2, page, 1)

LEMMA SmallReturns ==
    ASSUME NEW s \in Space, NEW F \in Seq(Block), NEW L \in SUBSET Block, NEW A \in [Page -> Arena], NEW P,
           NEW size, Settled(s, F, L, A, P, size), NEW b, NEW page, NEW F2, NEW L2, NEW A2,
           SmallBack(s, F, L, A, b, page, F2, L2, A2)
    PROVE  Settled(s, F2, L2, A2, P, size) /\ SameCovered(A, A2)
<1>0. /\ L \subseteq Block /\ b \in L /\ page = b[1]
      /\ HeapSound(s, F, L, A, P) /\ NoneIdle(L, A, {}) /\ Laid(A, size)
      /\ ~A[page].large /\ A[page].desc = s /\ A[page].cnt + 1 < PerArena
      /\ F2 = Append(F, b) /\ L2 = L \ {b} /\ Counted(A, A2, page, 1)
  BY DEF Settled, SmallBack
<1>00. PICK a : a = A[page]
  OBVIOUS
<1>1. /\ b \in BlocksOf(page) /\ b \notin Range(F) /\ page \in Page /\ b \in Block
      /\ A[page] # NoArena /\ IsInjective(F) /\ InUse(A, L, F, page)
  BY <1>00, <1>0, SmallInUse
<1>2. F2 \in Seq(Block) /\ IsInjective(F2) /\ Range(F2) = Range(F) \cup {b}
  BY <1>0, <1>1, AppendResult
<1>3. Recounted(A, A2, page, 1)
  BY <1>0, <1>1, CountedResult
<1>4. PICK one : one = 1
  OBVIOUS
<1>5. /\ Laid(A2, size) /\ Covered(A2) = Covered(A)
      /\ \A q \in Page : A2[q] # NoArena <=> A[q] # NoArena
  <2>1. ~A[page].large /\ A[page].desc # Nobody /\ Recounted(A, A2, page, one)
    BY <1>0, <1>3, <1>4, Constants
  <2> QED BY ONLY <1>0, <1>1, <2>1, CountedCover, Laid(A, size)
<1>6. SameElsewhere(page, F, L, A, F2, L2, A2)
  <2>1. \A q \in Page : q # page => A2[q] = A[q]
    BY <1>0, <1>3 DEF Recounted
  <2> QED BY <1>0, <1>2, <2>1 DEF SameElsewhere
<1>7. A2[page].large = FALSE /\ A2[page].desc = s /\ A2[page].cnt = A[page].cnt + 1 /\ A[page].cnt + 1 < PerArena
  <2>1. a.large = FALSE
    BY <1>00, <1>0, <1>1 DEF Arena
  <2> QED BY <1>0, <1>1, <1>3, <2>1 DEF Recounted
<1>8. /\ Cardinality(BlocksOf(page) \cap L) = Cardinality(BlocksOf(page) \cap L2) + 1
      /\ IsFiniteSet(BlocksOf(page) \cap L2) /\ Cardinality(BlocksOf(page) \cap L2) \in Nat
  <2>1. IsFiniteSet(BlocksOf(page) \cap L2) /\ b \notin BlocksOf(page) \cap L2
    BY <1>0, <1>1, BlockNumbers, FS_Intersection
  <2>2. BlocksOf(page) \cap L = (BlocksOf(page) \cap L2) \cup {b}
    BY <1>0, <1>1
  <2>3. Cardinality(BlocksOf(page) \cap L2) \in Nat
    BY ONLY <2>1, FS_CardinalityType
  <2> QED BY ONLY <2>1, <2>2, <2>3, FS_AddElement
<1>9. A2[page].cnt + Cardinality(BlocksOf(page) \cap L2) = PerArena /\ Cardinality(BlocksOf(page) \cap L2) # 0
  <2>1. A[page].cnt \in Int /\ A[page].cnt + Cardinality(BlocksOf(page) \cap L) = PerArena
    BY <1>1 DEF InUse
  <2> QED BY ONLY <1>7, <1>8, <2>1, Constants, SMTT(30)
<1>10. A2[page].desc \in IF s = Kernel THEN {Kernel} ELSE P
  <2>1. ArenaSound(s, A[page], page, Range(F), L, P)
    BY <1>0, <1>1 DEF HeapSound
  <2> QED BY <1>0, <1>7, <2>1 DEF ArenaSound
<1>11. SoundHere(s, page, F2, L2, A2, P)
  <2>1. \A c \in Range(F2) \cup L2 : c \in Range(F) \cup L /\ ~(c \in Range(F2) /\ c \in L2)
    BY <1>0, <1>2 DEF HeapSound
  <2>2. \A c \in Range(F2) \cup L2 : c[1] = page => c[2] # 0
    BY <1>0, <2>1 DEF HeapSound
  <2>3. BlocksOf(page) \subseteq Range(F2) \cup L2
    BY <1>0, <1>1, <1>2 DEF InUse
  <2>4. ArenaSound(s, A2[page], page, Range(F2), L2, P)
    BY <1>0, <1>7, <1>9, <1>10, <2>3 DEF ArenaSound
  <2> QED BY <1>0, <1>1, <1>5, <1>7, <2>1, <2>2, <2>4 DEF SoundHere
<1>12. NoneIdle(L, A, {page})
  BY <1>0 DEF NoneIdle
<1>13. HeapSound(s, F2, L2, A2, P) /\ NoneIdle(L2, A2, {page})
  <2>1. L2 \subseteq Block /\ L \subseteq Block /\ HeapSound(s, F, L, A, P)
    BY <1>0
  <2> QED BY ONLY <1>1, <1>2, <1>6, <1>11, <1>12, <2>1, LocalHeap, s \in Space, F \in Seq(Block)
<1>14. BlocksOf(page) \cap L2 # {}
  BY <1>0, <1>9, FS_EmptySet
<1>15. NoneIdle(L2, A2, {})
  BY <1>0, <1>13, <1>14 DEF NoneIdle
<1> QED BY <1>0, <1>5, <1>13, <1>15 DEF Settled, SameCovered

(* The last block of an arena: its other blocks are in the list, as        *)
(* sys_free asserts, and leave it with the arena.                          *)
LastBack(s, F, L, A, b, page, F2, L2, A2) ==
    /\ b \in L /\ page = b[1] /\ ~A[page].large /\ A[page].desc = s /\ ~(A[page].cnt + 1 < PerArena)
    /\ F2 = Without(Append(F, b), page) /\ L2 = L \ {b}
    /\ \A q \in Page : A2[q] = IF q = page THEN NoArena ELSE A[q]

AllFree(F, A, b, page) == A[page].cnt + 1 = PerArena /\ BlocksOf(page) \subseteq Range(F) \cup {b}

LEMMA LastReturns ==
    ASSUME NEW s \in Space, NEW F \in Seq(Block), NEW L \in SUBSET Block, NEW A \in [Page -> Arena], NEW P,
           NEW size, Settled(s, F, L, A, P, size), NEW b, NEW page, NEW F2, NEW L2, NEW A2,
           LastBack(s, F, L, A, b, page, F2, L2, A2)
    PROVE  Settled(s, F2, L2, A2, P, size) /\ Shrinks(A, A2, {page}) /\ AllFree(F, A, b, page)
<1>0. /\ L \subseteq Block /\ b \in L /\ page = b[1]
      /\ HeapSound(s, F, L, A, P) /\ NoneIdle(L, A, {}) /\ Laid(A, size)
      /\ ~A[page].large /\ A[page].desc = s /\ ~(A[page].cnt + 1 < PerArena)
      /\ F2 = Without(Append(F, b), page) /\ L2 = L \ {b}
      /\ \A q \in Page : A2[q] = IF q = page THEN NoArena ELSE A[q]
  BY DEF Settled, LastBack
<1>00. PICK a : a = A[page]
  OBVIOUS
<1>1. /\ b \in BlocksOf(page) /\ b \notin Range(F) /\ page \in Page /\ b \in Block
      /\ A[page] # NoArena /\ IsInjective(F) /\ InUse(A, L, F, page)
  BY <1>00, <1>0, SmallInUse
<1>2. PICK list : list = Append(F, b)
  OBVIOUS
<1>3. list \in Seq(Block) /\ IsInjective(list) /\ Range(list) = Range(F) \cup {b}
  BY <1>0, <1>1, <1>2, AppendResult
<1>4. F2 \in Seq(Block) /\ IsInjective(F2) /\ \A c : c \in Range(F2) <=> c \in Range(list) /\ c[1] # page
  <2>1. F2 = Without(list, page)
    BY <1>0, <1>2
  <2>2. F2 \in Seq(Block) /\ (IsInjective(list) => IsInjective(F2))
        /\ \A c : c \in Range(F2) <=> c \in Range(list) /\ c[1] # page
    BY ONLY <1>0, <1>3, <2>1, WithoutResult
  <2> QED BY <1>0, <1>3, <2>2
<1>5. a.cnt + 1 = PerArena /\ Cardinality(BlocksOf(page) \cap L) = 1
  BY <1>00, <1>0, <1>1, Constants DEF InUse
<1>6. BlocksOf(page) \cap L = {b}
  <2>1. {b} \subseteq BlocksOf(page) \cap L /\ Cardinality({b}) = 1
    BY <1>0, <1>1, FS_Singleton
  <2>2. Cardinality({b}) = Cardinality(BlocksOf(page) \cap L)
    BY <1>0, <1>5, <2>1
  <2> QED BY ONLY <1>0, <1>1, <2>1, <2>2, FS_Subset DEF InUse
<1>7. BlocksOf(page) \subseteq Range(F) \cup {b}
  BY <1>0, <1>1, <1>6 DEF InUse
<1>8. PICK range : range = {page}
  OBVIOUS
<1>9. range = PagesAt(A, page)
  BY <1>0, <1>8 DEF PagesAt
<1>10. \A q \in Page : A2[q] = IF q \in range THEN NoArena ELSE A[q]
  BY <1>0, <1>8
<1>11. InPlace(A)
  BY <1>0, HeadersInPlace
<1>12. Laid(A2, size) /\ Covered(A2) = Covered(A) \ range
  <2>1. Laid(A, size) /\ InPlace(A) /\ page \in Page /\ A[page] # NoArena
    BY <1>0, <1>1, <1>11
  <2> QED BY ONLY <2>1, <1>9, <1>10, DropCover
<1>13. page \in Covered(A)
  BY <1>0, <1>1, <1>11 DEF Covered, InPlace
<1>14. \A c \in Range(F2) \cup L2 : c[1] # page
  <2> SUFFICES ASSUME NEW c \in L2, c[1] = page
               PROVE  FALSE
    BY <1>0, <1>4
  <2>1. c \in Block /\ c[2] # 0
    BY <1>0 DEF HeapSound
  <2>2. c \in BlocksOf(page)
    BY <1>0, <1>1, <2>1, BlockNumbers
  <2> QED BY <1>0, <1>6, <2>2
<1>15. SoundHere(s, page, F2, L2, A2, P)
  BY <1>0, <1>1, <1>14 DEF SoundHere
<1>16. SameElsewhere(page, F, L, A, F2, L2, A2)
  BY <1>0, <1>3, <1>4 DEF SameElsewhere
<1>17. NoneIdle(L, A, {page})
  BY <1>0 DEF NoneIdle
<1>18. HeapSound(s, F2, L2, A2, P) /\ NoneIdle(L2, A2, {page})
  <2>1. L2 \subseteq Block /\ L \subseteq Block /\ HeapSound(s, F, L, A, P)
    BY <1>0
  <2> QED BY ONLY <1>1, <1>4, <1>15, <1>16, <1>17, <2>1, LocalHeap, s \in Space, F \in Seq(Block)
<1>19. NoneIdle(L2, A2, {})
  BY <1>0, <1>1, <1>18 DEF NoneIdle
<1>20. A[page].cnt + 1 = PerArena
  BY <1>00, <1>5
<1>21. Settled(s, F2, L2, A2, P, size)
  BY <1>12, <1>18, <1>19 DEF Settled
<1> QED BY <1>7, <1>8, <1>12, <1>13, <1>20, <1>21 DEF Shrinks, AllFree

LEMMA MappedDivided ==
    ASSUME NEW s, NEW H, NEW V, NEW K, NEW E, NEW R, NEW B, Divided(s, H, V, K, E, R, B),
           NEW E2, E \subseteq E2
    PROVE  Divided(s, H, V, K, E2, R, B)
BY DEF Divided

-----------------------------------------------------------------------------
(* The heap of a space, and its pages                                      *)

HeapOK(m, s) ==
    /\ HeapSound(s, m.free[s], m.live[s], m.arena[s], There(m))
    /\ NoneIdle(m.live[s], m.arena[s], {}) /\ Laid(m.arena[s], Size(s))
PartsOK(m, s, B) ==
    Divided(s, Covered(m.arena[s]), m.vbits[s], Kept(m, s), Mapped(m, s), Reserved(m, s), B)

LEMMA Parts ==
    \A m, s, B : SpaceSound(m, s, B) <=> HeapOK(m, s) /\ PartsOK(m, s, B)
BY DEF SpaceSound, SpaceOK, HeapOK, PartsOK

SameBlocks(m, n, t) == n.free[t] = m.free[t] /\ n.live[t] = m.live[t] /\ n.arena[t] = m.arena[t]
SameMarks(m, n, t) ==
    /\ n.vbits[t] = m.vbits[t]
    /\ \A q \in Page : (<<t, q>> \in n.lost <=> <<t, q>> \in m.lost) /\ n.pte[t][q] = m.pte[t][q]

LEMMA HeapStays ==
    ASSUME NEW m, NEW n, NEW s, HeapOK(m, s), SameBlocks(m, n, s), There(m) \subseteq There(n)
    PROVE  HeapOK(n, s)
<1>1. PICK F, L, A, P, P2 : /\ F = m.free[s] /\ L = m.live[s] /\ A = m.arena[s]
                            /\ P = There(m) /\ P2 = There(n)
  OBVIOUS
<1>2. HeapSound(s, F, L, A, P) /\ P \subseteq P2
  BY <1>1 DEF HeapOK
<1>3. \A a, page, listed : ArenaSound(s, a, page, listed, L, P) => ArenaSound(s, a, page, listed, L, P2)
  BY <1>2 DEF ArenaSound
<1>4. HeapSound(s, F, L, A, P2)
  BY <1>2, <1>3 DEF HeapSound
<1> QED BY <1>1, <1>4 DEF HeapOK, SameBlocks

(* A step in space s leaves the other spaces and the PCBs alone.           *)
Elsewhere(m, n, s) ==
    n.own = m.own /\ \A t \in Space : t # s => SameBlocks(m, n, t) /\ SameMarks(m, n, t)

LEMMA ElsewhereAgain ==
    ASSUME NEW m, NEW n, NEW k, NEW s, Elsewhere(m, n, s), Elsewhere(n, k, s)
    PROVE  Elsewhere(m, k, s)
BY DEF Elsewhere, SameBlocks, SameMarks

LEMMA SameOwners ==
    ASSUME NEW m, NEW n, n.own = m.own
    PROVE  There(n) = There(m) /\ \A t : Reserved(n, t) = Reserved(m, t)
BY DEF There, Reserved

LEMMA SpaceStays ==
    ASSUME NEW m, NEW n, NEW t, NEW B, SpaceSound(m, t, B), n.own = m.own,
           SameBlocks(m, n, t), SameMarks(m, n, t)
    PROVE  SpaceSound(n, t, B)
<1>1. There(n) = There(m) /\ Reserved(n, t) = Reserved(m, t)
  BY SameOwners
<1>2. HeapOK(m, t) /\ PartsOK(m, t, B)
  BY Parts
<1>3. HeapOK(n, t)
  BY <1>1, <1>2, HeapStays
<1>4. n.vbits[t] = m.vbits[t] /\ Kept(n, t) = Kept(m, t) /\ Mapped(n, t) = Mapped(m, t)
  BY DEF SameMarks, Kept, Mapped
<1>5. PartsOK(n, t, B)
  BY <1>1, <1>2, <1>4 DEF PartsOK, SameBlocks
<1> QED BY <1>3, <1>5, Parts

LEMMA BalancedBy ==
    ASSUME NEW m, NEW n, NEW s, NEW B, NEW B2, Balanced(m, s, B), Elsewhere(m, n, s), SpaceSound(n, s, B2)
    PROVE  Balanced(n, s, B2)
<1> SUFFICES ASSUME NEW t \in Space
             PROVE  SpaceSound(n, t, IF t = s THEN B2 ELSE {})
  BY DEF Balanced
<1>1. CASE t = s
  BY <1>1
<1>2. CASE t # s
  <2>1. SpaceSound(m, t, {}) /\ n.own = m.own /\ SameBlocks(m, n, t) /\ SameMarks(m, n, t)
    BY <1>2 DEF Balanced, Elsewhere
  <2>2. SpaceSound(n, t, {})
    BY ONLY <2>1, SpaceStays
  <2> QED BY <1>2, <2>2
<1> QED BY <1>1, <1>2

(* A step that only changes marks and entries of the space.                *)
LEMMA PartsChange ==
    ASSUME NEW m, NEW n, NEW s \in Space, NEW B, NEW B2, Balanced(m, s, B), Elsewhere(m, n, s),
           SameBlocks(m, n, s), PartsOK(m, s, B) => PartsOK(n, s, B2)
    PROVE  Balanced(n, s, B2)
<1>1. SpaceSound(m, s, B)
  BY DEF Balanced
<1>2. HeapOK(m, s) /\ PartsOK(n, s, B2)
  BY <1>1, Parts
<1>3. There(m) \subseteq There(n)
  BY SameOwners DEF Elsewhere
<1>4. HeapOK(n, s)
  BY <1>2, <1>3, HeapStays
<1> QED BY <1>2, <1>4, Parts, BalancedBy

(* A range of a bitmap's bits that ends at most one past the end.          *)
LEMMA WholeRange ==
    ASSUME NEW s \in Space, NEW start \in Nat, start < Size(s), NEW n \in Nat, NEW range, range = start..start + n - 1
    PROVE  Whole(range, Size(s))
<1>1. Size(s) \in Nat
  BY PageNumbers
<1> QED BY <1>1 DEF Whole

(* malloc_page: the range is busy, or given up.                            *)
Taken(m, s, r, B, range) ==
    /\ Elsewhere(m, r.m, s) /\ SameBlocks(m, r.m, s)
    /\ r.ok => Balanced(r.m, s, B \cup range)
    /\ ~r.ok => Balanced(r.m, s, B)
RangeOf(r, n) == r.page..r.page + n - 1

LEMMA TakeBalanced ==
    ASSUME NEW m \in Memory, PagesSound(m, {}), NEW s \in Space, NEW n \in Nat, NEW r, Allocated(m, s, n, r),
           NEW B, Balanced(m, s, B), NEW range, range = RangeOf(r, n)
    PROVE  Taken(m, s, r, B, range)
<1>0. range = r.page..r.page + n - 1
  BY DEF RangeOf
<1>1. PICK k : k = r.m
  OBVIOUS
<1>2. CASE r.page = NoPage
  <2>1. k = m /\ r.ok = FALSE
    BY <1>1, <1>2 DEF Allocated
  <2> QED BY <1>1, <2>1 DEF Taken, Elsewhere, SameBlocks, SameMarks
<1>3. CASE r.page # NoPage
  <2>1. /\ k.arena = m.arena /\ k.free = m.free /\ k.live = m.live /\ k.own = m.own
        /\ r.page \in Nat /\ r.page < Size(s) /\ range \cap m.vbits[s] = {} /\ range \subseteq 0..Size(s)
        /\ k.vbits = [m.vbits EXCEPT ![s] = @ \cup range]
        /\ k.lost = IF r.ok THEN m.lost ELSE m.lost \cup ({s} \X range)
        /\ \A t \in Space, q \in Page : ~(t = s /\ q \in range) => k.pte[t][q] = m.pte[t][q]
        /\ r.ok => \A q \in range : k.pte[s][q] # NoFrame
    BY <1>0, <1>1, <1>3 DEF Allocated
  <2>2. \A t \in Space : k.vbits[t] = IF t = s THEN m.vbits[s] \cup range ELSE m.vbits[t]
    BY <2>1, MemoryFields
  <2>3. Elsewhere(m, k, s) /\ SameBlocks(m, k, s)
    BY <2>1, <2>2 DEF Elsewhere, SameBlocks, SameMarks
  <2>4. range \subseteq Page
    BY <2>1, PageNumbers
  <2>5. Mapped(m, s) \subseteq Mapped(k, s)
    <3> SUFFICES ASSUME NEW q \in Page, m.pte[s][q] # NoFrame
                 PROVE  k.pte[s][q] # NoFrame
      BY DEF Mapped
    <3>1. CASE q \notin range
      BY <2>1, <3>1
    <3>2. CASE q \in range
      <4>1. q \in m.vbits[s]
        BY DEF PagesSound, EntriesSound
      <4> QED BY <2>1, <3>2, <4>1
    <3> QED BY <3>1, <3>2
  <2>6. Whole(range, Size(s))
    BY <1>0, <2>1, WholeRange
  <2>7. PICK H, V, K, E, R, E2 : /\ H = Covered(m.arena[s]) /\ V = m.vbits[s] /\ K = Kept(m, s)
                                 /\ E = Mapped(m, s) /\ R = Reserved(m, s) /\ E2 = Mapped(k, s)
    OBVIOUS
  <2>8. Divided(s, H, V, K, E, R, B) /\ E \subseteq E2 /\ range \cap V = {} /\ B \subseteq V
    <3>1. SpaceSound(m, s, B)
      BY DEF Balanced
    <3>2. PartsOK(m, s, B)
      BY <3>1, Parts
    <3>3. Divided(s, H, V, K, E, R, B)
      BY <2>7, <3>2 DEF PartsOK
    <3> QED BY <2>1, <2>5, <2>7, <3>3 DEF Divided
  <2>9. PICK V2, B2 : V2 = V \cup range /\ B2 = B \cup range
    OBVIOUS
  <2>10. Divided(s, H, V2, K, E2, R, B2)
    <3>1. Divided(s, H, V2, K, E, R, B2)
      BY ONLY <2>6, <2>8, <2>9, TakeDivided
    <3> QED BY ONLY <2>8, <3>1, MappedDivided
  <2>11. H = Covered(k.arena[s]) /\ V2 = k.vbits[s] /\ E2 = Mapped(k, s) /\ R = Reserved(k, s)
    BY <2>1, <2>2, <2>7, <2>9 DEF Reserved
  <2>12. CASE r.ok
    <3>1. K = Kept(k, s)
      BY <2>1, <2>7, <2>12 DEF Kept
    <3>2. PartsOK(k, s, B2)
      BY <2>10, <2>11, <3>1 DEF PartsOK
    <3>3. Balanced(k, s, B2)
      BY ONLY <2>3, <3>2, PartsChange, Balanced(m, s, B), s \in Space
    <3> QED BY <1>1, <2>3, <2>9, <2>12, <3>3 DEF Taken
  <2>13. CASE ~r.ok
    <3>1. K \cup range = Kept(k, s)
      BY <2>1, <2>4, <2>7, <2>13 DEF Kept
    <3>2. B2 \ range = B
      BY <2>8, <2>9
    <3>3. Whole(B, Size(s)) /\ range \subseteq B2
      BY <2>8, <2>9 DEF Divided
    <3>4. PICK K2 : K2 = K \cup range
      OBVIOUS
    <3>5. Divided(s, H, V2, K2, E2, R, B)
      BY ONLY <2>6, <2>10, <3>2, <3>3, <3>4, LoseDivided
    <3>6. PartsOK(k, s, B)
      BY <2>11, <3>1, <3>4, <3>5 DEF PartsOK
    <3>7. Balanced(k, s, B)
      BY ONLY <2>3, <3>6, PartsChange, Balanced(m, s, B), s \in Space
    <3> QED BY <1>1, <2>3, <2>13, <3>7 DEF Taken
  <2> QED BY <2>12, <2>13
<1> QED BY <1>2, <1>3

LEMMA BalancedAny ==
    ASSUME NEW m, NEW s, NEW t, Balanced(m, s, {})
    PROVE  Balanced(m, t, {})
BY DEF Balanced

(* Pages of a call that are given up.                                      *)
LEMMA GiveUpBalanced ==
    ASSUME NEW m \in Memory, PagesSound(m, {}), NEW s \in Space, NEW B, Balanced(m, s, B),
           NEW range, range \subseteq B, range \subseteq Page, NEW B2, B2 = B \ range,
           Whole(range, Size(s)), Whole(B2, Size(s)), NEW n, n = GiveUp(m, s, range)
    PROVE  Elsewhere(m, n, s) /\ SameBlocks(m, n, s) /\ Balanced(n, s, B2)
<1>1. /\ n.lost = m.lost \cup ({s} \X range) /\ n.vbits = m.vbits /\ n.pte = m.pte
      /\ n.arena = m.arena /\ n.free = m.free /\ n.live = m.live /\ n.own = m.own
  BY GiveUpSound
<1>2. Elsewhere(m, n, s) /\ SameBlocks(m, n, s)
  BY <1>1 DEF Elsewhere, SameBlocks, SameMarks
<1>3. PICK H, V, K, E, R : /\ H = Covered(m.arena[s]) /\ V = m.vbits[s] /\ K = Kept(m, s)
                           /\ E = Mapped(m, s) /\ R = Reserved(m, s)
  OBVIOUS
<1>4. K \cup range = Kept(n, s) /\ E = Mapped(n, s) /\ R = Reserved(n, s)
  BY <1>1, <1>3 DEF Kept, Mapped, Reserved
<1>5. ASSUME PartsOK(m, s, B)
      PROVE  PartsOK(n, s, B2)
  <2>1. Divided(s, H, V, K, E, R, B)
    BY <1>3, <1>5 DEF PartsOK
  <2>2. Divided(s, H, V, K \cup range, E, R, B \ range)
    BY ONLY <2>1, LoseDivided, range \subseteq B, B2 = B \ range, Whole(range, Size(s)), Whole(B2, Size(s))
  <2> QED BY <1>1, <1>3, <1>4, <2>2 DEF PartsOK
<1> QED BY <1>2, <1>5, PartsChange

(* Entries of busy pages that are cleared, and the marks with them.        *)
Emptied(m, n, s, B) ==
    /\ n.arena = m.arena /\ n.free = m.free /\ n.live = m.live /\ n.own = m.own /\ n.lost = m.lost
    /\ \A t \in Space, q \in Page : ~(t = s /\ q \in B) => n.pte[t][q] = m.pte[t][q]

LEMMA UnmapBalanced ==
    ASSUME NEW m, NEW n, NEW s \in Space, NEW B, Balanced(m, s, B), Emptied(m, n, s, B), n.vbits = m.vbits
    PROVE  Elsewhere(m, n, s) /\ SameBlocks(m, n, s) /\ Balanced(n, s, B)
<1>1. Elsewhere(m, n, s) /\ SameBlocks(m, n, s)
  BY DEF Elsewhere, SameBlocks, SameMarks, Emptied
<1>2. ASSUME PartsOK(m, s, B)
      PROVE  PartsOK(n, s, B)
  <2>1. Kept(n, s) = Kept(m, s) /\ Reserved(n, s) = Reserved(m, s) /\ n.arena = m.arena
    BY DEF Kept, Reserved, Emptied
  <2>2. Mapped(m, s) \ B \subseteq Mapped(n, s)
    BY DEF Mapped, Emptied
  <2> QED BY <1>2, <2>1, <2>2 DEF PartsOK, Divided
<1> QED BY <1>1, <1>2, PartsChange

LEMMA ReleaseBalanced ==
    ASSUME NEW m \in Memory, NEW n, NEW s \in Space, NEW B, Balanced(m, s, B), Emptied(m, n, s, B),
           n.vbits = [m.vbits EXCEPT ![s] = @ \ B]
    PROVE  Elsewhere(m, n, s) /\ SameBlocks(m, n, s) /\ Balanced(n, s, {})
<1>0. \A t \in Space : n.vbits[t] = IF t = s THEN m.vbits[s] \ B ELSE m.vbits[t]
  BY MemoryFields
<1>1. Elsewhere(m, n, s) /\ SameBlocks(m, n, s)
  BY <1>0 DEF Elsewhere, SameBlocks, SameMarks, Emptied
<1>2. ASSUME PartsOK(m, s, B)
      PROVE  PartsOK(n, s, {})
  <2>1. Kept(n, s) = Kept(m, s) /\ Reserved(n, s) = Reserved(m, s) /\ n.arena = m.arena
    BY DEF Kept, Reserved, Emptied
  <2>2. PICK H, V, K, E, R, E2 : /\ H = Covered(m.arena[s]) /\ V = m.vbits[s] /\ K = Kept(m, s)
                                 /\ E = Mapped(m, s) /\ R = Reserved(m, s) /\ E2 = Mapped(n, s)
    OBVIOUS
  <2>3. E \ B \subseteq E2
    BY <2>2 DEF Mapped, Emptied
  <2>4. Divided(s, H, V, K, E, R, B)
    BY <1>2, <2>2 DEF PartsOK
  <2>5. Whole(B \ B, Size(s)) /\ B \subseteq B
    BY DEF Whole
  <2>6. Divided(s, H, V \ B, K, E2, R, B \ B)
    BY ONLY <2>3, <2>4, <2>5, ReleaseDivided
  <2>7. B \ B = {}
    OBVIOUS
  <2> QED BY <1>0, <2>1, <2>2, <2>6, <2>7 DEF PartsOK
<1> QED BY <1>1, <1>2, PartsChange

-----------------------------------------------------------------------------
(* The blocks of a space                                                   *)

LEMMA SameHeaders ==
    ASSUME NEW A \in [Page -> Arena], NEW A2 \in [Page -> Arena], \A q \in Page : A2[q] = A[q]
    PROVE  A2 = A
OBVIOUS

(* A step of the heap of one space.                                        *)
BlocksOnly(m, n, s) ==
    /\ SamePages(m, n)
    /\ \A t \in Space : t # s => n.free[t] = m.free[t] /\ n.live[t] = m.live[t]
    /\ \A t \in Space : t # s => \A q \in Page : n.arena[t][q] = m.arena[t][q]

LEMMA BlocksElsewhere ==
    ASSUME NEW m \in Memory, NEW n \in Memory, NEW s \in Space, BlocksOnly(m, n, s)
    PROVE  Elsewhere(m, n, s)
<1>1. ASSUME NEW t \in Space, t # s
      PROVE  n.arena[t] = m.arena[t]
  <2>1. PICK A, A2 : A = m.arena[t] /\ A2 = n.arena[t]
    OBVIOUS
  <2>2. A \in [Page -> Arena] /\ A2 \in [Page -> Arena]
    BY <2>1, MemoryFields
  <2>3. \A q \in Page : A2[q] = A[q]
    BY <1>1, <2>1 DEF BlocksOnly
  <2> QED BY ONLY <2>1, <2>2, <2>3, SameHeaders
<1> QED BY <1>1 DEF BlocksOnly, SamePages, Elsewhere, SameBlocks, SameMarks

(* The heap is sound again, and covers what the busy pages say.            *)
LEMMA HeapChanged ==
    ASSUME NEW m \in Memory, NEW n \in Memory, NEW s \in Space, NEW B, NEW B2, Balanced(m, s, B),
           BlocksOnly(m, n, s), HeapOK(n, s), NEW H, NEW H2, H = Covered(m.arena[s]), H2 = Covered(n.arena[s]),
           \A V, K, E, R : /\ E = Mapped(m, s) /\ Divided(s, H, V, K, E, R, B)
                           => Divided(s, H2, V, K, E, R, B2)
    PROVE  Elsewhere(m, n, s) /\ Balanced(n, s, B2)
<1>1. Elsewhere(m, n, s)
  BY BlocksElsewhere
<1>2. PICK V, K, E, R : V = m.vbits[s] /\ K = Kept(m, s) /\ E = Mapped(m, s) /\ R = Reserved(m, s)
  OBVIOUS
<1>3. V = n.vbits[s] /\ K = Kept(n, s) /\ E = Mapped(n, s) /\ R = Reserved(n, s)
  BY <1>2 DEF BlocksOnly, SamePages, Kept, Mapped, Reserved
<1>4. Divided(s, H, V, K, E, R, B)
  BY <1>2, Parts DEF Balanced, PartsOK
<1>5. Divided(s, H2, V, K, E, R, B2)
  BY <1>2, <1>4
<1>6. PartsOK(n, s, B2)
  BY <1>3, <1>5 DEF PartsOK
<1>7. SpaceSound(n, s, B2)
  BY <1>6, Parts
<1> QED BY <1>1, <1>7, BalancedBy

(* PopBlock on a heap that may have a new arena.                           *)
LEMMA PopRecord ==
    ASSUME NEW m \in Memory, NEW n \in Memory, NEW s \in Space, m.free[s] # <<>>,
           Popped(m, s, n), SamePages(m, n), NEW page, page = Head(m.free[s])[1],
           HeapSound(s, m.free[s], m.live[s], m.arena[s], There(m)),
           NoneIdle(m.live[s], m.arena[s], {page}), Laid(m.arena[s], Size(s))
    PROVE  HeapOK(n, s) /\ BlocksOnly(m, n, s) /\ Covered(n.arena[s]) = Covered(m.arena[s])
<1>1. PICK F, L, A, P, A2, b, size : /\ F = m.free[s] /\ L = m.live[s] /\ A = m.arena[s] /\ P = There(m)
                                     /\ A2 = n.arena[s] /\ b = Head(F) /\ size = Size(s)
  OBVIOUS
<1>2. F \in Seq(Block) /\ L \subseteq Block /\ A \in [Page -> Arena] /\ P \subseteq Process /\ F # <<>>
  BY <1>1, MemoryFields DEF There
<1>3. n.free[s] = Tail(F) /\ n.live[s] = L \cup {b}
  BY <1>1, MemoryFields DEF Popped
<1>4. \A q \in Page : A2[q] = IF q = page THEN [A[q] EXCEPT !.cnt = @ - 1] ELSE A[q]
  BY <1>1 DEF Popped
<1>5. Counted(A, A2, page, -1)
  <2>1. \A q \in Page : A[q].cnt - 1 = A[q].cnt + (-1)
    BY <1>2 DEF Arena
  <2> QED BY <1>4, <2>1 DEF Counted
<1>6. HeapSound(s, F, L, A, P) /\ NoneIdle(L, A, {page}) /\ Laid(A, size) /\ page = b[1]
  BY <1>1
<1>7. /\ HeapSound(s, Tail(F), L \cup {b}, A2, P) /\ NoneIdle(L \cup {b}, A2, {})
      /\ Laid(A2, size) /\ Covered(A2) = Covered(A)
  <2>1. PICK F2, L2 : F2 = Tail(F) /\ L2 = L \cup {b} /\ b = Head(F)
    BY <1>1
  <2>2. Popping(F, L, b, page, F2, L2) /\ Idle(s, F, L, A, P, page, size) /\ Fewer(A, A2, page)
    BY <1>2, <1>5, <1>6, <2>1 DEF Popping, Idle, Fewer
  <2>3. L \in SUBSET Block /\ P \in SUBSET Process /\ F \in Seq(Block) /\ A \in [Page -> Arena]
    BY <1>2
  <2>4. Settled(s, F2, L2, A2, P, size) /\ Covered(A2) = Covered(A)
    BY ONLY <2>2, <2>3, PopHeap, s \in Space
  <2> QED BY <2>1, <2>4 DEF Settled
<1>8. There(n) = There(m)
  BY DEF SamePages, There
<1>9. HeapOK(n, s)
  BY <1>1, <1>3, <1>7, <1>8 DEF HeapOK
<1>10. BlocksOnly(m, n, s)
  <2>1. n.free = [m.free EXCEPT ![s] = Tail(F)] /\ n.live = [m.live EXCEPT ![s] = L \cup {b}]
    BY <1>1 DEF Popped
  <2>2. \A t \in Space : t # s => n.free[t] = m.free[t] /\ n.live[t] = m.live[t]
    BY <2>1, MemoryFields
  <2>3. \A t \in Space : t # s => \A q \in Page : n.arena[t][q] = m.arena[t][q]
    BY DEF Popped
  <2> QED BY <2>2, <2>3 DEF BlocksOnly
<1> QED BY <1>1, <1>7, <1>9, <1>10

LEMMA PopBalanced ==
    ASSUME NEW m \in Memory, NEW half, PagesSound(m, half), NEW s \in Space, m.free[s] # <<>>,
           NEW B, Balanced(m, s, B), NEW n, n = PopBlock(m, s)
    PROVE  Elsewhere(m, n, s) /\ Balanced(n, s, B)
<1>1. n \in Memory /\ SamePages(m, n) /\ Popped(m, s, n)
  BY PopBlockSound
<1>2. HeapOK(m, s)
  BY Parts DEF Balanced
<1>3. PICK page : page = Head(m.free[s])[1]
  OBVIOUS
<1>5. /\ HeapSound(s, m.free[s], m.live[s], m.arena[s], There(m))
      /\ NoneIdle(m.live[s], m.arena[s], {page}) /\ Laid(m.arena[s], Size(s))
  BY <1>2 DEF HeapOK, NoneIdle
<1>4. HeapOK(n, s) /\ BlocksOnly(m, n, s) /\ Covered(n.arena[s]) = Covered(m.arena[s])
  BY ONLY <1>1, <1>3, <1>5, PopRecord, m \in Memory, s \in Space, m.free[s] # <<>>
<1> QED BY <1>1, <1>4, HeapChanged

(* Furnish: the busy pages are a large block, or an arena that gives a     *)
(* first block.                                                            *)
LEMMA FurnishBalanced ==
    ASSUME NEW m \in Memory, NEW half, PagesSound(m, half), NEW s \in Space,
           s \in There(m) \cup {Kernel}, NEW page \in Page, page < Size(s),
           NEW n \in {0} \cup LargeSizes, NEW B, B = page..page + PagesFor(n) - 1, B \subseteq Page,
           Balanced(m, s, B), \A q \in B : m.pte[s][q] # NoFrame, n = 0 => m.free[s] = <<>>,
           NEW r, r = Furnish(m, s, page, n)
    PROVE  Elsewhere(m, r, s) /\ Balanced(r, s, {})
<1>1. PICK F, L, A, P, size : /\ F = m.free[s] /\ L = m.live[s] /\ A = m.arena[s] /\ P = There(m)
                              /\ size = Size(s)
  OBVIOUS
<1>2. /\ F \in Seq(Block) /\ L \subseteq Block /\ A \in [Page -> Arena] /\ s \in P \cup {Kernel}
      /\ page < size
  BY <1>1, MemoryFields
<1>3. HeapOK(m, s) /\ PartsOK(m, s, B)
  BY Parts DEF Balanced
<1>4. HeapSound(s, F, L, A, P) /\ NoneIdle(L, A, {}) /\ Laid(A, size)
  BY <1>1, <1>3 DEF HeapOK
<1>5. B \cap Covered(A) = {} /\ Whole(B \ B, Size(s)) /\ B \subseteq B /\ B \ B = {}
  BY <1>1, <1>3 DEF PartsOK, Divided, Whole
<1>6. B \subseteq Mapped(m, s)
  BY DEF Mapped
<1>7. PICK H, H2 : H = Covered(m.arena[s]) /\ H2 = H \cup B
  OBVIOUS
<1>8. \A V, K, E, R : E = Mapped(m, s) /\ Divided(s, H, V, K, E, R, B) => Divided(s, H2, V, K, E, R, {})
  <2> SUFFICES ASSUME NEW V, NEW K, NEW E, NEW R, E = Mapped(m, s), Divided(s, H, V, K, E, R, B)
               PROVE  Divided(s, H2, V, K, E, R, {})
    OBVIOUS
  <2>1. Divided(s, H \cup B, V, K, E, R, B \ B)
    BY ONLY <1>5, <1>6, FillDivided, E = Mapped(m, s), Divided(s, H, V, K, E, R, B)
  <2> QED BY <1>5, <1>7, <2>1
<1>11. Settled(s, F, L, A, P, size) /\ Room(s, A, P, page, B, size)
  BY <1>2, <1>4, <1>5 DEF Settled, Room
<1>12. F \in Seq(Block) /\ L \in SUBSET Block /\ A \in [Page -> Arena]
  BY <1>2
<1>9. CASE n # 0
  <2>1. PICK L2, A2 : r = NewLarge(m, s, page, n) /\ L2 = r.live[s] /\ A2 = r.arena[s]
    BY <1>9 DEF Furnish
  <2>2. n \in Nat /\ n > 0 /\ B = page..page + n - 1 /\ page..page + n - 1 \subseteq Page
    BY <1>9, Constants DEF PagesFor
  <2>3. r \in Memory /\ SamePages(m, r) /\ LargeMade(m, s, page, n, r)
    BY ONLY <2>1, <2>2, NewLargeSound, m \in Memory, PagesSound(m, half), s \in Space, page \in Page
  <2>4. LargePut(s, L, A, page, n, B, L2, A2) /\ F = r.free[s] /\ P = There(r)
    BY <1>1, <2>1, <2>2, <2>3 DEF LargePut, LargeMade, Opened, SamePages, There
  <2>5. Settled(s, F, L2, A2, P, size) /\ Grows(A, A2, B)
    BY ONLY <1>11, <1>12, <2>4, LargeHeap, s \in Space, page \in Page
  <2>6. HeapOK(r, s) /\ H2 = Covered(r.arena[s])
    BY <1>1, <1>7, <2>1, <2>4, <2>5 DEF HeapOK, Settled, Grows
  <2>7. BlocksOnly(m, r, s)
    BY <2>3 DEF BlocksOnly, LargeMade
  <2> QED BY ONLY <1>7, <1>8, <2>3, <2>6, <2>7, HeapChanged, m \in Memory, s \in Space, Balanced(m, s, B)
<1>10. CASE n = 0
  <2>1. PICK k, A2, F2 : k = NewArena(m, s, page) /\ A2 = k.arena[s] /\ F2 = ArenaBlocks(page)
    OBVIOUS
  <2>2. r = PopBlock(k, s)
    BY <1>10, <2>1 DEF Furnish
  <2>3. B = {page} /\ F = <<>>
    <3>1. page \in Int /\ B = page..page
      BY <1>10, PageNumbers DEF PagesFor
    <3> QED BY <1>1, <1>10, <3>1
  <2>4. k \in Memory /\ SamePages(m, k) /\ PagesSound(k, half) /\ ArenaMade(m, s, page, k)
    BY ONLY <2>1, NewArenaSound, m \in Memory, PagesSound(m, half), s \in Space, page \in Page
  <2>5. F2 \in Seq(Block) /\ Len(F2) = PerArena /\ \A b \in Range(F2) : b[1] = page
    BY <2>1, ArenaBlocksResult, BlockNumbers
  <2>6. F2 = k.free[s] /\ L = k.live[s] /\ P = There(k)
    <3>1. k.free[s] = <<>> \o F2
      BY <1>1, <2>1, <2>3, <2>4 DEF ArenaMade
    <3> QED BY <1>1, <2>4, <2>5, <3>1 DEF ArenaMade, SamePages, There
  <2>7. ArenaPut(s, F, A, page, B, F2, A2)
    BY <1>1, <2>1, <2>3, <2>4 DEF ArenaPut, ArenaMade, Opened
  <2>8. Idle(s, F2, L, A2, P, page, size) /\ Grows(A, A2, B)
    BY ONLY <1>11, <1>12, <2>7, ArenaHeap, s \in Space, page \in Page
  <2>9. k.free[s] # <<>> /\ page = Head(k.free[s])[1]
    <3>1. F2 # <<>>
      BY <2>5, Constants
    <3>2. Head(F2) = F2[1] /\ 1 \in DOMAIN F2
      BY <2>5, <3>1, Constants
    <3>3. Head(F2) \in Range(F2)
      BY <3>2 DEF Range
    <3> QED BY <2>5, <2>6, <3>1, <3>3
  <2>10. /\ HeapSound(s, k.free[s], k.live[s], k.arena[s], There(k))
         /\ NoneIdle(k.live[s], k.arena[s], {page}) /\ Laid(k.arena[s], Size(s))
    BY <1>1, <2>1, <2>6, <2>8 DEF Idle
  <2>11. k \in Memory /\ PagesSound(k, half) /\ k.free[s] # <<>>
    BY <2>4, <2>9
  <2>12. r \in Memory /\ SamePages(k, r) /\ Popped(k, s, r)
    BY ONLY <2>2, <2>11, PopBlockSound, s \in Space
  <2>13. k \in Memory /\ k.free[s] # <<>> /\ page = Head(k.free[s])[1]
    BY <2>4, <2>9
  <2>14. HeapOK(r, s) /\ BlocksOnly(k, r, s) /\ Covered(r.arena[s]) = Covered(k.arena[s])
    BY ONLY <2>10, <2>12, <2>13, PopRecord, s \in Space
  <2>15. BlocksOnly(m, r, s)
    BY <2>4, <2>14 DEF BlocksOnly, SamePages, ArenaMade
  <2>16. H2 = Covered(r.arena[s])
    BY <1>1, <1>7, <2>1, <2>8, <2>14 DEF Grows
  <2>17. r \in Memory /\ HeapOK(r, s)
    BY <2>12, <2>14
  <2> QED BY ONLY <1>7, <1>8, <2>15, <2>16, <2>17, HeapChanged, m \in Memory, s \in Space, Balanced(m, s, B)
<1> QED BY <1>9, <1>10

(* sys_free's first half: what goes back is busy until mfree_page is done, *)
(* and the ASSERT in list_remove's loop holds.                             *)
MayReturn(m, s, b) == b \in m.live[s] /\ (m.arena[s][b[1]].large \/ m.arena[s][b[1]].desc = s)

LEMMA ReturnBalanced ==
    ASSUME NEW m \in Memory, NEW half, PagesSound(m, half), NEW s \in Space, NEW b, MayReturn(m, s, b),
           Balanced(m, s, {}), NEW range, range = PagesReturned(m, s, b),
           NEW k, k = Cleared(ReturnBlock(m, s, b), s, range)
    PROVE  FreeAsserts(m, s, b) /\ Elsewhere(m, k, s) /\ Balanced(k, s, range)
<1>1. PICK F, L, A, P, size, page :
          /\ F = m.free[s] /\ L = m.live[s] /\ A = m.arena[s] /\ P = There(m) /\ size = Size(s)
          /\ page = b[1]
  OBVIOUS
<1>2. F \in Seq(Block) /\ L \in SUBSET Block /\ A \in [Page -> Arena]
  BY <1>1, MemoryFields
<1>3. Settled(s, F, L, A, P, size)
  BY <1>1, Parts DEF Balanced, HeapOK, Settled
<1>4. b \in L /\ b \in Block /\ page \in Page /\ (A[page].large \/ A[page].desc = s)
  BY <1>1, <1>2 DEF MayReturn, Block
<1>5. PICK g : g = ReturnBlock(m, s, b)
  OBVIOUS
<1>6. g \in Memory /\ SamePages(m, g) /\ PagesSound(g, half) /\ Returned(m, s, b, g)
  BY ONLY <1>4, <1>5, ReturnBlockSound, m \in Memory, PagesSound(m, half), s \in Space
<1>23. \A t \in Space, q \in Page : ~(t = s /\ q = page) => g.arena[t][q] = m.arena[t][q]
  BY ONLY <1>1, <1>6 DEF Returned
<1>7. k = Cleared(g, s, range)
  BY <1>5
<1>8. k \in Memory /\ SamePages(g, k) /\ IsCleared(g, s, range, k)
  BY ONLY <1>6, <1>7, ClearedSound, s \in Space
<1>9. BlocksOnly(m, k, s)
  <2>1. SamePages(m, k)
    BY <1>6, <1>8 DEF SamePages
  <2>2. \A t \in Space : t # s => k.free[t] = m.free[t] /\ k.live[t] = m.live[t]
    BY <1>6, <1>8 DEF Returned, IsCleared
  <2>3. \A t \in Space : t # s => \A q \in Page : k.arena[t][q] = m.arena[t][q]
    BY ONLY <1>8, <1>23 DEF IsCleared
  <2> QED BY <2>1, <2>2, <2>3 DEF BlocksOnly
<1>10. PICK F2, L2, A2 : F2 = k.free[s] /\ L2 = k.live[s] /\ A2 = k.arena[s]
  OBVIOUS
<1>11. P = There(k)
  BY <1>1, <1>6, <1>8 DEF SamePages, There
<1>12. L2 = L \ {b}
  BY <1>1, <1>6, <1>8, <1>10 DEF Returned, IsCleared
<1>13. PICK a : a = A[page]
  OBVIOUS
<1>14. a \in Arena /\ a.cnt \in Int
  BY <1>2, <1>4, <1>13 DEF Arena
<1>15. A[page] # NoArena /\ page < size
  BY <1>1, <1>3, <1>4 DEF Settled, HeapSound, Laid
<1>24. \A q \in Covered(A) : m.pte[s][q] \in PoolOf(s)
  <2>1. Covered(A) \subseteq Mapped(m, s)
    BY <1>1, Zenon DEF Balanced, SpaceSound, SpaceOK, Divided
  <2>2. EntriesSound(m, half)
    BY DEF PagesSound
  <2> QED BY ONLY <2>1, <2>2, s \in Space DEF Mapped, EntriesSound
<1>25. (range \subseteq Covered(A)) => FreesFrames(m, s, PagesReturned(m, s, b))
  BY ONLY <1>24, range = PagesReturned(m, s, b) DEF FreesFrames
<1>16. /\ FreeAsserts(m, s, b) /\ Settled(s, F2, L2, A2, P, size) /\ Shrinks(A, A2, range)
       /\ Whole(range, Size(s))
  <2>1. CASE a.large
    <3>1. range = PagesAt(A, page) /\ range = page..page + a.cnt - 1
      BY <1>1, <1>13, <2>1 DEF PagesReturned, PagesAt
    <3>2. F2 = F
      BY <1>1, <1>6, <1>8, <1>10, <1>13, <2>1 DEF Returned, IsCleared
    <3>3. \A q \in Page : A2[q] = IF q \in range THEN NoArena ELSE A[q]
      BY <1>1, <1>6, <1>8, <1>10, <1>13, <2>1 DEF Returned, IsCleared
    <3>4. LargeGone(L, A, b, page, range, L2, A2)
      BY <1>1, <1>4, <1>12, <1>13, <2>1, <3>1, <3>3 DEF LargeGone
    <3>5. Settled(s, F, L2, A2, P, size) /\ Shrinks(A, A2, range)
      BY ONLY <1>2, <1>3, <3>4, LargeReturns, s \in Space
    <3>6. FreeAsserts(m, s, b)
      BY <1>1, <1>13, <1>25, <2>1, <3>5 DEF FreeAsserts, Shrinks
    <3>7. a.cnt > 0
      BY <1>3, <1>4, <1>13, <1>15, <2>1 DEF Settled, HeapSound, ArenaSound
    <3>8. Whole(range, Size(s))
      <4>1. a.cnt \in Nat /\ page \in Nat /\ page < Size(s)
        BY <1>1, <1>4, <1>14, <1>15, <3>7, PageNumbers
      <4> QED BY ONLY <3>1, <4>1, WholeRange, s \in Space
    <3> QED BY <3>2, <3>5, <3>6, <3>8
  <2>2. ASSUME ~a.large
        PROVE  InUse(A, L, F, page) /\ a.desc = s
    <3>1. /\ L \subseteq Block /\ HeapSound(s, F, L, A, P) /\ b \in L /\ page = b[1]
          /\ a = A[page] /\ ~a.large /\ a.desc = s
      BY <1>1, <1>2, <1>3, <1>4, <1>13, <2>2 DEF Settled
    <3> QED BY ONLY <1>2, <3>1, SmallInUse, s \in Space
  <2>3. CASE ~a.large /\ a.cnt + 1 < PerArena
    <3>1. range = {}
      BY <1>1, <1>13, <1>14, <2>3, Constants DEF PagesReturned
    <3>2. F2 = Append(F, b)
      BY <1>1, <1>6, <1>8, <1>10, <1>13, <2>3 DEF Returned, IsCleared
    <3>3. Counted(A, A2, page, 1)
      BY <1>1, <1>6, <1>8, <1>10, <1>13, <2>3, <3>1 DEF Returned, IsCleared, Counted
    <3>4. SmallBack(s, F, L, A, b, page, F2, L2, A2)
      BY <1>1, <1>4, <1>12, <1>13, <2>2, <2>3, <3>2, <3>3 DEF SmallBack
    <3>5. Settled(s, F2, L2, A2, P, size) /\ SameCovered(A, A2)
      BY ONLY <1>2, <1>3, <3>4, SmallReturns, s \in Space
    <3>6. FreeAsserts(m, s, b)
      BY <1>1, <1>13, <1>14, <1>25, <2>3, <3>1, Constants DEF FreeAsserts
    <3> QED BY <3>1, <3>5, <3>6 DEF Shrinks, SameCovered, Whole
  <2>4. CASE ~a.large /\ ~(a.cnt + 1 < PerArena)
    <3>1. a.cnt + 1 = PerArena
      BY <1>13, <1>14, <2>2, <2>4, Constants DEF InUse
    <3>2. range = {page}
      BY <1>1, <1>13, <2>4, <3>1 DEF PagesReturned
    <3>3. F2 = Without(Append(F, b), page)
      BY <1>1, <1>6, <1>8, <1>10, <1>13, <2>4 DEF Returned, IsCleared
    <3>4. \A q \in Page : A2[q] = IF q = page THEN NoArena ELSE A[q]
      BY ONLY <1>1, <1>8, <1>10, <1>23, <3>2, s \in Space DEF IsCleared
    <3>5. LastBack(s, F, L, A, b, page, F2, L2, A2)
      BY <1>1, <1>4, <1>12, <1>13, <2>2, <2>4, <3>3, <3>4 DEF LastBack
    <3>6. Settled(s, F2, L2, A2, P, size) /\ Shrinks(A, A2, {page}) /\ AllFree(F, A, b, page)
      BY ONLY <1>2, <1>3, <3>5, LastReturns, s \in Space
    <3>7. FreeAsserts(m, s, b)
      BY <1>1, <1>25, <3>2, <3>6 DEF FreeAsserts, AllFree, Shrinks
    <3>8. Whole(range, Size(s))
      BY <1>1, <1>4, <1>15, <3>2, PageNumbers DEF Whole
    <3> QED BY <3>2, <3>6, <3>7, <3>8
  <2> QED BY <2>1, <2>3, <2>4
<1>17. HeapOK(k, s)
  BY <1>1, <1>10, <1>11, <1>16 DEF HeapOK, Settled
<1>18. PICK H, H2 : H = Covered(m.arena[s]) /\ H2 = Covered(k.arena[s])
  OBVIOUS
<1>19. H2 = H \ range /\ range \subseteq H
  BY <1>1, <1>10, <1>16, <1>18 DEF Shrinks
<1>20. PICK none : none = {}
  OBVIOUS
<1>21. \A V, K, E, R : E = Mapped(m, s) /\ Divided(s, H, V, K, E, R, none) => Divided(s, H2, V, K, E, R, range)
  <2> SUFFICES ASSUME NEW V, NEW K, NEW E, NEW R, Divided(s, H, V, K, E, R, none)
               PROVE  Divided(s, H2, V, K, E, R, range)
    OBVIOUS
  <2>1. none \cup range = range /\ Whole(none \cup range, Size(s))
    BY <1>16, <1>20
  <2>2. Divided(s, H \ range, V, K, E, R, none \cup range)
    BY ONLY <1>19, <2>1, ReturnDivided, Divided(s, H, V, K, E, R, none)
  <2> QED BY <1>19, <2>1, <2>2
<1>22. Elsewhere(m, k, s) /\ Balanced(k, s, range)
  <2>1. k \in Memory /\ Balanced(m, s, none)
    BY <1>8, <1>20
  <2> QED BY ONLY <1>9, <1>17, <1>18, <1>21, <2>1, HeapChanged, m \in Memory, s \in Space
<1> QED BY <1>16, <1>22

(* sys_free as a whole.                                                    *)
LEMMA SysFreeBalanced ==
    ASSUME NEW m \in Memory, PagesSound(m, {}), NEW s \in Space, NEW b, MayReturn(m, s, b),
           Balanced(m, s, {}), NEW n, n = sys_free(m, s, b)
    PROVE  FreeAsserts(m, s, b) /\ Elsewhere(m, n, s) /\ Balanced(n, s, {})
<1>1. PICK range : range = PagesReturned(m, s, b)
  OBVIOUS
<1>2. PICK returned : returned = ReturnBlock(m, s, b)
  OBVIOUS
<1>3. PICK freed : freed = mfree_page(returned, s, range)
  OBVIOUS
<1>4. n = Cleared(freed, s, range)
  BY <1>1, <1>2, <1>3 DEF sys_free
<1>5. b \in Block
  BY MemoryFields DEF MayReturn
<1>6. returned \in Memory /\ SamePages(m, returned) /\ PagesSound(returned, {})
  BY <1>2, <1>5, ReturnBlockSound
<1>7. range \subseteq Page
  BY <1>1, <1>5, ReturnedPages
<1>8. /\ freed \in Memory /\ SameHeap(returned, freed) /\ PagesSound(freed, {})
      /\ freed.vbits = [returned.vbits EXCEPT ![s] = @ \ range]
      /\ \A t \in Space, page \in Page :
             freed.pte[t][page] = IF t = s /\ page \in range THEN NoFrame ELSE returned.pte[t][page]
  BY ONLY <1>3, <1>6, <1>7, MfreeSound, s \in Space
<1>9. PICK k : k = Cleared(returned, s, range)
  OBVIOUS
<1>10. FreeAsserts(m, s, b) /\ Elsewhere(m, k, s) /\ Balanced(k, s, range)
  <2>1. PICK half : half = {}
    OBVIOUS
  <2>2. k = Cleared(ReturnBlock(m, s, b), s, range) /\ PagesSound(m, half)
    BY <1>2, <1>9, <2>1
  <2> QED BY ONLY <1>1, <2>2, ReturnBalanced, m \in Memory, s \in Space, MayReturn(m, s, b), Balanced(m, s, {})
<1>11. k \in Memory /\ SamePages(returned, k) /\ IsCleared(returned, s, range, k)
  BY ONLY <1>6, <1>9, ClearedSound, s \in Space
<1>12. SamePages(freed, n) /\ IsCleared(freed, s, range, n)
  BY ONLY <1>4, <1>8, ClearedSound, s \in Space
<1>13. n.arena = k.arena
  <2>1. n.arena = [freed.arena EXCEPT ![s] = [page \in Page |-> IF page \in range THEN NoArena ELSE @[page]]]
    BY <1>4, <1>8 DEF Cleared, Memory
  <2>2. k.arena = [returned.arena EXCEPT ![s] = [page \in Page |-> IF page \in range THEN NoArena ELSE @[page]]]
    BY <1>6, <1>9 DEF Cleared, Memory
  <2>3. freed.arena = returned.arena
    BY <1>8 DEF SameHeap
  <2> QED BY <2>1, <2>2, <2>3
<1>14. n.free = k.free /\ n.live = k.live /\ n.own = k.own /\ n.lost = k.lost
  BY <1>8, <1>11, <1>12 DEF SamePages, SameHeap, IsCleared
<1>15. \A t \in Space, q \in Page : ~(t = s /\ q \in range) => n.pte[t][q] = k.pte[t][q]
  BY <1>8, <1>11, <1>12 DEF SamePages
<1>16. Emptied(k, n, s, range)
  BY <1>13, <1>14, <1>15 DEF Emptied
<1>17. n.vbits = [k.vbits EXCEPT ![s] = @ \ range]
  BY <1>8, <1>11, <1>12 DEF SamePages
<1>18. Elsewhere(k, n, s) /\ Balanced(n, s, {})
  <2>1. k \in Memory /\ Balanced(k, s, range)
    BY <1>10, <1>11
  <2> QED BY ONLY <1>16, <1>17, <2>1, ReleaseBalanced, s \in Space
<1>19. Elsewhere(m, n, s)
  BY ONLY <1>10, <1>18, ElsewhereAgain
<1> QED BY <1>10, <1>18, <1>19

(* sys_malloc as a whole.                                                  *)
LEMMA SysMallocBalanced ==
    ASSUME NEW m \in Memory, PagesSound(m, {}), NEW s \in Space, s \in There(m) \cup {Kernel},
           NEW n \in {0} \cup LargeSizes, MayTake(m, s, PagesFor(n)), Balanced(m, s, {}),
           NEW r, r = sys_malloc(m, s, n)
    PROVE  Elsewhere(m, r, s) /\ Balanced(r, s, {})
<1>1. PICK got, cnt, none : got = malloc_page(m, s, PagesFor(n)) /\ cnt = PagesFor(n) /\ none = {}
  OBVIOUS
<1>2. cnt \in Nat /\ cnt > 0
  BY <1>1, Constants DEF PagesFor
<1>3. CASE ~NeedsPages(m, s, n)
  <2>1. r = PopBlock(m, s) /\ m.free[s] # <<>> /\ PagesSound(m, none) /\ Balanced(m, s, none)
    BY <1>1, <1>3 DEF sys_malloc, NeedsPages
  <2>2. Elsewhere(m, r, s) /\ Balanced(r, s, none)
    BY ONLY <2>1, PopBalanced, m \in Memory, s \in Space
  <2> QED BY <1>1, <2>2
<1>4. CASE NeedsPages(m, s, n)
  <2>1. Allocated(m, s, cnt, got)
    BY <1>1, <1>2, MallocPage
  <2>2. PICK range : range = RangeOf(got, cnt)
    OBVIOUS
  <2>3. Taken(m, s, got, none, range)
    <3>1. Balanced(m, s, none)
      BY <1>1
    <3> QED BY ONLY <1>2, <2>1, <2>2, <3>1, TakeBalanced, m \in Memory, PagesSound(m, {}), s \in Space
  <2>4. CASE got.ok
    <3>1. PICK gm, page : gm = got.m /\ page = got.page
      OBVIOUS
    <3>2. r = Furnish(gm, s, page, n)
      BY <1>1, <1>4, <2>4, <3>1 DEF sys_malloc
    <3>3. /\ gm \in Memory /\ PagesSound(gm, none) /\ gm.own = m.own /\ gm.free = m.free
          /\ page \in Nat /\ page < Size(s) /\ range \subseteq 0..Size(s)
          /\ \A q \in range : gm.pte[s][q] # NoFrame
      BY <1>1, <2>1, <2>2, <2>4, <3>1, PageNumbers DEF Allocated, RangeOf
    <3>4. page \in Page /\ range \subseteq Page /\ s \in There(gm) \cup {Kernel}
      BY <3>3, PageNumbers DEF There
    <3>5. range = page..page + PagesFor(n) - 1 /\ Balanced(gm, s, range) /\ (n = 0 => gm.free[s] = <<>>)
      BY <1>1, <1>4, <2>2, <2>3, <2>4, <3>1, <3>3 DEF NeedsPages, Taken, RangeOf
    <3>6. gm \in Memory /\ PagesSound(gm, none) /\ page < Size(s) /\ \A q \in range : gm.pte[s][q] # NoFrame
      BY <3>3
    <3>7. Elsewhere(gm, r, s) /\ Balanced(r, s, {})
      BY ONLY <3>2, <3>4, <3>5, <3>6, FurnishBalanced, s \in Space, n \in {0} \cup LargeSizes
    <3>8. Elsewhere(m, gm, s)
      BY <2>3, <3>1 DEF Taken
    <3>9. Elsewhere(m, r, s)
      BY ONLY <3>7, <3>8, ElsewhereAgain
    <3> QED BY <3>7, <3>9
  <2>5. CASE ~got.ok
    <3>1. r = got.m
      BY <1>1, <1>4, <2>5 DEF sys_malloc
    <3> QED BY <1>1, <2>3, <2>5, <3>1 DEF Taken
  <2> QED BY <2>4, <2>5
<1> QED BY <1>3, <1>4

(* get_a_page: the page of a stack or a program is mapped, or lost.        *)
GotPage(m, p, r) == Elsewhere(m, r.m, p) /\ SameBlocks(m, r.m, p) /\ Balanced(r.m, p, {})

LEMMA GetBalanced ==
    ASSUME NEW m, NEW p \in Process, NEW page, MayGet(m, p, page), page \in Stacks(p),
           NEW r, Got(m, p, page, r), Balanced(m, p, {})
    PROVE  GotPage(m, p, r)
<1>1. PICK k : k = r.m
  OBVIOUS
<1>2. /\ k.arena = m.arena /\ k.free = m.free /\ k.live = m.live /\ k.own = m.own
      /\ \A t \in Space : k.vbits[t] = IF t = p THEN m.vbits[p] \cup {page} ELSE m.vbits[t]
      /\ k.lost = m.lost \cup ({p} \X {page}) \/ k.lost = m.lost
      /\ \A t \in Space, q \in Page : ~(t = p /\ q = page) => k.pte[t][q] = m.pte[t][q]
  BY <1>1, Zenon DEF Got
<1>3. p \in Space /\ p # Kernel /\ Size(p) = UserPages
  BY Constants DEF Size
<1>4. page \in Page /\ page \in Nat /\ page < Size(p) /\ m.pte[p][page] = NoFrame
  BY <1>3, PageNumbers DEF MayGet
<1>5. Elsewhere(m, k, p) /\ SameBlocks(m, k, p)
  BY <1>2 DEF Elsewhere, SameBlocks, SameMarks
<1>6. ASSUME PartsOK(m, p, {})
      PROVE  PartsOK(k, p, {})
  <2>1. PICK H, V, K, E, R, K2, E2 : /\ H = Covered(m.arena[p]) /\ V = m.vbits[p] /\ K = Kept(m, p)
                                     /\ E = Mapped(m, p) /\ R = Reserved(m, p) /\ K2 = Kept(k, p)
                                     /\ E2 = Mapped(k, p)
    OBVIOUS
  <2>2. Divided(p, H, V, K, E, R, {})
    BY <1>6, <2>1 DEF PartsOK
  <2>3. page \notin H
    BY <1>4, <2>1, <2>2 DEF Divided, Mapped
  <2>4. K2 = K \cup {page} \/ K2 = K
    BY <1>2, <1>4, <2>1 DEF Kept
  <2>5. E \ {page} \subseteq E2
    BY <1>2, <1>3, <2>1 DEF Mapped
  <2>6. R = {} /\ Reserved(k, p) = R
    BY <1>3, <2>1 DEF Reserved
  <2>7. Whole(K2, Size(p))
    BY <1>4, <2>2, <2>4 DEF Divided, Whole
  <2>8. Divided(p, H, V \cup {page}, K2, E2, R, {})
    BY <2>2, <2>3, <2>4, <2>5, <2>6, <2>7 DEF Divided
  <2>9. H = Covered(k.arena[p]) /\ k.vbits[p] = V \cup {page}
    BY <1>2, <1>3, <2>1
  <2> QED BY <2>1, <2>6, <2>8, <2>9 DEF PartsOK
<1>7. Balanced(k, p, {})
  BY <1>3, <1>5, <1>6, PartsChange
<1> QED BY <1>1, <1>5, <1>7 DEF GotPage

(* Headers that were not there: nothing changes when they are cleared.     *)
LEMMA ClearNothing ==
    ASSUME NEW m \in Memory, NEW half, PagesSound(m, half), NEW s \in Space, NEW range,
           \A q \in Page \cap range : m.arena[s][q] = NoArena,
           NEW n, n = Cleared(m, s, range), NEW t, NEW B, Balanced(m, t, B)
    PROVE  Elsewhere(m, n, s) /\ SameBlocks(m, n, s) /\ Balanced(n, t, B)
<1>1. n \in Memory /\ SamePages(m, n) /\ IsCleared(m, s, range, n)
  BY ClearedSound
<1>2. \A x \in Space : SameBlocks(m, n, x)
  <2> SUFFICES ASSUME NEW x \in Space
               PROVE  n.arena[x] = m.arena[x]
    BY <1>1 DEF SameBlocks, IsCleared
  <2>1. PICK A, A2 : A = m.arena[x] /\ A2 = n.arena[x]
    OBVIOUS
  <2>2. A \in [Page -> Arena] /\ A2 \in [Page -> Arena]
    BY <1>1, <2>1, MemoryFields
  <2>3. \A q \in Page : A2[q] = A[q]
    BY <1>1, <2>1 DEF IsCleared
  <2>4. A2 = A
    BY ONLY <2>2, <2>3, SameHeaders
  <2> QED BY <2>1, <2>4
<1>3. \A x \in Space : SameMarks(m, n, x) /\ n.own = m.own
  BY <1>1 DEF SameMarks, SamePages
<1>4. \A x \in Space : \A C : SpaceSound(m, x, C) => SpaceSound(n, x, C)
  BY <1>2, <1>3, SpaceStays
<1>5. Balanced(n, t, B)
  BY <1>4 DEF Balanced
<1> QED BY <1>1, <1>2, <1>3, <1>5 DEF Elsewhere, SamePages

-----------------------------------------------------------------------------
(* A small block for a moment                                              *)

(* The block b that PopBlock takes, and its header.                        *)
PoppedHere(m, s, b, n) ==
    /\ b \in Block /\ b \in Range(m.free[s]) /\ n.live[s] = m.live[s] \cup {b}
    /\ \A q \in Page : q # b[1] => n.arena[s][q] = m.arena[s][q]
    /\ n.arena[s][b[1]].large = m.arena[s][b[1]].large /\ n.arena[s][b[1]].desc = m.arena[s][b[1]].desc
    /\ n.arena[s][b[1]].cnt = m.arena[s][b[1]].cnt - 1

LEMMA PoppedBlock ==
    ASSUME NEW m \in Memory, NEW s \in Space, m.free[s] # <<>>, NEW n, Popped(m, s, n),
           NEW b, b = Head(m.free[s])
    PROVE  PoppedHere(m, s, b, n)
<1>1. PICK F, L, page, a : F = m.free[s] /\ L = m.live[s] /\ page = b[1] /\ a = m.arena[s][b[1]]
  OBVIOUS
<1>2. F \in Seq(Block) /\ L \in SUBSET Block /\ m.arena[s] \in [Page -> Arena]
  BY <1>1, MemoryFields
<1>3. b \in Range(F) /\ b \in Block
  <2>1. b = F[1] /\ 1 \in DOMAIN F
    BY <1>1, <1>2
  <2> QED BY <1>2, <2>1 DEF Range
<1>4. page \in Page
  BY <1>1, <1>3 DEF Block
<1>5. a \in Arena
  BY <1>1, <1>2, <1>4
<1>6. n.live[s] = L \cup {b}
  BY <1>1, MemoryFields DEF Popped
<1>10. PICK A, A2 : A = m.arena[s] /\ A2 = n.arena[s]
  OBVIOUS
<1>7. \A q \in Page : A2[q] = IF q = page THEN [A[q] EXCEPT !.cnt = @ - 1] ELSE A[q]
  BY <1>1, <1>10 DEF Popped
<1>8. A2[page].large = a.large /\ A2[page].desc = a.desc /\ A2[page].cnt = a.cnt - 1
  BY <1>1, <1>4, <1>5, <1>7, <1>10 DEF Arena
<1>9. \A q \in Page : q # page => A2[q] = A[q]
  BY <1>7
<1>11. /\ n.arena[s][b[1]].large = m.arena[s][b[1]].large
       /\ n.arena[s][b[1]].desc = m.arena[s][b[1]].desc
       /\ n.arena[s][b[1]].cnt = m.arena[s][b[1]].cnt - 1
  BY ONLY <1>1, <1>8, <1>10
<1>12. \A q \in Page : q # b[1] => n.arena[s][q] = m.arena[s][q]
  BY ONLY <1>1, <1>9, <1>10
<1> QED BY ONLY <1>1, <1>3, <1>6, <1>11, <1>12 DEF PoppedHere

(* A listed block belongs to an arena that names this space.               *)
LEMMA ListedBlock ==
    ASSUME NEW s \in Space, NEW F \in Seq(Block), NEW L, NEW A, NEW P, HeapSound(s, F, L, A, P),
           NEW b \in Range(F), NEW page, page = b[1]
    PROVE  b \notin L /\ A[page] # NoArena /\ ~A[page].large /\ A[page].desc = s
<1>1. b \in Block /\ page \in Page /\ b \notin L /\ A[page] # NoArena /\ (A[page].large <=> b[2] = 0)
  BY DEF HeapSound, Range, Block
<1>2. ArenaSound(s, A[page], page, Range(F), L, P)
  BY <1>1 DEF HeapSound
<1>3. ASSUME A[page].large
      PROVE  FALSE
  <2>1. b = <<page, 0>>
    BY <1>1, <1>3 DEF Block
  <2> QED BY <1>1, <1>2, <1>3, <2>1 DEF ArenaSound
<1>4. b \in BlocksOf(page)
  BY <1>1, <1>3, BlockNumbers
<1> QED BY <1>1, <1>2, <1>3, <1>4 DEF ArenaSound

(* sys_malloc of a small block: it comes from an arena that is there, or   *)
(* opens one on a page that was not marked.                                *)
TookBlock(m, s, r, b) ==
    /\ b \in Block /\ b \notin m.live[s] /\ r.live[s] = m.live[s] \cup {b}
    /\ ~r.arena[s][b[1]].large /\ r.arena[s][b[1]].desc = s
    /\ \A q \in Page : q # b[1] => r.arena[s][q] = m.arena[s][q]
    /\ \/ m.arena[s][b[1]] # NoArena
       \/ b[1] \notin m.vbits[s] /\ m.arena[s][b[1]] = NoArena /\ r.arena[s][b[1]].cnt + 1 = PerArena

LEMMA SmallTaken ==
    ASSUME NEW m \in Memory, PagesSound(m, {}), NEW s \in Space, MayTake(m, s, 1), Balanced(m, s, {}),
           NEW r, r = sys_malloc(m, s, 0)
    PROVE  (r.live = m.live /\ r.arena = m.arena) \/ \E b : TookBlock(m, s, r, b)
<1>1. PICK F, L, A, P : F = m.free[s] /\ L = m.live[s] /\ A = m.arena[s] /\ P = There(m)
  OBVIOUS
<1>2. F \in Seq(Block) /\ L \in SUBSET Block /\ A \in [Page -> Arena] /\ HeapSound(s, F, L, A, P)
  BY <1>1, MemoryFields, Parts DEF Balanced, HeapOK
<1>3. PICK half : half = {}
  OBVIOUS
<1>4. PICK got : got = malloc_page(m, s, 1)
  OBVIOUS
<1>5. PagesFor(0) = 1
  BY DEF PagesFor
<1>6. CASE m.free[s] # <<>>
  <2>1. r = PopBlock(m, s) /\ PagesSound(m, half)
    BY <1>3, <1>6, Constants DEF sys_malloc, NeedsPages
  <2>2. r \in Memory /\ Popped(m, s, r)
    BY ONLY <1>6, <2>1, PopBlockSound, m \in Memory, s \in Space
  <2>3. PICK b : b = Head(m.free[s])
    OBVIOUS
  <2>4. PoppedHere(m, s, b, r)
    BY ONLY <1>6, <2>2, <2>3, PoppedBlock, m \in Memory, s \in Space
  <2>5. PICK page : page = b[1]
    OBVIOUS
  <2>6. b \in Range(F)
    BY <1>1, <2>4 DEF PoppedHere
  <2>7. b \notin L /\ A[page] # NoArena /\ ~A[page].large /\ A[page].desc = s
    BY ONLY <1>2, <2>5, <2>6, ListedBlock, s \in Space
  <2>8. TookBlock(m, s, r, b)
    BY <1>1, <2>4, <2>5, <2>7 DEF TookBlock, PoppedHere
  <2> QED BY <2>8
<1>7. CASE m.free[s] = <<>> /\ ~got.ok
  <2>1. r = got.m
    BY <1>4, <1>5, <1>7 DEF sys_malloc, NeedsPages
  <2>2. Allocated(m, s, 1, got)
    BY <1>4, MallocPage
  <2> QED BY <2>1, <2>2 DEF Allocated
<1>8. CASE m.free[s] = <<>> /\ got.ok
  <2>1. PICK gm, page, one : gm = got.m /\ page = got.page /\ one = 1
    OBVIOUS
  <2>2. Allocated(m, s, one, got)
    BY <1>4, <2>1, MallocPage
  <2>3. /\ gm \in Memory /\ PagesSound(gm, half) /\ gm.arena = m.arena /\ gm.live = m.live /\ gm.free = m.free
        /\ page \in Nat /\ page < Size(s) /\ (page..page) \cap m.vbits[s] = {}
    BY <1>3, <1>8, <2>1, <2>2 DEF Allocated
  <2>4. page \in Page /\ page \notin m.vbits[s]
    BY <2>3, PageNumbers
  <2>5. PICK k : k = NewArena(gm, s, page)
    OBVIOUS
  <2>6. r = PopBlock(k, s)
    BY <1>4, <1>5, <1>8, <2>1, <2>5 DEF sys_malloc, NeedsPages, Furnish
  <2>7. gm \in Memory /\ PagesSound(gm, half)
    BY <2>3
  <2>8. k \in Memory /\ SamePages(gm, k) /\ PagesSound(k, half) /\ ArenaMade(gm, s, page, k)
    BY ONLY <2>4, <2>5, <2>7, NewArenaSound, s \in Space
  <2>9. PICK F2 : F2 = ArenaBlocks(page)
    OBVIOUS
  <2>10. F2 \in Seq(Block) /\ Len(F2) = PerArena /\ Range(F2) = BlocksOf(page)
    BY <2>4, <2>9, ArenaBlocksResult
  <2>11. k.free[s] = F2
    <3>1. k.free[s] = <<>> \o F2
      BY <1>8, <2>3, <2>8, <2>9 DEF ArenaMade
    <3> QED BY <2>10, <3>1
  <2>12. k \in Memory /\ PagesSound(k, half) /\ k.free[s] # <<>>
    BY <2>8, <2>10, <2>11, Constants
  <2>13. r \in Memory /\ Popped(k, s, r)
    BY ONLY <2>6, <2>12, PopBlockSound, s \in Space
  <2>14. PICK b : b = Head(k.free[s])
    OBVIOUS
  <2>15. PoppedHere(k, s, b, r)
    BY ONLY <2>12, <2>13, <2>14, PoppedBlock, s \in Space
  <2>16. b[1] = page /\ b \in Block
    BY <2>4, <2>10, <2>11, <2>15, BlockNumbers DEF PoppedHere
  <2>17. Bare(F, L, A, page)
    <3>1. page \notin Covered(A) /\ L \subseteq Block
      BY <1>1, <1>2, <2>4, Parts DEF Balanced, PartsOK, Divided
    <3> QED BY ONLY <1>2, <2>4, <3>1, NoBlockHere
  <2>18. b \notin L /\ A[page] = NoArena
    BY <2>16, <2>17 DEF Bare
  <2>19. PICK new : new = [cnt |-> PerArena, large |-> FALSE, desc |-> s]
    OBVIOUS
  <2>20. new.cnt = PerArena /\ new.large = FALSE /\ new.desc = s
    BY <2>19
  <2>21. k.arena[s][page] = new /\ \A q \in Page : q # page => k.arena[s][q] = m.arena[s][q]
    BY <2>3, <2>4, <2>8, <2>19 DEF ArenaMade
  <2>22. r.arena[s][page].cnt = PerArena - 1 /\ ~r.arena[s][page].large /\ r.arena[s][page].desc = s
    BY <2>15, <2>16, <2>20, <2>21 DEF PoppedHere
  <2>23. \A q \in Page : q # page => r.arena[s][q] = m.arena[s][q]
    BY <2>15, <2>16, <2>21 DEF PoppedHere
  <2>24. r.live[s] = L \cup {b}
    BY <1>1, <2>3, <2>8, <2>15 DEF ArenaMade, PoppedHere
  <2>25. TookBlock(m, s, r, b)
    BY <1>1, <2>4, <2>16, <2>18, <2>22, <2>23, <2>24, Constants DEF TookBlock
  <2> QED BY <2>25
<1> QED BY <1>6, <1>7, <1>8

(* sys_free of a small block touches one header, or removes it.            *)
OneHeader(m, s, b, n) ==
    /\ \A q \in Page : q # b[1] => n.arena[s][q] = m.arena[s][q]
    /\ m.arena[s][b[1]].cnt + 1 = PerArena => n.arena[s][b[1]] = NoArena

LEMMA SmallFreed ==
    ASSUME NEW m \in Memory, PagesSound(m, {}), NEW s \in Space, NEW b, MayReturn(m, s, b),
           ~m.arena[s][b[1]].large, NEW n, n = sys_free(m, s, b)
    PROVE  OneHeader(m, s, b, n)
<1>1. PICK range, page : range = PagesReturned(m, s, b) /\ page = b[1]
  OBVIOUS
<1>2. PICK returned : returned = ReturnBlock(m, s, b)
  OBVIOUS
<1>3. PICK freed : freed = mfree_page(returned, s, range)
  OBVIOUS
<1>4. n = Cleared(freed, s, range)
  BY <1>1, <1>2, <1>3 DEF sys_free
<1>5. b \in Block /\ page \in Page
  BY <1>1, MemoryFields DEF MayReturn, Block
<1>6. returned \in Memory /\ PagesSound(returned, {}) /\ Returned(m, s, b, returned)
  BY <1>2, <1>5, ReturnBlockSound
<1>7. range \subseteq Page
  BY <1>1, <1>5, ReturnedPages
<1>8. freed \in Memory /\ SameHeap(returned, freed) /\ PagesSound(freed, {})
  BY ONLY <1>3, <1>6, <1>7, MfreeSound, s \in Space
<1>9. IsCleared(freed, s, range, n)
  BY ONLY <1>4, <1>8, ClearedSound, s \in Space
<1>10. \A t \in Space, q \in Page : ~(t = s /\ q = page) => returned.arena[t][q] = m.arena[t][q]
  BY ONLY <1>1, <1>6 DEF Returned
<1>11. range = (IF m.arena[s][page].cnt + 1 = PerArena THEN {page} ELSE {})
  BY <1>1 DEF PagesReturned
<1>12. \A q \in Page : n.arena[s][q] = IF q \in range THEN NoArena ELSE returned.arena[s][q]
  BY <1>8, <1>9 DEF IsCleared, SameHeap
<1>13. range \subseteq {page}
  BY <1>11
<1>14. \A q \in Page : q # page => n.arena[s][q] = m.arena[s][q]
  BY ONLY <1>10, <1>12, <1>13, s \in Space
<1>15. m.arena[s][page].cnt + 1 = PerArena => n.arena[s][page] = NoArena
  BY ONLY <1>5, <1>11, <1>12
<1> QED BY ONLY <1>1, <1>14, <1>15 DEF OneHeader

(* The buffer of a sys_read comes and goes, without a new header.          *)
Buffered(m, p, n) ==
    /\ Elsewhere(m, n, p) /\ Balanced(n, p, {}) /\ Sound(n)
    /\ \A q \in Page : m.arena[p][q] = NoArena => n.arena[p][q] = NoArena

Reading(m, p, k) ==
    LET buffer == k.live[p] \ m.live[p] IN IF buffer = {} THEN k ELSE sys_free(k, p, Only(buffer))

(* Its block is not in a page that is marked and has no header.            *)
ApartFrom(m, p, k) ==
    \A b \in k.live[p] \ m.live[p] : m.arena[p][b[1]] # NoArena \/ b[1] \notin m.vbits[p]

(* The ASSERTs of sys_free hold for it.                                    *)
MayGoBack(m, p, k) ==
    k.live[p] \ m.live[p] # {} => FreeAsserts(k, p, Only(k.live[p] \ m.live[p]))

LEMMA BufferBack ==
    ASSUME NEW m, Sound(m), NEW p \in Process, m.own[p] # {}, Balanced(m, p, {}),
           NEW k, k = sys_malloc(m, p, 0), NEW n, n = Reading(m, p, k)
    PROVE  Buffered(m, p, n) /\ ApartFrom(m, p, k) /\ MayGoBack(m, p, k)
<1>1. m \in Memory /\ PagesSound(m, {}) /\ p \in Space /\ p \in There(m) \cup {Kernel}
  BY Constants DEF Sound, There
<1>2. MayTake(m, p, PagesFor(0)) /\ MayTake(m, p, 1) /\ 0 \in {0} \cup LargeSizes
  BY DEF MayTake, PagesFor
<1>3. k \in Memory /\ PagesSound(k, {}) /\ SameOwn(m, k)
  BY <1>1, <1>2, SysMallocSound
<1>4. Elsewhere(m, k, p) /\ Balanced(k, p, {})
  BY <1>1, <1>2, SysMallocBalanced
<1>5. (k.live = m.live /\ k.arena = m.arena) \/ \E b : TookBlock(m, p, k, b)
  BY <1>1, <1>2, SmallTaken
<1>6. CASE k.live = m.live /\ k.arena = m.arena
  <2>1. k.live[p] \ m.live[p] = {}
    BY <1>6
  <2>2. n = k
    BY <2>1 DEF Reading
  <2> QED BY <1>3, <1>4, <1>6, <2>1, <2>2 DEF Buffered, ApartFrom, Sound, MayGoBack
<1>7. CASE \E b : TookBlock(m, p, k, b)
  <2>1. PICK b : TookBlock(m, p, k, b)
    BY <1>7
  <2>2. k.live[p] \ m.live[p] = {b}
    BY <2>1 DEF TookBlock
  <2>3. Only({b}) = b
    BY DEF Only
  <2>4. n = sys_free(k, p, b)
    BY <2>2, <2>3 DEF Reading
  <2>5. MayReturn(k, p, b) /\ ~k.arena[p][b[1]].large /\ b \in Block
    BY <2>1 DEF TookBlock, MayReturn
  <2>6. Elsewhere(k, n, p) /\ Balanced(n, p, {}) /\ FreeAsserts(k, p, b)
    BY ONLY <1>1, <1>3, <1>4, <2>4, <2>5, SysFreeBalanced
  <2>7. OneHeader(k, p, b, n)
    BY ONLY <1>1, <1>3, <2>4, <2>5, SmallFreed
  <2>8. Sound(n)
    BY ONLY <1>1, <1>3, <2>4, <2>5, SysFreeSound DEF Sound
  <2>9. Elsewhere(m, n, p)
    BY ONLY <1>4, <2>6, ElsewhereAgain
  <2>10. PICK page : page = b[1]
    OBVIOUS
  <2>11. /\ \A q \in Page : q # page => n.arena[p][q] = m.arena[p][q]
         /\ m.arena[p][page] # NoArena \/ n.arena[p][page] = NoArena
    BY ONLY <2>1, <2>7, <2>10 DEF TookBlock, OneHeader
  <2>12. \A q \in Page : m.arena[p][q] = NoArena => n.arena[p][q] = NoArena
    BY ONLY <2>11
  <2>13. m.arena[p][b[1]] # NoArena \/ b[1] \notin m.vbits[p]
    BY ONLY <2>1 DEF TookBlock
  <2> QED BY <2>2, <2>3, <2>6, <2>8, <2>9, <2>12, <2>13 DEF Buffered, ApartFrom, MayGoBack
<1> QED BY <1>5, <1>6, <1>7

(* segment_load asks for the page if the process does not have it yet.     *)
Asking(m, p, page) ==
    IF m.pte[p][page] # NoFrame THEN Done(m)
    ELSE IF page = 0 THEN Fault(m, "ASSERT(bit_idx > 0)")
    ELSE get_a_page(m, p, page)

Loadable(m, p, page) ==
    /\ m.own[p] # {} /\ page \in 0..StackPage /\ page # 0 /\ page \in Stacks(p)
    /\ m.arena[p][page] = NoArena

Provided(m, p, page, n) ==
    /\ Sound(n) /\ n.own = m.own /\ n.arena = m.arena /\ page \in n.vbits[p]
    /\ Elsewhere(m, n, p) /\ Balanced(n, p, {})

AskedFor(m, p, page, r) == Provided(m, p, page, r.m) /\ r.why = ""

LEMMA AskedBalanced ==
    ASSUME NEW m, Sound(m), NEW p \in Process, NEW page, Loadable(m, p, page), Balanced(m, p, {}),
           NEW r, r = Asking(m, p, page)
    PROVE  AskedFor(m, p, page, r)
<1>1. m \in Memory /\ PagesSound(m, {}) /\ p \in Space /\ page \in Page
  <2>1. page \in 0..StackPage
    BY ONLY Loadable(m, p, page) DEF Loadable
  <2>2. page \in Page
    BY ONLY <2>1, Constants DEF Page, StackPage
  <2>4. p \in Space
    BY ONLY Constants, p \in Process
  <2>3. m \in Memory /\ PagesSound(m, {})
    BY ONLY Sound(m), Zenon DEF Sound
  <2> QED BY ONLY <2>2, <2>3, <2>4, Zenon
<1>2. CASE m.pte[p][page] # NoFrame
  <2>1. r = Done(m)
    BY ONLY r = Asking(m, p, page), <1>2, Zenon DEF Asking
  <2>2. r.m = m /\ r.why = ""
    BY ONLY <2>1, Zenon DEF Done
  <2>3. page \in m.vbits[p]
    <3>1. PICK none : none = {} /\ PagesSound(m, none)
      BY ONLY <1>1
    <3> QED BY ONLY <1>1, <1>2, <3>1 DEF PagesSound, EntriesSound
  <2>4. Elsewhere(m, m, p)
    BY ONLY DEF Elsewhere, SameBlocks, SameMarks
  <2>5. Provided(m, p, page, m)
    BY ONLY <2>3, <2>4, Sound(m), Balanced(m, p, {}), Zenon DEF Provided
  <2> QED BY ONLY <2>2, <2>5, Zenon DEF AskedFor
<1>3. CASE m.pte[p][page] = NoFrame
  <2>1. MayGet(m, p, page) /\ m.own[p] # {}
    BY ONLY Loadable(m, p, page), <1>3 DEF MayGet, Loadable
  <2>2. r = get_a_page(m, p, page)
    BY ONLY r = Asking(m, p, page), <1>3, Loadable(m, p, page) DEF Asking, Loadable
  <2>3. Got(m, p, page, r)
    BY ONLY <1>1, <2>1, <2>2, GetAPage, p \in Process
  <2>4. page \in Stacks(p)
    BY ONLY Loadable(m, p, page) DEF Loadable
  <2>5. GotPage(m, p, r)
    BY ONLY <2>1, <2>3, <2>4, GetBalanced, p \in Process, Balanced(m, p, {})
  <2>6. PICK n : n = r.m
    OBVIOUS
  <2>7. Elsewhere(m, n, p) /\ Balanced(n, p, {})
    BY ONLY <2>5, <2>6, Zenon DEF GotPage
  <2>8. Sound(n) /\ n.own = m.own /\ n.arena = m.arena /\ r.why = ""
    BY ONLY <2>3, <2>6, Zenon DEF Got, Sound
  <2>9. \A t \in Space : n.vbits[t] = IF t = p THEN m.vbits[p] \cup {page} ELSE m.vbits[t]
    BY ONLY <2>3, <2>6, Zenon DEF Got
  <2>10. page \in n.vbits[p]
    BY ONLY <1>1, <2>9, Zenon
  <2>11. Provided(m, p, page, n)
    BY ONLY <2>7, <2>8, <2>10, Zenon DEF Provided
  <2> QED BY ONLY <2>6, <2>8, <2>11, Zenon DEF AskedFor
<1> QED BY ONLY <1>2, <1>3, Zenon

(* The buffer of sys_read does not come to lie in the page, and the page   *)
(* is overwritten.                                                         *)
Read(m, p, page, c) ==
    /\ Elsewhere(m, c, p) /\ Balanced(c, p, {})
    /\ \A q \in Page : m.arena[p][q] = NoArena => c.arena[p][q] = NoArena

LEMMA ReadBalanced ==
    ASSUME NEW m, NEW p \in Process, m.own[p] # {}, NEW page \in Page, m.arena[p][page] = NoArena,
           Sound(m), Balanced(m, p, {}),
           NEW k, k = sys_malloc(m, p, 0), NEW n, n = Reading(m, p, k),
           NEW c, c = Cleared(n, p, {page})
    PROVE  Read(m, p, page, c)
<1>1. Buffered(m, p, n)
  BY ONLY m.own[p] # {}, Sound(m), Balanced(m, p, {}), k = sys_malloc(m, p, 0), n = Reading(m, p, k),
          BufferBack, p \in Process
<1>2. PICK range, half : range = {page} /\ c = Cleared(n, p, range) /\ half = {}
  BY ONLY c = Cleared(n, p, {page})
<1>3. Sound(n) /\ Balanced(n, p, {}) /\ Elsewhere(m, n, p)
  BY ONLY <1>1, Zenon DEF Buffered
<1>4. n \in Memory /\ PagesSound(n, half) /\ Balanced(n, p, half)
  BY ONLY <1>2, <1>3, Zenon DEF Sound
<1>5. \A q \in Page : m.arena[p][q] = NoArena => n.arena[p][q] = NoArena
  BY ONLY <1>1, Zenon DEF Buffered
<1>6. \A q \in Page \cap range : n.arena[p][q] = NoArena
  BY ONLY <1>2, <1>5, m.arena[p][page] = NoArena
<1>7. p \in Space
  BY ONLY Constants, p \in Process
<1>8. Elsewhere(n, c, p) /\ SameBlocks(n, c, p) /\ Balanced(c, p, half)
  BY ONLY <1>2, <1>4, <1>6, <1>7, ClearNothing
<1>9. Elsewhere(m, c, p)
  BY ONLY <1>3, <1>8, ElsewhereAgain
<1>10. \A q \in Page : m.arena[p][q] = NoArena => c.arena[p][q] = NoArena
  BY ONLY <1>5, <1>8 DEF SameBlocks
<1> QED BY ONLY <1>2, <1>8, <1>9, <1>10, Zenon DEF Read

(* segment_load: a page above the heap is loaded, and no header is lost or *)
(* written over.                                                           *)
LoadedPage(m, p, page, r) == r.why = "" /\ Read(m, p, page, r.m)

LEMMA SegmentBalanced ==
    ASSUME NEW m, Sound(m), NEW p \in Process, NEW page, Loadable(m, p, page), Balanced(m, p, {}),
           NEW r, r = segment_load(m, p, page)
    PROVE  LoadedPage(m, p, page, r)
<1>1. PICK got : got = Asking(m, p, page)
  OBVIOUS
<1>2. PICK gm : gm = got.m
  OBVIOUS
<1>3. PICK k : k = sys_malloc(gm, p, 0)
  OBVIOUS
<1>4. PICK n : n = Reading(gm, p, k)
  OBVIOUS
<1>5. PICK c : c = Cleared(n, p, {page})
  OBVIOUS
<1>6. PICK fresh : fresh = k.live[p] \ gm.live[p]
  OBVIOUS
<1>7. r = IF got.why # "" \/ got.holds THEN got
          ELSE IF fresh \cap BlocksOf(page) # {} THEN Fault(k, "page fault in sys_free")
          ELSE IF fresh # {} /\ ~FreeAsserts(k, p, Only(fresh)) THEN Fault(k, "ASSERT in sys_free")
          ELSE Done(c)
  BY ONLY <1>1, <1>2, <1>3, <1>4, <1>5, <1>6, r = segment_load(m, p, page), Zenon
     DEF segment_load, Reading, Asking
<1>8. AskedFor(m, p, page, got)
  BY ONLY <1>1, AskedBalanced, Sound(m), p \in Process, Loadable(m, p, page), Balanced(m, p, {})
<1>9. /\ Sound(gm) /\ gm.own = m.own /\ gm.arena = m.arena /\ page \in gm.vbits[p]
      /\ Elsewhere(m, gm, p) /\ Balanced(gm, p, {})
  BY ONLY <1>2, <1>8, Zenon DEF AskedFor, Provided
<1>10. page \in 0..StackPage /\ m.own[p] # {} /\ m.arena[p][page] = NoArena
  BY ONLY Loadable(m, p, page), Zenon DEF Loadable
<1>11. page \in Page
  BY ONLY <1>10, Constants DEF Page, StackPage
<1>12. gm.own[p] # {} /\ gm.arena[p][page] = NoArena
  BY ONLY <1>9, <1>10, Zenon
<1>13. CASE got.holds
  <2>1. r = got
    BY ONLY <1>7, <1>13, Zenon
  <2>2. Read(m, p, page, gm)
    BY ONLY <1>9, Zenon DEF Read
  <2> QED BY ONLY <1>2, <1>8, <2>1, <2>2, Zenon DEF AskedFor, LoadedPage
<1>14. CASE ~got.holds
  <2>1. ApartFrom(gm, p, k) /\ MayGoBack(gm, p, k)
    BY ONLY <1>3, <1>4, <1>9, <1>12, BufferBack, p \in Process
  <2>2. fresh \cap BlocksOf(page) = {}
    <3> SUFFICES ASSUME NEW b \in fresh, b \in BlocksOf(page)
                 PROVE  FALSE
      OBVIOUS
    <3>1. b[1] = page
      BY ONLY <1>11, BlockNumbers, b \in BlocksOf(page)
    <3>2. gm.arena[p][b[1]] # NoArena \/ b[1] \notin gm.vbits[p]
      BY ONLY <1>6, <2>1, b \in fresh, Zenon DEF ApartFrom
    <3> QED BY ONLY <1>9, <1>12, <3>1, <3>2, Zenon
  <2>10. ~(fresh # {} /\ ~FreeAsserts(k, p, Only(fresh)))
    BY ONLY <1>6, <2>1, Zenon DEF MayGoBack
  <2>3. r = Done(c)
    BY ONLY <1>7, <1>8, <1>14, <2>2, <2>10, Zenon DEF AskedFor
  <2>4. r.m = c /\ r.why = ""
    BY ONLY <2>3, Zenon DEF Done
  <2>5. Read(gm, p, page, c)
    BY ONLY <1>3, <1>4, <1>5, <1>9, <1>11, <1>12, ReadBalanced, p \in Process
  <2>6. Elsewhere(gm, c, p) /\ Balanced(c, p, {})
    BY ONLY <2>5, Zenon DEF Read
  <2>7. Elsewhere(m, c, p)
    BY ONLY <1>9, <2>6, ElsewhereAgain
  <2>8. \A q \in Page : m.arena[p][q] = NoArena => c.arena[p][q] = NoArena
    BY ONLY <1>9, <2>5, Zenon DEF Read
  <2>9. Read(m, p, page, c)
    BY ONLY <2>6, <2>7, <2>8, Zenon DEF Read
  <2> QED BY ONLY <2>4, <2>9, Zenon DEF LoadedPage
<1> QED BY ONLY <1>13, <1>14, Zenon

-----------------------------------------------------------------------------
(* Forks                                                                   *)

(* One more page of the kernel, which the call is busy with.               *)
Inside(B) == B \subseteq Page /\ Size(Kernel) \notin B

NextPage(m, B, B2, r) ==
    /\ Sound(r.m) /\ SameProcesses(m, r.m) /\ Elsewhere(m, r.m, Kernel) /\ r.ok \in BOOLEAN
    /\ r.ok => Inside(B2) /\ r.page \notin B /\ Balanced(r.m, Kernel, B2)
    /\ ~r.ok => Balanced(r.m, Kernel, B)

LEMMA ForkPage ==
    ASSUME NEW m, Sound(m), NEW B, Inside(B), Balanced(m, Kernel, B),
           NEW r, r = get_kernel_pages(m, 1), NEW B2, B2 = B \cup {r.page}
    PROVE  NextPage(m, B, B2, r)
<1>1. Kernel \in Space /\ 1 \in Nat
  BY ONLY Constants
<1>2. m \in Memory /\ PagesSound(m, {})
  BY ONLY Sound(m), Zenon DEF Sound
<1>3. Allocated(m, Kernel, 1, r) /\ Sound(r.m) /\ SameProcesses(m, r.m) /\ (r.ok => r.page \in Page)
  BY ONLY Sound(m), r = get_kernel_pages(m, 1), KernelPage
<1>4. PICK range : range = RangeOf(r, 1)
  BY Zenon
<1>5. Taken(m, Kernel, r, B, range)
  BY ONLY <1>1, <1>2, <1>3, <1>4, TakeBalanced, Balanced(m, Kernel, B)
<1>6. Elsewhere(m, r.m, Kernel) /\ (r.ok => Balanced(r.m, Kernel, B \cup range)) /\ (~r.ok => Balanced(r.m, Kernel, B))
  BY ONLY <1>5, Zenon DEF Taken
<1>7. CASE r.ok
  <2>1. PICK page : page = r.page /\ page \in Nat
    BY ONLY <1>3, <1>7, PageNumbers
  <2>2. range = {page}
    BY ONLY <1>4, <2>1 DEF RangeOf
  <2>3. page < Size(Kernel) /\ page \notin m.vbits[Kernel]
    <3>1. r.page # NoPage
      BY ONLY <2>1, PageNumbers
    <3>2. r.page < Size(Kernel) /\ (r.page..r.page + 1 - 1) \cap m.vbits[Kernel] = {}
      BY ONLY <1>3, <3>1, Zenon DEF Allocated
    <3> QED BY ONLY <2>1, <3>2
  <2>4. B \subseteq m.vbits[Kernel]
    BY ONLY <1>1, Balanced(m, Kernel, B), Zenon DEF Balanced, SpaceSound, SpaceOK, Divided
  <2>5. page \in Page /\ B2 = B \cup range /\ page \notin B
    BY ONLY <1>3, <1>7, <2>1, <2>2, <2>3, <2>4, B2 = B \cup {r.page}
  <2>6. page # Size(Kernel)
    BY ONLY <1>1, <2>1, <2>3, PageNumbers
  <2>7. Inside(B2)
    BY ONLY <2>2, <2>5, <2>6, Inside(B) DEF Inside
  <2> QED BY ONLY <1>3, <1>6, <1>7, <2>1, <2>5, <2>7, Zenon DEF NextPage, Allocated
<1>8. CASE ~r.ok
  BY ONLY <1>3, <1>6, <1>8, Zenon DEF NextPage, Allocated
<1> QED BY ONLY <1>7, <1>8, Zenon

(* The child's heap: the arenas that came with the fork name another       *)
(* process, which is why their free blocks are in no list of the child.    *)
LEMMA ChildHeap ==
    ASSUME NEW p \in Process, NEW c \in Process, NEW F, NEW L, NEW A, NEW P, c \notin P, NEW P2, P \subseteq P2,
           HeapSound(p, F, L, A, P), NEW G, G = <<>>
    PROVE  HeapSound(c, G, L, A, P2)
<1>1. IsInjective(G) /\ \A b : b \notin Range(G)
  BY ONLY G = <<>> DEF IsInjective, Range
<1>2. p # Kernel /\ c # Kernel
  BY ONLY Constants
<1>3. \A b \in L : A[b[1]] # NoArena /\ (A[b[1]].large <=> b[2] = 0)
  BY ONLY HeapSound(p, F, L, A, P), Zenon DEF HeapSound
<1>4. ASSUME NEW page \in Page, A[page] # NoArena
      PROVE  ArenaSound(c, A[page], page, Range(G), L, P2)
  <2>1. PICK a, listed : a = A[page] /\ listed = Range(F)
    OBVIOUS
  <2>2. ArenaSound(p, a, page, listed, L, P)
    BY ONLY <1>4, <2>1, HeapSound(p, F, L, A, P), Zenon DEF HeapSound
  <2>3. a.desc \in P
    BY ONLY <1>2, <2>2, Zenon DEF ArenaSound
  <2>4. a.desc \in P2 /\ a.desc # c
    BY ONLY <2>3, c \notin P, P \subseteq P2
  <2>5. IF a.large THEN <<page, 0>> \in L /\ a.cnt > 0
        ELSE a.cnt + Cardinality(BlocksOf(page) \cap L) = PerArena
    BY ONLY <2>2, Zenon DEF ArenaSound
  <2>6. BlocksOf(page) \cap Range(G) = {}
    BY ONLY <1>1
  <2>7. ArenaSound(c, a, page, Range(G), L, P2)
    BY ONLY <1>2, <2>4, <2>5, <2>6, Zenon DEF ArenaSound
  <2> QED BY ONLY <2>1, <2>7, Zenon
<1>5. Range(G) \cap L = {} /\ \A b \in Range(G) \cup L : A[b[1]] # NoArena /\ (A[b[1]].large <=> b[2] = 0)
  BY ONLY <1>1, <1>3
<1> QED BY ONLY <1>1, <1>4, <1>5, Zenon DEF HeapSound

LEMMA ChildParts ==
    ASSUME NEW p \in Process, NEW c \in Process, NEW H, NEW V, NEW K, NEW E, NEW R, NEW B,
           Divided(p, H, V, K, E, R, B), NEW E2, V \subseteq E2
    PROVE  Divided(c, H, V, K, E2, R, B)
<1>1. Size(p) = Size(c) /\ Stacks(p) = Stacks(c)
  BY Constants DEF Size, Stacks
<1>2. Divided(p, H, V, K, E2, R, B)
  BY ONLY Divided(p, H, V, K, E, R, B), V \subseteq E2 DEF Divided
<1> QED BY ONLY <1>1, <1>2 DEF Divided

(* After the copy: the child has the parent's blocks and marks, and a      *)
(* frame for each of the marked pages.                                     *)
ChildMade(m, d, p, c, own, n) ==
    /\ \A q \in Process : n.own[q] = IF q = c THEN own ELSE d.own[q]
    /\ \A t \in Space : t # c => SameBlocks(d, n, t) /\ SameMarks(d, n, t)
    /\ n.free[c] = <<>> /\ n.live[c] = m.live[p] /\ n.arena[c] = m.arena[p] /\ n.vbits[c] = m.vbits[p]
    /\ Kept(n, c) = Kept(m, p) /\ m.vbits[p] \subseteq Mapped(n, c)

LEMMA ChildThere ==
    ASSUME NEW m, NEW d, d.own = m.own, NEW p, NEW c, MayFork(m, p, c), NEW own, own # {},
           NEW n, ChildMade(m, d, p, c, own, n)
    PROVE  There(n) = There(d) \cup {c} /\ c \notin There(d) /\ Reserved(n, Kernel) = Reserved(d, Kernel) \cup own
<1>1. c \in Process /\ m.own[c] = {}
  BY ONLY MayFork(m, p, c), Zenon DEF MayFork
<1>2. d.own[c] = {}
  BY ONLY <1>1, d.own = m.own
<1>3. PICK O, O2 : O = d.own /\ O2 = n.own
  OBVIOUS
<1>4. O[c] = {} /\ \A q \in Process : O2[q] = IF q = c THEN own ELSE O[q]
  <2>1. \A q \in Process : n.own[q] = IF q = c THEN own ELSE d.own[q]
    BY ONLY ChildMade(m, d, p, c, own, n), Zenon DEF ChildMade
  <2>2. \A q \in Process : O2[q] = IF q = c THEN own ELSE O[q]
    BY ONLY <1>3, <2>1, Zenon
  <2>3. O[c] = {}
    BY ONLY <1>2, <1>3, Zenon
  <2> QED BY ONLY <2>2, <2>3, Zenon
<1>6. {q \in Process : O2[q] # {}} = {q \in Process : O[q] # {}} \cup {c}
  BY ONLY <1>1, <1>4, own # {}
<1>7. c \notin {q \in Process : O[q] # {}}
  BY ONLY <1>4
<1>8. There(n) = {q \in Process : O2[q] # {}} /\ There(d) = {q \in Process : O[q] # {}}
  BY ONLY <1>3 DEF There
<1>9. \A x : /\ x \in Reserved(n, Kernel) <=> \E q \in Process : x \in O2[q]
             /\ x \in Reserved(d, Kernel) <=> \E q \in Process : x \in O[q]
  BY ONLY <1>3 DEF Reserved
<1>10. Reserved(n, Kernel) = Reserved(d, Kernel) \cup own
  BY ONLY <1>1, <1>4, <1>9
<1> QED BY ONLY <1>6, <1>7, <1>8, <1>10

(* Every space is accounted for then, up to the buffer page that the call  *)
(* has to give back.                                                       *)
LEMMA ForkBalanced ==
    ASSUME NEW m, NEW d, d.own = m.own, Elsewhere(m, d, Kernel), NEW p, NEW c, MayFork(m, p, c),
           Balanced(m, Kernel, {}), NEW B, NEW own, own # {}, own \subseteq B, Inside(B), Balanced(d, Kernel, B),
           NEW n, ChildMade(m, d, p, c, own, n), NEW B2, B2 = B \ own
    PROVE  Balanced(n, Kernel, B2)
<1>1. p \in Process /\ c \in Process /\ p # Kernel /\ c # Kernel /\ Kernel \in Space /\ p \in Space /\ c \in Space
  BY ONLY MayFork(m, p, c), Constants DEF MayFork
<1>2. PICK P, P2, R, R2, none : /\ P = There(d) /\ P2 = There(n) /\ R = Reserved(d, Kernel) /\ R2 = Reserved(n, Kernel)
                                /\ none = {}
  OBVIOUS
<1>3. P \subseteq P2 /\ c \notin P /\ R2 = R \cup own
  BY ONLY <1>2, ChildThere, d.own = m.own, MayFork(m, p, c), own # {}, ChildMade(m, d, p, c, own, n), SMTT(30)
<1>4. \A t \in Space : t # c => SameBlocks(d, n, t) /\ SameMarks(d, n, t)
  BY ONLY ChildMade(m, d, p, c, own, n), Zenon DEF ChildMade
<1>5. \A t \in Space : t # c => Kept(n, t) = Kept(d, t) /\ Mapped(n, t) = Mapped(d, t) /\ n.vbits[t] = d.vbits[t]
  BY ONLY <1>4 DEF SameMarks, Kept, Mapped
<1>6. \A t \in Space : t # c => HeapOK(n, t)
  <2> SUFFICES ASSUME NEW t \in Space, t # c
               PROVE  HeapOK(n, t)
    OBVIOUS
  <2>1. HeapOK(d, t)
    BY ONLY Parts, Balanced(d, Kernel, B), t \in Space, Zenon DEF Balanced
  <2>2. SameBlocks(d, n, t) /\ There(d) \subseteq There(n)
    BY ONLY <1>2, <1>3, <1>4, t \in Space, t # c, Zenon
  <2> QED BY ONLY <2>1, <2>2, HeapStays
<1>7. SpaceSound(n, Kernel, B2)
  <2>1. PICK H, V, K, E : /\ H = Covered(d.arena[Kernel]) /\ V = d.vbits[Kernel]
                          /\ K = Kept(d, Kernel) /\ E = Mapped(d, Kernel)
    OBVIOUS
  <2>2. Divided(Kernel, H, V, K, E, R, B)
    <3>1. PartsOK(d, Kernel, B)
      BY ONLY <1>1, Parts, Balanced(d, Kernel, B), Zenon DEF Balanced
    <3> QED BY ONLY <1>2, <2>1, <3>1, Zenon DEF PartsOK
  <2>3. Whole(own, Size(Kernel)) /\ Whole(B2, Size(Kernel))
    BY ONLY Inside(B), own \subseteq B, B2 = B \ own DEF Inside, Whole
  <2>4. Divided(Kernel, H, V, K, E, R2, B2)
    BY ONLY <1>3, <2>2, <2>3, own \subseteq B, B2 = B \ own, ReserveDivided
  <2>5. n.arena[Kernel] = d.arena[Kernel]
    BY ONLY <1>1, <1>4, Zenon DEF SameBlocks
  <2>6. PartsOK(n, Kernel, B2)
    BY ONLY <1>1, <1>2, <1>5, <2>1, <2>4, <2>5, Zenon DEF PartsOK
  <2> QED BY ONLY <1>1, <1>6, <2>6, Parts, Zenon
<1>8. ASSUME NEW t \in Process, t # c
      PROVE  SpaceSound(n, t, {})
  <2>1. t \in Space /\ t # Kernel
    BY ONLY Constants, t \in Process
  <2>2. PartsOK(d, t, {})
    BY ONLY <2>1, Parts, Balanced(d, Kernel, B), Zenon DEF Balanced
  <2>3. Reserved(n, t) = {} /\ Reserved(d, t) = {}
    BY ONLY <2>1 DEF Reserved
  <2>4. n.arena[t] = d.arena[t]
    BY ONLY <1>4, <1>8, <2>1, Zenon DEF SameBlocks
  <2>5. PartsOK(n, t, {})
    BY ONLY <1>5, <1>8, <2>1, <2>2, <2>3, <2>4, Zenon DEF PartsOK
  <2> QED BY ONLY <1>6, <1>8, <2>1, <2>5, Parts, Zenon
<1>9. SpaceSound(n, c, {})
  <2>1. HeapOK(m, p) /\ PartsOK(m, p, {})
    BY ONLY <1>1, Parts, Balanced(m, Kernel, {}), Zenon DEF Balanced
  <2>2. PICK F, L, A : F = m.free[p] /\ L = m.live[p] /\ A = m.arena[p]
    OBVIOUS
  <2>3. There(m) = There(d)
    BY ONLY d.own = m.own DEF There
  <2>4. HeapSound(p, F, L, A, P) /\ NoneIdle(L, A, {}) /\ Laid(A, Size(p))
    BY ONLY <1>2, <2>1, <2>2, <2>3, Zenon DEF HeapOK
  <2>5. PICK G : G = n.free[c] /\ G = <<>>
    BY ONLY ChildMade(m, d, p, c, own, n), Zenon DEF ChildMade
  <2>6. n.live[c] = L /\ n.arena[c] = A
    BY ONLY ChildMade(m, d, p, c, own, n), <2>2, Zenon DEF ChildMade
  <2>7. HeapSound(c, G, L, A, P2)
    BY ONLY <1>1, <1>3, <2>4, <2>5, ChildHeap
  <2>8. Size(c) = Size(p)
    BY ONLY <1>1, Zenon DEF Size
  <2>9. HeapOK(n, c)
    BY ONLY <1>2, <2>4, <2>5, <2>6, <2>7, <2>8, Zenon DEF HeapOK
  <2>10. PICK H, V, K, E, E2, U : /\ H = Covered(A) /\ V = m.vbits[p] /\ K = Kept(m, p)
                                  /\ E = Mapped(m, p) /\ E2 = Mapped(n, c) /\ U = Reserved(m, p)
    OBVIOUS
  <2>11. Divided(p, H, V, K, E, U, none)
    BY ONLY <1>2, <2>1, <2>2, <2>10, Zenon DEF PartsOK
  <2>12. V \subseteq E2 /\ n.vbits[c] = V /\ Kept(n, c) = K
    BY ONLY ChildMade(m, d, p, c, own, n), <2>10, Zenon DEF ChildMade
  <2>13. Divided(c, H, V, K, E2, U, none)
    BY ONLY <1>1, <2>11, <2>12, ChildParts
  <2>14. Reserved(n, c) = U
    BY ONLY <1>1, <2>10 DEF Reserved
  <2>15. PartsOK(n, c, {})
    BY ONLY <1>2, <2>6, <2>10, <2>12, <2>13, <2>14, Zenon DEF PartsOK
  <2> QED BY ONLY <2>9, <2>15, Parts, Zenon
<1>10. \A t \in Space : t = Kernel \/ t \in Process
  BY ONLY Constants
<1> QED BY ONLY <1>1, <1>7, <1>8, <1>9, <1>10, Zenon DEF Balanced

MayCopy(m, d, p, c, own) ==
    /\ Sound(m) /\ Sound(d) /\ SameProcesses(m, d) /\ Elsewhere(m, d, Kernel) /\ MayFork(m, p, c)
    /\ own \subseteq Page /\ own # {} /\ Balanced(m, Kernel, {})

CopiedTo(r, n) == r.why = "" /\ n = r.m

LEMMA ChildCopied ==
    ASSUME NEW m, NEW d, NEW p, NEW c, NEW own, MayCopy(m, d, p, c, own),
           NEW made, made = Forked(m, d, p, c, own),
           NEW r, r = copy_body_stack3(made, p, c), NEW n, CopiedTo(r, n)
    PROVE  ChildMade(m, d, p, c, own, n) /\ Sound(n)
<1>1. /\ Sound(m) /\ Sound(d) /\ SameProcesses(m, d) /\ Elsewhere(m, d, Kernel) /\ MayFork(m, p, c)
      /\ own \subseteq Page /\ own # {} /\ Balanced(m, Kernel, {})
  BY ONLY MayCopy(m, d, p, c, own), Zenon DEF MayCopy
<1>2. Sound(made) /\ IsForked(m, d, p, c, own, made)
  BY ONLY <1>1, made = Forked(m, d, p, c, own), ForkedSound
<1>3. p \in Process /\ c \in Process /\ m.own[c] = {} /\ p \in Space /\ c \in Space /\ p # c /\ c # Kernel
  <2>1. p \in Process /\ c \in Process /\ m.own[c] = {} /\ m.own[p] # {}
    BY ONLY <1>1, Zenon DEF MayFork
  <2>2. c # Kernel /\ p \in Space /\ c \in Space
    BY ONLY <2>1, Constants
  <2>3. p # c
    BY ONLY <2>1, Zenon
  <2> QED BY ONLY <2>1, <2>2, <2>3, Zenon
<1>4. PICK O, V, A, L, F, T : O = d.own /\ V = d.vbits /\ A = d.arena /\ L = d.live /\ F = d.free /\ T = d.pte
  BY Zenon
<1>5. /\ O \in [Process -> SUBSET Page] /\ V \in [Space -> SUBSET Page] /\ A \in [Space -> [Page -> Arena]]
      /\ L \in [Space -> SUBSET Block] /\ F \in [Space -> Seq(Block)]
  <2>1. d \in Memory
    BY ONLY <1>1, Zenon DEF Sound
  <2> QED BY ONLY <1>4, <2>1, MemoryFields, Zenon
<1>6. PICK VP, AP, LP, none : VP = m.vbits[p] /\ AP = m.arena[p] /\ LP = m.live[p] /\ none = <<>>
  BY Zenon
<1>7. PICK O2, V2, A2, L2, F2 : O2 = made.own /\ V2 = made.vbits /\ A2 = made.arena /\ L2 = made.live /\ F2 = made.free
  BY Zenon
<1>8. /\ V2 = [V EXCEPT ![c] = VP] /\ O2 = [O EXCEPT ![c] = own] /\ A2 = [A EXCEPT ![c] = AP]
      /\ L2 = [L EXCEPT ![c] = LP] /\ F2 = [F EXCEPT ![c] = none]
  BY ONLY <1>2, <1>4, <1>6, <1>7, Zenon DEF IsForked
<1>9. \A q \in Process : O2[q] = IF q = c THEN own ELSE O[q]
  BY ONLY <1>5, <1>8
<1>10. /\ \A t \in Space : V2[t] = IF t = c THEN VP ELSE V[t]
       /\ \A t \in Space : A2[t] = IF t = c THEN AP ELSE A[t]
       /\ \A t \in Space : L2[t] = IF t = c THEN LP ELSE L[t]
       /\ \A t \in Space : F2[t] = IF t = c THEN none ELSE F[t]
  BY ONLY <1>5, <1>8
<1>11. V2[p] = V2[c]
  <2>1. V[p] = VP
    BY ONLY <1>1, <1>3, <1>4, <1>6, Zenon DEF SameProcesses
  <2> QED BY ONLY <1>3, <1>10, <2>1
<1>12. Copied(made, c, r)
  <2>1. Blank(made, p, c)
    BY ONLY <1>2, <1>3, <1>7, <1>11, Zenon DEF Blank, IsForked
  <2> QED BY ONLY <1>2, <2>1, CopySound, r = copy_body_stack3(made, p, c)
<1>13. /\ n.own = O2 /\ n.vbits = V2 /\ n.arena = A2 /\ n.live = L2 /\ n.free = F2 /\ n.lost = made.lost
       /\ Sound(n)
       /\ \A t \in Space, q \in Page : t # c => n.pte[t][q] = made.pte[t][q]
       /\ \A page \in V2[c] : n.pte[c][page] # NoFrame
  BY ONLY <1>7, <1>12, CopiedTo(r, n), Zenon DEF Copied, SameHeap, CopiedTo
<1>14. \A t \in Space : t # c => SameBlocks(d, n, t)
  <2>1. \A t \in Space : t # c => A2[t] = A[t] /\ L2[t] = L[t] /\ F2[t] = F[t]
    BY ONLY <1>10, Zenon
  <2> QED BY ONLY <1>4, <1>13, <2>1, Zenon DEF SameBlocks
<1>15. PICK lost, keeps : lost = d.lost /\ keeps = Kept(m, p)
  BY Zenon
<1>16. n.lost = lost \cup ({c} \X keeps)
  BY ONLY <1>2, <1>13, <1>15, Zenon DEF IsForked
<1>17. \A t \in Space, q \in Page : <<t, q>> \in n.lost <=> (<<t, q>> \in lost \/ (t = c /\ q \in keeps))
  BY ONLY <1>16
<1>18. \A t \in Space : t # c => SameMarks(d, n, t)
  <2>1. \A t \in Space : t # c => V2[t] = V[t]
    BY ONLY <1>10, Zenon
  <2>2. made.pte = d.pte
    BY ONLY <1>2, Zenon DEF IsForked
  <2>3. \A t \in Space, q \in Page : t # c => n.pte[t][q] = d.pte[t][q]
    BY ONLY <1>13, <2>2, Zenon
  <2> QED BY ONLY <1>4, <1>13, <1>15, <1>17, <2>1, <2>3, Zenon DEF SameMarks
<1>19. Kept(n, c) = keeps
  <2>1. Kept(m, c) = {}
    <3>1. Kept(m, c) \subseteq m.vbits[c]
      <4>1. SpaceSound(m, c, {})
        BY ONLY <1>1, <1>3, Zenon DEF Balanced
      <4>2. PICK K, W, H, E, R, B : /\ K = Kept(m, c) /\ W = m.vbits[c] /\ H = Covered(m.arena[c])
                                    /\ E = Mapped(m, c) /\ R = Reserved(m, c) /\ B = {}
        BY Zenon
      <4>3. Divided(c, H, W, K, E, R, B)
        BY ONLY <4>1, <4>2, Zenon DEF SpaceSound, SpaceOK
      <4>4. K \subseteq W
        BY ONLY <4>3 DEF Divided
      <4> QED BY ONLY <4>2, <4>4, Zenon
    <3>2. m.vbits[c] = {}
      BY ONLY <1>1, <1>3, Zenon DEF Sound, PagesSound, SpacesSound
    <3> QED BY ONLY <3>1, <3>2
  <2>2. \A q \in Page : <<c, q>> \notin m.lost
    BY ONLY <2>1 DEF Kept
  <2>3. \A q \in Page : <<c, q>> \in lost <=> <<c, q>> \in m.lost
    BY ONLY <1>1, <1>3, <1>15, Zenon DEF Elsewhere, SameMarks
  <2>4. keeps \subseteq Page
    BY ONLY <1>15 DEF Kept
  <2>5. \A q \in Page : <<c, q>> \in n.lost <=> q \in keeps
    BY ONLY <1>3, <1>17, <2>2, <2>3, Zenon
  <2> QED BY ONLY <2>4, <2>5 DEF Kept
<1>20. n.free[c] = <<>> /\ n.live[c] = LP /\ n.arena[c] = AP /\ n.vbits[c] = VP
  BY ONLY <1>3, <1>6, <1>10, <1>13
<1>21. VP \subseteq Mapped(n, c)
  <2>1. VP \subseteq Page
    <3>1. m \in Memory
      BY ONLY <1>1, Zenon DEF Sound
    <3> QED BY ONLY <1>3, <1>6, <3>1, MemoryFields
  <2>2. \A q \in VP : n.pte[c][q] # NoFrame
    BY ONLY <1>13, <1>20
  <2> QED BY ONLY <2>1, <2>2 DEF Mapped
<1>22. \A q \in Process : n.own[q] = IF q = c THEN own ELSE d.own[q]
  BY ONLY <1>4, <1>9, <1>13, Zenon
<1>23. ChildMade(m, d, p, c, own, n)
  BY ONLY <1>6, <1>14, <1>15, <1>18, <1>19, <1>20, <1>21, <1>22, Zenon DEF ChildMade
<1> QED BY ONLY <1>13, <1>23, Zenon

LEMMA SameProcessesAgain ==
    ASSUME NEW m, NEW n, NEW k, SameProcesses(m, n), SameProcesses(n, k)
    PROVE  SameProcesses(m, k)
BY DEF SameProcesses

(* The bit past the end of the kernel's bitmap is marked at most together  *)
(* with the last one.                                                      *)
LEMMA WholeMarks ==
    ASSUME NEW m \in Memory, NEW B, Balanced(m, Kernel, B)
    PROVE  Whole(m.vbits[Kernel], KernelPages)
<1>1. Kernel \in Space /\ Size(Kernel) = KernelPages /\ Stacks(Kernel) = {} /\ KernelPages \in Nat /\ KernelPages > 2
  BY ONLY Constants DEF Size, Stacks
<1>2. HeapOK(m, Kernel) /\ PartsOK(m, Kernel, B)
  BY ONLY <1>1, Parts, Balanced(m, Kernel, B), Zenon DEF Balanced
<1>3. PICK A, H, V, K, E, R : /\ A = m.arena[Kernel] /\ H = Covered(A) /\ V = m.vbits[Kernel] /\ K = Kept(m, Kernel)
                              /\ E = Mapped(m, Kernel) /\ R = Reserved(m, Kernel)
  BY Zenon
<1>4. Laid(A, KernelPages) /\ Divided(Kernel, H, V, K, E, R, B)
  BY ONLY <1>1, <1>2, <1>3, Zenon DEF HeapOK, PartsOK
<1>5. A \in [Page -> Arena]
  BY ONLY <1>1, <1>3, MemoryFields, m \in Memory
<1>6. Whole(H, KernelPages)
  <2> SUFFICES ASSUME KernelPages \in H
               PROVE  KernelPages - 1 \in H
    BY DEF Whole
  <2>1. PICK p \in Page : A[p] # NoArena /\ KernelPages \in PagesAt(A, p)
    BY ONLY <1>3, KernelPages \in H DEF Covered
  <2>2. p < KernelPages /\ PagesAt(A, p) \subseteq Page /\ p \in Nat
    BY ONLY <1>4, <2>1, PageNumbers DEF Laid
  <2>3. PICK a \in Arena : a = A[p]
    BY ONLY <1>5
  <2>4. a.cnt \in Int
    BY ONLY <2>3 DEF Arena
  <2>5. PagesAt(A, p) = IF a.large THEN p..p + a.cnt - 1 ELSE {p}
    BY ONLY <2>3, Zenon DEF PagesAt
  <2>6. KernelPages - 1 \in PagesAt(A, p)
    BY ONLY <1>1, <2>1, <2>2, <2>4, <2>5
  <2> QED BY ONLY <1>3, <2>1, <2>2, <2>6 DEF Covered
<1> QED BY ONLY <1>1, <1>3, <1>4, <1>6 DEF Divided, Whole

(* The kernel's bitmap is as it was, whether the copy was finished or not. *)
LEMMA CopyMarks ==
    ASSUME NEW m, NEW d, NEW p, NEW c, NEW own, MayCopy(m, d, p, c, own),
           NEW made, made = Forked(m, d, p, c, own),
           NEW r, r = copy_body_stack3(made, p, c), NEW n, n = r.m
    PROVE  n.vbits[Kernel] = d.vbits[Kernel]
<1>1. /\ Sound(m) /\ Sound(d) /\ SameProcesses(m, d) /\ MayFork(m, p, c)
      /\ own \subseteq Page /\ own # {}
  BY ONLY MayCopy(m, d, p, c, own), Zenon DEF MayCopy
<1>2. Sound(made) /\ IsForked(m, d, p, c, own, made)
  BY ONLY <1>1, made = Forked(m, d, p, c, own), ForkedSound
<1>3. p \in Process /\ c \in Process /\ p \in Space /\ c \in Space /\ p # c /\ c # Kernel /\ Kernel \in Space
  <2>1. p \in Process /\ c \in Process /\ m.own[c] = {} /\ m.own[p] # {}
    BY ONLY <1>1, Zenon DEF MayFork
  <2>2. c # Kernel /\ p \in Space /\ c \in Space /\ Kernel \in Space
    BY ONLY <2>1, Constants
  <2>3. p # c
    BY ONLY <2>1, Zenon
  <2> QED BY ONLY <2>1, <2>2, <2>3, Zenon
<1>4. PICK V, VP, V2 : V = d.vbits /\ VP = m.vbits[p] /\ V2 = made.vbits
  BY Zenon
<1>5. V \in [Space -> SUBSET Page]
  <2>1. d \in Memory
    BY ONLY <1>1, Zenon DEF Sound
  <2> QED BY ONLY <1>4, <2>1, MemoryFields, Zenon
<1>6. V2 = [V EXCEPT ![c] = VP]
  BY ONLY <1>2, <1>4, Zenon DEF IsForked
<1>7. \A t \in Space : V2[t] = IF t = c THEN VP ELSE V[t]
  BY ONLY <1>5, <1>6
<1>8. V2[p] = V2[c]
  <2>1. V[p] = VP
    BY ONLY <1>1, <1>3, <1>4, Zenon DEF SameProcesses
  <2> QED BY ONLY <1>3, <1>7, <2>1
<1>9. Copied(made, c, r)
  <2>1. Blank(made, p, c)
    BY ONLY <1>2, <1>3, <1>4, <1>8, Zenon DEF Blank, IsForked
  <2> QED BY ONLY <1>2, <2>1, CopySound, r = copy_body_stack3(made, p, c)
<1>10. n.vbits = V2
  BY ONLY <1>4, <1>9, n = r.m, Zenon DEF Copied
<1>11. V2[Kernel] = V[Kernel]
  BY ONLY <1>3, <1>7
<1> QED BY ONLY <1>4, <1>10, <1>11, Zenon

(* sys_fork as a whole.                                                    *)
ForkOK(m, r) ==
    /\ r.why = "" => Balanced(r.m, Kernel, {})
    /\ \A q \in Process : r.why = "" /\ m.own[q] # {} => r.m.arena[q] = m.arena[q]
    /\ r.why = "" \/ Whole(r.m.vbits[Kernel], KernelPages)

LEMMA ForkGivesUp ==
    ASSUME NEW m, Sound(m), NEW B, Inside(B), Balanced(m, Kernel, B), NEW n, n = GiveUp(m, Kernel, B)
    PROVE  Balanced(n, Kernel, {}) /\ n.arena = m.arena
<1>1. m \in Memory /\ PagesSound(m, {}) /\ Kernel \in Space
  BY ONLY Sound(m), Constants DEF Sound
<1>2. PICK none : none = B \ B /\ none = {}
  OBVIOUS
<1>3. B \subseteq Page /\ B \subseteq B /\ Whole(B, Size(Kernel)) /\ Whole(none, Size(Kernel))
  BY ONLY <1>2, Inside(B) DEF Inside, Whole
<1>4. Balanced(n, Kernel, none)
  BY ONLY <1>1, <1>2, <1>3, GiveUpBalanced, n = GiveUp(m, Kernel, B), Balanced(m, Kernel, B)
<1>5. n.arena = m.arena
  BY ONLY <1>1, <1>3, n = GiveUp(m, Kernel, B), GiveUpSound
<1> QED BY ONLY <1>2, <1>4, <1>5, Zenon

LEMMA ForkReleases ==
    ASSUME NEW m, Sound(m), NEW B, Inside(B), Balanced(m, Kernel, B), NEW n, n = mfree_page(m, Kernel, B)
    PROVE  Balanced(n, Kernel, {}) /\ n.arena = m.arena
<1>1. m \in Memory /\ PagesSound(m, {}) /\ Kernel \in Space
  BY ONLY Sound(m), Constants DEF Sound
<1>2. B \subseteq Page
  BY ONLY Inside(B), Zenon DEF Inside
<1>3. /\ SameHeap(m, n) /\ n.vbits = [m.vbits EXCEPT ![Kernel] = @ \ B]
      /\ \A t \in Space, page \in Page :
                n.pte[t][page] = IF t = Kernel /\ page \in B THEN NoFrame ELSE m.pte[t][page]
  BY ONLY <1>1, <1>2, n = mfree_page(m, Kernel, B), MfreeSound
<1>4. \A t \in Space, q \in Page : ~(t = Kernel /\ q \in B) => n.pte[t][q] = m.pte[t][q]
  BY ONLY <1>3, Zenon
<1>5. Emptied(m, n, Kernel, B)
  BY ONLY <1>3, <1>4, Zenon DEF Emptied, SameHeap
<1>6. Balanced(n, Kernel, {})
  BY ONLY <1>1, <1>3, <1>5, ReleaseBalanced, Balanced(m, Kernel, B)
<1> QED BY ONLY <1>3, <1>6, Zenon DEF SameHeap

LEMMA SysForkBalanced ==
    ASSUME NEW m, Sound(m), Balanced(m, Kernel, {}), NEW p, NEW c, MayFork(m, p, c),
           NEW r, r = sys_fork(m, p, c)
    PROVE  ForkOK(m, r)
<1>1. PICK pcb : pcb = get_kernel_pages(m, 1)
  BY Zenon
<1>2. PICK m1 : m1 = pcb.m
  BY Zenon
<1>3. PICK buf : buf = get_kernel_pages(m1, 1)
  BY Zenon
<1>4. PICK m2 : m2 = buf.m
  BY Zenon
<1>5. PICK bits : bits = get_kernel_pages(m2, 1)
  BY Zenon
<1>6. PICK m3 : m3 = bits.m
  BY Zenon
<1>7. PICK dir : dir = get_kernel_pages(m3, 1)
  BY Zenon
<1>8. PICK m4 : m4 = dir.m
  BY Zenon
<1>9. PICK its : its = {pcb.page, bits.page, dir.page}
  BY Zenon
<1>10. PICK made : made = Forked(m, m4, p, c, its)
  BY Zenon
<1>11. PICK copied : copied = copy_body_stack3(made, p, c)
  BY Zenon
<1>12. PICK n : n = copied.m
  BY Zenon
<1>13. PICK B0, B1, B2, B3, B4 : /\ B0 = {} /\ B1 = B0 \cup {pcb.page} /\ B2 = B1 \cup {buf.page}
                                 /\ B3 = B2 \cup {bits.page} /\ B4 = B3 \cup {dir.page}
  BY Zenon
<1>14. B1 = {pcb.page} /\ B3 = {pcb.page, buf.page, bits.page}
  BY ONLY <1>13
<1>15. r = IF ~pcb.ok THEN Done(m1)
           ELSE IF ~buf.ok THEN Done(GiveUp(m2, Kernel, B1))
           ELSE IF ~bits.ok THEN Fault(m3, "page fault in fork")
           ELSE IF ~dir.ok THEN Done(GiveUp(m4, Kernel, B3))
           ELSE IF copied.why # "" THEN copied
           ELSE IF ~FreesFrames(n, Kernel, {buf.page}) THEN Fault(n, "ASSERT in mfree_page")
           ELSE Done(mfree_page(n, Kernel, {buf.page}))
  BY ONLY <1>1, <1>2, <1>3, <1>4, <1>5, <1>6, <1>7, <1>8, <1>9, <1>10, <1>11, <1>12, <1>14,
          r = sys_fork(m, p, c), Zenon DEF sys_fork
<1>16. Inside(B0) /\ Balanced(m, Kernel, B0)
  BY ONLY <1>13, Balanced(m, Kernel, {}), Constants, PageNumbers DEF Inside
<1>17. NextPage(m, B0, B1, pcb)
  BY ONLY <1>1, <1>13, <1>16, ForkPage, Sound(m)
<1>18. Sound(m1) /\ SameProcesses(m, m1) /\ Elsewhere(m, m1, Kernel) /\ (~pcb.ok => Balanced(m1, Kernel, B0))
  BY ONLY <1>2, <1>17, Zenon DEF NextPage
<1>19. CASE ~pcb.ok
  <2>1. r.m = m1 /\ r.why = ""
    BY ONLY <1>15, <1>19, Zenon DEF Done
  <2>2. Balanced(m1, Kernel, {})
    BY ONLY <1>13, <1>18, <1>19, Zenon
  <2> QED BY ONLY <1>18, <2>1, <2>2, Zenon DEF ForkOK, SameProcesses
<1>20. CASE pcb.ok
  <2>1. Inside(B1) /\ Balanced(m1, Kernel, B1)
    BY ONLY <1>2, <1>17, <1>20, Zenon DEF NextPage
  <2>2. NextPage(m1, B1, B2, buf)
    BY ONLY <1>3, <1>13, <1>18, <2>1, ForkPage
  <2>3. /\ Sound(m2) /\ SameProcesses(m1, m2) /\ Elsewhere(m1, m2, Kernel) /\ (~buf.ok => Balanced(m2, Kernel, B1))
        /\ (buf.ok => Inside(B2) /\ buf.page \notin B1 /\ Balanced(m2, Kernel, B2))
    BY ONLY <1>4, <2>2, Zenon DEF NextPage
  <2>4. CASE ~buf.ok
    <3>1. PICK k : k = GiveUp(m2, Kernel, B1)
      BY Zenon
    <3>2. r.m = k /\ r.why = ""
      BY ONLY <1>15, <1>20, <2>4, <3>1, Zenon DEF Done
    <3>3. Balanced(k, Kernel, {}) /\ k.arena = m2.arena
      BY ONLY <2>1, <2>3, <2>4, <3>1, ForkGivesUp
    <3> QED BY ONLY <1>18, <2>3, <3>2, <3>3, Zenon DEF ForkOK, SameProcesses
  <2>5. CASE buf.ok
    <3>1. NextPage(m2, B2, B3, bits)
      BY ONLY <1>5, <1>13, <2>3, <2>5, ForkPage
    <3>2. /\ Sound(m3) /\ SameProcesses(m2, m3) /\ Elsewhere(m2, m3, Kernel)
          /\ (bits.ok => Inside(B3) /\ bits.page \notin B2 /\ Balanced(m3, Kernel, B3))
          /\ (~bits.ok => Balanced(m3, Kernel, B2))
      BY ONLY <1>6, <3>1, Zenon DEF NextPage
    <3>3. CASE ~bits.ok
      <4>1. r = Fault(m3, "page fault in fork")
        BY ONLY <1>15, <1>20, <2>5, <3>3, Zenon
      <4>2. PICK why : why = r.why /\ why = "page fault in fork"
        BY ONLY <4>1, Zenon DEF Fault
      <4>3. "page fault in fork" # ""
        BY ONLY TRUE
      <4>4. m3 \in Memory
        BY ONLY <3>2, Zenon DEF Sound
      <4>5. Whole(m3.vbits[Kernel], KernelPages)
        BY ONLY <3>2, <3>3, <4>4, WholeMarks
      <4>6. r.m = m3
        BY ONLY <4>1, Zenon DEF Fault
      <4> QED BY ONLY <4>2, <4>3, <4>5, <4>6, Zenon DEF ForkOK
    <3>4. CASE bits.ok
      <4>1. NextPage(m3, B3, B4, dir)
        BY ONLY <1>7, <1>13, <3>2, <3>4, ForkPage
      <4>2. /\ Sound(m4) /\ SameProcesses(m3, m4) /\ Elsewhere(m3, m4, Kernel) /\ (~dir.ok => Balanced(m4, Kernel, B3))
            /\ (dir.ok => Inside(B4) /\ dir.page \notin B3 /\ Balanced(m4, Kernel, B4))
        BY ONLY <1>8, <4>1, Zenon DEF NextPage
      <4>3. CASE ~dir.ok
        <5>1. PICK k : k = GiveUp(m4, Kernel, B3)
          BY Zenon
        <5>2. r.m = k /\ r.why = ""
          BY ONLY <1>15, <1>20, <2>5, <3>4, <4>3, <5>1, Zenon DEF Done
        <5>3. Balanced(k, Kernel, {}) /\ k.arena = m4.arena
          BY ONLY <3>2, <3>4, <4>2, <4>3, <5>1, ForkGivesUp
        <5>4. m1.arena = m.arena /\ m2.arena = m1.arena /\ m3.arena = m2.arena /\ m4.arena = m3.arena
          BY ONLY <1>18, <2>3, <3>2, <4>2, Zenon DEF SameProcesses
        <5>5. k.arena = m.arena
          BY ONLY <5>3, <5>4, Zenon
        <5> QED BY ONLY <5>2, <5>3, <5>5, Zenon DEF ForkOK
      <4>4. ASSUME dir.ok
            PROVE  /\ SameProcesses(m, m4) /\ Elsewhere(m, m4, Kernel) /\ MayCopy(m, m4, p, c, its)
                   /\ its \subseteq B4 /\ its # {} /\ B4 \ its = {buf.page} /\ Inside(B4) /\ Balanced(m4, Kernel, B4)
        <5>1. SameProcesses(m, m4)
          <6>1. SameProcesses(m, m2)
            BY ONLY <1>18, <2>3, SameProcessesAgain
          <6>2. SameProcesses(m, m3)
            BY ONLY <3>2, <6>1, SameProcessesAgain
          <6> QED BY ONLY <4>2, <6>2, SameProcessesAgain
        <5>2. Elsewhere(m, m2, Kernel)
          BY ONLY <1>18, <2>3, ElsewhereAgain
        <5>3. Elsewhere(m, m3, Kernel)
          BY ONLY <3>2, <5>2, ElsewhereAgain
        <5>4. Elsewhere(m, m4, Kernel)
          BY ONLY <4>2, <5>3, ElsewhereAgain
        <5>5. its \subseteq B4 /\ its # {} /\ B4 \ its = {buf.page} /\ buf.page \notin its
          <6>1. buf.page \notin B1 /\ bits.page \notin B2 /\ dir.page \notin B3
            BY ONLY <2>3, <2>5, <3>2, <3>4, <4>2, <4>4, Zenon
          <6> QED BY ONLY <1>9, <1>13, <6>1
        <5>6. Inside(B4) /\ Balanced(m4, Kernel, B4)
          BY ONLY <4>2, <4>4, Zenon
        <5>7. its \subseteq Page
          BY ONLY <5>5, <5>6 DEF Inside
        <5>8. MayCopy(m, m4, p, c, its)
          BY ONLY <4>2, <5>1, <5>4, <5>5, <5>7, Sound(m), Balanced(m, Kernel, {}), MayFork(m, p, c), Zenon DEF MayCopy
        <5> QED BY ONLY <5>1, <5>4, <5>5, <5>6, <5>8, Zenon
      <4>5. CASE dir.ok /\ copied.why # ""
        <5>1. r = copied /\ r.m = n
          BY ONLY <1>12, <1>15, <1>20, <2>5, <3>4, <4>5, Zenon
        <5>2. m4 \in Memory /\ Balanced(m4, Kernel, B4) /\ MayCopy(m, m4, p, c, its)
          BY ONLY <4>2, <4>4, <4>5, Zenon DEF Sound
        <5>3. Whole(m4.vbits[Kernel], KernelPages)
          BY ONLY <5>2, WholeMarks
        <5>4. n.vbits[Kernel] = m4.vbits[Kernel]
          BY ONLY <1>10, <1>11, <1>12, <5>2, CopyMarks
        <5> QED BY ONLY <4>5, <5>1, <5>3, <5>4, Zenon DEF ForkOK
      <4>6. CASE dir.ok /\ copied.why = ""
        <5>1. SameProcesses(m, m4) /\ Elsewhere(m, m4, Kernel) /\ MayCopy(m, m4, p, c, its)
          BY ONLY <4>4, <4>6, Zenon
        <5>2. its \subseteq B4 /\ its # {} /\ B4 \ its = {buf.page}
          BY ONLY <4>4, <4>6, Zenon
        <5>3. Inside(B4) /\ Balanced(m4, Kernel, B4)
          BY ONLY <4>2, <4>6, Zenon
        <5>4. PICK left : left = {buf.page} /\ left = B4 \ its
          BY ONLY <5>2
        <5>5. Inside(left)
          BY ONLY <5>3, <5>4 DEF Inside
        <5>6. CopiedTo(copied, n)
          BY ONLY <1>12, <4>6, Zenon DEF CopiedTo
        <5>7. ChildMade(m, m4, p, c, its, n) /\ Sound(n)
          BY ONLY <1>10, <1>11, <5>1, <5>6, ChildCopied
        <5>8. m4.own = m.own
          BY ONLY <5>1, Zenon DEF SameProcesses
        <5>9. Balanced(n, Kernel, left)
          BY ONLY <5>1, <5>2, <5>3, <5>4, <5>7, <5>8, ForkBalanced, MayFork(m, p, c), Balanced(m, Kernel, {})
        <5>10. PICK k : k = mfree_page(n, Kernel, left)
          BY Zenon
        <5>14. FreesFrames(n, Kernel, {buf.page})
          <6>1. /\ buf = get_kernel_pages(pcb.m, 1) /\ bits = get_kernel_pages(buf.m, 1)
                /\ dir = get_kernel_pages(bits.m, 1) /\ made = Forked(m, dir.m, p, c, its)
            BY ONLY <1>2, <1>3, <1>4, <1>5, <1>6, <1>7, <1>8, <1>10, Zenon
          <6>2. FreesFrames(copied.m, Kernel, {buf.page})
            BY ONLY <1>1, <1>9, <1>11, <1>20, <2>5, <3>4, <4>6, <6>1, BufferMapped, Sound(m), MayFork(m, p, c)
          <6> QED BY ONLY <1>12, <6>2, Zenon
        <5>11. r.m = k /\ r.why = ""
          BY ONLY <1>15, <1>20, <2>5, <3>4, <4>6, <5>4, <5>10, <5>14, Zenon DEF Done
        <5>12. Balanced(k, Kernel, {}) /\ k.arena = n.arena
          BY ONLY <5>5, <5>7, <5>9, <5>10, ForkReleases
        <5>13. \A q \in Process : m.own[q] # {} => n.arena[q] = m.arena[q]
          <6>1. \A q \in Process : q # c => n.arena[q] = m4.arena[q]
            <7>1. Process \subseteq Space
              BY ONLY Constants
            <7> QED BY ONLY <5>7, <7>1 DEF ChildMade, SameBlocks
          <6>2. m4.arena = m.arena /\ m.own[c] = {}
            BY ONLY <5>1, MayFork(m, p, c), Zenon DEF SameProcesses, MayFork
          <6> QED BY ONLY <6>1, <6>2, Zenon
        <5> QED BY ONLY <5>11, <5>12, <5>13, Zenon DEF ForkOK
      <4> QED BY ONLY <4>3, <4>5, <4>6, Zenon
    <3> QED BY ONLY <3>3, <3>4, Zenon
  <2> QED BY ONLY <2>4, <2>5, Zenon
<1> QED BY ONLY <1>19, <1>20, Zenon

-----------------------------------------------------------------------------
(* The first process                                                       *)

(* What is lost so far are marked pages of the kernel.                     *)
LostInside(m) == \A t \in Space, q \in Page : <<t, q>> \in m.lost => t = Kernel /\ q \in m.vbits[Kernel]

LEMMA KernelLost ==
    ASSUME NEW m, Sound(m), LostInside(m), NEW r, r = get_kernel_pages(m, 1)
    PROVE  Sound(r.m) /\ LostInside(r.m)
<1>1. Allocated(m, Kernel, 1, r) /\ Sound(r.m)
  BY ONLY Sound(m), r = get_kernel_pages(m, 1), KernelPage
<1>2. PICK k, page : k = r.m /\ page = r.page
  BY Zenon
<1>3. CASE page = NoPage
  <2>1. k = m
    BY ONLY <1>1, <1>2, <1>3, Zenon DEF Allocated
  <2> QED BY ONLY <1>1, <1>2, <2>1, LostInside(m), Zenon
<1>4. CASE page # NoPage
  <2>1. PICK range : range = page..page + 1 - 1
    BY Zenon
  <2>2. k.vbits = [m.vbits EXCEPT ![Kernel] = @ \cup range]
    BY ONLY <1>1, <1>2, <1>4, <2>1, Zenon DEF Allocated
  <2>3. k.lost = IF r.ok THEN m.lost ELSE m.lost \cup ({Kernel} \X range)
    BY ONLY <1>1, <1>2, <1>4, <2>1, Zenon DEF Allocated
  <2>4. m.vbits \in [Space -> SUBSET Page] /\ Kernel \in Space
    BY ONLY Sound(m), MemoryFields, Constants DEF Sound
  <2>5. k.vbits[Kernel] = m.vbits[Kernel] \cup range
    BY ONLY <2>2, <2>4
  <2>6. \A t \in Space, q \in Page : <<t, q>> \in k.lost => <<t, q>> \in m.lost \/ (t = Kernel /\ q \in range)
    BY ONLY <2>3
  <2>7. \A t \in Space, q \in Page : <<t, q>> \in m.lost => t = Kernel /\ q \in m.vbits[Kernel]
    BY ONLY LostInside(m), Zenon DEF LostInside
  <2>8. \A q : q \in m.vbits[Kernel] \/ q \in range => q \in k.vbits[Kernel]
    BY ONLY <2>5
  <2>9. LostInside(k)
    BY ONLY <2>6, <2>7, <2>8, Zenon DEF LostInside
  <2> QED BY ONLY <1>1, <1>2, <2>9, Zenon
<1> QED BY ONLY <1>3, <1>4, Zenon

LEMMA ExecuteLost ==
    ASSUME NEW n, n = process_execute(Boot, init)
    PROVE  LostInside(n)
<1>1. PICK m0, pcb, m1, bits, m2, dir, m3 : /\ m0 = Boot /\ pcb = get_kernel_pages(m0, 1) /\ m1 = pcb.m
                                            /\ bits = get_kernel_pages(m1, 1) /\ m2 = bits.m
                                            /\ dir = get_kernel_pages(m2, 1) /\ m3 = dir.m
  BY Zenon
<1>2. PICK its : its = {pcb.page, bits.page, dir.page}
  BY Zenon
<1>3. n = [m3 EXCEPT !.own[init] = its]
  BY ONLY <1>1, <1>2, n = process_execute(Boot, init), Zenon DEF process_execute
<1>4. Sound(m0) /\ LostInside(m0)
  BY ONLY <1>1, BootSound DEF Sound, LostInside, Boot
<1>5. Sound(m1) /\ LostInside(m1)
  BY ONLY <1>1, <1>4, KernelLost
<1>6. Sound(m2) /\ LostInside(m2)
  BY ONLY <1>1, <1>5, KernelLost
<1>7. Sound(m3) /\ LostInside(m3)
  BY ONLY <1>1, <1>6, KernelLost
<1>8. m3 \in Memory
  BY ONLY <1>7, Zenon DEF Sound
<1>9. n.lost = m3.lost /\ n.vbits = m3.vbits
  BY ONLY <1>3, <1>8 DEF Memory
<1> QED BY ONLY <1>7, <1>9, Zenon DEF LostInside

(* Nothing but the pages of init is marked.                                *)
LEMMA StartBalanced ==
    ASSUME NEW n, n = process_execute(Boot, init)
    PROVE  Balanced(n, Kernel, {})
<1>1. /\ Sound(n) /\ SameProcesses(Boot, [n EXCEPT !.own = Boot.own])
      /\ n.own = [p \in Process |-> IF p = init THEN n.vbits[Kernel] ELSE {}]
      /\ n.vbits[Kernel] \subseteq 0..KernelPages - 1
  BY ExecuteSound
<1>2. LostInside(n)
  BY ONLY ExecuteLost, n = process_execute(Boot, init)
<1>3. \A s \in Space : n.free[s] = <<>> /\ n.live[s] = {} /\ \A q \in Page : n.arena[s][q] = NoArena
  <2>1. PICK k : k = [n EXCEPT !.own = Boot.own]
    BY Zenon
  <2>2. n \in Memory
    BY ONLY <1>1, Zenon DEF Sound
  <2>3. k.arena = n.arena /\ k.free = n.free /\ k.live = n.live
    BY ONLY <2>1, <2>2 DEF Memory
  <2>4. k.arena = Boot.arena /\ k.free = Boot.free /\ k.live = Boot.live
    BY ONLY <1>1, <2>1, Zenon DEF SameProcesses
  <2>5. \A s \in Space : Boot.free[s] = <<>> /\ Boot.live[s] = {} /\ \A q \in Page : Boot.arena[s][q] = NoArena
    BY ONLY TRUE DEF Boot
  <2> QED BY ONLY <2>3, <2>4, <2>5, ZenonT(120)
<1>4. \A p \in Process : n.vbits[p] = {}
  <2>1. PICK k : k = [n EXCEPT !.own = Boot.own]
    BY Zenon
  <2>2. n \in Memory
    BY ONLY <1>1, Zenon DEF Sound
  <2>3. k.vbits = n.vbits
    BY ONLY <2>1, <2>2 DEF Memory
  <2>4. \A p \in Process : k.vbits[p] = Boot.vbits[p]
    BY ONLY <1>1, <2>1, Zenon DEF SameProcesses
  <2>5. \A p \in Process : Boot.vbits[p] = {}
    BY ONLY Constants DEF Boot
  <2> QED BY ONLY <2>3, <2>4, <2>5, Zenon
<1>5. ASSUME NEW s \in Space
      PROVE  SpaceSound(n, s, {})
  <2>1. PICK F, L, A, P : F = n.free[s] /\ L = n.live[s] /\ A = n.arena[s] /\ P = There(n)
    BY Zenon
  <2>2. F = <<>> /\ L = {} /\ \A q \in Page : A[q] = NoArena
    BY ONLY <1>3, <2>1
  <2>3. IsInjective(F) /\ Range(F) = {}
    BY ONLY <2>2 DEF IsInjective, Range
  <2>4. HeapSound(s, F, L, A, P) /\ NoneIdle(L, A, {}) /\ Laid(A, Size(s))
    BY ONLY <2>2, <2>3 DEF HeapSound, NoneIdle, Laid
  <2>5. HeapOK(n, s)
    BY ONLY <2>1, <2>4, Zenon DEF HeapOK
  <2>6. PICK H, V, K, E, R, B : /\ H = Covered(A) /\ V = n.vbits[s] /\ K = Kept(n, s)
                                /\ E = Mapped(n, s) /\ R = Reserved(n, s) /\ B = {}
    BY Zenon
  <2>7. H = {}
    BY ONLY <2>2, <2>6 DEF Covered
  <2>8. K \subseteq V /\ (s # Kernel => K = {})
    BY ONLY <1>2, <2>6 DEF LostInside, Kept
  <2>9. R = V
    <3>1. CASE s = Kernel
      <4>1. R = UNION {n.own[p] : p \in Process}
        BY ONLY <2>6, <3>1, Zenon DEF Reserved
      <4>2. PICK O : O = n.own
        BY Zenon
      <4>3. O = [p \in Process |-> IF p = init THEN V ELSE {}]
        BY ONLY <1>1, <2>6, <3>1, <4>2, Zenon
      <4>4. UNION {O[p] : p \in Process} = V
        BY ONLY <4>3, Constants
      <4> QED BY ONLY <4>1, <4>2, <4>4, Zenon
    <3>2. CASE s # Kernel
      <4>1. s \in Process
        BY ONLY <3>2, Constants
      <4> QED BY ONLY <1>4, <2>6, <3>2, <4>1, Zenon DEF Reserved
    <3> QED BY ONLY <3>1, <3>2, Zenon
  <2>10. Size(s) \notin V
    <3>1. CASE s = Kernel
      BY ONLY <1>1, <2>6, <3>1, Constants DEF Size
    <3>2. CASE s # Kernel
      <4>1. s \in Process
        BY ONLY <3>2, Constants
      <4> QED BY ONLY <1>4, <2>6, <4>1
    <3> QED BY ONLY <3>1, <3>2, Zenon
  <2>11. Divided(s, H, V, K, E, R, B)
    BY ONLY <2>6, <2>7, <2>8, <2>9, <2>10 DEF Divided, Whole
  <2>12. PartsOK(n, s, {})
    BY ONLY <2>1, <2>6, <2>11, Zenon DEF PartsOK
  <2> QED BY ONLY <2>5, <2>12, Parts, Zenon
<1> QED BY ONLY <1>5, Zenon DEF Balanced


-----------------------------------------------------------------------------
(* The steps of the processes, with their heaps                            *)

(* Where pages of a program are still to be loaded no header appears.      *)
BareStays(n) ==
    \A q \in Process : \A page \in loading[q] : mem.arena[q][page] = NoArena => n.arena[q][page] = NoArena

LEMMA LoadingStays ==
    ASSUME LoadingSound, BareStays(mem'), \A q \in Process : loading'[q] \subseteq loading[q]
    PROVE  LoadingSound'
<1>1. \A q \in Process : \A page : page \in loading'[q] => page \in loading[q]
  BY ONLY \A q \in Process : loading'[q] \subseteq loading[q], Zenon
<1>2. \A q \in Process : \A page \in loading[q] : mem.arena[q][page] = NoArena => mem'.arena[q][page] = NoArena
  BY ONLY BareStays(mem'), Zenon DEF BareStays
<1> QED BY ONLY <1>1, <1>2, LoadingSound, Zenon DEF LoadingSound

(* A system call that ends well, or that stops the machine in a fork.      *)
CallKeeps(r) ==
    /\ r.why = "" => Balanced(r.m, Kernel, {})
    /\ r.why = "" \/ (r.why = "page fault in fork" /\ Whole(r.m.vbits[Kernel], KernelPages))

LEMMA HeapInKernel ==
    ASSUME Inv, at.pc = "run", NEW p, NEW r, InKernel(p, r), PagesInv', Sound(r.m), CallKeeps(r),
           r.why = "" => LoadingSound'
    PROVE  Inv'
<1>1. mem' = r.m /\ stopped' = r.why /\ at' = at
  <2>1. r.m \in Memory
    BY ONLY Sound(r.m), Zenon DEF Sound
  <2>2. r.m.repeat = FALSE
    BY ONLY <2>1, NoRepeat
  <2>3. mem' = r.m /\ stopped' = Halt(r.m, r.why) /\ at' = at
    BY ONLY InKernel(p, r), Zenon DEF InKernel
  <2> QED BY ONLY <2>2, <2>3, Zenon DEF Halt
<1>2. Busy(at') = {}
  <2>1. "run" \notin {"map", "unmap"}
    BY ONLY TRUE
  <2> QED BY ONLY <1>1, <2>1, at.pc = "run", Zenon DEF Busy
<1>3. stopped' = "" => Balanced(mem', Kernel, Busy(at')) /\ LoadingSound'
  BY ONLY <1>1, <1>2, CallKeeps(r), r.why = "" => LoadingSound', Zenon DEF CallKeeps
<1>4. Whole(mem'.vbits[Kernel], KernelPages)
  <2>1. CASE r.why = ""
    <3>1. Balanced(r.m, Kernel, {})
      BY ONLY <2>1, CallKeeps(r), Zenon DEF CallKeeps
    <3>2. r.m \in Memory
      BY ONLY Sound(r.m), Zenon DEF Sound
    <3>3. PICK m, none : m = r.m /\ none = {}
      BY Zenon
    <3>4. Balanced(m, Kernel, none) /\ m \in Memory
      BY ONLY <3>1, <3>2, <3>3, Zenon
    <3>5. Whole(m.vbits[Kernel], KernelPages)
      BY ONLY <3>4, WholeMarks
    <3> QED BY ONLY <1>1, <3>3, <3>5, Zenon
  <2>2. CASE r.why # ""
    BY ONLY <1>1, <2>2, CallKeeps(r), Zenon DEF CallKeeps
  <2> QED BY ONLY <2>1, <2>2, Zenon
<1>5. NoPanic'
  <2>1. PICK why : why = r.why
    BY Zenon
  <2>2. why = "" \/ why = "page fault in fork"
    BY ONLY <2>1, CallKeeps(r), Zenon DEF CallKeeps
  <2>3. why \in {"", "page fault in fork"}
    BY ONLY <2>2, Zenon
  <2> QED BY ONLY <1>1, <2>1, <2>3, Zenon DEF NoPanic
<1> QED BY ONLY <1>3, <1>4, <1>5, PagesInv', Zenon DEF Inv

LEMMA HeapCall ==
    ASSUME Inv, at.pc = "run", NEW p, NEW r, Call(p, r), PagesInv', Sound(r.m), CallKeeps(r),
           r.why = "" => BareStays(r.m)
    PROVE  Inv'
<1>1. InKernel(p, r) /\ loading' = loading
  BY ONLY Call(p, r), Zenon DEF Call
<1>2. stopped = "" /\ mem' = r.m
  BY ONLY <1>1, Zenon DEF InKernel
<1>3. LoadingSound
  BY ONLY <1>2, Inv, Zenon DEF Inv
<1>4. r.why = "" => LoadingSound'
  <2> SUFFICES ASSUME r.why = ""
               PROVE  LoadingSound'
    BY Zenon
  <2>1. BareStays(mem')
    BY ONLY <1>2, r.why = "", r.why = "" => BareStays(r.m), Zenon
  <2>2. \A q \in Process : loading'[q] \subseteq loading[q]
    BY ONLY <1>1
  <2> QED BY ONLY <1>3, <2>1, <2>2, LoadingStays
<1> QED BY ONLY <1>1, <1>4, Inv, at.pc = "run", PagesInv', Sound(r.m), CallKeeps(r), HeapInKernel, Zenon

(* Between the calls of main.                                              *)
LEMMA RunFacts ==
    ASSUME Inv, at.pc = "run", stopped = ""
    PROVE  mem \in Memory /\ PagesSound(mem, {}) /\ LoadingSound /\ \A s : Balanced(mem, s, {})
<1>1. Half(at) = {} /\ Busy(at) = {}
  <2>1. "run" \notin {"map", "unmap"} /\ "run" # "unmap"
    BY ONLY TRUE
  <2> QED BY ONLY <2>1, at.pc = "run", Zenon DEF Half, Busy
<1>2. PagesInv /\ Balanced(mem, Kernel, Busy(at)) /\ LoadingSound
  BY ONLY Inv, stopped = "", Zenon DEF Inv
<1>3. mem \in Memory /\ PagesSound(mem, {})
  BY ONLY <1>1, <1>2, Zenon DEF PagesInv, StateOK
<1>4. Balanced(mem, Kernel, {})
  BY ONLY <1>1, <1>2, Zenon
<1>5. \A s : Balanced(mem, s, {})
  BY ONLY <1>4, BalancedAny
<1> QED BY ONLY <1>2, <1>3, <1>5, Zenon

LEMMA ElsewhereBare ==
    ASSUME NEW s, NEW n, Elsewhere(mem, n, s), \A q \in Process : loading[q] # {} => q # s
    PROVE  BareStays(n)
<1> SUFFICES ASSUME NEW q \in Process, NEW page \in loading[q]
             PROVE  n.arena[q] = mem.arena[q]
  BY Zenon DEF BareStays
<1>1. q # s /\ q \in Space
  <2>1. loading[q] # {}
    BY Zenon
  <2>2. q \in Space
    BY ONLY Constants
  <2> QED BY ONLY <2>1, <2>2, \A x \in Process : loading[x] # {} => x # s, Zenon
<1> QED BY ONLY <1>1, Elsewhere(mem, n, s), Zenon DEF Elsewhere, SameBlocks

(* What a call of sys_malloc or sys_free leaves.                           *)
CallIn(s, r) == CallKeeps(r) /\ Elsewhere(mem, r.m, s)

LEMMA HeapDone ==
    ASSUME NEW s, NEW n, Elsewhere(mem, n, s), Balanced(n, s, {}), NEW r, r = Done(n)
    PROVE  CallIn(s, r)
<1>1. PICK why, m : why = r.why /\ m = r.m /\ why = "" /\ m = n
  BY ONLY r = Done(n), Zenon DEF Done
<1>2. Balanced(n, Kernel, {})
  BY ONLY Balanced(n, s, {}), BalancedAny
<1> QED BY ONLY <1>1, <1>2, Elsewhere(mem, n, s), Zenon DEF CallIn, CallKeeps

LEMMA HeapMalloced ==
    ASSUME Inv, at.pc = "run", stopped = "", NEW s \in Space, s \in There(mem) \cup {Kernel},
           NEW n \in {0} \cup LargeSizes, MayTake(mem, s, PagesFor(n)), NEW r, r = Done(sys_malloc(mem, s, n))
    PROVE  CallIn(s, r)
<1>1. mem \in Memory /\ PagesSound(mem, {}) /\ Balanced(mem, s, {})
  BY ONLY Inv, at.pc = "run", stopped = "", RunFacts, Zenon
<1>2. PICK k : k = sys_malloc(mem, s, n)
  BY Zenon
<1>3. Elsewhere(mem, k, s) /\ Balanced(k, s, {})
  BY ONLY <1>1, <1>2, SysMallocBalanced, s \in Space, s \in There(mem) \cup {Kernel},
          n \in {0} \cup LargeSizes, MayTake(mem, s, PagesFor(n))
<1>4. r = Done(k)
  BY ONLY <1>2, r = Done(sys_malloc(mem, s, n)), Zenon
<1> QED BY ONLY <1>3, <1>4, HeapDone

LEMMA HeapFreed ==
    ASSUME Inv, at.pc = "run", stopped = "", NEW s \in Space, NEW b, MayReturn(mem, s, b), NEW r,
           r = IF FreeAsserts(mem, s, b) THEN Done(sys_free(mem, s, b)) ELSE Fault(mem, "ASSERT in sys_free")
    PROVE  CallIn(s, r)
<1>1. mem \in Memory /\ PagesSound(mem, {}) /\ Balanced(mem, s, {})
  BY ONLY Inv, at.pc = "run", stopped = "", RunFacts, Zenon
<1>2. PICK k : k = sys_free(mem, s, b)
  BY Zenon
<1>3. FreeAsserts(mem, s, b) /\ Elsewhere(mem, k, s) /\ Balanced(k, s, {})
  BY ONLY <1>1, <1>2, SysFreeBalanced, s \in Space, MayReturn(mem, s, b)
<1>4. r = Done(k)
  BY ONLY <1>2, <1>3, Zenon,
          r = IF FreeAsserts(mem, s, b) THEN Done(sys_free(mem, s, b)) ELSE Fault(mem, "ASSERT in sys_free")
<1> QED BY ONLY <1>3, <1>4, HeapDone

(* A block with an index in the kernel's heap is in an arena of its own.   *)
LEMMA KernelBlock ==
    ASSUME NEW m, Balanced(m, Kernel, {}), m \in Memory, NEW b \in m.live[Kernel]
    PROVE  MayReturn(m, Kernel, b)
<1>1. HeapOK(m, Kernel) /\ Kernel \in Space
  BY ONLY Balanced(m, Kernel, {}), Parts, Constants DEF Balanced
<1>2. PICK F, L, A, P, page : F = m.free[Kernel] /\ L = m.live[Kernel] /\ A = m.arena[Kernel] /\ P = There(m) /\ page = b[1]
  BY Zenon
<1>3. HeapSound(Kernel, F, L, A, P)
  BY ONLY <1>1, <1>2, Zenon DEF HeapOK
<1>4. b \in L /\ L \subseteq Block /\ A \in [Page -> Arena]
  BY ONLY <1>1, <1>2, MemoryFields, m \in Memory, b \in m.live[Kernel]
<1>5. A[page] # NoArena
  BY ONLY <1>2, <1>3, <1>4, Zenon DEF HeapSound
<1>6. page \in Page
  BY ONLY <1>2, <1>4 DEF Block
<1>7. A[page].desc \in {Kernel}
  BY ONLY <1>3, <1>5, <1>6, Zenon DEF HeapSound, ArenaSound
<1>8. A[page].desc = Kernel
  BY ONLY <1>7, Zenon
<1> QED BY ONLY <1>2, <1>4, <1>8, Zenon DEF MayReturn

LEMMA ProcessThere ==
    ASSUME Inv, at.pc = "run", NEW p \in Process, Runs(p)
    PROVE  /\ p \in Space /\ p \in There(mem) \cup {Kernel} /\ mem.own[p] # {} /\ Sound(mem)
           /\ \A n : MayTake(mem, p, n) /\ MayTake(mem, Kernel, n)
           /\ \A q \in Process : loading[q] # {} => q # p
<1>1. PagesInv
  BY ONLY Inv, Zenon DEF Inv
<1>2. p \in Space /\ mem.own[p] # {} /\ Sound(mem) /\ \A n : MayTake(mem, p, n) /\ MayTake(mem, Kernel, n)
  BY ONLY <1>1, ProcessFacts, at.pc = "run", Runs(p), p \in Process, Zenon
<1>3. p \in There(mem) \cup {Kernel}
  BY ONLY <1>2, p \in Process, Zenon DEF There
<1>4. loading[p] = {}
  BY ONLY Runs(p), Zenon DEF Runs
<1> QED BY ONLY <1>2, <1>3, <1>4, Zenon

(* A call of sys_malloc or sys_free for its own heap or the kernel's.      *)
LEMMA HeapCallIn ==
    ASSUME Inv, at.pc = "run", NEW p \in Process, Runs(p), NEW r, Call(p, r), PagesInv', Sound(r.m),
           NEW s, s \in {p, Kernel}, CallIn(s, r)
    PROVE  Inv'
<1>1. CallKeeps(r) /\ Elsewhere(mem, r.m, s)
  BY ONLY CallIn(s, r), Zenon DEF CallIn
<1>2. \A q \in Process : loading[q] # {} => q # p
  BY ONLY Inv, at.pc = "run", p \in Process, Runs(p), ProcessThere, Zenon
<1>3. \A q \in Process : q # Kernel
  BY ONLY Constants
<1>4. \A q \in Process : loading[q] # {} => q # s
  BY ONLY <1>2, <1>3, s \in {p, Kernel}, Zenon
<1>5. PICK n : n = r.m
  BY Zenon
<1>6. Elsewhere(mem, n, s)
  BY ONLY <1>1, <1>5, Zenon
<1>7. BareStays(n)
  BY ONLY <1>4, <1>6, ElsewhereBare
<1>8. BareStays(r.m)
  BY ONLY <1>5, <1>7, Zenon
<1> QED BY ONLY <1>1, <1>8, Inv, at.pc = "run", Call(p, r), PagesInv', Sound(r.m), HeapCall, Zenon

LEMMA HeapMallocs ==
    ASSUME Inv, "main undisturbed" \in Habits, PagesInv', NEW p \in Process,
           NEW n \in {0} \cup LargeSizes, ProcessMallocs(p, n)
    PROVE  Inv'
<1>1. PICK r : r = Done(sys_malloc(mem, p, n))
  BY Zenon
<1>2. Runs(p) /\ Call(p, r) /\ at.pc = "run" /\ stopped = ""
  BY ONLY <1>1, ProcessMallocs(p, n), "main undisturbed" \in Habits, Zenon
     DEF ProcessMallocs, Call, InKernel, MainUndisturbed
<1>3. p \in Space /\ p \in There(mem) \cup {Kernel} /\ MayTake(mem, p, PagesFor(n)) /\ PagesInv
  BY ONLY <1>2, Inv, ProcessThere, p \in Process, Zenon DEF Inv
<1>4. CallIn(p, r)
  BY ONLY <1>1, <1>2, <1>3, Inv, HeapMalloced, n \in {0} \cup LargeSizes, Zenon
<1>5. Sound(r.m)
  BY ONLY <1>1, <1>2, <1>3, MallocedBlock, n \in {0} \cup LargeSizes, Zenon
<1>6. p \in {p, Kernel}
  BY Zenon
<1> QED BY ONLY <1>2, <1>4, <1>5, <1>6, Inv, PagesInv', p \in Process, HeapCallIn, Zenon

LEMMA HeapFrees ==
    ASSUME Inv, "main undisturbed" \in Habits, PagesInv', NEW p \in Process,
           NEW b \in mem.live[p], ProcessFrees(p, b)
    PROVE  Inv'
<1>1. PICK r : r = IF FreeAsserts(mem, p, b) THEN Done(sys_free(mem, p, b)) ELSE Fault(mem, "ASSERT in sys_free")
  BY Zenon
<1>2. Runs(p) /\ Call(p, r) /\ at.pc = "run" /\ stopped = "" /\ (mem.arena[p][b[1]].large \/ mem.arena[p][b[1]].desc = p)
  BY ONLY <1>1, ProcessFrees(p, b), "main undisturbed" \in Habits, Zenon
     DEF ProcessFrees, Call, InKernel, MainUndisturbed
<1>3. p \in Space /\ PagesInv
  BY ONLY <1>2, Inv, ProcessThere, p \in Process, Zenon DEF Inv
<1>4. MayReturn(mem, p, b)
  BY ONLY <1>2, b \in mem.live[p], Zenon DEF MayReturn
<1>5. CallIn(p, r)
  BY ONLY <1>1, <1>2, <1>3, <1>4, Inv, HeapFreed, Zenon
<1>6. Sound(r.m)
  BY ONLY <1>1, <1>2, <1>3, FreedBlock, b \in mem.live[p], Zenon
<1>7. p \in {p, Kernel}
  BY Zenon
<1> QED BY ONLY <1>2, <1>5, <1>6, <1>7, Inv, PagesInv', p \in Process, HeapCallIn, Zenon

(* inode_open and inode_close take and free a block of the kernel.         *)
LEMMA HeapOpens ==
    ASSUME Inv, "main undisturbed" \in Habits, PagesInv', NEW p \in Process, ProcessOpensInode(p)
    PROVE  Inv'
<1>1. PICK r : r = Done(sys_malloc(mem, Kernel, 0))
  BY Zenon
<1>2. Runs(p) /\ Call(p, r) /\ at.pc = "run" /\ stopped = ""
  BY ONLY <1>1, ProcessOpensInode(p), Zenon DEF ProcessOpensInode, Call, InKernel
<1>3. Kernel \in Space /\ 0 \in {0} \cup LargeSizes
  BY ONLY Constants
<1>4. Kernel \in There(mem) \cup {Kernel} /\ MayTake(mem, Kernel, PagesFor(0)) /\ PagesInv
  BY ONLY <1>2, Inv, ProcessThere, p \in Process, Zenon DEF Inv
<1>5. CallIn(Kernel, r)
  BY ONLY <1>1, <1>2, <1>3, <1>4, Inv, HeapMalloced, Zenon
<1>6. Sound(r.m)
  BY ONLY <1>1, <1>2, <1>3, <1>4, MallocedBlock, Zenon
<1>7. Kernel \in {p, Kernel}
  BY Zenon
<1> QED BY ONLY <1>2, <1>5, <1>6, <1>7, Inv, PagesInv', p \in Process, HeapCallIn, Zenon

LEMMA HeapCloses ==
    ASSUME Inv, "main undisturbed" \in Habits, PagesInv', NEW p \in Process,
           NEW b \in mem.live[Kernel], ProcessClosesInode(p, b)
    PROVE  Inv'
<1>1. PICK r : r = IF FreeAsserts(mem, Kernel, b) THEN Done(sys_free(mem, Kernel, b))
                   ELSE Fault(mem, "ASSERT in sys_free")
  BY Zenon
<1>2. Runs(p) /\ Call(p, r) /\ at.pc = "run" /\ stopped = ""
  BY ONLY <1>1, ProcessClosesInode(p, b), Zenon DEF ProcessClosesInode, Call, InKernel
<1>3. Kernel \in Space
  BY ONLY Constants
<1>4. PagesInv /\ mem \in Memory /\ Balanced(mem, Kernel, {})
  BY ONLY <1>2, Inv, RunFacts, Zenon DEF Inv
<1>5. MayReturn(mem, Kernel, b)
  BY ONLY <1>4, b \in mem.live[Kernel], KernelBlock
<1>6. CallIn(Kernel, r)
  BY ONLY <1>1, <1>2, <1>3, <1>5, Inv, HeapFreed, Zenon
<1>7. Sound(r.m)
  BY ONLY <1>1, <1>2, <1>3, <1>4, FreedBlock, b \in mem.live[Kernel], Zenon
<1>8. Kernel \in {p, Kernel}
  BY Zenon
<1> QED BY ONLY <1>2, <1>6, <1>7, <1>8, Inv, PagesInv', p \in Process, HeapCallIn, Zenon

LEMMA HeapForks ==
    ASSUME Inv, "main undisturbed" \in Habits, PagesInv', NEW p \in Process,
           NEW c \in Process, ProcessForks(p, c)
    PROVE  Inv'
<1>1. PICK r : r = sys_fork(mem, p, c)
  BY Zenon
<1>2. Runs(p) /\ mem.own[c] = {} /\ Call(p, r) /\ at.pc = "run" /\ stopped = ""
  BY ONLY <1>1, ProcessForks(p, c), "main undisturbed" \in Habits, Zenon
     DEF ProcessForks, Call, InKernel, MainUndisturbed
<1>3. mem.own[p] # {} /\ Sound(mem)
  BY ONLY <1>2, Inv, ProcessThere, p \in Process, Zenon
<1>4. Balanced(mem, Kernel, {}) /\ PagesInv
  BY ONLY <1>2, Inv, RunFacts, Zenon DEF Inv
<1>5. MayFork(mem, p, c)
  BY ONLY <1>2, <1>3, p \in Process, c \in Process, Zenon DEF MayFork
<1>6. ForkOK(mem, r)
  BY ONLY <1>1, <1>3, <1>4, <1>5, SysForkBalanced
<1>7. Sound(r.m) /\ r.why \in {"", "page fault in fork"}
  BY ONLY <1>1, <1>2, <1>3, SysForkSound, p \in Process, c \in Process, Zenon
<1>8. CallKeeps(r)
  BY ONLY <1>6, <1>7, Zenon DEF ForkOK, CallKeeps
<1>9. r.why = "" => BareStays(r.m)
  <2> SUFFICES ASSUME r.why = "", NEW q \in Process, NEW page \in loading[q], mem.arena[q][page] = NoArena
               PROVE  r.m.arena[q][page] = NoArena
    BY Zenon DEF BareStays
  <2>1. loading[q] # {}
    BY Zenon
  <2>2. mem.own[q] # {}
    BY ONLY <1>4, <2>1, Zenon DEF PagesInv
  <2>3. r.m.arena[q] = mem.arena[q]
    BY ONLY <1>6, <2>2, r.why = "", Zenon DEF ForkOK
  <2> QED BY ONLY <2>3, mem.arena[q][page] = NoArena, Zenon
<1> QED BY ONLY <1>2, <1>7, <1>8, <1>9, Inv, PagesInv', HeapCall, Zenon

(* sys_execv: only the pages to load change.                               *)
LEMMA HeapExecs ==
    ASSUME Inv, {"main undisturbed", "programs above the heap"} \subseteq Habits, PagesInv', NEW p \in Process, sys_execv(p)
    PROVE  Inv'
<1>1. PICK r : r = Done(mem)
  BY Zenon
<1>2. "main undisturbed" \in Habits /\ "programs above the heap" \in Habits
  BY ONLY {"main undisturbed", "programs above the heap"} \subseteq Habits, Zenon
<1>3. Runs(p) /\ InKernel(p, r) /\ at.pc = "run" /\ stopped = "" /\ loading' = [loading EXCEPT ![p] = Image]
  BY ONLY <1>1, <1>2, sys_execv(p), Zenon DEF sys_execv, InKernel, MainUndisturbed
<1>4. 0 \notin Image /\ \A page \in Image : mem.arena[p][page] = NoArena
  BY ONLY <1>2, sys_execv(p), Zenon DEF sys_execv, ProgramsAboveHeap
<1>5. mem' = mem /\ r.m = mem /\ r.why = ""
  BY ONLY <1>1, <1>3, Zenon DEF InKernel, Done
<1>6. Sound(mem) /\ Balanced(mem, Kernel, {}) /\ LoadingSound /\ PagesInv
  BY ONLY <1>3, Inv, RunFacts, Zenon DEF Inv, Sound
<1>7. \A q \in Process : loading'[q] = IF q = p THEN Image ELSE loading[q]
  <2>1. loading \in [Process -> SUBSET Image]
    BY ONLY <1>6, Zenon DEF PagesInv, StateOK
  <2>2. loading' = [loading EXCEPT ![p] = Image]
    BY ONLY <1>3, Zenon
  <2> QED BY ONLY <2>1, <2>2
<1>8. LoadingSound'
  <2> SUFFICES ASSUME NEW q \in Process, NEW page \in loading'[q]
               PROVE  page # 0 /\ mem'.arena[q][page] = NoArena
    BY Zenon DEF LoadingSound
  <2>1. CASE q = p
    BY ONLY <1>4, <1>5, <1>7, <2>1, page \in loading'[q], Zenon
  <2>2. CASE q # p
    <3>1. page \in loading[q]
      BY ONLY <1>7, <2>2, page \in loading'[q], Zenon
    <3> QED BY ONLY <1>2, <1>5, <1>6, <3>1, Zenon DEF LoadingSound
  <2> QED BY ONLY <2>1, <2>2, Zenon
<1>9. CallKeeps(r) /\ Sound(r.m)
  BY ONLY <1>5, <1>6, Zenon DEF CallKeeps
<1> QED BY ONLY <1>3, <1>8, <1>9, Inv, PagesInv', HeapInKernel, Zenon

(* A page of the program is loaded: no ASSERT fails, no header is lost.    *)
LEMMA HeapLoads ==
    ASSUME Inv, {"main undisturbed", "programs above the heap"} \subseteq Habits, PagesInv', NEW p \in Process, ProcessLoads(p)
    PROVE  Inv'
<1>1. PICK page, r, rest : /\ page = Min(loading[p]) /\ r = segment_load(mem, p, page)
                           /\ rest = IF r.why = "" /\ ~r.holds THEN loading[p] \ {page} ELSE {}
  BY Zenon
<1>2. "main undisturbed" \in Habits /\ "programs above the heap" \in Habits
  BY ONLY {"main undisturbed", "programs above the heap"} \subseteq Habits, Zenon
<1>3. loading[p] # {} /\ InKernel(p, r) /\ at.pc = "run" /\ stopped = "" /\ loading' = [loading EXCEPT ![p] = rest]
  BY ONLY <1>1, <1>2, ProcessLoads(p), Zenon DEF ProcessLoads, InKernel, MainUndisturbed
<1>4. Sound(mem) /\ Balanced(mem, p, {}) /\ LoadingSound /\ PagesInv
  BY ONLY <1>3, Inv, RunFacts, Zenon DEF Inv, Sound
<1>5. loading \in [Process -> SUBSET Image] /\ mem.own[p] # {}
  BY ONLY <1>3, <1>4, p \in Process, Zenon DEF PagesInv, StateOK
<1>6. page \in Image /\ page \in loading[p]
  <2>1. PICK S : S = loading[p]
    BY Zenon
  <2>2. S \subseteq Image
    BY ONLY <1>5, <2>1, p \in Process
  <2>3. S \subseteq Nat
    BY ONLY <2>2, Constants
  <2>4. Min(S) \in S
    <3>1. S # {}
      BY ONLY <1>3, <2>1, Zenon
    <3> QED BY ONLY <2>3, <3>1, SmallestPage
  <2>5. page = Min(S)
    BY ONLY <1>1, <2>1, Zenon
  <2>6. page \in S /\ page \in Image
    BY ONLY <2>2, <2>4, <2>5
  <2> QED BY ONLY <2>1, <2>6, Zenon
<1>7. page # 0 /\ mem.arena[p][page] = NoArena
  BY ONLY <1>2, <1>4, <1>6, p \in Process, Zenon DEF LoadingSound
<1>8. page \in 0..StackPage /\ page \in Stacks(p)
  <2>1. page \in Nat /\ page < UserPages - 1 /\ UserPages \in Nat /\ p # Kernel
    BY ONLY <1>6, Constants
  <2>2. page \in 0..StackPage
    BY ONLY <2>1 DEF StackPage
  <2>3. page \in {StackPage} \cup Image
    BY ONLY <1>6
  <2> QED BY ONLY <2>1, <2>2, <2>3, Zenon DEF Stacks
<1>9. Loadable(mem, p, page)
  BY ONLY <1>5, <1>7, <1>8, Zenon DEF Loadable
<1>10. LoadedPage(mem, p, page, r)
  <2>1. r = segment_load(mem, p, page)
    BY ONLY <1>1, Zenon
  <2>2. Sound(mem) /\ Balanced(mem, p, {})
    BY ONLY <1>4, Zenon
  <2> QED BY ONLY <1>9, <2>1, <2>2, p \in Process, SegmentBalanced, Zenon
<1>11. r.why = "" /\ Read(mem, p, page, r.m)
  BY ONLY <1>10, Zenon DEF LoadedPage
<1>12. Sound(r.m)
  BY ONLY <1>1, <1>4, <1>5, <1>8, p \in Process, SegmentLoadSound, Zenon
<1>13. Balanced(r.m, Kernel, {})
  <2>1. PICK n : n = r.m
    BY Zenon
  <2>2. Balanced(n, p, {})
    BY ONLY <1>11, <2>1, Zenon DEF Read
  <2>3. Balanced(n, Kernel, {})
    BY ONLY <2>2, BalancedAny
  <2> QED BY ONLY <2>1, <2>3, Zenon
<1>14. CallKeeps(r)
  BY ONLY <1>11, <1>13, Zenon DEF CallKeeps
<1>15. \A q \in Process : loading'[q] \subseteq loading[q]
  <2>1. rest = loading[p] \ {page} \/ rest = {}
    BY ONLY <1>1, Zenon
  <2>2. rest \subseteq loading[p]
    BY ONLY <2>1
  <2>3. loading' = [loading EXCEPT ![p] = rest] /\ loading \in [Process -> SUBSET Image]
    BY ONLY <1>3, <1>5, Zenon
  <2> QED BY ONLY <2>2, <2>3
<1>16. BareStays(r.m)
  <2> SUFFICES ASSUME NEW q \in Process, NEW x \in loading[q], mem.arena[q][x] = NoArena
               PROVE  r.m.arena[q][x] = NoArena
    BY Zenon DEF BareStays
  <2>1. x \in Page /\ q \in Space
    <3>1. x \in Image
      BY ONLY <1>5, q \in Process, x \in loading[q]
    <3>2. x \in Nat /\ x < UserPages - 1 /\ UserPages \in Nat
      BY ONLY <3>1, Constants
    <3>3. x \in 0..UserPages
      BY ONLY <3>2
    <3> QED BY ONLY <3>3, q \in Process, Constants DEF Page
  <2>2. CASE q = p
    BY ONLY <1>11, <2>1, <2>2, mem.arena[q][x] = NoArena, Zenon DEF Read
  <2>3. CASE q # p
    <3>1. r.m.arena[q] = mem.arena[q]
      BY ONLY <1>11, <2>1, <2>3, Zenon DEF Read, Elsewhere, SameBlocks
    <3> QED BY ONLY <3>1, mem.arena[q][x] = NoArena, Zenon
  <2> QED BY ONLY <2>2, <2>3, Zenon
<1>17. LoadingSound'
  <2>1. BareStays(mem')
    BY ONLY <1>3, <1>16, Zenon DEF InKernel
  <2> QED BY ONLY <1>4, <1>15, <2>1, LoadingStays
<1> QED BY ONLY <1>3, <1>12, <1>14, <1>17, Inv, PagesInv', HeapInKernel, Zenon

(* start_process: the first page of init's stack.                          *)
LEMMA HeapStart ==
    ASSUME Inv, "main undisturbed" \in Habits, PagesInv', start_process
    PROVE  Inv'
<1>1. PICK r : r = get_a_page(mem, init, StackPage)
  BY Zenon
<1>2. Call(init, r) /\ mem.pte[init][StackPage] = NoFrame /\ at.pc = "run" /\ stopped = ""
  BY ONLY <1>1, start_process, "main undisturbed" \in Habits, Zenon DEF start_process, Call, InKernel, MainUndisturbed
<1>3. mem \in Memory /\ PagesSound(mem, {}) /\ Balanced(mem, init, {}) /\ mem.own[init] # {}
  BY ONLY <1>2, Inv, RunFacts, Zenon DEF Inv, PagesInv
<1>4. StackPage \in 0..StackPage /\ StackPage \in Stacks(init) /\ init \in Process
  <2>1. StackPage \in Nat
    BY ONLY PageNumbers
  <2>2. StackPage \in 0..StackPage
    BY ONLY <2>1
  <2>3. init \in Process /\ init # Kernel
    BY ONLY Constants
  <2>4. StackPage \in {StackPage} \cup Image
    BY ONLY TRUE
  <2> QED BY ONLY <2>2, <2>3, <2>4, Zenon DEF Stacks
<1>5. MayGet(mem, init, StackPage)
  BY ONLY <1>2, <1>3, <1>4, Zenon DEF MayGet
<1>6. Got(mem, init, StackPage, r)
  BY ONLY <1>1, <1>3, <1>4, <1>5, GetAPage
<1>7. GotPage(mem, init, r)
  BY ONLY <1>3, <1>4, <1>5, <1>6, GetBalanced
<1>8. Sound(r.m) /\ r.why = "" /\ r.m.arena = mem.arena
  BY ONLY <1>6, Zenon DEF Got, Sound
<1>9. CallKeeps(r)
  <2>1. PICK n : n = r.m
    BY Zenon
  <2>2. Balanced(n, init, {})
    BY ONLY <1>7, <2>1, Zenon DEF GotPage
  <2>3. Balanced(n, Kernel, {})
    BY ONLY <2>2, BalancedAny
  <2> QED BY ONLY <1>8, <2>1, <2>3, Zenon DEF CallKeeps
<1>10. BareStays(r.m)
  BY ONLY <1>8, Zenon DEF BareStays
<1> QED BY ONLY <1>2, <1>8, <1>9, <1>10, Inv, PagesInv', HeapCall, Zenon

LEMMA HeapProcess ==
    ASSUME Inv, {"main undisturbed", "programs above the heap"} \subseteq Habits, NEW p \in Process, ProcessNext(p)
    PROVE  Inv'
<1>1. "main undisturbed" \in Habits /\ PagesInv
  BY ONLY Inv, {"main undisturbed", "programs above the heap"} \subseteq Habits, Zenon DEF Inv
<1>2. PagesInv'
  BY ONLY <1>1, p \in Process, ProcessNext(p), PagesProcess, Zenon
<1>3. \/ \E n \in {0} \cup LargeSizes : ProcessMallocs(p, n)
      \/ \E b \in mem.live[p] : ProcessFrees(p, b)
      \/ ProcessOpensInode(p)
      \/ \E b \in mem.live[Kernel] : ProcessClosesInode(p, b)
      \/ \E c \in Process : ProcessForks(p, c)
      \/ sys_execv(p)
      \/ ProcessLoads(p)
  BY ONLY ProcessNext(p), Zenon DEF ProcessNext
<1>4. ASSUME NEW n \in {0} \cup LargeSizes, ProcessMallocs(p, n)
      PROVE  Inv'
  BY ONLY <1>1, <1>2, <1>4, Inv, p \in Process, HeapMallocs, Zenon
<1>5. ASSUME NEW b \in mem.live[p], ProcessFrees(p, b)
      PROVE  Inv'
  BY ONLY <1>1, <1>2, <1>5, Inv, p \in Process, HeapFrees, Zenon
<1>6. ASSUME ProcessOpensInode(p)
      PROVE  Inv'
  BY ONLY <1>1, <1>2, <1>6, Inv, p \in Process, HeapOpens, Zenon
<1>7. ASSUME NEW b \in mem.live[Kernel], ProcessClosesInode(p, b)
      PROVE  Inv'
  BY ONLY <1>1, <1>2, <1>7, Inv, p \in Process, HeapCloses, Zenon
<1>8. ASSUME NEW c \in Process, ProcessForks(p, c)
      PROVE  Inv'
  BY ONLY <1>1, <1>2, <1>8, Inv, p \in Process, HeapForks, Zenon
<1>9. ASSUME sys_execv(p)
      PROVE  Inv'
  BY ONLY <1>2, <1>9, {"main undisturbed", "programs above the heap"} \subseteq Habits, Inv, p \in Process, HeapExecs, Zenon
<1>10. ASSUME ProcessLoads(p)
       PROVE  Inv'
  BY ONLY <1>2, <1>10, {"main undisturbed", "programs above the heap"} \subseteq Habits, Inv, p \in Process, HeapLoads, Zenon
<1> QED BY ONLY <1>3, <1>4, <1>5, <1>6, <1>7, <1>8, <1>9, <1>10, Zenon

-----------------------------------------------------------------------------
(* The steps of main, with the kernel's heap                               *)

LEMMA HeapMain ==
    ASSUME Inv, PagesInv', stopped = "", NEW m \in Memory, NEW x, MainStep(m, x), Elsewhere(mem, m, Kernel),
           NEW B, B = Busy(x), Balanced(m, Kernel, B)
    PROVE  Inv'
<1>1. mem' = m /\ at' = x /\ stopped' = "" /\ loading' = loading
  BY ONLY MainStep(m, x), stopped = "", Zenon DEF MainStep
<1>2. Whole(m.vbits[Kernel], KernelPages)
  BY ONLY m \in Memory, Balanced(m, Kernel, B), WholeMarks
<1>3. LoadingSound
  BY ONLY Inv, stopped = "", Zenon DEF Inv
<1>4. LoadingSound'
  <2>1. \A q \in Process : q # Kernel
    BY ONLY Constants
  <2>2. BareStays(m)
    BY ONLY <2>1, Elsewhere(mem, m, Kernel), ElsewhereBare
  <2>3. BareStays(mem')
    BY ONLY <1>1, <2>2, Zenon
  <2>4. \A q \in Process : loading'[q] \subseteq loading[q]
    BY ONLY <1>1, Zenon
  <2> QED BY ONLY <1>3, <2>3, <2>4, LoadingStays
<1>5. NoPanic'
  <2>1. "" \in {"", "page fault in fork"}
    BY ONLY TRUE
  <2> QED BY ONLY <1>1, <2>1, Zenon DEF NoPanic
<1>6. Balanced(mem', Kernel, Busy(at'))
  BY ONLY <1>1, B = Busy(x), Balanced(m, Kernel, B), Zenon
<1> QED BY ONLY <1>1, <1>2, <1>4, <1>5, <1>6, PagesInv', Zenon DEF Inv

LEMMA OutsideIdle == Busy(Outside) = {}
<1>1. PICK pc : pc = Outside.pc /\ pc = "run"
  BY Zenon DEF Outside
<1>2. "run" \notin {"map", "unmap"}
  BY ONLY TRUE
<1> QED BY ONLY <1>1, <1>2, Zenon DEF Busy

LEMMA HeapScan ==
    ASSUME Inv, PagesInv', stopped = "", NEW n \in {0} \cup LargeSizes, vaddr_scan(n)
    PROVE  Inv'
<1>1. PICK start, range : /\ start = bitmap_scan(mem.vbits[Kernel], KernelPages, PagesFor(n))
                          /\ range = start..start + PagesFor(n) - 1
  BY Zenon
<1>2. at.pc = "run"
  BY ONLY vaddr_scan(n), Zenon DEF vaddr_scan
<1>3. mem \in Memory /\ PagesSound(mem, {}) /\ Balanced(mem, Kernel, {}) /\ Kernel \in Space
  BY ONLY <1>2, Inv, stopped = "", RunFacts, Constants, Zenon
<1>4. CASE ~NeedsPages(mem, Kernel, n)
  <2>1. PICK popped : popped = PopBlock(mem, Kernel)
    BY Zenon
  <2>2. MainStep(popped, at)
    BY ONLY <1>4, <2>1, vaddr_scan(n), Zenon DEF vaddr_scan
  <2>3. mem.free[Kernel] # <<>>
    BY ONLY <1>4, Zenon DEF NeedsPages
  <2>4. PICK none : none = {}
    BY Zenon
  <2>5. popped \in Memory
    BY ONLY <1>3, <2>1, <2>3, <2>4, PopBlockSound
  <2>6. Elsewhere(mem, popped, Kernel) /\ Balanced(popped, Kernel, none)
    BY ONLY <1>3, <2>1, <2>3, <2>4, PopBalanced
  <2>7. none = Busy(at)
    <3>1. "run" \notin {"map", "unmap"}
      BY ONLY TRUE
    <3> QED BY ONLY <1>2, <2>4, <3>1, Zenon DEF Busy
  <2> QED BY ONLY <2>2, <2>5, <2>6, <2>7, Inv, PagesInv', stopped = "", HeapMain, Zenon
<1>5. CASE NeedsPages(mem, Kernel, n)
  <2>1. PICK x : x = [pc |-> "mark", n |-> n, pages |-> range, left |-> range, frame |-> NoFrame]
    BY Zenon
  <2>2. MainStep(mem, x)
    BY ONLY <1>1, <1>5, <2>1, vaddr_scan(n), Zenon DEF vaddr_scan
  <2>3. PICK none : none = {}
    BY Zenon
  <2>4. none = Busy(x)
    <3>1. PICK pc : pc = x.pc /\ pc = "mark"
      BY ONLY <2>1, Zenon
    <3>2. "mark" \notin {"map", "unmap"}
      BY ONLY TRUE
    <3> QED BY ONLY <2>3, <3>1, <3>2, Zenon DEF Busy
  <2>5. Elsewhere(mem, mem, Kernel)
    BY Zenon DEF Elsewhere, SameBlocks, SameMarks
  <2>6. Balanced(mem, Kernel, none)
    BY ONLY <1>3, <2>3, Zenon
  <2> QED BY ONLY <1>3, <2>2, <2>4, <2>5, <2>6, Inv, PagesInv', stopped = "", HeapMain, Zenon
<1> QED BY ONLY <1>4, <1>5, Zenon

(* The pages of a call that is not over.                                   *)
CallPages(pages, n) ==
    /\ n \in {0} \cup LargeSizes /\ pages \subseteq Page
    /\ \E start \in 0..KernelPages - 1 : pages = start..start + PagesFor(n) - 1

LEMMA CallWhole ==
    ASSUME NEW pages, NEW n, CallPages(pages, n)
    PROVE  Whole(pages, Size(Kernel))
<1>1. n \in {0} \cup LargeSizes /\ \E start \in 0..KernelPages - 1 : pages = start..start + PagesFor(n) - 1
  BY ONLY CallPages(pages, n), Zenon DEF CallPages
<1>2. PICK start, k : start \in 0..KernelPages - 1 /\ k = PagesFor(n) /\ pages = start..start + k - 1
  BY ONLY <1>1, Zenon
<1>3. k \in Nat
  BY ONLY <1>1, <1>2, Constants DEF PagesFor
<1>4. start \in Nat /\ start < Size(Kernel) /\ Kernel \in Space
  BY ONLY <1>2, Constants DEF Size
<1> QED BY ONLY <1>2, <1>3, <1>4, WholeRange

LEMMA HeapFind ==
    ASSUME Inv, PagesInv', stopped = "", NEW m \in Memory, PagesSound(m, {}), Elsewhere(mem, m, Kernel),
           NEW pages, NEW left, NEW n, CallPages(pages, n), Balanced(m, Kernel, pages), FindFrame(m, pages, left, n)
    PROVE  Inv'
<1>1. PICK f : f = palloc_scan(m, Kernel)
  BY Zenon
<1>2. pages \subseteq Page
  BY ONLY CallPages(pages, n), Zenon DEF CallPages
<1>3. CASE f = NoFrame
  <2>1. PICK given, none : given = GiveUp(m, Kernel, pages) /\ none = pages \ pages
    BY Zenon
  <2>2. MainStep(given, Outside)
    BY ONLY <1>1, <1>3, <2>1, FindFrame(m, pages, left, n), Zenon DEF FindFrame
  <2>3. Kernel \in Space /\ none = {} /\ Whole(none, Size(Kernel)) /\ pages \subseteq pages
    BY ONLY <2>1, Constants DEF Whole
  <2>4. Whole(pages, Size(Kernel))
    BY ONLY CallPages(pages, n), CallWhole
  <2>5. Elsewhere(m, given, Kernel) /\ Balanced(given, Kernel, none)
    BY ONLY <1>2, <2>1, <2>3, <2>4, GiveUpBalanced, m \in Memory, PagesSound(m, {}), Balanced(m, Kernel, pages)
  <2>6. given \in Memory
    BY ONLY <1>2, <2>1, <2>3, GiveUpSound, m \in Memory, PagesSound(m, {})
  <2>7. Elsewhere(mem, given, Kernel)
    BY ONLY <2>5, Elsewhere(mem, m, Kernel), ElsewhereAgain
  <2>8. none = Busy(Outside)
    BY ONLY <2>3, OutsideIdle, Zenon
  <2> QED BY ONLY <2>2, <2>5, <2>6, <2>7, <2>8, Inv, PagesInv', stopped = "", HeapMain, Zenon
<1>4. CASE f # NoFrame
  <2>1. PICK x : x = [pc |-> "map", n |-> n, pages |-> pages, left |-> left, frame |-> f]
    BY Zenon
  <2>2. MainStep(m, x)
    BY ONLY <1>1, <1>4, <2>1, FindFrame(m, pages, left, n), Zenon DEF FindFrame
  <2>3. pages = Busy(x)
    <3>1. x.pc = "map" /\ x.pages = pages
      BY ONLY <2>1, Zenon
    <3> QED BY ONLY <3>1, Zenon DEF Busy
  <2> QED BY ONLY <2>2, <2>3, Inv, PagesInv', stopped = "", m \in Memory, Elsewhere(mem, m, Kernel),
                  Balanced(m, Kernel, pages), HeapMain, Zenon
<1> QED BY ONLY <1>3, <1>4, Zenon

(* vaddr_set: the pages are marked, they are main's.                       *)
LEMMA MarkBalanced ==
    ASSUME NEW m \in Memory, PagesSound(m, {}), Balanced(m, Kernel, {}), NEW pages,
           Markable(m, Kernel, pages), pages \cap m.vbits[Kernel] = {}, Whole(pages, Size(Kernel)),
           NEW n, n = Marked(m, Kernel, pages)
    PROVE  Elsewhere(m, n, Kernel) /\ Balanced(n, Kernel, pages)
<1>1. Kernel \in Space
  BY ONLY Constants
<1>2. /\ SameHeap(m, n) /\ n.pte = m.pte
      /\ \A t \in Space : n.vbits[t] = IF t = Kernel THEN m.vbits[Kernel] \cup pages ELSE m.vbits[t]
  <2>1. PICK none : none = {}
    BY Zenon
  <2>2. PagesSound(m, none)
    BY ONLY <2>1, PagesSound(m, {}), Zenon
  <2> QED BY ONLY <1>1, <2>2, m \in Memory, Markable(m, Kernel, pages), n = Marked(m, Kernel, pages), MarkSound
<1>3. Elsewhere(m, n, Kernel) /\ SameBlocks(m, n, Kernel)
  BY ONLY <1>2, Zenon DEF SameHeap, Elsewhere, SameBlocks, SameMarks
<1>4. PartsOK(m, Kernel, {}) => PartsOK(n, Kernel, pages)
  <2> SUFFICES ASSUME PartsOK(m, Kernel, {})
               PROVE  PartsOK(n, Kernel, pages)
    BY Zenon
  <2>1. PICK H, V, K, E, R, none : /\ H = Covered(m.arena[Kernel]) /\ V = m.vbits[Kernel] /\ K = Kept(m, Kernel)
                                   /\ E = Mapped(m, Kernel) /\ R = Reserved(m, Kernel) /\ none = {}
    BY Zenon
  <2>2. Divided(Kernel, H, V, K, E, R, none)
    BY ONLY <2>1, PartsOK(m, Kernel, {}), Zenon DEF PartsOK
  <2>3. pages \cap V = {}
    BY ONLY <2>1, pages \cap m.vbits[Kernel] = {}, Zenon
  <2>4. Divided(Kernel, H, V \cup pages, K, E, R, none \cup pages)
    BY ONLY <2>2, <2>3, Whole(pages, Size(Kernel)), TakeDivided
  <2>5. none \cup pages = pages
    BY ONLY <2>1
  <2>6. n.vbits[Kernel] = V \cup pages
    BY ONLY <1>1, <1>2, <2>1, Zenon
  <2>7. Covered(n.arena[Kernel]) = H /\ Kept(n, Kernel) = K /\ Mapped(n, Kernel) = E /\ Reserved(n, Kernel) = R
    BY ONLY <1>2, <2>1, Zenon DEF SameHeap, Kept, Mapped, Reserved
  <2>8. Divided(Kernel, H, V \cup pages, K, E, R, pages)
    BY ONLY <2>4, <2>5, Zenon
  <2> QED BY ONLY <2>6, <2>7, <2>8, Zenon DEF PartsOK
<1>5. PICK none : none = {}
  BY Zenon
<1>6. Balanced(m, Kernel, none) /\ (PartsOK(m, Kernel, none) => PartsOK(n, Kernel, pages))
  BY ONLY <1>4, <1>5, Balanced(m, Kernel, {}), Zenon
<1>7. Balanced(n, Kernel, pages)
  BY ONLY <1>1, <1>3, <1>6, PartsChange
<1> QED BY ONLY <1>3, <1>7, Zenon

LEMMA HeapMark ==
    ASSUME Inv, PagesInv', stopped = "", vaddr_set
    PROVE  Inv'
<1>1. PICK pages, left, n, marked : pages = at.pages /\ left = at.left /\ n = at.n /\ marked = Marked(mem, Kernel, pages)
  BY Zenon
<1>2. at.pc = "mark" /\ FindFrame(marked, pages, left, n)
  BY ONLY <1>1, vaddr_set, Zenon DEF vaddr_set
<1>3. Half(at) = {} /\ Busy(at) = {}
  <2>1. "mark" \notin {"map", "unmap"} /\ "mark" # "unmap"
    BY ONLY TRUE
  <2> QED BY ONLY <1>2, <2>1, Zenon DEF Half, Busy
<1>4. mem \in Memory /\ at \in Point /\ PagesSound(mem, {}) /\ MainSound(mem, at) /\ Balanced(mem, Kernel, {})
  BY ONLY <1>3, Inv, stopped = "", Zenon DEF Inv, PagesInv, StateOK
<1>5. "mark" \in {"mark", "map"} /\ "mark" # "run"
  BY ONLY TRUE
<1>6. n \in {0} \cup LargeSizes /\ pages \subseteq Page
  BY ONLY <1>1, <1>4 DEF Point
<1>7. CallPages(pages, n)
  BY ONLY <1>1, <1>2, <1>4, <1>5, <1>6, Zenon DEF MainSound, CallPages
<1>8. pages \subseteq 0..KernelPages /\ pages \cap mem.vbits[Kernel] = {}
  BY ONLY <1>1, <1>2, <1>4, <1>5, Zenon DEF MainSound
<1>9. Markable(mem, Kernel, pages) /\ Kernel \in Space
  BY ONLY <1>8, Constants DEF Markable, Size
<1>10. marked \in Memory /\ PagesSound(marked, {})
  <2>1. PICK none : none = {}
    BY Zenon
  <2>2. PagesSound(mem, none)
    BY ONLY <1>4, <2>1, Zenon
  <2>3. marked \in Memory /\ PagesSound(marked, none)
    BY ONLY <1>1, <1>4, <1>9, <2>2, MarkSound
  <2> QED BY ONLY <2>1, <2>3, Zenon
<1>11. Whole(pages, Size(Kernel))
  BY ONLY <1>7, CallWhole
<1>12. Elsewhere(mem, marked, Kernel) /\ Balanced(marked, Kernel, pages)
  BY ONLY <1>1, <1>4, <1>8, <1>9, <1>11, MarkBalanced, Zenon
<1> QED BY ONLY <1>2, <1>7, <1>10, <1>12, Inv, PagesInv', stopped = "", HeapFind, Zenon

(* frame_set: one more page of the call has a frame.                       *)
LEMMA MapBalanced ==
    ASSUME NEW m, NEW n, NEW s \in Space, NEW B, Balanced(m, s, B), SameHeap(m, n), n.vbits = m.vbits, NEW page,
           \A t \in Space, q \in Page : ~(t = s /\ q = page) => n.pte[t][q] = m.pte[t][q],
           n.pte[s][page] # NoFrame
    PROVE  Elsewhere(m, n, s) /\ Balanced(n, s, B)
<1>1. Elsewhere(m, n, s) /\ SameBlocks(m, n, s)
  <2>1. n.own = m.own /\ n.arena = m.arena /\ n.free = m.free /\ n.live = m.live /\ n.lost = m.lost
    BY ONLY SameHeap(m, n), Zenon DEF SameHeap
  <2>2. \A t \in Space : t # s => \A q \in Page : n.pte[t][q] = m.pte[t][q]
    BY ONLY \A t \in Space, q \in Page : ~(t = s /\ q = page) => n.pte[t][q] = m.pte[t][q], Zenon
  <2> QED BY ONLY <2>1, <2>2, n.vbits = m.vbits, Zenon DEF Elsewhere, SameBlocks, SameMarks
<1>2. PartsOK(m, s, B) => PartsOK(n, s, B)
  <2> SUFFICES ASSUME PartsOK(m, s, B)
               PROVE  PartsOK(n, s, B)
    BY Zenon
  <2>1. PICK H, V, K, E, R, E2 : /\ H = Covered(m.arena[s]) /\ V = m.vbits[s] /\ K = Kept(m, s)
                                 /\ E = Mapped(m, s) /\ R = Reserved(m, s) /\ E2 = Mapped(n, s)
    BY Zenon
  <2>2. Divided(s, H, V, K, E, R, B)
    BY ONLY <2>1, PartsOK(m, s, B), Zenon DEF PartsOK
  <2>3. E \subseteq E2
    <3>1. ASSUME NEW q \in Page, m.pte[s][q] # NoFrame
          PROVE  n.pte[s][q] # NoFrame
      <4>1. CASE q = page
        BY ONLY <4>1, n.pte[s][page] # NoFrame, Zenon
      <4>2. CASE q # page
        BY ONLY <3>1, <4>2, s \in Space, Zenon,
                \A t \in Space, x \in Page : ~(t = s /\ x = page) => n.pte[t][x] = m.pte[t][x]
      <4> QED BY ONLY <4>1, <4>2, Zenon
    <3> QED BY ONLY <2>1, <3>1, Zenon DEF Mapped
  <2>4. Divided(s, H, V, K, E2, R, B)
    BY ONLY <2>2, <2>3, MappedDivided
  <2>5. Covered(n.arena[s]) = H /\ n.vbits[s] = V /\ Kept(n, s) = K /\ Reserved(n, s) = R
    BY ONLY <2>1, SameHeap(m, n), n.vbits = m.vbits, Zenon DEF SameHeap, Kept, Reserved
  <2> QED BY ONLY <2>1, <2>4, <2>5, Zenon DEF PartsOK
<1>3. Balanced(n, s, B)
  BY ONLY <1>1, <1>2, Balanced(m, s, B), s \in Space, PartsChange
<1> QED BY ONLY <1>1, <1>3, Zenon

(* What main stands at in the middle of malloc_page.                       *)
MapFacts(pages, left, n, f) ==
    /\ left \subseteq pages /\ left # {} /\ CallPages(pages, n) /\ pages \subseteq 0..KernelPages
    /\ pages \subseteq mem.vbits[Kernel] /\ f \in PoolOf(Kernel) \ mem.pbits
    /\ n = 0 => mem.free[Kernel] = <<>>
    /\ \A q \in left : mem.pte[Kernel][q] = NoFrame
    /\ \A q \in pages \ left : mem.pte[Kernel][q] # NoFrame

LEMMA InMap ==
    ASSUME Inv, stopped = "", at.pc = "map", NEW pages, NEW left, NEW n, NEW f,
           pages = at.pages, left = at.left, n = at.n, f = at.frame
    PROVE  mem \in Memory /\ PagesSound(mem, {}) /\ Balanced(mem, Kernel, pages) /\ MapFacts(pages, left, n, f)
<1>1. Half(at) = {} /\ Busy(at) = pages
  <2>1. "map" \in {"map", "unmap"} /\ "map" # "unmap"
    BY ONLY TRUE
  <2> QED BY ONLY <2>1, at.pc = "map", pages = at.pages, Zenon DEF Half, Busy
<1>2. mem \in Memory /\ at \in Point /\ PagesSound(mem, {}) /\ MainSound(mem, at) /\ Balanced(mem, Kernel, pages)
  BY ONLY <1>1, Inv, stopped = "", Zenon DEF Inv, PagesInv, StateOK
<1>3. "map" \in {"mark", "map"} /\ "map" # "run"
  BY ONLY TRUE
<1>4. n \in {0} \cup LargeSizes /\ pages \subseteq Page
  BY ONLY <1>2, n = at.n, pages = at.pages DEF Point
<1>5. CallPages(pages, n)
  BY ONLY <1>2, <1>3, <1>4, at.pc = "map", n = at.n, pages = at.pages, Zenon DEF MainSound, CallPages
<1>6. MapFacts(pages, left, n, f)
  BY ONLY <1>2, <1>3, <1>5, at.pc = "map", n = at.n, pages = at.pages, left = at.left, f = at.frame, Zenon
     DEF MainSound, MapFacts
<1> QED BY ONLY <1>2, <1>6, Zenon

LEMMA CallStart ==
    ASSUME NEW pages, NEW n, CallPages(pages, n), NEW start, start = Min(pages)
    PROVE  start \in Page /\ start < Size(Kernel) /\ pages = start..start + PagesFor(n) - 1
<1>1. n \in {0} \cup LargeSizes /\ pages \subseteq Page /\ \E s \in 0..KernelPages - 1 : pages = s..s + PagesFor(n) - 1
  BY ONLY CallPages(pages, n), Zenon DEF CallPages
<1>2. PICK first, k : first \in 0..KernelPages - 1 /\ k = PagesFor(n) /\ pages = first..first + k - 1
  BY ONLY <1>1, Zenon
<1>3. k \in Nat /\ k > 0
  BY ONLY <1>1, <1>2, Constants DEF PagesFor
<1>4. first \in pages /\ pages \subseteq Nat /\ pages # {}
  BY ONLY <1>2, <1>3
<1>5. start \in pages /\ \A q \in pages : start <= q
  BY ONLY <1>4, start = Min(pages), SmallestPage
<1>6. start = first
  BY ONLY <1>2, <1>3, <1>4, <1>5
<1>7. start \in Page /\ start < Size(Kernel)
  BY ONLY <1>1, <1>2, <1>5, <1>6, Constants DEF Size
<1> QED BY ONLY <1>2, <1>6, <1>7, Zenon

LEMMA HeapMap ==
    ASSUME Inv, PagesInv', stopped = "", frame_set
    PROVE  Inv'
<1>1. PICK pages, left, n, f : pages = at.pages /\ left = at.left /\ n = at.n /\ f = at.frame
  BY Zenon
<1>2. PICK page, start : page = Min(left) /\ start = Min(pages)
  BY Zenon
<1>3. PICK mapped : mapped = MapPage(mem, Kernel, page, f)
  BY Zenon
<1>4. at.pc = "map"
  BY ONLY frame_set, Zenon DEF frame_set
<1>5. mem \in Memory /\ PagesSound(mem, {}) /\ Balanced(mem, Kernel, pages) /\ MapFacts(pages, left, n, f)
  BY ONLY <1>1, <1>4, Inv, stopped = "", InMap, Zenon
<1>6. CallPages(pages, n) /\ left \subseteq pages /\ left # {} /\ pages \subseteq Page /\ n \in {0} \cup LargeSizes
  BY ONLY <1>5, Zenon DEF MapFacts, CallPages
<1>7. page \in left
  <2>1. left \subseteq Nat
    BY ONLY <1>6, PageNumbers
  <2> QED BY ONLY <1>2, <1>6, <2>1, SmallestPage
<1>8. mem.pte[Kernel][page] = NoFrame /\ f \in PoolOf(Kernel) \ mem.pbits /\ (n = 0 => mem.free[Kernel] = <<>>)
  BY ONLY <1>5, <1>7, Zenon DEF MapFacts
<1>9. Kernel \in Space /\ page \in mem.vbits[Kernel]
  <2>1. pages \subseteq mem.vbits[Kernel]
    BY ONLY <1>5, Zenon DEF MapFacts
  <2> QED BY ONLY <1>6, <1>7, <2>1, Constants
<1>10. /\ left = {page} => MainStep(Furnish(mapped, Kernel, start, n), Outside)
       /\ left # {page} => FindFrame(mapped, pages, left \ {page}, n)
  BY ONLY <1>1, <1>2, <1>3, <1>8, frame_set, Zenon DEF frame_set
<1>11. /\ mapped \in Memory /\ SameHeap(mem, mapped) /\ mapped.vbits = mem.vbits /\ PagesSound(mapped, {})
       /\ \A t \in Space, q \in Page : ~(t = Kernel /\ q = page) => mapped.pte[t][q] = mem.pte[t][q]
       /\ mapped.pte[Kernel][page] # NoFrame
  BY ONLY <1>3, <1>5, <1>8, <1>9, MapPageSound
<1>12. Elsewhere(mem, mapped, Kernel) /\ Balanced(mapped, Kernel, pages)
  BY ONLY <1>5, <1>9, <1>11, MapBalanced
<1>13. CASE left = {page}
  <2>1. PICK made : made = Furnish(mapped, Kernel, start, n)
    BY Zenon
  <2>2. start \in Page /\ start < Size(Kernel) /\ pages = start..start + PagesFor(n) - 1
    BY ONLY <1>2, <1>6, CallStart
  <2>3. \A q \in pages : mapped.pte[Kernel][q] # NoFrame
    <3> SUFFICES ASSUME NEW q \in pages
                 PROVE  mapped.pte[Kernel][q] # NoFrame
      BY Zenon
    <3>1. CASE q = page
      BY ONLY <1>11, <3>1, Zenon
    <3>2. CASE q # page
      <4>1. q \in pages \ left /\ q \in Page
        BY ONLY <1>6, <1>13, <3>2, q \in pages
      <4>2. mem.pte[Kernel][q] # NoFrame
        BY ONLY <1>5, <4>1, Zenon DEF MapFacts
      <4> QED BY ONLY <1>9, <1>11, <3>2, <4>1, <4>2, Zenon
    <3> QED BY ONLY <3>1, <3>2, Zenon
  <2>4. n = 0 => mapped.free[Kernel] = <<>>
    BY ONLY <1>8, <1>11, Zenon DEF SameHeap
  <2>5. PICK none : none = {}
    BY Zenon
  <2>6. Kernel \in There(mapped) \cup {Kernel} /\ PagesSound(mapped, none)
    BY ONLY <1>11, <2>5, Zenon
  <2>7. Elsewhere(mapped, made, Kernel) /\ Balanced(made, Kernel, {})
    BY ONLY <1>6, <1>9, <1>11, <1>12, <2>1, <2>2, <2>3, <2>4, <2>6, FurnishBalanced
  <2>8. made \in Memory
    <3>1. n # 0 => start..start + n - 1 \subseteq Page
      BY ONLY <1>6, <2>2 DEF PagesFor
    <3> QED BY ONLY <1>6, <1>9, <1>11, <2>1, <2>2, <2>6, <3>1, FurnishSound
  <2>9. Elsewhere(mem, made, Kernel)
    BY ONLY <1>12, <2>7, ElsewhereAgain
  <2>10. none = Busy(Outside) /\ Balanced(made, Kernel, none)
    BY ONLY <2>5, <2>7, OutsideIdle, Zenon
  <2>11. MainStep(made, Outside)
    BY ONLY <1>10, <1>13, <2>1, Zenon
  <2> QED BY ONLY <2>8, <2>9, <2>10, <2>11, Inv, PagesInv', stopped = "", HeapMain, Zenon
<1>14. CASE left # {page}
  <2>1. PICK rest : rest = left \ {page}
    BY Zenon
  <2>2. FindFrame(mapped, pages, rest, n)
    BY ONLY <1>10, <1>14, <2>1, Zenon
  <2> QED BY ONLY <1>6, <1>11, <1>12, <2>2, Inv, PagesInv', stopped = "", HeapFind, Zenon
<1> QED BY ONLY <1>13, <1>14, Zenon

(* mfree_page's next frame: the page stays main's.                         *)
LEMMA HeapClear ==
    ASSUME Inv, PagesInv', stopped = "", NEW m \in Memory, PagesSound(m, {}), Elsewhere(mem, m, Kernel),
           NEW pages, pages \subseteq Page, NEW left, left \subseteq pages, left # {},
           Balanced(m, Kernel, pages), ClearFrame(m, pages, left)
    PROVE  Inv'
<1>1. PICK page, range : page = Min(left) /\ range = {page}
  BY Zenon
<1>2. PICK freed : freed = pfree(m, {m.pte[Kernel][q] : q \in range})
  BY Zenon
<1>3. PICK x : x = [Outside EXCEPT !.pc = "unmap", !.pages = pages, !.left = left]
  BY Zenon
<1>4. {m.pte[Kernel][q] : q \in range} = {m.pte[Kernel][page]}
  BY ONLY <1>1
<1>5. MainStep(freed, x)
  BY ONLY <1>1, <1>2, <1>3, <1>4, ClearFrame(m, pages, left), Zenon DEF ClearFrame
<1>6. page \in left
  <2>1. left \subseteq Nat
    BY ONLY left \subseteq pages, pages \subseteq Page, PageNumbers
  <2> QED BY ONLY <1>1, <2>1, SmallestPage, left # {}
<1>7. Kernel \in Space /\ range \subseteq Page
  BY ONLY <1>1, <1>6, left \subseteq pages, pages \subseteq Page, Constants
<1>8. freed \in Memory /\ SameHeap(m, freed) /\ freed.pte = m.pte /\ freed.vbits = m.vbits
  <2>1. PICK F : F = {m.pte[Kernel][q] : q \in range}
    BY Zenon
  <2>2. freed = pfree(m, F)
    BY ONLY <1>2, <2>1, Zenon
  <2> QED BY ONLY <2>2, m \in Memory DEF pfree, Memory, SameHeap
<1>9. Emptied(m, freed, Kernel, pages)
  BY ONLY <1>8, Zenon DEF Emptied, SameHeap
<1>10. Elsewhere(m, freed, Kernel) /\ Balanced(freed, Kernel, pages)
  BY ONLY <1>7, <1>8, <1>9, Balanced(m, Kernel, pages), UnmapBalanced
<1>11. Elsewhere(mem, freed, Kernel)
  BY ONLY <1>10, Elsewhere(mem, m, Kernel), ElsewhereAgain
<1>12. pages = Busy(x)
  <2>1. x.pc = "unmap" /\ x.pages = pages
    BY ONLY <1>3 DEF Outside
  <2> QED BY ONLY <2>1, Zenon DEF Busy
<1> QED BY ONLY <1>5, <1>8, <1>10, <1>11, <1>12, Inv, PagesInv', stopped = "", HeapMain, Zenon

(* sys_free of main: its ASSERTs hold.                                     *)
LEMMA HeapMainFrees ==
    ASSUME Inv, stopped = "", NEW b \in mem.live[Kernel], main_free(b)
    PROVE  FreeAsserts(mem, Kernel, b) /\ (PagesInv' => Inv')
<1>1. PICK range, returned, k : /\ range = PagesReturned(mem, Kernel, b) /\ returned = ReturnBlock(mem, Kernel, b)
                                /\ k = Cleared(returned, Kernel, range)
  BY Zenon
<1>2. at.pc = "run"
  BY ONLY main_free(b), Zenon DEF main_free
<1>3. mem \in Memory /\ PagesSound(mem, {}) /\ Balanced(mem, Kernel, {}) /\ Kernel \in Space
  BY ONLY <1>2, Inv, stopped = "", RunFacts, Constants, Zenon
<1>4. PICK none : none = {}
  BY Zenon
<1>5. PagesSound(mem, none) /\ b \in Block
  <2>1. b \in Block
    BY ONLY <1>3, MemoryFields, b \in mem.live[Kernel]
  <2> QED BY ONLY <1>3, <1>4, <2>1, Zenon
<1>6. MayReturn(mem, Kernel, b)
  BY ONLY <1>3, b \in mem.live[Kernel], KernelBlock
<1>7. k = Cleared(ReturnBlock(mem, Kernel, b), Kernel, range)
  BY ONLY <1>1, Zenon
<1>8. FreeAsserts(mem, Kernel, b) /\ Elsewhere(mem, k, Kernel) /\ Balanced(k, Kernel, range)
  BY ONLY <1>1, <1>3, <1>5, <1>6, <1>7, ReturnBalanced
<1>9. range \subseteq Page
  BY ONLY <1>1, <1>3, <1>5, ReturnedPages
<1>10. returned \in Memory /\ PagesSound(returned, none)
  BY ONLY <1>1, <1>3, <1>5, ReturnBlockSound
<1>11. k \in Memory /\ PagesSound(k, none)
  BY ONLY <1>1, <1>3, <1>10, ClearedSound
<1>12. /\ range = {} => MainStep(k, at)
       /\ range # {} => ClearFrame(k, range, range)
  BY ONLY <1>1, <1>8, main_free(b), Zenon DEF main_free
<1>13. ASSUME PagesInv'
       PROVE  Inv'
  <2>1. CASE range = {}
    <3>1. range = Busy(at)
      <4>1. "run" \notin {"map", "unmap"}
        BY ONLY TRUE
      <4> QED BY ONLY <1>2, <2>1, <4>1, Zenon DEF Busy
    <3> QED BY ONLY <1>8, <1>11, <1>12, <1>13, <2>1, <3>1, Inv, stopped = "", HeapMain, Zenon
  <2>2. CASE range # {}
    <3>1. PagesSound(k, {}) /\ range \subseteq range
      BY ONLY <1>4, <1>11, Zenon
    <3> QED BY ONLY <1>8, <1>9, <1>11, <1>12, <1>13, <2>2, <3>1, Inv, stopped = "", HeapClear, Zenon
  <2> QED BY ONLY <2>1, <2>2, Zenon
<1> QED BY ONLY <1>8, <1>13, Zenon

(* The entry goes; after the last one the marks.                           *)
LEMMA HeapUnmap ==
    ASSUME Inv, PagesInv', stopped = "", pte_clear
    PROVE  Inv'
<1>1. PICK pages, left : pages = at.pages /\ left = at.left
  BY Zenon
<1>2. PICK page, range : page = Min(left) /\ range = {page}
  BY Zenon
<1>3. PICK cleared : cleared = page_table_pte_remove(mem, Kernel, range)
  BY Zenon
<1>4. at.pc = "unmap"
  BY ONLY pte_clear, Zenon DEF pte_clear
<1>5. /\ left = {page} => MainStep(vaddr_remove(cleared, Kernel, pages), Outside)
      /\ left # {page} => ClearFrame(cleared, pages, left \ {page})
  BY ONLY <1>1, <1>2, <1>3, pte_clear, Zenon DEF pte_clear
<1>6. mem \in Memory /\ at \in Point /\ PagesSound(mem, Half(at)) /\ MainSound(mem, at) /\ Balanced(mem, Kernel, Busy(at))
  BY ONLY Inv, stopped = "", Zenon DEF Inv, PagesInv, StateOK
<1>7. "unmap" # "run" /\ "unmap" \in {"map", "unmap"}
  BY ONLY TRUE
<1>8. left \subseteq pages /\ left # {} /\ \A q \in pages \ left : mem.pte[Kernel][q] = NoFrame
  BY ONLY <1>1, <1>4, <1>6, <1>7, Zenon DEF MainSound
<1>9. pages \subseteq Page
  BY ONLY <1>1, <1>6 DEF Point
<1>10. page \in left
  <2>1. left \subseteq Nat
    BY ONLY <1>8, <1>9, PageNumbers
  <2> QED BY ONLY <1>2, <1>8, <2>1, SmallestPage
<1>11. Half(at) = {<<Kernel, page>>} /\ Busy(at) = pages
  BY ONLY <1>1, <1>2, <1>4, <1>7, Zenon DEF Half, Busy
<1>12. Kernel \in Space /\ range \subseteq Page /\ range \subseteq pages /\ {<<Kernel, page>>} = {Kernel} \X range
  BY ONLY <1>2, <1>8, <1>9, <1>10, Constants
<1>13. PagesSound(mem, {Kernel} \X range) /\ Balanced(mem, Kernel, pages)
  BY ONLY <1>6, <1>11, <1>12, Zenon
<1>14. /\ cleared \in Memory /\ SameHeap(mem, cleared) /\ cleared.vbits = mem.vbits
       /\ \A s \in Space, q \in Page :
                cleared.pte[s][q] = IF s = Kernel /\ q \in range THEN NoFrame ELSE mem.pte[s][q]
       /\ PagesSound(cleared, {})
  BY ONLY <1>3, <1>6, <1>12, <1>13, PteRemoveSound
<1>15. \A s \in Space, q \in Page : ~(s = Kernel /\ q \in pages) => cleared.pte[s][q] = mem.pte[s][q]
  <2>1. \A q : q \in range => q \in pages
    BY ONLY <1>12
  <2> QED BY ONLY <1>14, <2>1, Zenon
<1>16. Emptied(mem, cleared, Kernel, pages)
  BY ONLY <1>14, <1>15, Zenon DEF Emptied, SameHeap
<1>17. Elsewhere(mem, cleared, Kernel) /\ Balanced(cleared, Kernel, pages)
  BY ONLY <1>12, <1>13, <1>14, <1>16, UnmapBalanced
<1>18. CASE left = {page}
  <2>1. PICK removed : removed = vaddr_remove(cleared, Kernel, pages)
    BY Zenon
  <2>2. \A q \in pages \cap Page : cleared.pte[Kernel][q] = NoFrame
    <3> SUFFICES ASSUME NEW q \in pages \cap Page
                 PROVE  cleared.pte[Kernel][q] = NoFrame
      BY Zenon
    <3>1. q \in range \/ q \in pages \ left
      BY ONLY <1>2, <1>18, q \in pages \cap Page
    <3>2. q \in Page
      BY Zenon
    <3> QED BY ONLY <1>8, <1>12, <1>14, <3>1, <3>2, Zenon
  <2>3. /\ removed \in Memory /\ SameHeap(cleared, removed) /\ removed.pte = cleared.pte
        /\ removed.vbits = [cleared.vbits EXCEPT ![Kernel] = @ \ pages]
    BY ONLY <1>12, <1>14, <2>1, <2>2, VaddrRemoveSound
  <2>4. Emptied(cleared, removed, Kernel, pages)
    BY ONLY <2>3, Zenon DEF Emptied, SameHeap
  <2>5. Elsewhere(cleared, removed, Kernel) /\ Balanced(removed, Kernel, {})
    BY ONLY <1>12, <1>14, <1>17, <2>3, <2>4, ReleaseBalanced
  <2>6. Elsewhere(mem, removed, Kernel)
    BY ONLY <1>17, <2>5, ElsewhereAgain
  <2>7. PICK none : none = {} /\ none = Busy(Outside)
    BY ONLY OutsideIdle, Zenon
  <2>8. Balanced(removed, Kernel, none) /\ MainStep(removed, Outside)
    BY ONLY <1>5, <1>18, <2>1, <2>5, <2>7, Zenon
  <2> QED BY ONLY <2>3, <2>6, <2>7, <2>8, Inv, PagesInv', stopped = "", HeapMain, Zenon
<1>19. CASE left # {page}
  <2>1. PICK rest : rest = left \ {page}
    BY Zenon
  <2>2. rest \subseteq pages /\ rest # {}
    BY ONLY <1>8, <1>10, <1>19, <2>1
  <2>3. ClearFrame(cleared, pages, rest)
    BY ONLY <1>5, <1>19, <2>1, Zenon
  <2> QED BY ONLY <1>9, <1>14, <1>17, <2>2, <2>3, Inv, PagesInv', stopped = "", HeapClear, Zenon
<1> QED BY ONLY <1>18, <1>19, Zenon

LEMMA HeapOfMain ==
    ASSUME Inv, MainNext
    PROVE  Inv'
<1>1. PagesInv /\ stopped = ""
  BY ONLY Inv, MainNext, Zenon DEF Inv, MainNext
<1>2. PagesInv'
  BY ONLY <1>1, MainNext, PagesMain, Zenon
<1>3. \/ \E n \in {0} \cup LargeSizes : vaddr_scan(n)
      \/ vaddr_set \/ frame_set
      \/ \E b \in mem.live[Kernel] : main_free(b)
      \/ pte_clear
  BY ONLY MainNext, Zenon DEF MainNext
<1>4. ASSUME NEW n \in {0} \cup LargeSizes, vaddr_scan(n)
      PROVE  Inv'
  BY ONLY <1>1, <1>2, <1>4, Inv, HeapScan, Zenon
<1>5. ASSUME vaddr_set
      PROVE  Inv'
  BY ONLY <1>1, <1>2, <1>5, Inv, HeapMark, Zenon
<1>6. ASSUME frame_set
      PROVE  Inv'
  BY ONLY <1>1, <1>2, <1>6, Inv, HeapMap, Zenon
<1>7. ASSUME NEW b \in mem.live[Kernel], main_free(b)
      PROVE  Inv'
  BY ONLY <1>1, <1>2, <1>7, Inv, HeapMainFrees, Zenon
<1>8. ASSUME pte_clear
      PROVE  Inv'
  BY ONLY <1>1, <1>2, <1>8, Inv, HeapUnmap, Zenon
<1> QED BY ONLY <1>3, <1>4, <1>5, <1>6, <1>7, <1>8, Zenon

LEMMA HeapInit == Init => Inv
<1> SUFFICES ASSUME Init
             PROVE  Inv
  BY Zenon
<1>2. PagesInv
  BY ONLY Init, PagesInit, Zenon
<1>1. mem = process_execute(Boot, init) /\ at = Outside /\ loading = [p \in Process |-> {}] /\ stopped = ""
  <2>1. mem \in Memory
    BY ONLY <1>2, Zenon DEF PagesInv, StateOK
  <2>2. mem.repeat = FALSE
    BY ONLY <2>1, NoRepeat
  <2> QED BY ONLY Init, <2>2, Zenon DEF Init, Halt
<1>3. Balanced(mem, Kernel, {})
  BY ONLY <1>1, StartBalanced, Zenon
<1>4. PICK none : none = {} /\ none = Busy(at)
  BY ONLY <1>1, OutsideIdle, Zenon
<1>5. mem \in Memory /\ Balanced(mem, Kernel, none)
  BY ONLY <1>2, <1>3, <1>4, Zenon DEF PagesInv, StateOK
<1>6. Whole(mem.vbits[Kernel], KernelPages)
  BY ONLY <1>5, WholeMarks
<1>7. LoadingSound
  <2>1. loading = [p \in Process |-> {}]
    BY ONLY <1>1, Zenon
  <2>2. \A p \in Process : loading[p] = {}
    BY ONLY <2>1
  <2> QED BY ONLY <2>2, Zenon DEF LoadingSound
<1>8. NoPanic
  <2>1. "" \in {"", "page fault in fork"}
    BY ONLY TRUE
  <2> QED BY ONLY <1>1, <2>1, Zenon DEF NoPanic
<1> QED BY ONLY <1>2, <1>4, <1>5, <1>6, <1>7, <1>8, Zenon DEF Inv

(* Whatever calls of sys_malloc, sys_free, inode_open, fork and execv the  *)
(* threads make, in every space the marked pages are heap, the processes'  *)
(* kernel pages, stack and program or lost, and its lists, headers and     *)
(* blocks agree, also half-way through main's calls: while no process      *)
(* comes between main's steps and programs are linked above the heap.      *)
THEOREM HeapInvariance ==
    {"main undisturbed", "programs above the heap"} \subseteq Habits /\ Spec => []Inv
<1>1. CASE {"main undisturbed", "programs above the heap"} \subseteq Habits
  <2>1. Init => Inv
    BY HeapInit
  <2>2. Inv /\ [Next]_vars => Inv'
    <3> SUFFICES ASSUME Inv, [Next]_vars
                 PROVE  Inv'
      BY Zenon
    <3>1. "main undisturbed" \in Habits /\ PagesInv
      BY ONLY <1>1, Inv, Zenon DEF Inv
    <3>2. CASE start_process
      <4>1. PagesInv'
        BY ONLY <3>1, <3>2, PagesStart, Zenon
      <4> QED BY ONLY <3>1, <3>2, <4>1, Inv, HeapStart, Zenon
    <3>3. CASE MainNext
      BY ONLY <3>3, Inv, HeapOfMain, Zenon
    <3>4. CASE \E p \in Process : ProcessNext(p)
      BY ONLY <1>1, <3>4, Inv, HeapProcess, Zenon
    <3>5. CASE UNCHANGED vars
      <4>1. mem' = mem /\ at' = at /\ held' = held /\ loading' = loading /\ stopped' = stopped
        BY ONLY <3>5 DEF vars
      <4>2. PagesInv'
        BY ONLY <3>1, <4>1, PagesStay, Zenon
      <4> QED BY ONLY <4>1, <4>2, Inv, Zenon DEF Inv, LoadingSound, NoPanic
    <3> QED BY ONLY <3>2, <3>3, <3>4, <3>5, [Next]_vars, Zenon DEF Next
  <2> QED BY ONLY <2>1, <2>2, PTL DEF Spec
<1>2. CASE ~({"main undisturbed", "programs above the heap"} \subseteq Habits)
  BY ONLY <1>2, Zenon
<1> QED BY ONLY <1>1, <1>2, Zenon

-----------------------------------------------------------------------------
(* The properties                                                          *)

LEMMA TypeFollows == Inv => TypeOK
<1> SUFFICES ASSUME Inv
             PROVE  TypeOK
  BY Zenon
<1>1. /\ mem \in Memory /\ at \in Point /\ held \in Process \cup {Nobody} /\ loading \in [Process -> SUBSET Image]
      /\ PagesSound(mem, Half(at)) /\ Whole(mem.vbits[Kernel], KernelPages)
  BY ONLY Inv, Zenon DEF Inv, PagesInv, StateOK
<1>2. PICK half : half = Half(at)
  BY Zenon
<1>3. EntriesSound(mem, half) /\ SpacesSound(mem)
  BY ONLY <1>1, <1>2, Zenon DEF PagesSound
<1>4. mem.pbits \subseteq Frame
  BY ONLY <1>1, MemoryFields
<1>5. at.pc \in {"run", "mark", "map", "unmap"}
  BY ONLY <1>1 DEF Point
<1>6. ASSUME NEW s \in Space
      PROVE  /\ mem.vbits[s] \subseteq 0..Size(s)
             /\ Size(s) \in mem.vbits[s] => s = Kernel /\ Size(s) - 1 \in mem.vbits[s]
             /\ \A p \in Page : mem.pte[s][p] \in PoolOf(s) \cup {NoFrame}
  <2>1. mem.vbits[s] \subseteq 0..Size(s) /\ \A p \in Process : UserPages \notin mem.vbits[p]
    BY ONLY <1>3, <1>6, Zenon DEF SpacesSound
  <2>2. Size(s) \in mem.vbits[s] => s = Kernel /\ Size(s) - 1 \in mem.vbits[s]
    <3>1. CASE s = Kernel
      <4>1. Size(s) = KernelPages
        BY ONLY <3>1, Zenon DEF Size
      <4> QED BY ONLY <1>1, <3>1, <4>1, Zenon DEF Whole
    <3>2. CASE s # Kernel
      <4>1. s \in Process
        BY ONLY <1>6, <3>2, Constants
      <4>2. Size(s) = UserPages
        BY ONLY <3>2, Zenon DEF Size
      <4> QED BY ONLY <2>1, <4>1, <4>2, Zenon
    <3> QED BY ONLY <3>1, <3>2, Zenon
  <2>3. ASSUME NEW p \in Page
        PROVE  mem.pte[s][p] \in PoolOf(s) \cup {NoFrame}
    <3>1. mem.pte[s][p] # NoFrame => mem.pte[s][p] \in PoolOf(s)
      BY ONLY <1>3, <1>6, <2>3, Zenon DEF EntriesSound
    <3> QED BY ONLY <3>1, Zenon
  <2> QED BY ONLY <2>1, <2>2, <2>3, Zenon
<1> QED BY ONLY <1>1, <1>4, <1>5, <1>6, Zenon DEF TypeOK

(* The pages of the headers are the pages of the heap.                     *)
LEMMA HeapIsCovered ==
    ASSUME NEW m, SpacesSound(m), NEW s \in Space
    PROVE  HeapPages(m, s) = Covered(m.arena[s])
<1>1. PICK A : A = m.arena[s]
  BY Zenon
<1>2. \A page \in Page : A[page] # NoArena => PagesAt(A, page) \subseteq Page
  BY ONLY <1>1, SpacesSound(m), s \in Space, Zenon DEF SpacesSound, Arenas, PagesOf, PagesAt
<1>3. HeapPages(m, s) = UNION {PagesAt(A, page) : page \in {q \in Page : A[q] # NoArena}}
  BY ONLY <1>1, Zenon DEF HeapPages, Arenas, PagesOf, PagesAt
<1>4. UNION {PagesAt(A, page) : page \in {q \in Page : A[q] # NoArena}} = Covered(A)
  BY ONLY <1>2 DEF Covered
<1> QED BY ONLY <1>1, <1>3, <1>4, Zenon

LEMMA NothingForgottenFollows == Inv => NothingIsForgotten
<1> SUFFICES ASSUME Inv, at.pc = "run", stopped = ""
             PROVE  /\ \A s \in Space :
                          /\ mem.vbits[s] \subseteq HeapPages(mem, s) \cup UsedFor(mem, s) \cup Kept(mem, s)
                          /\ HeapPages(mem, s) \subseteq mem.vbits[s] \ Kept(mem, s)
                    /\ mem.pbits \subseteq Frames(mem)
  BY Zenon DEF NothingIsForgotten
<1>1. PagesSound(mem, {}) /\ Balanced(mem, Kernel, {})
  BY ONLY Inv, at.pc = "run", stopped = "", RunFacts, Zenon
<1>2. SpacesSound(mem) /\ mem.pbits \subseteq Frames(mem)
  BY ONLY <1>1, Zenon DEF PagesSound
<1>3. ASSUME NEW s \in Space
      PROVE  /\ mem.vbits[s] \subseteq HeapPages(mem, s) \cup UsedFor(mem, s) \cup Kept(mem, s)
             /\ HeapPages(mem, s) \subseteq mem.vbits[s] \ Kept(mem, s)
  <2>1. PICK H, V, K, E, R, none, U : /\ H = Covered(mem.arena[s]) /\ V = mem.vbits[s] /\ K = Kept(mem, s)
                                      /\ E = Mapped(mem, s) /\ R = Reserved(mem, s) /\ none = {} /\ U = UsedFor(mem, s)
    BY Zenon
  <2>2. Divided(s, H, V, K, E, R, none)
    <3>1. SpaceSound(mem, s, {})
      BY ONLY <1>1, <1>3, Zenon DEF Balanced
    <3> QED BY ONLY <2>1, <3>1, Parts, Zenon DEF PartsOK
  <2>3. U = R \cup Stacks(s)
    <3>1. CASE s = Kernel
      <4>1. U = R /\ Stacks(s) = {}
        BY ONLY <2>1, <3>1, Zenon DEF UsedFor, Reserved, Stacks
      <4> QED BY ONLY <4>1
    <3>2. CASE s # Kernel
      <4>1. U = Stacks(s) /\ R = {}
        BY ONLY <2>1, <3>2, Zenon DEF UsedFor, Reserved, Stacks
      <4> QED BY ONLY <4>1
    <3> QED BY ONLY <3>1, <3>2, Zenon
  <2>4. V \subseteq H \cup U \cup K /\ H \subseteq V \ K
    BY ONLY <2>1, <2>2, <2>3 DEF Divided
  <2>5. H = HeapPages(mem, s)
    BY ONLY <1>2, <1>3, <2>1, HeapIsCovered, Zenon
  <2> QED BY ONLY <2>1, <2>4, <2>5, Zenon
<1> QED BY ONLY <1>2, <1>3, Zenon

(* A small block of an arena is in use or in the list, or in no list.      *)
LEMMA FreeBlocksCounted ==
    ASSUME NEW page \in Page, NEW L, NEW listed, listed \cap L = {}, NEW cnt \in Int,
           cnt + Cardinality(BlocksOf(page) \cap L) = PerArena,
           NEW here, here = BlocksOf(page) \cap listed
    PROVE  /\ BlocksOf(page) \subseteq listed \cup L => Cardinality(here) = cnt
           /\ here = {} => Cardinality(here) = 0
<1>1. PICK S, U : S = BlocksOf(page) /\ U = S \cap L
  BY Zenon
<1>2. IsFiniteSet(S) /\ Cardinality(S) = PerArena
  BY ONLY <1>1, BlockNumbers
<1>3. here = {} => Cardinality(here) = 0
  BY ONLY FS_EmptySet, Zenon
<1>4. ASSUME S \subseteq listed \cup L
      PROVE  Cardinality(here) = cnt
  <2>1. here = S \ U
    BY ONLY <1>1, <1>4, here = BlocksOf(page) \cap listed, listed \cap L = {}
  <2>2. S \cap U = U
    BY ONLY <1>1
  <2>3. IsFiniteSet(U) /\ Cardinality(U) \in Nat /\ Cardinality(S) \in Nat
    <3>1. U \subseteq S
      BY ONLY <1>1
    <3> QED BY ONLY <1>2, <3>1, FS_Subset, FS_CardinalityType
  <2>4. Cardinality(S \ U) = Cardinality(S) - Cardinality(S \cap U)
    BY ONLY <1>2, FS_Difference
  <2>5. Cardinality(here) = Cardinality(S) - Cardinality(U)
    BY ONLY <2>1, <2>2, <2>4, Zenon
  <2>6. cnt + Cardinality(U) = Cardinality(S)
    BY ONLY <1>1, <1>2, cnt + Cardinality(BlocksOf(page) \cap L) = PerArena, Zenon
  <2> QED BY ONLY <2>3, <2>5, <2>6, cnt \in Int
<1> QED BY ONLY <1>1, <1>3, <1>4, Zenon

LEMMA HeapExactFollows == Inv => HeapIsExact
<1> SUFFICES ASSUME Inv, stopped = "", NEW s \in Space
             PROVE  LET listed == Range(mem.free[s])
                    IN  /\ IsInjective(mem.free[s]) /\ listed \cap mem.live[s] = {}
                        /\ \A b \in listed \cup mem.live[s] :
                                mem.arena[s][b[1]] # NoArena /\ (mem.arena[s][b[1]].large <=> b[2] = 0)
                        /\ \A p \in Arenas(mem, s) :
                            LET a == mem.arena[s][p]
                                inUse == BlocksOf(p) \cap mem.live[s]
                            IN  /\ \A page \in PagesOf(mem, s, p) : mem.pte[s][page] # NoFrame
                                /\ IF a.large THEN <<p, 0>> \in mem.live[s]
                                   ELSE /\ a.cnt + Cardinality(inUse) = PerArena /\ inUse # {}
                                        /\ Cardinality(BlocksOf(p) \cap listed) = IF a.desc = s THEN a.cnt ELSE 0
  BY Zenon DEF HeapIsExact
<1>1. mem \in Memory /\ Balanced(mem, Kernel, Busy(at)) /\ PagesSound(mem, Half(at))
  BY ONLY Inv, stopped = "", Zenon DEF Inv, PagesInv, StateOK
<1>2. SpacesSound(mem)
  BY ONLY <1>1, Zenon DEF PagesSound
<1>3. PICK F, L, A, P, B : /\ F = mem.free[s] /\ L = mem.live[s] /\ A = mem.arena[s] /\ P = There(mem)
                           /\ B = IF s = Kernel THEN Busy(at) ELSE {}
  BY Zenon
<1>4. HeapOK(mem, s) /\ PartsOK(mem, s, B)
  BY ONLY <1>1, <1>3, Parts, s \in Space, Zenon DEF Balanced
<1>5. HeapSound(s, F, L, A, P) /\ NoneIdle(L, A, {}) /\ Laid(A, Size(s))
  BY ONLY <1>3, <1>4, Zenon DEF HeapOK
<1>6. PICK listed : listed = Range(F)
  BY Zenon
<1>7. /\ IsInjective(F) /\ listed \cap L = {}
      /\ \A b \in listed \cup L : A[b[1]] # NoArena /\ (A[b[1]].large <=> b[2] = 0)
      /\ \A page \in Page : A[page] # NoArena => ArenaSound(s, A[page], page, listed, L, P)
  BY ONLY <1>5, <1>6, Zenon DEF HeapSound
<1>8. A \in [Page -> Arena]
  BY ONLY <1>1, <1>3, MemoryFields, s \in Space
<1>9. ASSUME NEW p \in Page, A[p] # NoArena
      PROVE  /\ \A page \in PagesAt(A, p) : mem.pte[s][page] # NoFrame
             /\ IF A[p].large THEN <<p, 0>> \in L
                ELSE /\ A[p].cnt + Cardinality(BlocksOf(p) \cap L) = PerArena /\ BlocksOf(p) \cap L # {}
                     /\ Cardinality(BlocksOf(p) \cap listed) = IF A[p].desc = s THEN A[p].cnt ELSE 0
  <2>1. PICK a : a = A[p]
    BY Zenon
  <2>2. ArenaSound(s, a, p, listed, L, P)
    BY ONLY <1>7, <1>9, <2>1, Zenon
  <2>3. \A page \in PagesAt(A, p) : mem.pte[s][page] # NoFrame
    <3>1. PICK H, V, K, E, R : /\ H = Covered(A) /\ V = mem.vbits[s] /\ K = Kept(mem, s)
                               /\ E = Mapped(mem, s) /\ R = Reserved(mem, s)
      BY Zenon
    <3>2. Divided(s, H, V, K, E, R, B)
      BY ONLY <1>3, <1>4, <3>1, Zenon DEF PartsOK
    <3>3. H \subseteq E
      BY ONLY <3>2, Zenon DEF Divided
    <3>4. PagesAt(A, p) \subseteq H
      <4>1. PagesAt(A, p) \subseteq Page
        BY ONLY <1>5, <1>9, Zenon DEF Laid
      <4> QED BY ONLY <1>9, <3>1, <4>1 DEF Covered
    <3> QED BY ONLY <3>1, <3>3, <3>4 DEF Mapped
  <2>4. CASE a.large
    BY ONLY <2>1, <2>2, <2>3, <2>4, Zenon DEF ArenaSound
  <2>5. CASE ~a.large
    <3>1. PICK cnt, here, inUse : cnt = a.cnt /\ here = BlocksOf(p) \cap listed /\ inUse = BlocksOf(p) \cap L
      BY Zenon
    <3>2. cnt \in Int
      BY ONLY <1>8, <1>9, <2>1, <3>1 DEF Arena
    <3>3. cnt + Cardinality(BlocksOf(p) \cap L) = PerArena
      BY ONLY <2>2, <2>5, <3>1, Zenon DEF ArenaSound
    <3>4. IF a.desc = s THEN BlocksOf(p) \subseteq listed \cup L ELSE here = {}
      BY ONLY <2>2, <2>5, <3>1, Zenon DEF ArenaSound
    <3>5. inUse # {}
      <4>1. p \in Page \ {}
        BY ONLY <1>9
      <4> QED BY ONLY <1>5, <1>9, <2>1, <2>5, <3>1, <4>1, Zenon DEF NoneIdle
    <3>6. /\ BlocksOf(p) \subseteq listed \cup L => Cardinality(here) = cnt
          /\ here = {} => Cardinality(here) = 0
      <4>1. p \in Page /\ listed \cap L = {} /\ here = BlocksOf(p) \cap listed
        BY ONLY <1>7, <1>9, <3>1, Zenon
      <4> QED BY ONLY <3>2, <3>3, <4>1, FreeBlocksCounted, ZenonT(120)
    <3>7. Cardinality(here) = IF a.desc = s THEN cnt ELSE 0
      BY ONLY <3>4, <3>6, Zenon
    <3> QED BY ONLY <2>1, <2>3, <2>5, <3>1, <3>3, <3>5, <3>7, Zenon
  <2> QED BY ONLY <2>4, <2>5, Zenon
<1>10. \A p : p \in Arenas(mem, s) => p \in Page /\ A[p] # NoArena
  BY ONLY <1>3, Zenon DEF Arenas
<1>11. \A p : PagesOf(mem, s, p) = PagesAt(A, p)
  BY ONLY <1>3, Zenon DEF PagesOf, PagesAt
<1>12. /\ IsInjective(mem.free[s]) /\ listed \cap mem.live[s] = {}
       /\ \A b \in listed \cup mem.live[s] :
               mem.arena[s][b[1]] # NoArena /\ (mem.arena[s][b[1]].large <=> b[2] = 0)
  BY ONLY <1>3, <1>7, Zenon
<1>13. ASSUME NEW p \in Arenas(mem, s)
       PROVE  LET a == mem.arena[s][p]
                  inUse == BlocksOf(p) \cap mem.live[s]
              IN  /\ \A page \in PagesOf(mem, s, p) : mem.pte[s][page] # NoFrame
                  /\ IF a.large THEN <<p, 0>> \in mem.live[s]
                     ELSE /\ a.cnt + Cardinality(inUse) = PerArena /\ inUse # {}
                          /\ Cardinality(BlocksOf(p) \cap listed) = IF a.desc = s THEN a.cnt ELSE 0
  <2>1. p \in Page /\ A[p] # NoArena /\ PagesOf(mem, s, p) = PagesAt(A, p)
    BY ONLY <1>10, <1>11, <1>13, Zenon
  <2>2. A[p] = mem.arena[s][p] /\ L = mem.live[s]
    BY ONLY <1>3, Zenon
  <2> QED BY ONLY <1>9, <2>1, <2>2, Zenon
<1>14. listed = Range(mem.free[s])
  BY ONLY <1>3, <1>6, Zenon
<1> QED BY ONLY <1>12, <1>13, <1>14, Zenon

(* A frame stays in its pool, a page in its space, and no scan of a bitmap *)
(* marks more than one page past its end, there the kernel's alone         *)
(* (the loop of bitmap.c:54 looks at one bit more than there are).         *)
THEOREM MemoryTypeCorrect ==
    {"main undisturbed", "programs above the heap"} \subseteq Habits /\ Spec => []TypeOK
<1>1. CASE {"main undisturbed", "programs above the heap"} \subseteq Habits
  <2>1. Spec => []Inv
    BY ONLY <1>1, HeapInvariance, Zenon
  <2>2. Inv => TypeOK
    BY ONLY TypeFollows, Zenon
  <2> QED BY ONLY <2>1, <2>2, PTL
<1>2. CASE ~({"main undisturbed", "programs above the heap"} \subseteq Habits)
  BY ONLY <1>2, Zenon
<1> QED BY ONLY <1>1, <1>2, Zenon

(* Between two calls a marked page is part of a block or an arena, or is a *)
(* PCB, a stack or a program's, or is among what malloc_page keeps when it *)
(* fails half-way (memory.c:165); a marked frame is mapped or holds a page *)
(* table.  No other order of malloc, free, fork and exec loses memory.     *)
THEOREM NothingIsEverForgotten ==
    {"main undisturbed", "programs above the heap"} \subseteq Habits /\ Spec => []NothingIsForgotten
<1>1. CASE {"main undisturbed", "programs above the heap"} \subseteq Habits
  <2>1. Spec => []Inv
    BY ONLY <1>1, HeapInvariance, Zenon
  <2>2. Inv => NothingIsForgotten
    BY ONLY NothingForgottenFollows, Zenon
  <2> QED BY ONLY <2>1, <2>2, PTL
<1>2. CASE ~({"main undisturbed", "programs above the heap"} \subseteq Habits)
  BY ONLY <1>2, Zenon
<1> QED BY ONLY <1>1, <1>2, Zenon

(* The lists, the arenas' counts and the blocks handed out agree in every  *)
(* space: sys_free gives an arena back exactly when its last block comes   *)
(* back, takes all its blocks off the list first (memory.c:592), and the   *)
(* copies a fork makes keep their own counts without being in a list.      *)
THEOREM HeapIsAlwaysExact ==
    {"main undisturbed", "programs above the heap"} \subseteq Habits /\ Spec => []HeapIsExact
<1>1. CASE {"main undisturbed", "programs above the heap"} \subseteq Habits
  <2>1. Spec => []Inv
    BY ONLY <1>1, HeapInvariance, Zenon
  <2>2. Inv => HeapIsExact
    BY ONLY HeapExactFollows, Zenon
  <2> QED BY ONLY <2>1, <2>2, PTL
<1>2. CASE ~({"main undisturbed", "programs above the heap"} \subseteq Habits)
  BY ONLY <1>2, Zenon
<1> QED BY ONLY <1>1, <1>2, Zenon

(* The ASSERTs of page_table_add, get_a_page and sys_free hold in whatever *)
(* order the calls come; only a fork without memory for its child stops.   *)
THEOREM NoPanicEver ==
    {"main undisturbed", "programs above the heap"} \subseteq Habits /\ Spec => []NoPanic
<1>1. CASE {"main undisturbed", "programs above the heap"} \subseteq Habits
  <2>1. Spec => []Inv
    BY ONLY <1>1, HeapInvariance, Zenon
  <2>2. Inv => NoPanic
    BY Zenon DEF Inv
  <2> QED BY ONLY <2>1, <2>2, PTL
<1>2. CASE ~({"main undisturbed", "programs above the heap"} \subseteq Habits)
  BY ONLY <1>2, Zenon
<1> QED BY ONLY <1>1, <1>2, Zenon
=============================================================================
