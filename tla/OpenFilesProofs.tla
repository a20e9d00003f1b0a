-------------------------- MODULE OpenFilesProofs --------------------------
(***************************************************************************)
(* Open inodes and descriptors for any numbers of processes, files, inodes *)
(* in memory, slots and descriptors: Inv of module OpenFiles is inductive  *)
(* if tasks are Careful (freed inodes' blocks are not handed out again,    *)
(* nobody forks over the file that main creates or opens it before it is   *)
(* counted, no number is past a byte), and the properties follow from it;  *)
(* so does, with LeaksAreFew, that no count gets past its width.           *)
(***************************************************************************)
EXTENDS OpenFiles, FiniteSetTheorems, SequenceTheorems, TLAPS

USE DEF vars, inodes, files, disk, stopped, Goto

---------------------------------------------------------------------------
(* Numbers and finite sets                                                 *)

(* Every nonempty set of naturals has a smallest element.                  *)
LEMMA Smallest ==
    ASSUME NEW S, S \subseteq Nat, S # {}
    PROVE  Min(S) \in S /\ \A x \in S : Min(S) <= x
<1> DEFINE Less == OpToRel(<, Nat)
<1>1. IsWellFoundedOn(Less, Nat)
  BY NatLessThanWellFounded
<1>2. PICK m \in S : \A n \in S : ~(<<n, m>> \in Less)
  <2> HIDE DEF Less
  <2> QED BY ONLY <1>1, WFMin, S \subseteq Nat, S # {}
<1>3. \A n \in S : ~(n < m)
  BY <1>2 DEF OpToRel
<1>4. \A n \in S : m <= n
  BY <1>3
<1> QED BY <1>4 DEF Min

(* Finitely many naturals have a bound: by the smallest number of them     *)
(* that have none.                                                         *)
LEMMA Bounded ==
    ASSUME NEW n \in Nat, NEW f \in [1 .. n -> Nat]
    PROVE  \E m \in Nat : \A i \in 1 .. n : f[i] <= m
<1> DEFINE Bound(k) == \A g \in [1 .. k -> Nat] : \E m \in Nat : \A i \in 1 .. k : g[i] <= m
           Bad == {k \in Nat : ~Bound(k)}
<1>1. Bad = {}
  <2> SUFFICES ASSUME Bad # {} PROVE FALSE
    OBVIOUS
  <2>1. PICK k \in Bad : \A j \in Bad : k <= j
    <3>1. Bad \subseteq Nat
      OBVIOUS
    <3> HIDE DEF Bad
    <3> QED BY <3>1, Smallest
  <2>2. k \in Nat /\ k # 0
    <3>1. Bound(0)
      <4>1. \A i \in 1 .. 0 : FALSE
        OBVIOUS
      <4>2. 0 \in Nat
        OBVIOUS
      <4> QED BY ONLY <4>1, <4>2
    <3> QED BY <2>1, <3>1
  <2>3. Bound(k - 1)
    <3>1. k - 1 \in Nat /\ ~(k <= k - 1)
      BY <2>2
    <3> QED BY <2>1, <3>1
  <2>4. ASSUME NEW g \in [1 .. k -> Nat]
        PROVE  \E m \in Nat : \A i \in 1 .. k : g[i] <= m
    <3> HIDE DEF Bad
    <3>1. [i \in 1 .. k - 1 |-> g[i]] \in [1 .. k - 1 -> Nat]
      <4>1. \A i \in 1 .. k - 1 : i \in 1 .. k
        BY ONLY <2>2
      <4>2. \A i \in 1 .. k - 1 : g[i] \in Nat
        BY ONLY <4>1, g \in [1 .. k -> Nat]
      <4> QED BY ONLY <4>2
    <3>2. PICK m \in Nat : \A i \in 1 .. k - 1 : g[i] <= m
      BY <2>3, <3>1
    <3>5. \A i \in 1 .. k : i = k \/ i \in 1 .. k - 1
      BY ONLY <2>2
    <3>6. \A i \in 1 .. k : g[i] \in Nat
      BY ONLY g \in [1 .. k -> Nat]
    <3>3. CASE g[k] <= m
      BY ONLY <3>2, <3>3, <3>5, m \in Nat
    <3>4. CASE ~(g[k] <= m)
      <4>1. g[k] \in Nat
        BY ONLY <2>2, <3>6
      <4>2. ASSUME NEW i \in 1 .. k
            PROVE  g[i] <= g[k]
        <5>1. CASE i = k
          <6>1. g[i] = g[k]
            BY ONLY <5>1
          <6> QED BY ONLY <4>1, <6>1
        <5>2. CASE i # k
          <6>1. g[i] <= m /\ g[i] \in Nat
            BY ONLY <3>2, <3>5, <3>6, <5>2, i \in 1 .. k
          <6> QED BY ONLY <3>4, <4>1, <6>1, m \in Nat
        <5> QED BY <5>1, <5>2
      <4> QED BY <4>1, <4>2
    <3> QED BY <3>3, <3>4
  <2> QED BY <2>1, <2>4
<1> HIDE DEF Bad
<1>2. n \notin Bad
  BY <1>1
<1> QED BY <1>2 DEF Bad

LEMMA Constants ==
    /\ Blocks \in Nat /\ Blocks > 0 /\ 1 \in Address
    /\ NULL \notin Address /\ TheTail \notin Address /\ TheTail # NULL
    /\ NoSlot \notin Slot
    /\ Root \notin File /\ Root \in Number /\ File \subseteq Number /\ Number \subseteq Nat
    /\ main \in Task /\ main \notin Process /\ Process \subseteq Task
    /\ \A t \in Task : t # main => t \in Process
BY OpenFilesAssumption DEF Address, NULL, TheTail, NoSlot, Slot, Root, Number, Task

LEMMA Finite == IsFiniteSet(Task) /\ IsFiniteSet(Slot) /\ IsFiniteSet(Fd)
<1>1. IsFiniteSet(Task)
  BY OpenFilesAssumption, FS_AddElement DEF Task
<1>2. IsFiniteSet(Slot)
  BY OpenFilesAssumption, FS_Interval DEF Slot
<1>3. IsFiniteSet(Fd)
  BY OpenFilesAssumption, FS_Interval DEF Fd
<1> QED BY <1>1, <1>2, <1>3

(* A link of the free list is not read as the number of an inode.          *)
LEMMA LinkIsNoNumber == Link \in Nat /\ Link \notin Number
<1>0. PICK n \in Nat : Surjection(1 .. n, File) # {}
  BY OpenFilesAssumption, FS_NatSurjection DEF ExistsSurjection
<1>1. PICK f \in [1 .. n -> File] : \A no \in File : \E i \in 1 .. n : f[i] = no
  BY <1>0 DEF Surjection
<1>2. PICK b \in Nat : \A i \in 1 .. n : f[i] <= b
  <2>1. f \in [1 .. n -> Nat]
    BY OpenFilesAssumption
  <2> QED BY <2>1, Bounded
<1>3. \A no \in Number : no \in Nat /\ no <= b
  BY <1>1, <1>2, Constants DEF Number, Root
<1> DEFINE U == {m \in Nat : \A no \in Number : no <= m}
<1>4. U # {} /\ U \subseteq Nat
  BY <1>3
<1>5. PICK m \in U : \A u \in U : m <= u
  <2> HIDE DEF U
  <2> QED BY <1>4, Smallest
<1>6. m \in Nat /\ \A no \in Number : no <= m
  BY <1>5
<1>7. m \in Number
  <2> SUFFICES ASSUME m \notin Number PROVE FALSE
    OBVIOUS
  <2>1. \A no \in Number : no \in Nat /\ no <= m /\ no # m
    BY <1>3, <1>6
  <2>2. m # 0
    BY <2>1 DEF Number, Root
  <2>3. m - 1 \in Nat /\ \A no \in Number : no <= m - 1
    BY <1>6, <2>1, <2>2
  <2>4. m - 1 \in U
    BY <2>3
  <2> QED BY <1>5, <1>6, <2>4
<1>8. \A no \in Number : m >= no
  BY <1>3, <1>6
<1> HIDE DEF U
<1>9. PICK x : x = Max(Number)
  OBVIOUS
<1>10. x \in Number /\ \A no \in Number : x >= no
  BY ONLY <1>7, <1>8, <1>9 DEF Max
<1>11. x \in Nat /\ \A no \in Number : no # x + 1
  <2>1. x \in Nat
    BY ONLY <1>3, <1>10
  <2> QED BY ONLY <1>3, <1>10, <2>1
<1>12. Link = x + 1
  BY ONLY <1>9 DEF Link
<1> QED BY ONLY <1>11, <1>12

---------------------------------------------------------------------------
(* The list of open inodes                                                 *)

(* The search comes to the inodes in their order, then to the tail.  Walk  *)
(* is a recursive function: one function satisfies its equation, so Walk   *)
(* does, and the two differ nowhere.                                       *)
LEMMA WalkIs ==
    ASSUME NEW n \in 1 .. Blocks, NEW order \in [1 .. n -> Address], IsOpenList(n, order)
    PROVE  \A k \in 0 .. Blocks : Walk[k] = IF k < n THEN order[n - k] ELSE TheTail
<1> DEFINE W == [k \in 0 .. Blocks |-> IF k < n THEN order[n - k] ELSE TheTail]
           Step(f) == [k \in 0 .. Blocks |->
                          IF k = 0 THEN first
                          ELSE IF f[k - 1] \in Address THEN heap[f[k - 1]].next ELSE f[k - 1]]
<1>1. Blocks \in Nat /\ n \in Nat /\ n > 0 /\ n <= Blocks
  BY Constants
<1>2. /\ first = order[n] /\ \A i \in 1 .. n : order[i] \in Address
      /\ \A i \in 1 .. n : heap[order[i]].next = IF i = 1 THEN TheTail ELSE order[i - 1]
  BY DEF IsOpenList
<1>3. \A k \in 0 .. Blocks : W[k] = IF k < n THEN order[n - k] ELSE TheTail
  OBVIOUS
<1>4. ASSUME NEW k \in 1 .. Blocks
      PROVE  W[k] = IF W[k - 1] \in Address THEN heap[W[k - 1]].next ELSE W[k - 1]
  <2>0. k \in 0 .. Blocks /\ k - 1 \in 0 .. Blocks /\ k \in Nat /\ k > 0
    BY <1>1
  <2>1. CASE k - 1 < n
    <3>1. W[k - 1] = order[n - (k - 1)] /\ n - (k - 1) \in 1 .. n
      BY <1>1, <1>3, <2>0, <2>1
    <3>2. W[k - 1] \in Address
          /\ heap[W[k - 1]].next
               = IF n - (k - 1) = 1 THEN TheTail ELSE order[(n - (k - 1)) - 1]
      BY ONLY <1>2, <3>1
    <3>3. (n - (k - 1) = 1 <=> ~(k < n)) /\ (n - (k - 1)) - 1 = n - k
      BY ONLY <1>1, <2>0, <2>1
    <3>4. W[k] = IF k < n THEN order[n - k] ELSE TheTail
      BY ONLY <1>3, <2>0
    <3> QED BY ONLY <3>2, <3>3, <3>4
  <2>2. CASE ~(k - 1 < n)
    <3>1. W[k - 1] = TheTail /\ W[k] = TheTail
      BY <1>1, <1>3, <2>0, <2>2
    <3> QED BY ONLY <3>1, Constants
  <2> QED BY <2>1, <2>2
<1>5. W[0] = first
  BY <1>1, <1>2, <1>3
<1>6. W = Step(W)
  <2> HIDE DEF W
  <2>1. W = [k \in 0 .. Blocks |-> W[k]]
    BY DEF W
  <2>2. ASSUME NEW k \in 0 .. Blocks
        PROVE  W[k] = IF k = 0 THEN first
                      ELSE IF W[k - 1] \in Address THEN heap[W[k - 1]].next ELSE W[k - 1]
    <3>1. CASE k = 0
      BY ONLY <1>5, <3>1
    <3>2. CASE k # 0
      <4>1. k \in 1 .. Blocks
        BY ONLY <3>2, k \in 0 .. Blocks
      <4> QED BY ONLY <1>4, <3>2, <4>1
    <3> QED BY <3>1, <3>2
  <2> QED BY ONLY <2>1, <2>2
<1>7. Walk = Step(Walk)
  <2> HIDE DEF W
  <2> QED BY <1>6 DEF Walk
<1>8. \A k \in 0 .. Blocks : Walk[k] = W[k]
  <2> HIDE DEF W
  <2> DEFINE Bad == {k \in 0 .. Blocks : Walk[k] # W[k]}
  <2> SUFFICES ASSUME Bad # {} PROVE FALSE
    OBVIOUS
  <2>1. PICK k \in Bad : \A j \in Bad : k <= j
    <3>1. Bad \subseteq Nat
      BY <1>1
    <3> HIDE DEF Bad
    <3> QED BY <3>1, Smallest
  <2>2. k \in 0 .. Blocks /\ Walk[k] # W[k]
    BY <2>1
  <2>3. \A j \in 0 .. Blocks : j < k => Walk[j] = W[j]
    <3>1. ASSUME NEW j \in 0 .. Blocks, j < k
          PROVE  j \notin Bad
      <4> HIDE DEF Bad
      <4> QED BY <1>1, <2>1, <2>2, <3>1
    <3> QED BY <3>1
  <2> HIDE DEF Bad
  <2>4. ASSUME NEW f, f = Step(f)
        PROVE  f[k] = IF k = 0 THEN first
                      ELSE IF f[k - 1] \in Address THEN heap[f[k - 1]].next ELSE f[k - 1]
    BY ONLY <2>2, <2>4
  <2> HIDE DEF Step
  <2>5. k # 0 => Walk[k - 1] = W[k - 1]
    BY ONLY <1>1, <2>2, <2>3
  <2> QED BY ONLY <1>6, <1>7, <2>2, <2>4, <2>5
<1> QED BY <1>3, <1>8

(* The list ends; a search finds an inode of the list with the number, or  *)
(* there is none.                                                          *)
LEMMA Search ==
    ASSUME ListIsWhole, NEW no
    PROVE  /\ Ends
           /\ Found(no) => /\ InodeOf(no) \in Address
                           /\ heap[InodeOf(no)].i_no = no
                           /\ heap[InodeOf(no)].next # NULL
           /\ ~Found(no) => \A a \in Address : heap[a].next # NULL => heap[a].i_no # no
<1>1. PICK n \in 1 .. Blocks : \E order \in [1 .. n -> Address] : IsOpenList(n, order)
  BY DEF ListIsWhole
<1>2. PICK order \in [1 .. n -> Address] : IsOpenList(n, order)
  BY <1>1
<1>3. \A k \in 0 .. Blocks : Walk[k] = IF k < n THEN order[n - k] ELSE TheTail
  BY <1>2, WalkIs
<1>4. Blocks \in Nat /\ n \in Nat /\ n > 0 /\ n <= Blocks
  BY Constants
<1>5. /\ \A i \in 1 .. n : order[i] \in Address /\ heap[order[i]].next # NULL
      /\ \A a \in Address : heap[a].next # NULL => \E i \in 1 .. n : order[i] = a
  <2>1. ASSUME NEW i \in 1 .. n
        PROVE  order[i] \in Address /\ heap[order[i]].next # NULL
    <3>1. i # 1 => i - 1 \in 1 .. n
      BY <1>4
    <3> QED BY <1>2, <3>1, Constants DEF IsOpenList
  <2> QED BY <1>2, <2>1 DEF IsOpenList
<1>6. Ends
  BY <1>3, <1>4 DEF Ends
<1>7. \A k \in 0 .. Blocks : Walk[k] \in Address => heap[Walk[k]].next # NULL
  <2> SUFFICES ASSUME NEW k \in 0 .. Blocks, Walk[k] \in Address
               PROVE  heap[Walk[k]].next # NULL
    OBVIOUS
  <2>1. k < n /\ Walk[k] = order[n - k]
    BY <1>3, Constants
  <2>2. n - k \in 1 .. n
    BY <1>4, <2>1
  <2> QED BY <1>5, <2>1, <2>2
<1>8. ASSUME Found(no)
      PROVE  /\ InodeOf(no) \in Address /\ heap[InodeOf(no)].i_no = no
             /\ heap[InodeOf(no)].next # NULL
  <2>1. Hits(no) \subseteq Nat /\ Hits(no) # {}
    BY <1>4, <1>8 DEF Hits, Found
  <2>2. Min(Hits(no)) \in Hits(no)
    BY <2>1, Smallest
  <2>3. PICK k : k = Min(Hits(no))
    OBVIOUS
  <2>4. k \in 0 .. Blocks /\ Walk[k] \in Address /\ heap[Walk[k]].i_no = no
    BY ONLY <2>2, <2>3 DEF Hits
  <2> QED BY ONLY <1>7, <2>3, <2>4 DEF InodeOf
<1>9. ASSUME ~Found(no), NEW a \in Address, heap[a].next # NULL
      PROVE  heap[a].i_no # no
  <2>1. PICK i \in 1 .. n : order[i] = a
    BY <1>5, <1>9
  <2>2. n - i \in 0 .. Blocks /\ n - i < n /\ n - (n - i) = i
    BY <1>4
  <2>3. Walk[n - i] = a
    BY ONLY <1>3, <2>1, <2>2
  <2> QED BY <1>9, <2>2, <2>3 DEF Found, Hits
<1> QED BY <1>6, <1>8, <1>9

LEMMA HeadIs ==
    ASSUME ListIsWhole
    PROVE  first \in Address /\ ~PushFaults
<1>1. PICK n \in 1 .. Blocks : \E order \in [1 .. n -> Address] : IsOpenList(n, order)
  BY DEF ListIsWhole
<1>2. PICK order \in [1 .. n -> Address] : IsOpenList(n, order)
  BY <1>1
<1>3. n \in 1 .. n /\ (n # 1 => n - 1 \in 1 .. n)
  BY Constants
<1>4. order[n] \in Address /\ (n # 1 => order[n - 1] \in Address)
  BY <1>3
<1>5. first = order[n] /\ heap[first].next # NULL
  BY <1>2, <1>3, <1>4, Constants DEF IsOpenList
<1> QED BY <1>4, <1>5 DEF PushFaults

(* A step that changes no link.                                            *)
LEMMA ListKept ==
    ASSUME ListIsWhole, first' = first, \A a \in Address : heap'[a].next = heap[a].next
    PROVE  ListIsWhole'
<1>1. PICK n \in 1 .. Blocks : \E order \in [1 .. n -> Address] : IsOpenList(n, order)
  BY DEF ListIsWhole
<1>2. PICK order \in [1 .. n -> Address] : IsOpenList(n, order)
  BY <1>1
<1>3. \A i \in 1 .. n : heap'[order[i]].next = heap[order[i]].next
  OBVIOUS
<1>4. IsOpenList(n, order)'
  BY <1>2, <1>3 DEF IsOpenList
<1> QED BY <1>4 DEF ListIsWhole

(* list_push of a block that is in no list.                                *)
LEMMA ListPushed ==
    ASSUME ListIsWhole, NEW b \in Address, heap[b].next = NULL,
           first' = b, heap'[b].next = first,
           \A a \in Address \ {b} : heap'[a].next = heap[a].next
    PROVE  ListIsWhole'
<1>1. PICK n \in 1 .. Blocks : \E order \in [1 .. n -> Address] : IsOpenList(n, order)
  BY DEF ListIsWhole
<1>2. PICK order \in [1 .. n -> Address] : IsOpenList(n, order)
  BY <1>1
<1>3. Blocks \in Nat /\ n \in Nat /\ n > 0 /\ n <= Blocks
  BY Constants
<1>4. \A i \in 1 .. n : order[i] \in Address /\ heap[order[i]].next # NULL /\ order[i] # b
  <2>1. ASSUME NEW i \in 1 .. n
        PROVE  order[i] \in Address /\ heap[order[i]].next # NULL
    <3>1. i # 1 => i - 1 \in 1 .. n
      BY <1>3
    <3> QED BY <1>2, <3>1, Constants DEF IsOpenList
  <2> QED BY <2>1
<1> DEFINE m == n + 1
           new == [i \in 1 .. m |-> IF i = m THEN b ELSE order[i]]
<1>5. \A i \in 1 .. m : i = m \/ i \in 1 .. n
  BY <1>3
<1>6. /\ new \in [1 .. m -> Address] /\ new[m] = b /\ m \in 1 .. m /\ m \notin 1 .. n
      /\ \A i \in 1 .. n : new[i] = order[i] /\ i \in 1 .. m
  <2>1. m \in 1 .. m /\ m \notin 1 .. n /\ \A i \in 1 .. n : i \in 1 .. m /\ i # m
    BY <1>3
  <2> HIDE DEF m
  <2> QED BY <1>4, <1>5, <2>1
<1>7. ASSUME NEW i \in 1 .. m, NEW j \in 1 .. m, new[i] = new[j]
      PROVE  i = j
  <2> HIDE DEF m, new
  <2>1. \A x, y \in 1 .. n : order[x] = order[y] => x = y
    BY <1>2 DEF IsOpenList
  <2> QED BY ONLY <1>4, <1>5, <1>6, <1>7, <2>1
<1>8. m \in 1 .. Blocks
  <2>1. new \in Injection(1 .. m, Address)
    <3> HIDE DEF m, new
    <3> QED BY ONLY <1>6, <1>7 DEF Injection, IsInjective
  <2>2. IsFiniteSet(Address) /\ Cardinality(Address) = Blocks
    BY <1>3, FS_Interval DEF Address
  <2>3. Cardinality(1 .. m) = m
    BY <1>3, FS_Interval
  <2>4. Cardinality(1 .. m) <= Cardinality(Address)
    <3> HIDE DEF m, new
    <3> QED BY <2>1, <2>2, FS_Injection
  <2> QED BY <1>3, <2>2, <2>3, <2>4
<1>9. IsOpenList(m, new)'
  <2>1. ASSUME NEW i \in 1 .. m
        PROVE  heap'[new[i]].next = IF i = 1 THEN TheTail ELSE new[i - 1]
    <3>1. CASE i = m
      <4>1. i # 1 /\ i - 1 = n /\ n \in 1 .. n
        BY <1>3, <3>1
      <4>2. new[i - 1] = first
        <5>1. first = order[n]
          BY <1>2 DEF IsOpenList
        <5> HIDE DEF m, new
        <5> QED BY ONLY <1>6, <4>1, <5>1
      <4>3. new[i] = b
        BY ONLY <1>6, <3>1
      <4> QED BY ONLY <4>1, <4>2, <4>3, heap'[b].next = first
    <3>2. CASE i # m
      <4>1. i \in 1 .. n /\ (i # 1 => i - 1 \in 1 .. n)
        BY <1>3, <3>2
      <4>2. new[i] = order[i] /\ (i # 1 => new[i - 1] = order[i - 1])
        <5> HIDE DEF m, new
        <5> QED BY ONLY <1>6, <4>1
      <4>3. heap'[order[i]].next = heap[order[i]].next
        BY <1>4, <4>1
      <4> HIDE DEF m, new
      <4> QED BY <1>2, <4>1, <4>2, <4>3 DEF IsOpenList
    <3> QED BY <3>1, <3>2
  <2>2. ASSUME NEW a \in Address, heap'[a].next # NULL
        PROVE  \E i \in 1 .. m : new[i] = a
    <3> HIDE DEF m, new
    <3>1. CASE a = b
      BY ONLY <1>6, <3>1
    <3>2. CASE a # b
      <4>1. PICK i \in 1 .. n : order[i] = a
        BY <1>2, <2>2, <3>2 DEF IsOpenList
      <4> QED BY ONLY <1>6, <4>1
    <3> QED BY <3>1, <3>2
  <2> HIDE DEF m, new
  <2> QED BY ONLY <1>6, <1>7, <2>1, <2>2, first' = b DEF IsOpenList
<1> HIDE DEF m, new
<1> QED BY ONLY <1>6, <1>8, <1>9 DEF ListIsWhole

---------------------------------------------------------------------------
(* The shares of an inode                                                  *)

LEMMA Counting ==
    ASSUME NEW S, S \subseteq Slot, NEW T, T \subseteq Task
    PROVE  /\ IsFiniteSet(S) /\ Cardinality(S) \in Nat /\ (Cardinality(S) = 0 <=> S = {})
           /\ IsFiniteSet(T) /\ Cardinality(T) \in Nat /\ (Cardinality(T) = 0 <=> T = {})
<1>1. IsFiniteSet(S) /\ IsFiniteSet(T)
  BY Finite, FS_Subset
<1> QED BY <1>1, FS_CardinalityType, FS_EmptySet

LEMMA ClaimsIs ==
    ASSUME NEW a
    PROVE  /\ SlotsWith(a) \subseteq Slot /\ IsFiniteSet(SlotsWith(a))
           /\ TasksWith(a) \subseteq Task /\ IsFiniteSet(TasksWith(a))
           /\ Cardinality(SlotsWith(a)) \in Nat /\ Cardinality(TasksWith(a)) \in Nat
           /\ Claims(a) \in Nat
           /\ Claims(a) = 0 <=> SlotsWith(a) = {} /\ TasksWith(a) = {} /\ a # 1
<1>1. SlotsWith(a) \subseteq Slot /\ TasksWith(a) \subseteq Task
  BY DEF SlotsWith, TasksWith
<1>2. /\ IsFiniteSet(SlotsWith(a)) /\ IsFiniteSet(TasksWith(a))
      /\ Cardinality(SlotsWith(a)) \in Nat /\ Cardinality(TasksWith(a)) \in Nat
      /\ Cardinality(SlotsWith(a)) = 0 <=> SlotsWith(a) = {}
      /\ Cardinality(TasksWith(a)) = 0 <=> TasksWith(a) = {}
  BY <1>1, Counting
<1>3. Claims(a) \in Nat
  BY <1>2 DEF Claims
<1>4. Claims(a) = 0 <=> /\ Cardinality(SlotsWith(a)) = 0
                        /\ Cardinality(TasksWith(a)) = 0 /\ a # 1
  BY <1>2 DEF Claims
<1> QED BY <1>1, <1>2, <1>3, <1>4

LEMMA ClaimsNext ==
    ASSUME NEW a
    PROVE  /\ SlotsWith(a)' \subseteq Slot /\ IsFiniteSet(SlotsWith(a)')
           /\ TasksWith(a)' \subseteq Task /\ IsFiniteSet(TasksWith(a)')
           /\ Cardinality(SlotsWith(a))' \in Nat /\ Cardinality(TasksWith(a))' \in Nat
           /\ Claims(a)' \in Nat
           /\ Claims(a)' = Cardinality(SlotsWith(a)') + Cardinality(TasksWith(a)')
                              + (IF a = 1 THEN 1 ELSE 0)
<1>1. SlotsWith(a)' \subseteq Slot /\ TasksWith(a)' \subseteq Task
  BY DEF SlotsWith, TasksWith
<1>2. /\ IsFiniteSet(SlotsWith(a)') /\ IsFiniteSet(TasksWith(a)')
      /\ Cardinality(SlotsWith(a)') \in Nat /\ Cardinality(TasksWith(a)') \in Nat
  BY <1>1, Counting
<1>3. Claims(a)' = Cardinality(SlotsWith(a)') + Cardinality(TasksWith(a)')
                     + (IF a = 1 THEN 1 ELSE 0)
  BY DEF Claims
<1> QED BY <1>1, <1>2, <1>3

LEMMA ClaimsShrink ==
    ASSUME NEW a, SlotsWith(a)' \subseteq SlotsWith(a), TasksWith(a)' \subseteq TasksWith(a)
    PROVE  Claims(a)' <= Claims(a)
<1>1. /\ Cardinality(SlotsWith(a)') <= Cardinality(SlotsWith(a))
      /\ Cardinality(TasksWith(a)') <= Cardinality(TasksWith(a))
  BY ClaimsIs, FS_Subset
<1> QED BY <1>1, ClaimsIs, ClaimsNext DEF Claims

LEMMA ClaimsKept ==
    ASSUME NEW a, SlotsWith(a)' = SlotsWith(a), TasksWith(a)' = TasksWith(a)
    PROVE  Claims(a)' = Claims(a)
BY DEF Claims

(* One share more, or one less.                                            *)
LEMMA ClaimAdded ==
    ASSUME NEW a,
           \/ TasksWith(a)' = TasksWith(a)
              /\ \E s : s \notin SlotsWith(a) /\ SlotsWith(a)' = SlotsWith(a) \cup {s}
           \/ SlotsWith(a)' = SlotsWith(a)
              /\ \E t : t \notin TasksWith(a) /\ TasksWith(a)' = TasksWith(a) \cup {t}
    PROVE  Claims(a)' = Claims(a) + 1
<1>1. CASE TasksWith(a)' = TasksWith(a)
           /\ \E s : s \notin SlotsWith(a) /\ SlotsWith(a)' = SlotsWith(a) \cup {s}
  <2>1. Cardinality(SlotsWith(a)') = Cardinality(SlotsWith(a)) + 1
    <3>1. PICK s : s \notin SlotsWith(a) /\ SlotsWith(a)' = SlotsWith(a) \cup {s}
      BY <1>1
    <3>2. IsFiniteSet(SlotsWith(a))
      BY ClaimsIs
    <3>3. Cardinality(SlotsWith(a) \cup {s}) = Cardinality(SlotsWith(a)) + 1
      BY ONLY <3>1, <3>2, FS_AddElement
    <3> QED BY ONLY <3>1, <3>3
  <2> QED BY <1>1, <2>1, ClaimsIs, ClaimsNext DEF Claims
<1>2. CASE SlotsWith(a)' = SlotsWith(a)
           /\ \E t : t \notin TasksWith(a) /\ TasksWith(a)' = TasksWith(a) \cup {t}
  <2>1. Cardinality(TasksWith(a)') = Cardinality(TasksWith(a)) + 1
    <3>1. PICK t : t \notin TasksWith(a) /\ TasksWith(a)' = TasksWith(a) \cup {t}
      BY <1>2
    <3>2. IsFiniteSet(TasksWith(a))
      BY ClaimsIs
    <3>3. Cardinality(TasksWith(a) \cup {t}) = Cardinality(TasksWith(a)) + 1
      BY ONLY <3>1, <3>2, FS_AddElement
    <3> QED BY ONLY <3>1, <3>3
  <2> QED BY <1>2, <2>1, ClaimsIs, ClaimsNext DEF Claims
<1> QED BY <1>1, <1>2

LEMMA ClaimDropped ==
    ASSUME NEW a,
           \/ TasksWith(a)' = TasksWith(a)
              /\ \E s \in SlotsWith(a) : SlotsWith(a)' = SlotsWith(a) \ {s}
           \/ SlotsWith(a)' = SlotsWith(a)
              /\ \E t \in TasksWith(a) : TasksWith(a)' = TasksWith(a) \ {t}
    PROVE  Claims(a)' = Claims(a) - 1
<1>1. CASE TasksWith(a)' = TasksWith(a)
           /\ \E s \in SlotsWith(a) : SlotsWith(a)' = SlotsWith(a) \ {s}
  <2>1. Cardinality(SlotsWith(a)') = Cardinality(SlotsWith(a)) - 1
    <3>1. PICK s : s \in SlotsWith(a) /\ SlotsWith(a)' = SlotsWith(a) \ {s}
      BY <1>1
    <3>2. IsFiniteSet(SlotsWith(a))
      BY ClaimsIs
    <3>3. Cardinality(SlotsWith(a) \ {s}) = Cardinality(SlotsWith(a)) - 1
      BY ONLY <3>1, <3>2, FS_RemoveElement
    <3> QED BY ONLY <3>1, <3>3
  <2> QED BY <1>1, <2>1, ClaimsIs, ClaimsNext DEF Claims
<1>2. CASE SlotsWith(a)' = SlotsWith(a)
           /\ \E t \in TasksWith(a) : TasksWith(a)' = TasksWith(a) \ {t}
  <2>1. Cardinality(TasksWith(a)') = Cardinality(TasksWith(a)) - 1
    <3>1. PICK t : t \in TasksWith(a) /\ TasksWith(a)' = TasksWith(a) \ {t}
      BY <1>2
    <3>2. IsFiniteSet(TasksWith(a))
      BY ClaimsIs
    <3>3. Cardinality(TasksWith(a) \ {t}) = Cardinality(TasksWith(a)) - 1
      BY ONLY <3>1, <3>2, FS_RemoveElement
    <3> QED BY ONLY <3>1, <3>3
  <2> QED BY <1>2, <2>1, ClaimsIs, ClaimsNext DEF Claims
<1> QED BY <1>1, <1>2

(* The shares of an inode that has at most one.                            *)
LEMMA FewClaims ==
    ASSUME NEW a, a # 1
    PROVE  /\ SlotsWith(a)' = {} /\ TasksWith(a)' = {} => Claims(a)' = 0
           /\ \A s : SlotsWith(a)' = {s} /\ TasksWith(a)' = {} => Claims(a)' = 1
           /\ \A t : SlotsWith(a)' = {} /\ TasksWith(a)' = {t} => Claims(a)' = 1
<1>1. Cardinality({}) = 0 /\ \A x : Cardinality({x}) = 1
  BY FS_EmptySet, FS_Singleton
<1>2. Claims(a)' = Cardinality(SlotsWith(a)') + Cardinality(TasksWith(a)') + 0
  BY ClaimsNext
<1>3. SlotsWith(a)' = {} /\ TasksWith(a)' = {} => Claims(a)' = 0
  BY <1>1, <1>2
<1>4. ASSUME NEW s, SlotsWith(a)' = {s}, TasksWith(a)' = {} PROVE Claims(a)' = 1
  <2>1. Cardinality(SlotsWith(a)') = 1 /\ Cardinality(TasksWith(a)') = 0
    BY ONLY <1>1, <1>4
  <2> QED BY ONLY <1>2, <2>1
<1>5. ASSUME NEW t, SlotsWith(a)' = {}, TasksWith(a)' = {t} PROVE Claims(a)' = 1
  <2>1. Cardinality(SlotsWith(a)') = 0 /\ Cardinality(TasksWith(a)') = 1
    BY ONLY <1>1, <1>5
  <2> QED BY ONLY <1>2, <2>1
<1> QED BY <1>3, <1>4, <1>5

---------------------------------------------------------------------------
(* What a step leaves alone                                                *)

(* Only t's variables change.                                              *)
Moves(t) == \A u \in Task \ {t} : pc'[u] = pc[u] /\ local'[u] = local[u]

(* Who has a, apart from t, keeps it.                                      *)
Spared(a) ==
    /\ heap'[a].next = heap[a].next /\ heap'[a].i_no = heap[a].i_no
    /\ heap'[a].i_open_cnts >= heap[a].i_open_cnts
    /\ SlotsWith(a)' \subseteq SlotsWith(a)
    /\ SlotsWith(a)' # {} /\ a \in Held => heap'[a].i_open_cnts = heap[a].i_open_cnts

Uses(t) == pc[t] \in {"using", "deleting"}

LEMMA HeldIs ==
    /\ \A a : a \in Held <=> \E u \in Task : Holds(u) /\ local[u].inode = a
    /\ \A a : a \in Held' <=> \E u \in Task : Holds(u)' /\ local'[u].inode = a
BY DEF Held, Holds

LEMMA TasksAfter ==
    ASSUME NEW t \in Task, Moves(t), NEW a
    PROVE  /\ TasksWith(a) \ {t} = TasksWith(a)' \ {t}
           /\ t \in TasksWith(a) <=> Uses(t) /\ local[t].inode = a
           /\ t \in TasksWith(a)' <=> Uses(t)' /\ local'[t].inode = a
BY DEF Moves, TasksWith, Uses

LEMMA HeldAfter ==
    ASSUME NEW t \in Task, Moves(t), NEW b, Holds(t) => local[t].inode = b,
           Holds(t)' => local'[t].inode = b, NEW a, a # b
    PROVE  a \in Held <=> a \in Held'
<1>1. \A u \in Task : Holds(u) /\ local[u].inode = a => u # t /\ Holds(u)' /\ local'[u].inode = a
  BY DEF Moves, Holds
<1>2. \A u \in Task : Holds(u)' /\ local'[u].inode = a => u # t /\ Holds(u) /\ local[u].inode = a
  BY DEF Moves, Holds
<1> QED BY <1>1, <1>2, HeldIs

(* What remains to be shown of a step of t on the block b.                 *)
LEMMA StepSound ==
    ASSUME Sound, NEW t \in Task, Moves(t), NEW b \in Address \cup {NULL},
           Types', ~hung', ListIsWhole', FreeBlocks', RootIsOpen',
           CallFits(t)', OwnBlock(t)',
           \A a \in Address \ {b} : Spared(a),
           \A u \in Task \ {t} : Holds(u) => local[u].inode # b,
           Holds(t) \/ Uses(t) => local[t].inode = b,
           Holds(t)' \/ Uses(t)' => local'[t].inode = b,
           b # NULL /\ b \notin Held' => /\ Claims(b)' <= heap'[b].i_open_cnts
                                         /\ Claims(b)' > 0 => heap'[b].i_no # Link
    PROVE  Sound'
<1>1. ASSUME NEW u \in Task, u # t
      PROVE  CallFits(u)'
  <2>1. pc'[u] = pc[u] /\ local'[u] = local[u] /\ CallFits(u)
    BY <1>1 DEF Moves, Sound
  <2> QED BY ONLY <2>1 DEF CallFits
<1>2. ASSUME NEW u \in Task, u # t, Holds(u)
      PROVE  OwnBlock(u)'
  <2>1. PICK a : a = local[u].inode
    OBVIOUS
  <2>2. /\ pc'[u] = pc[u] /\ local'[u] = local[u] /\ Holds(u)'
        /\ a # b /\ a \in Address /\ a \in Held
    <3>1. pc'[u] = pc[u] /\ local'[u] = local[u] /\ a # b
      BY <1>2, <2>1 DEF Moves
    <3>2. a \in Address
      BY <1>2, <2>1 DEF Sound, CallFits, Holds
    <3> QED BY <1>2, <2>1, <3>1, <3>2, HeldIs DEF Holds
  <2>3. Spared(a)
    BY <2>2
  <2>4. /\ heap[a].i_no # Link /\ a # 1
        /\ heap[a].next = NULL <=> pc[u] # "counting"
        /\ u = main => heap[a].i_no = local[main].no
        /\ \A v \in Task : v # u /\ Holds(v) => local[v].inode # a
        /\ TasksWith(a) = {}
        /\ \A s \in SlotsWith(a) :
              u = main /\ s = local[main].slot /\ heap[a].i_open_cnts = 0
    BY <1>2, <2>1 DEF Sound, OwnBlock
  <2>5. ASSUME NEW v \in Task, v # u, Holds(v)'
        PROVE  local'[v].inode # a
    <3>1. CASE v = t
      BY <2>2, <2>5, <3>1
    <3>2. CASE v # t
      <4>1. Holds(v) /\ local'[v].inode = local[v].inode
        BY <2>5, <3>2 DEF Moves, Holds
      <4> QED BY <2>4, <2>5, <4>1
    <3> QED BY <3>1, <3>2
  <2>6. TasksWith(a)' = {}
    <3>1. t \notin TasksWith(a)'
      BY <2>2, TasksAfter
    <3> QED BY <2>4, <3>1, TasksAfter
  <2>7. ASSUME NEW s \in SlotsWith(a)'
        PROVE  u = main /\ s = local'[main].slot /\ heap'[a].i_open_cnts = 0
    <3>1. s \in SlotsWith(a) /\ heap'[a].i_open_cnts = heap[a].i_open_cnts
      BY <2>2, <2>3, <2>7 DEF Spared
    <3>2. u = main /\ s = local[main].slot /\ heap[a].i_open_cnts = 0
      BY ONLY <2>4, <3>1
    <3> QED BY ONLY <2>2, <3>1, <3>2
  <2>8. /\ heap'[a].i_no # Link /\ a = local'[u].inode
        /\ heap'[a].next = NULL <=> pc'[u] # "counting"
        /\ u = main => heap'[a].i_no = local'[main].no
    BY <2>1, <2>2, <2>3, <2>4 DEF Spared
  <2> QED BY ONLY <2>4, <2>5, <2>6, <2>7, <2>8 DEF OwnBlock
<1>3. ASSUME NEW u \in Task, u # t, ~Holds(u)
      PROVE  OwnBlock(u)'
  BY <1>3 DEF Moves, OwnBlock, Holds
<1>4. ASSUME NEW a \in Address, a \notin Held', a # b
      PROVE  Claims(a)' <= heap'[a].i_open_cnts /\ (Claims(a)' > 0 => heap'[a].i_no # Link)
  <2>1. a \notin Held
    BY <1>4, HeldAfter
  <2>2. Claims(a) <= heap[a].i_open_cnts /\ (Claims(a) > 0 => heap[a].i_no # Link)
    <3>1. Shares /\ a \in Address \ Held
      BY <2>1 DEF Sound
    <3> QED BY ONLY <3>1 DEF Shares
  <2>3. TasksWith(a)' = TasksWith(a)
    <3>1. t \notin TasksWith(a) /\ t \notin TasksWith(a)'
      BY <1>4, TasksAfter
    <3> QED BY <3>1, TasksAfter
  <2>4. Spared(a)
    BY <1>4
  <2>5. Claims(a)' <= Claims(a) /\ Claims(a) \in Nat /\ Claims(a)' \in Nat
    BY <2>3, <2>4, ClaimsShrink, ClaimsIs, ClaimsNext DEF Spared
  <2>6. heap[a].i_open_cnts \in Nat /\ heap'[a].i_open_cnts \in Nat
    BY DEF Sound, Types, Inode
  <2>7. heap'[a].i_open_cnts >= heap[a].i_open_cnts /\ heap'[a].i_no = heap[a].i_no
    BY ONLY <2>4 DEF Spared
  <2> QED BY ONLY <2>2, <2>5, <2>6, <2>7
<1>5. Shares'
  <2> SUFFICES ASSUME NEW a \in Address \ Held'
               PROVE  /\ Claims(a)' <= heap'[a].i_open_cnts
                      /\ Claims(a)' > 0 => heap'[a].i_no # Link
    BY DEF Shares
  <2>1. CASE a = b
    BY <2>1, Constants
  <2>2. CASE a # b
    BY <1>4, <2>2
  <2> QED BY <2>1, <2>2
<1>6. \A u \in Task : CallFits(u)' /\ OwnBlock(u)'
  BY <1>1, <1>2, <1>3
<1> QED BY <1>5, <1>6 DEF Sound

---------------------------------------------------------------------------
(* The blocks that a step works on                                         *)

LEMMA NoHolder ==
    ASSUME NEW b, b \notin Held
    PROVE  \A u \in Task : Holds(u) => local[u].inode # b
BY HeldIs

LEMMA HeldBlock ==
    ASSUME Sound, NEW t \in Task, Holds(t)
    PROVE  \E b \in Address :
              /\ b = local[t].inode /\ b # 1 /\ b \in Held /\ heap[b].i_no # Link
              /\ heap[b].next = NULL <=> pc[t] # "counting"
              /\ t = main => heap[b].i_no = local[main].no
              /\ \A u \in Task \ {t} : Holds(u) => local[u].inode # b
              /\ TasksWith(b) = {}
              /\ \A s \in SlotsWith(b) :
                    t = main /\ s = local[main].slot /\ heap[b].i_open_cnts = 0
<1>1. local[t].inode \in Address
  BY DEF Sound, CallFits, Holds
<1>2. OwnBlock(t)
  BY DEF Sound
<1> QED BY <1>1, <1>2, HeldIs DEF OwnBlock

(* An inode that inode_open finds.                                         *)
LEMMA FoundBlock ==
    ASSUME Sound, NEW no \in Number, Found(no), ~NotCounted(no)
    PROVE  \E b \in Address :
              /\ b = InodeOf(no) /\ b \notin Held
              /\ heap[b].i_no = no /\ heap[b].next # NULL /\ no # Link
              /\ \A u \in Task : Holds(u) => local[u].inode # b
              /\ Claims(b) <= heap[b].i_open_cnts /\ Claims(b) \in Nat
<1>1. PICK b : b = InodeOf(no)
  OBVIOUS
<1>2. b \in Address /\ heap[b].i_no = no /\ heap[b].next # NULL
  BY <1>1, Search DEF Sound
<1>3. b \notin Held
  <2> SUFFICES ASSUME NEW u \in Task, Holds(u), local[u].inode = b PROVE FALSE
    BY HeldIs
  <2>1. OwnBlock(u) /\ CallFits(u)
    BY DEF Sound
  <2>2. pc[u] = "counting"
    BY <1>2, <2>1 DEF OwnBlock
  <2>3. u = main
    BY <2>1, <2>2 DEF CallFits
  <2> QED BY <1>2, <2>1, <2>2, <2>3 DEF OwnBlock, NotCounted
<1>4. Claims(b) <= heap[b].i_open_cnts
  BY <1>2, <1>3 DEF Sound, Shares
<1> QED BY <1>1, <1>2, <1>3, <1>4, NoHolder, ClaimsIs, LinkIsNoNumber

(* The block that the heap hands out next, and the others that are free.   *)
LEMMA HeadBlock ==
    ASSUME Sound, free_list # <<>>, heap[Head(free_list)].next = NULL
    PROVE  /\ Tail(free_list) \in Seq(Address)
           /\ \A j, k \in 1 .. Len(Tail(free_list)) :
                 Tail(free_list)[j] = Tail(free_list)[k] => j = k
           /\ \E b \in Address :
                /\ b = Head(free_list) /\ b \notin Held /\ b # 1
                /\ heap[b].next = NULL /\ heap[b].i_no = Link
                /\ \A u \in Task : Holds(u) => local[u].inode # b
                /\ SlotsWith(b) = {} /\ TasksWith(b) = {}
                /\ \A k \in 1 .. Len(Tail(free_list)) :
                      /\ Tail(free_list)[k] \in Address /\ Tail(free_list)[k] # b
                      /\ heap[Tail(free_list)[k]].i_no = Link
<1>1. /\ free_list \in Seq(Address)
      /\ \A j, k \in 1 .. Len(free_list) : free_list[j] = free_list[k] => j = k
      /\ \A k \in 1 .. Len(free_list) : heap[free_list[k]].i_no = Link
  BY DEF Sound, Types, FreeBlocks
<1>2. /\ Len(free_list) \in Nat /\ Len(free_list) > 0
      /\ Head(free_list) = free_list[1] /\ Tail(free_list) \in Seq(Address)
      /\ Len(Tail(free_list)) = Len(free_list) - 1
      /\ \A k \in 1 .. Len(free_list) : free_list[k] \in Address
      /\ \A k \in 1 .. Len(free_list) - 1 : Tail(free_list)[k] = free_list[k + 1]
  BY <1>1
<1>3. PICK b : b = free_list[1]
  OBVIOUS
<1>4. 1 \in 1 .. Len(free_list) /\ b = Head(free_list)
  BY <1>2, <1>3
<1>5. b \in Address /\ heap[b].i_no = Link /\ heap[b].next = NULL
  BY <1>1, <1>2, <1>3, <1>4
<1>6. b \notin Held
  BY <1>5, HeldIs DEF Sound, OwnBlock
<1>7. SlotsWith(b) = {} /\ TasksWith(b) = {} /\ b # 1
  <2>1. ~(Claims(b) > 0)
    BY <1>5, <1>6 DEF Sound, Shares
  <2> QED BY <2>1, ClaimsIs
<1>8. ASSUME NEW k \in 1 .. Len(Tail(free_list))
      PROVE  /\ Tail(free_list)[k] = free_list[k + 1] /\ k + 1 \in 1 .. Len(free_list)
             /\ Tail(free_list)[k] \in Address /\ Tail(free_list)[k] # b
             /\ heap[Tail(free_list)[k]].i_no = Link
  <2>1. k + 1 \in 1 .. Len(free_list) /\ k + 1 # 1 /\ Tail(free_list)[k] = free_list[k + 1]
    BY <1>2
  <2>2. free_list[k + 1] # b /\ heap[free_list[k + 1]].i_no = Link /\ free_list[k + 1] \in Address
    BY ONLY <1>1, <1>2, <1>3, <1>4, <2>1
  <2> QED BY <2>1, <2>2
<1>9. ASSUME NEW j \in 1 .. Len(Tail(free_list)), NEW k \in 1 .. Len(Tail(free_list)),
             Tail(free_list)[j] = Tail(free_list)[k]
      PROVE  j = k
  <2>1. j + 1 = k + 1
    BY ONLY <1>1, <1>8, <1>9
  <2> QED BY <1>2, <2>1
<1> QED BY <1>2, <1>4, <1>5, <1>6, <1>7, <1>8, <1>9, NoHolder

(* The free list with one more block.                                      *)
LEMMA Returned ==
    ASSUME Sound, NEW b \in Address, heap[b].i_no # Link
    PROVE  /\ Append(free_list, b) \in Seq(Address)
           /\ \A j, k \in 1 .. Len(Append(free_list, b)) :
                 Append(free_list, b)[j] = Append(free_list, b)[k] => j = k
           /\ \A k \in 1 .. Len(free_list) : free_list[k] \in Address /\ free_list[k] # b
           /\ \A k \in 1 .. Len(Append(free_list, b)) :
                 LET c == Append(free_list, b)[k]
                 IN  c = b \/ (c \in Address \ {b} /\ heap[c].i_no = Link)
<1>1. /\ free_list \in Seq(Address)
      /\ \A j, k \in 1 .. Len(free_list) : free_list[j] = free_list[k] => j = k
      /\ \A k \in 1 .. Len(free_list) : heap[free_list[k]].i_no = Link
  BY DEF Sound, Types, FreeBlocks
<1>2. PICK n, f : n = Len(free_list) /\ f = Append(free_list, b)
  OBVIOUS
<1>3. /\ n \in Nat /\ f \in Seq(Address) /\ Len(f) = n + 1 /\ f[n + 1] = b
      /\ \A k \in 1 .. n : f[k] = free_list[k] /\ free_list[k] \in Address
  BY <1>1, <1>2
<1>4. \A k \in 1 .. n : free_list[k] # b /\ heap[f[k]].i_no = Link
  BY <1>1, <1>2, <1>3
<1>5. \A k \in 1 .. n + 1 : k = n + 1 \/ k \in 1 .. n
  BY <1>3
<1>6. \A j, k \in 1 .. n + 1 : f[j] = f[k] => j = k
  BY ONLY <1>1, <1>2, <1>3, <1>4, <1>5
<1>7. \A k \in 1 .. n + 1 : f[k] = b \/ (f[k] \in Address \ {b} /\ heap[f[k]].i_no = Link)
  BY ONLY <1>3, <1>4, <1>5
<1> QED BY ONLY <1>2, <1>3, <1>4, <1>6, <1>7

LEMMA FreeKept ==
    ASSUME Sound, free_list' = free_list,
           \A a \in Address : heap[a].i_no = Link => heap'[a].i_no = Link
    PROVE  FreeBlocks'
<1>1. \A k \in 1 .. Len(free_list) : free_list[k] \in Address /\ heap[free_list[k]].i_no = Link
  BY DEF Sound, Types, FreeBlocks
<1> QED BY <1>1 DEF FreeBlocks

(* An inode with a user.                                                   *)
LEMMA UsedBlock ==
    ASSUME Sound, NEW b \in Address, b \notin Held, SlotsWith(b) # {} \/ TasksWith(b) # {}
    PROVE  /\ Claims(b) \in Nat /\ Claims(b) >= 1 /\ (b = 1 => Claims(b) >= 2)
           /\ heap[b].i_open_cnts \in Nat /\ Claims(b) <= heap[b].i_open_cnts
           /\ heap[b].i_no # Link
           /\ \A u \in Task : Holds(u) => local[u].inode # b
<1>1. PICK m, n : m = Cardinality(SlotsWith(b)) /\ n = Cardinality(TasksWith(b))
  OBVIOUS
<1>2. m \in Nat /\ n \in Nat /\ (m # 0 \/ n # 0)
  BY <1>1, ClaimsIs, Counting
<1>3. Claims(b) = m + n + IF b = 1 THEN 1 ELSE 0
  BY <1>1 DEF Claims
<1>4. Claims(b) \in Nat /\ Claims(b) >= 1 /\ (b = 1 => Claims(b) >= 2)
  BY ONLY <1>2, <1>3
<1>5. Claims(b) <= heap[b].i_open_cnts /\ (Claims(b) > 0 => heap[b].i_no # Link)
  BY DEF Sound, Shares
<1>6. heap[b].i_open_cnts \in Nat
  BY DEF Sound, Types, Inode
<1> QED BY <1>4, <1>5, <1>6, NoHolder

(* inode_close by one of an inode's users.                                 *)
LEMMA CloseBlock ==
    ASSUME Sound, NEW b \in Address, b \notin Held, SlotsWith(b) # {} \/ TasksWith(b) # {},
           NEW h \in [Address -> Inode],
           \A a \in Address \ {b} : h[a] = heap[a],
           h[b].i_open_cnts = heap[b].i_open_cnts, h[b].i_no = heap[b].i_no,
           h[b].next = heap[b].next,
           heap' = Closed(h, b), free_list' = FreedBy(h, b), first' = first,
           Claims(b)' = Claims(b) - 1
    PROVE  /\ heap' \in [Address -> Inode]
           /\ free_list' \in Seq(Address)
           /\ \A j, k \in 1 .. Len(free_list') : free_list'[j] = free_list'[k] => j = k
           /\ \A a \in Address \ {b} : heap'[a] = heap[a]
           /\ heap'[b].i_open_cnts = heap[b].i_open_cnts - 1
           /\ heap'[b].next = heap[b].next
           /\ heap'[b].i_no = IF heap[b].i_open_cnts = 1 THEN Link ELSE heap[b].i_no
           /\ ListIsWhole' /\ FreeBlocks' /\ RootIsOpen'
           /\ Claims(b)' <= heap'[b].i_open_cnts
           /\ Claims(b)' > 0 => heap'[b].i_no # Link
<1>1. PICK n : n = heap[b].i_open_cnts
  OBVIOUS
<1>2. /\ Claims(b) \in Nat /\ Claims(b) >= 1 /\ (b = 1 => Claims(b) >= 2)
      /\ n \in Nat /\ Claims(b) <= n /\ heap[b].i_no # Link
  BY <1>1, UsedBlock
<1>3. LastClose(h, b) <=> n = 1
  BY <1>1 DEF LastClose
<1>4. heap' = [h EXCEPT ![b] = [h[b] EXCEPT !.i_open_cnts = n - 1,
                                            !.i_no = IF n = 1 THEN Link ELSE heap[b].i_no]]
  <2>1. h[b] \in Inode
    OBVIOUS
  <2>2. n # 0
    BY <1>2
  <2> QED BY <1>1, <1>3, <2>1, <2>2 DEF Closed, Inode
<1>5. n - 1 \in Nat
  BY <1>2
<1>6. /\ heap' \in [Address -> Inode]
      /\ \A a \in Address \ {b} : heap'[a] = heap[a]
      /\ heap'[b].i_open_cnts = n - 1 /\ heap'[b].next = heap[b].next
      /\ heap'[b].i_no = IF n = 1 THEN Link ELSE heap[b].i_no
  <2>1. heap[b].i_no \in Number \cup {Link}
    BY DEF Sound, Types, Inode
  <2>2. PICK i : i = IF n = 1 THEN Link ELSE heap[b].i_no
    OBVIOUS
  <2>3. i \in Number \cup {Link}
    BY <2>1, <2>2
  <2>4. PICK e : e = [h[b] EXCEPT !.i_open_cnts = n - 1, !.i_no = i]
    OBVIOUS
  <2>5. h[b] \in Inode
    OBVIOUS
  <2>6. e \in Inode /\ e.i_open_cnts = n - 1 /\ e.i_no = i /\ e.next = h[b].next
    BY ONLY <1>5, <2>3, <2>4, <2>5 DEF Inode
  <2>7. heap' = [h EXCEPT ![b] = e]
    BY <1>4, <2>2, <2>4
  <2>8. heap' \in [Address -> Inode] /\ heap'[b] = e /\ \A a \in Address \ {b} : heap'[a] = h[a]
    BY ONLY <2>6, <2>7, b \in Address, h \in [Address -> Inode]
  <2> QED BY <2>2, <2>6, <2>8
<1>7. ListIsWhole'
  <2>1. \A a \in Address : heap'[a].next = heap[a].next
    BY <1>6
  <2> QED BY <2>1, ListKept DEF Sound
<1>8. /\ free_list' \in Seq(Address) /\ FreeBlocks'
      /\ \A j, k \in 1 .. Len(free_list') : free_list'[j] = free_list'[k] => j = k
  <2>1. CASE n = 1
    <3>1. free_list' = Append(free_list, b)
      BY <1>3, <2>1 DEF FreedBy
    <3>2. ASSUME NEW k \in 1 .. Len(free_list')
          PROVE  heap'[free_list'[k]].i_no = Link
      <4>1. free_list'[k] = b
            \/ (free_list'[k] \in Address \ {b} /\ heap[free_list'[k]].i_no = Link)
        BY <1>2, <3>1, Returned
      <4> QED BY ONLY <1>6, <2>1, <4>1
    <3> QED BY <1>2, <3>1, <3>2, Returned DEF FreeBlocks
  <2>2. CASE n # 1
    <3>1. free_list' = free_list
      BY <1>3, <2>2 DEF FreedBy
    <3>2. FreeBlocks'
      BY <1>2, <1>6, <3>1, FreeKept
    <3> QED BY <3>1, <3>2 DEF Sound, Types
  <2> QED BY <2>1, <2>2
<1>9. RootIsOpen'
  <2>1. b = 1 => n # 1
    BY <1>2
  <2>2. heap[1].i_no = Root /\ 1 \in Address
    BY Constants DEF Sound, RootIsOpen
  <2> QED BY <1>6, <2>1, <2>2 DEF RootIsOpen
<1>10. Claims(b)' <= n - 1 /\ (Claims(b)' > 0 => heap'[b].i_no # Link)
  <2>1. Claims(b)' <= n - 1 /\ (Claims(b)' > 0 => n # 1)
    BY <1>2
  <2> QED BY <1>2, <1>6, <2>1
<1> QED BY <1>1, <1>6, <1>7, <1>8, <1>9, <1>10

(* A block that the step does not write to.                                *)
LEMMA SparedBlock ==
    ASSUME NEW a, heap'[a] = heap[a], SlotsWith(a)' \subseteq SlotsWith(a),
           heap[a].i_open_cnts \in Nat
    PROVE  Spared(a)
BY DEF Spared

---------------------------------------------------------------------------
(* The tables after a step                                                 *)

LEMMA Put ==
    ASSUME Types, NEW b \in Address, NEW e \in Inode, heap' = [heap EXCEPT ![b] = e]
    PROVE  /\ heap' \in [Address -> Inode] /\ heap'[b] = e
           /\ \A a \in Address \ {b} : heap'[a] = heap[a]
BY DEF Types

LEMMA Inodes ==
    ASSUME Types, NEW a \in Address
    PROVE  /\ heap[a] \in Inode
           /\ heap[a].i_no \in Number \cup {Link} /\ heap[a].i_open_cnts \in Nat
           /\ heap[a].write_deny \in BOOLEAN /\ heap[a].next \in Address \cup {NULL, TheTail}
<1>1. heap[a] \in Inode
  BY DEF Types
<1> QED BY <1>1 DEF Inode

LEMMA Zeroed == ZeroedInode \in Inode /\ EmptySlot \in [fd_inode : Address \cup {NULL}, writes : BOOLEAN]
BY Constants DEF ZeroedInode, Inode, EmptySlot

LEMMA FreeSlot ==
    ASSUME FreeSlots # {}
    PROVE  Min(FreeSlots) \in Slot /\ file_table[Min(FreeSlots)].fd_inode = NULL
<1>1. FreeSlots \subseteq Nat
  BY OpenFilesAssumption DEF FreeSlots, Slot
<1>2. Min(FreeSlots) \in FreeSlots
  BY <1>1, Smallest
<1> QED BY <1>2 DEF FreeSlots

LEMMA Installed ==
    ASSUME Types, NEW t \in Task, NEW slot \in Slot
    PROVE  /\ Install(t, slot) \in [Task -> [Fd -> Slot \cup {NoSlot}]]
           /\ \/ Install(t, slot) = fd_table
              \/ \E fd \in Fd : /\ fd_table[t][fd] = NoSlot
                                /\ Install(t, slot) = [fd_table EXCEPT ![t][fd] = slot]
<1>1. CASE FreeFds(t) = {}
  BY <1>1 DEF Install, Types
<1>2. CASE FreeFds(t) # {}
  <2>1. FreeFds(t) \subseteq Nat
    BY OpenFilesAssumption DEF FreeFds, Fd
  <2>2. PICK fd : fd = Min(FreeFds(t))
    OBVIOUS
  <2>3. fd \in FreeFds(t)
    BY <1>2, <2>1, <2>2, Smallest
  <2>4. fd \in Fd /\ fd_table[t][fd] = NoSlot /\ Install(t, slot) = [fd_table EXCEPT ![t][fd] = slot]
    BY <1>2, <2>2, <2>3 DEF FreeFds, Install
  <2>5. [fd_table EXCEPT ![t][fd] = slot] \in [Task -> [Fd -> Slot \cup {NoSlot}]]
    BY <2>4 DEF Types
  <2> QED BY <2>4, <2>5
<1> QED BY <1>1, <1>2

(* The slots of every inode when one slot is assigned.                     *)
LEMMA SlotsAfter ==
    ASSUME NEW slot \in Slot, NEW x, file_table'[slot].fd_inode = x,
           \A s \in Slot \ {slot} : file_table'[s].fd_inode = file_table[s].fd_inode
    PROVE  \A a : SlotsWith(a)' = IF a = x THEN SlotsWith(a) \cup {slot}
                                  ELSE SlotsWith(a) \ {slot}
BY DEF SlotsWith

LEMMA SlotsSame ==
    ASSUME file_table' = file_table
    PROVE  \A a : SlotsWith(a)' = SlotsWith(a)
BY DEF SlotsWith

(* The end of file_open.                                                   *)
LEMMA OpenedIs ==
    ASSUME Types, NEW t \in Task, NEW h \in [Address -> Inode], NEW b \in Address,
           NEW slot \in Slot, NEW writes \in BOOLEAN, FileOpened(t, h, b, slot, writes)
    PROVE  /\ heap' \in [Address -> Inode]
           /\ \A a \in Address \ {b} : heap'[a] = h[a]
           /\ heap'[b].i_no = h[b].i_no /\ heap'[b].next = h[b].next
           /\ heap'[b].i_open_cnts = h[b].i_open_cnts
           /\ fd_table' \in [Task -> [Fd -> Slot \cup {NoSlot}]]
           /\ \/ fd_table' = fd_table
              \/ \E fd \in Fd : /\ fd_table[t][fd] = NoSlot
                                /\ fd_table' = [fd_table EXCEPT ![t][fd] = slot]
<1>1. PICK w \in BOOLEAN : w = (h[b].write_deny \/ writes)
  BY DEF Inode
<1>2. PICK e : e = [h[b] EXCEPT !.write_deny = w]
  OBVIOUS
<1>3. h[b] \in Inode
  OBVIOUS
<1>4. e \in Inode /\ e.i_no = h[b].i_no /\ e.next = h[b].next /\ e.i_open_cnts = h[b].i_open_cnts
  BY ONLY <1>2, <1>3, w \in BOOLEAN DEF Inode
<1>5. heap' = [h EXCEPT ![b] = e]
  BY <1>1, <1>2, <1>3 DEF FileOpened, Inode
<1>6. heap' \in [Address -> Inode] /\ heap'[b] = e /\ \A a \in Address \ {b} : heap'[a] = h[a]
  BY ONLY <1>4, <1>5, b \in Address, h \in [Address -> Inode]
<1>7. fd_table' = fd_table \/ fd_table' = Install(t, slot)
  BY DEF FileOpened
<1>8. fd_table \in [Task -> [Fd -> Slot \cup {NoSlot}]]
  BY DEF Types
<1> QED BY ONLY <1>4, <1>6, <1>7, <1>8, Installed, Types, t \in Task, slot \in Slot

---------------------------------------------------------------------------
(* One task at a time: what a step of t on the block b leaves alone        *)

(* No other task is in a system call.                                      *)
Quiet(t) == \A u \in Task \ {t} : pc[u] \in {"run", "unborn", "done"} /\ local[u] = NoCall

Others(b) == \A a \in Address \ {b} : heap'[a] = heap[a] /\ SlotsWith(a)' = SlotsWith(a)

(* The invariant after a step.                                             *)
Kept == Sound' /\ (Orderly => Orderly')

LEMMA NoCallIs == NoCall.op = "none" /\ NoCall.inode = NULL /\ NoCall.slot = NoSlot
BY DEF NoCall

LEMMA IsQuiet ==
    ASSUME Sound, Orderly, alone, NEW t \in Task, InCall(t) \/ Idle(t)
    PROVE  Quiet(t)
<1>1. \A u \in Task : u # t => ~InCall(u)
  BY DEF Orderly, OneCall, Idle, InCall
<1>2. \A u \in Task : CallFits(u) /\ pc[u] \in {"unborn", "run", "reading", "using",
              "unnaming", "deleting", "naming", "syncing", "pushing", "counting", "done"}
  BY DEF Sound, Types
<1> QED BY <1>1, <1>2 DEF Quiet, InCall, CallFits

(* What remains to be shown of such a step.                                *)
LEMMA StepOrderly ==
    ASSUME NEW t \in Task, Moves(t), Quiet(t), ~panic', ExactCounts', InodesAreShared',
           Numbers', SlotsAreNamed', OwnSlots', AloneFits(t)'
    PROVE  Orderly'
<1>1. ASSUME NEW u \in Task, u # t
      PROVE  /\ pc'[u] \in {"run", "unborn", "done"} /\ local'[u] = NoCall
             /\ ~InCall(u)' /\ local'[u].op = "none"
  <2>1. pc'[u] \in {"run", "unborn", "done"} /\ local'[u] = NoCall
    BY <1>1 DEF Moves, Quiet
  <2> QED BY ONLY <2>1, NoCallIs DEF InCall
<1>2. OneCall'
  BY <1>1 DEF OneCall
<1>3. ASSUME NEW u \in Task, u # t PROVE AloneFits(u)'
  BY ONLY <1>1, <1>3, u \in Task DEF AloneFits, Holds
<1> QED BY <1>2, <1>3 DEF Orderly

LEMMA ExactStep ==
    ASSUME ExactCounts, NEW t \in Task, Moves(t), NEW b, Others(b),
           Holds(t) \/ Uses(t) => local[t].inode = b,
           Holds(t)' \/ Uses(t)' => local'[t].inode = b,
           b \in Address =>
              /\ heap'[b].i_open_cnts = IF b \in Held' THEN 0 ELSE Claims(b)'
              /\ heap'[b].i_open_cnts > 0 => heap'[b].next # NULL
              /\ b \notin Held' /\ heap'[b].i_open_cnts = 0 => heap'[b].i_no = Link
    PROVE  ExactCounts'
<1> SUFFICES ASSUME NEW a \in Address
             PROVE  /\ heap'[a].i_open_cnts = IF a \in Held' THEN 0 ELSE Claims(a)'
                    /\ heap'[a].i_open_cnts > 0 => heap'[a].next # NULL
                    /\ a \notin Held' /\ heap'[a].i_open_cnts = 0 => heap'[a].i_no = Link
  BY DEF ExactCounts
<1>1. CASE a = b
  BY <1>1
<1>2. CASE a # b
  <2>1. heap'[a] = heap[a] /\ SlotsWith(a)' = SlotsWith(a)
    BY <1>2 DEF Others
  <2>2. a \in Held <=> a \in Held'
    BY <1>2, HeldAfter
  <2>3. TasksWith(a)' = TasksWith(a)
    <3>1. t \notin TasksWith(a) /\ t \notin TasksWith(a)'
      BY <1>2, TasksAfter
    <3> QED BY <3>1, TasksAfter
  <2>4. Claims(a)' = Claims(a)
    BY <2>1, <2>3, ClaimsKept
  <2> QED BY <2>1, <2>2, <2>4 DEF ExactCounts
<1> QED BY <1>1, <1>2

LEMMA SharedStep ==
    ASSUME InodesAreShared, alone, NEW b, Others(b),
           b \in Address /\ heap'[b].i_open_cnts > 0 =>
               \A a \in Address \ {b} : heap[a].i_open_cnts > 0 => heap[a].i_no # heap'[b].i_no
    PROVE  InodesAreShared'
<1> SUFFICES ASSUME NEW a \in Address, NEW c \in Address,
                    heap'[a].i_open_cnts > 0, heap'[c].i_open_cnts > 0,
                    heap'[a].i_no = heap'[c].i_no, a # c
             PROVE  FALSE
  BY DEF InodesAreShared
<1>1. \A x \in Address \ {b} : heap'[x] = heap[x]
  BY DEF Others
<1>2. CASE a = b
  BY <1>1, <1>2
<1>3. CASE c = b
  BY <1>1, <1>3
<1>4. CASE a # b /\ c # b
  BY <1>1, <1>4 DEF InodesAreShared
<1> QED BY <1>2, <1>3, <1>4

(* The slots of the blocks other than b keep their inodes' numbers.        *)
LEMMA NamedStep ==
    ASSUME SlotsAreNamed, ~Creating, Types', NEW b, Others(b),
           \A s \in Slot :
              /\ file_table[s].fd_inode # NULL /\ file_table[s].fd_inode # b
              /\ heap[file_table[s].fd_inode].i_no \in named
              => heap[file_table[s].fd_inode].i_no \in named',
           b # NULL /\ ~Creating' /\ SlotsWith(b)' # {} => heap'[b].i_no \in named',
           Creating' => SlotsWith(b)' \subseteq {local'[main].slot}
    PROVE  SlotsAreNamed'
<1> SUFFICES ASSUME NEW s \in Slot, NEW a, a = file_table'[s].fd_inode, a # NULL,
                    ~(Creating' /\ s = local'[main].slot)
             PROVE  heap'[a].i_no \in named'
  BY DEF SlotsAreNamed
<1>1. a \in Address /\ s \in SlotsWith(a)'
  BY DEF Types, SlotsWith
<1>2. CASE a = b
  BY <1>1, <1>2
<1>3. CASE a # b
  <2>1. heap'[a] = heap[a] /\ s \in SlotsWith(a)
    BY <1>1, <1>3 DEF Others
  <2>2. file_table[s].fd_inode = a
    BY <2>1 DEF SlotsWith
  <2> QED BY <1>3, <2>1, <2>2 DEF SlotsAreNamed
<1> QED BY <1>2, <1>3

(* The call of t gets a slot that nobody names, or none.                   *)
LEMMA OwnSlotsKept ==
    ASSUME OwnSlots, NEW t \in Task, Moves(t), Quiet(t), UNCHANGED fd_table,
           \A u \in Task, fd \in Fd :
              fd_table[u][fd] # NoSlot => file_table'[fd_table[u][fd]].fd_inode # NULL,
           local'[t].op \in {"open", "create"} =>
              \A u \in Task, fd \in Fd : fd_table[u][fd] # local'[t].slot
    PROVE  OwnSlots'
<1>1. ASSUME NEW u \in Task, u # t
      PROVE  local'[u].op = "none"
  BY <1>1, NoCallIs DEF Moves, Quiet
<1> QED BY <1>1 DEF OwnSlots

LEMMA FitsOutside ==
    ASSUME NEW t \in Task, pc'[t] \in {"run", "unborn", "done"}, local'[t] = NoCall
    PROVE  AloneFits(t)'
<1>1. local'[t].op = "none"
  BY NoCallIs
<1> QED BY ONLY <1>1, pc'[t] \in {"run", "unborn", "done"} DEF AloneFits, Holds

(* A task begins a call: no other is in one.                               *)
LEMMA AloneIdle ==
    ASSUME Sound, alone, NEW t \in Task, Idle(t)
    PROVE  /\ ~Creating /\ Held = {} /\ \A a : TasksWith(a) = {}
           /\ \A u \in Task : pc[u] \in {"run", "unborn", "done"} /\ local[u] = NoCall
<1>1. \A u \in Task : pc[u] \in {"run", "unborn", "done"} /\ CallFits(u)
  BY DEF Idle, Sound
<1>2. \A u \in Task : local[u] = NoCall
  BY <1>1 DEF CallFits
<1> QED BY <1>1, <1>2, Constants DEF Creating, Held, Holds, TasksWith

(* A slot that is empty has no descriptor.                                 *)
LEMMA EmptyIsUnnamed ==
    ASSUME OwnSlots, NEW slot \in Slot, file_table[slot].fd_inode = NULL
    PROVE  \A u \in Task, fd \in Fd : fd_table[u][fd] # slot
BY Constants DEF OwnSlots

(* t's slot is installed, or it gets no descriptor.                        *)
LEMMA OwnSlotsInstalled ==
    ASSUME OwnSlots, Types, NEW t \in Task, NEW slot \in Slot,
           \/ fd_table' = fd_table
           \/ \E fd \in Fd : /\ fd_table[t][fd] = NoSlot
                             /\ fd_table' = [fd_table EXCEPT ![t][fd] = slot],
           \A u \in Task, fd \in Fd : fd_table[u][fd] # slot,
           file_table'[slot].fd_inode # NULL,
           \A s \in Slot \ {slot} : file_table'[s].fd_inode = file_table[s].fd_inode,
           \A u \in Task : local'[u].op \notin {"open", "create"}
    PROVE  OwnSlots'
<1>0. \A u \in Task, fd \in Fd : fd_table[u][fd] \in Slot \cup {NoSlot}
  BY DEF Types
<1>1. CASE fd_table' = fd_table
  BY <1>0, <1>1 DEF OwnSlots
<1>2. CASE \E fd \in Fd : /\ fd_table[t][fd] = NoSlot
                          /\ fd_table' = [fd_table EXCEPT ![t][fd] = slot]
  <2>1. PICK fd \in Fd : fd_table[t][fd] = NoSlot /\ fd_table' = [fd_table EXCEPT ![t][fd] = slot]
    BY <1>2
  <2>2. /\ fd_table'[t][fd] = slot
        /\ \A u \in Task, gd \in Fd : u # t \/ gd # fd => fd_table'[u][gd] = fd_table[u][gd]
    BY <2>1 DEF Types
  <2>3. ASSUME NEW u \in Task, NEW gd \in Fd, fd_table'[u][gd] # NoSlot
        PROVE  file_table'[fd_table'[u][gd]].fd_inode # NULL
    BY <1>0, <2>2, <2>3 DEF OwnSlots
  <2>4. ASSUME NEW u \in Task, NEW v \in Task, NEW gd \in Fd, NEW hd \in Fd,
               fd_table'[u][gd] # NoSlot, fd_table'[u][gd] = fd_table'[v][hd]
        PROVE  u = v /\ gd = hd
    BY <2>2, <2>4 DEF OwnSlots
  <2> QED BY <2>3, <2>4 DEF OwnSlots
<1> QED BY <1>1, <1>2

---------------------------------------------------------------------------
(* Every step keeps the invariant                                          *)

(* A task outside its calls, or after its call.                            *)
LEMMA Outside ==
    ASSUME Sound, NEW t \in Task, pc[t] \in {"run", "unborn", "done", "unnaming"}
    PROVE  ~Holds(t) /\ ~Uses(t)
BY DEF Holds, Uses

LEMMA Stays ==
    ASSUME Sound, NEW t \in Task, pc' = pc, local' = local
    PROVE  Moves(t) /\ CallFits(t)' /\ (Holds(t)' <=> Holds(t)) /\ (Uses(t)' <=> Uses(t))
<1>1. CallFits(t)
  BY DEF Sound
<1> QED BY <1>1 DEF Moves, CallFits, Holds, Uses

LEMMA Returns ==
    ASSUME Sound, NEW t \in Task, Return(t)
    PROVE  /\ pc' \in [Task -> {"unborn", "run", "reading", "using", "unnaming", "deleting",
                                "naming", "syncing", "pushing", "counting", "done"}]
           /\ local' \in [Task -> Call]
           /\ pc'[t] \in {"run", "done"} /\ local'[t] = NoCall
           /\ Moves(t) /\ CallFits(t)' /\ ~Holds(t)' /\ ~Uses(t)' /\ OwnBlock(t)'
<1>1. NoCall \in Call
  BY Constants DEF NoCall, Call
<1>2. pc \in [Task -> {"unborn", "run", "reading", "using", "unnaming", "deleting",
                       "naming", "syncing", "pushing", "counting", "done"}] /\ local \in [Task -> Call]
  BY DEF Sound, Types
<1>3. /\ pc' \in [Task -> {"unborn", "run", "reading", "using", "unnaming", "deleting",
                           "naming", "syncing", "pushing", "counting", "done"}]
      /\ local' \in [Task -> Call]
      /\ pc'[t] \in {"run", "done"} /\ local'[t] = NoCall /\ Moves(t)
  BY <1>1, <1>2 DEF Return, Moves
<1>4. ~Holds(t)' /\ ~Uses(t)'
  BY <1>3 DEF Holds, Uses
<1> QED BY <1>3, <1>4 DEF CallFits, NoCall, OwnBlock

(* t's call goes on with variables c.                                      *)
LEMMA GoesOn ==
    ASSUME Sound, NEW t \in Task, NEW c \in Call,
           NEW label \in {"reading", "using", "unnaming", "deleting", "naming", "syncing", "pushing", "counting"},
           Goto(t, label), local' = [local EXCEPT ![t] = c]
    PROVE  /\ pc' \in [Task -> {"unborn", "run", "reading", "using", "unnaming", "deleting",
                                "naming", "syncing", "pushing", "counting", "done"}]
           /\ local' \in [Task -> Call]
           /\ pc'[t] = label /\ local'[t] = c /\ Moves(t)
BY DEF Sound, Types, Moves

LEMMA OpenCachedKept ==
    ASSUME Sound, ~LateCounts, NEW t \in Process, NEW no \in File, NEW writes \in BOOLEAN,
           file_open(t, no, writes), OpenCached(t, no, writes)
    PROVE  Kept
<1>1. PICK slot : slot = Min(FreeSlots)
  OBVIOUS
<1>2. slot \in Slot /\ file_table[slot].fd_inode = NULL
  BY <1>1, FreeSlot DEF file_open
<1>3. no \in Number /\ t \in Task /\ Types
  BY Constants DEF Sound
<1>4. Found(no) /\ ~NotCounted(no)
  BY DEF OpenCached, file_open
<1>5. PICK b \in Address :
              /\ b = InodeOf(no) /\ b \notin Held
              /\ heap[b].i_no = no /\ heap[b].next # NULL /\ no # Link
              /\ \A u \in Task : Holds(u) => local[u].inode # b
              /\ Claims(b) <= heap[b].i_open_cnts /\ Claims(b) \in Nat
  BY <1>3, <1>4, FoundBlock
<1>6. PICK h : h = Count(b)
  OBVIOUS
<1>7. /\ file_table' = [file_table EXCEPT ![slot] = [fd_inode |-> b, writes |-> writes]]
      /\ FileOpened(t, h, b, slot, writes)
      /\ UNCHANGED <<free_list, first, pc, local, panic, hung, named, taken, table, alone>>
      /\ pc[t] = "run"
  BY <1>1, <1>5, <1>6 DEF OpenCached, file_open, Idle, At
<1>8. /\ h \in [Address -> Inode] /\ \A a \in Address \ {b} : h[a] = heap[a]
      /\ h[b].i_no = no /\ h[b].next = heap[b].next
      /\ h[b].i_open_cnts = heap[b].i_open_cnts + 1
  <2>1. heap \in [Address -> Inode] /\ heap[b] \in Inode
    BY <1>3 DEF Types
  <2> QED BY <1>5, <1>6, <2>1 DEF Count, Inode
<1>9. /\ heap' \in [Address -> Inode]
      /\ \A a \in Address \ {b} : heap'[a] = h[a]
      /\ heap'[b].i_no = h[b].i_no /\ heap'[b].next = h[b].next
      /\ heap'[b].i_open_cnts = h[b].i_open_cnts
      /\ fd_table' \in [Task -> [Fd -> Slot \cup {NoSlot}]]
      /\ \/ fd_table' = fd_table
         \/ \E fd \in Fd : /\ fd_table[t][fd] = NoSlot
                           /\ fd_table' = [fd_table EXCEPT ![t][fd] = slot]
  <2>1. t \in Task /\ slot \in Slot /\ Types /\ FileOpened(t, h, b, slot, writes)
        /\ h \in [Address -> Inode]
    BY <1>2, <1>3, <1>7, <1>8
  <2> QED BY ONLY <2>1, OpenedIs, writes \in BOOLEAN, b \in Address
<1>10. /\ file_table' \in [Slot -> [fd_inode : Address \cup {NULL}, writes : BOOLEAN]]
       /\ file_table'[slot].fd_inode = b
       /\ \A s \in Slot \ {slot} : file_table'[s].fd_inode = file_table[s].fd_inode
       /\ \A a : SlotsWith(a)' = IF a = b THEN SlotsWith(a) \cup {slot} ELSE SlotsWith(a) \ {slot}
  <2>1. /\ file_table' \in [Slot -> [fd_inode : Address \cup {NULL}, writes : BOOLEAN]]
        /\ file_table'[slot].fd_inode = b
        /\ \A s \in Slot \ {slot} : file_table'[s].fd_inode = file_table[s].fd_inode
    BY <1>2, <1>3, <1>7 DEF Types
  <2> QED BY ONLY <1>2, <2>1, SlotsAfter
<1>11. Types'
  BY <1>3, <1>7, <1>9, <1>10 DEF Types
<1>12. Moves(t) /\ CallFits(t)' /\ ~Holds(t) /\ ~Uses(t) /\ ~Holds(t)' /\ ~Uses(t)'
  BY <1>3, <1>7, Stays, Outside
<1>13. \A a \in Address \ {b} : Spared(a)
  BY <1>3, <1>8, <1>9, <1>10, SparedBlock, Inodes
<1>14. ListIsWhole'
  <2>1. \A a \in Address : heap'[a].next = heap[a].next
    BY <1>8, <1>9
  <2> QED BY <1>7, <2>1, ListKept DEF Sound
<1>15. FreeBlocks' /\ RootIsOpen'
  <2>1. \A a \in Address : heap'[a].i_no = heap[a].i_no
    BY <1>5, <1>8, <1>9
  <2> QED BY <1>7, <2>1, FreeKept, Constants DEF Sound, RootIsOpen
<1>16. Claims(b)' = Claims(b) + 1
  <2>1. TasksWith(b)' = TasksWith(b)
    BY <1>7 DEF TasksWith
  <2>2. slot \notin SlotsWith(b) /\ SlotsWith(b)' = SlotsWith(b) \cup {slot}
    BY <1>2, <1>10, Constants DEF SlotsWith
  <2> QED BY <2>1, <2>2, ClaimAdded
<1>17. Claims(b)' <= heap'[b].i_open_cnts /\ heap'[b].i_no # Link
  BY <1>3, <1>5, <1>8, <1>9, <1>16, Inodes
<1>18. OwnBlock(t)' /\ ~hung'
  BY <1>7, <1>12 DEF OwnBlock, Sound
<1>19. Sound'
  BY ONLY Sound, <1>3, <1>5, <1>11, <1>12, <1>13, <1>14, <1>15, <1>17, <1>18, StepSound
<1>20. ASSUME Orderly, alone
       PROVE  Orderly'
  <2>1. /\ ~panic /\ ExactCounts /\ InodesAreShared /\ Numbers /\ SlotsAreNamed /\ OwnSlots
        /\ Idle(t) /\ Quiet(t) /\ no \in named
    BY <1>3, <1>20, IsQuiet DEF Orderly, file_open
  <2>2. /\ ~Creating /\ Held = {}
        /\ \A u \in Task : pc[u] \in {"run", "unborn", "done"} /\ local[u] = NoCall
    BY <1>3, <1>20, <2>1, AloneIdle
  <2>3. Held' = {} /\ ~Creating'
    BY <1>7, <2>2 DEF Held, Holds, Creating
  <2>4. Others(b)
    <3>1. \A a \in Address : slot \notin SlotsWith(a)
      BY <1>2, Constants DEF SlotsWith
    <3> QED BY <1>8, <1>9, <1>10, <3>1 DEF Others
  <2>5. heap[b].i_open_cnts = Claims(b) /\ Claims(b) > 0
    BY <1>5, <2>1, <2>2 DEF ExactCounts
  <2>6. ExactCounts'
    <3>1. /\ heap'[b].i_open_cnts = Claims(b)' /\ heap'[b].next # NULL
          /\ heap'[b].i_open_cnts # 0
      BY <1>5, <1>8, <1>9, <1>16, <2>5
    <3> QED BY <1>3, <1>12, <2>1, <2>3, <2>4, <3>1, ExactStep
  <2>7. InodesAreShared'
    <3>1. \A a \in Address \ {b} : heap[a].i_open_cnts > 0 => heap[a].i_no # heap'[b].i_no
      BY <1>5, <1>8, <1>9, <1>20, <2>1, <2>5 DEF InodesAreShared
    <3> QED BY <1>20, <2>1, <2>4, <3>1, SharedStep
  <2>8. Numbers'
    BY <1>7, <2>1 DEF Numbers
  <2>9. SlotsAreNamed'
    <3>1. heap'[b].i_no \in named' /\ named' = named
      BY <1>7, <1>8, <1>9, <2>1
    <3> QED BY <1>11, <2>1, <2>2, <2>3, <2>4, <3>1, NamedStep
  <2>10. OwnSlots'
    <3>1. \A u \in Task : local'[u].op = "none"
      BY <1>7, <2>2, NoCallIs
    <3>2. file_table'[slot].fd_inode # NULL
      BY <1>10, Constants
    <3> QED BY <1>2, <1>3, <1>9, <1>10, <2>1, <3>1, <3>2, EmptyIsUnnamed, OwnSlotsInstalled
  <2>11. AloneFits(t)' /\ ~panic'
    BY <1>3, <1>7, <2>1, <2>2, FitsOutside
  <2> QED BY <1>3, <1>12, <2>1, <2>6, <2>7, <2>8, <2>9, <2>10, <2>11, StepOrderly
<1> QED BY <1>7, <1>19, <1>20 DEF Kept, Orderly

(* The types of what is not the kernel's heap.                             *)
Tables ==
    /\ file_table \in [Slot -> [fd_inode : Address \cup {NULL}, writes : BOOLEAN]]
    /\ fd_table \in [Task -> [Fd -> Slot \cup {NoSlot}]]
    /\ named \subseteq File /\ taken \subseteq Number
    /\ table \in [Number -> Number]
    /\ pc \in [Task -> {"unborn", "run", "reading", "using", "unnaming", "deleting",
                        "naming", "syncing", "pushing", "counting", "done"}]
    /\ local \in [Task -> Call]
    /\ alone \in BOOLEAN /\ panic \in BOOLEAN /\ hung \in BOOLEAN

LEMMA TypesAre ==
    ASSUME heap' \in [Address -> Inode], free_list' \in Seq(Address), first' \in Address,
           \A j, k \in 1 .. Len(free_list') : free_list'[j] = free_list'[k] => j = k,
           Tables'
    PROVE  Types'
BY DEF Types, Tables

LEMMA TablesAre == ASSUME Types PROVE Tables
BY DEF Types, Tables

(* t takes the block at the head of the free list.                         *)
LEMMA TakeSound ==
    ASSUME Sound, NEW t \in Task, Moves(t), ~Holds(t), ~Uses(t),
           free_list # <<>>, NEW x, x = Head(free_list), heap[x].next = NULL,
           NEW e \in Inode, e.next = NULL, e.i_no # Link, e.i_open_cnts = 0,
           heap' = [heap EXCEPT ![x] = e], free_list' = Tail(free_list),
           first' = first, ~hung', Tables',
           Holds(t)', pc'[t] # "counting", ~Uses(t)', local'[t].inode = x, CallFits(t)',
           t = main => e.i_no = local'[main].no,
           \A a \in Address \ {x} : SlotsWith(a)' \subseteq SlotsWith(a),
           \A s \in SlotsWith(x)' : t = main /\ s = local'[main].slot
    PROVE  Sound'
<1>0. Types
  BY DEF Sound
<1>1. /\ Tail(free_list) \in Seq(Address)
      /\ \A j, k \in 1 .. Len(Tail(free_list)) :
            Tail(free_list)[j] = Tail(free_list)[k] => j = k
  BY HeadBlock
<1>2. PICK b \in Address :
                /\ b = Head(free_list) /\ b \notin Held /\ b # 1
                /\ heap[b].next = NULL /\ heap[b].i_no = Link
                /\ \A u \in Task : Holds(u) => local[u].inode # b
                /\ SlotsWith(b) = {} /\ TasksWith(b) = {}
                /\ \A k \in 1 .. Len(Tail(free_list)) :
                      /\ Tail(free_list)[k] \in Address /\ Tail(free_list)[k] # b
                      /\ heap[Tail(free_list)[k]].i_no = Link
  BY HeadBlock
<1>3. heap' \in [Address -> Inode] /\ heap'[b] = e /\ \A a \in Address \ {b} : heap'[a] = heap[a]
  BY <1>0, <1>2, Put
<1>4. Types'
  BY <1>0, <1>1, <1>3, TypesAre DEF Types
<1>5. FreeBlocks'
  BY <1>2, <1>3 DEF FreeBlocks
<1>6. RootIsOpen'
  BY <1>2, <1>3, Constants DEF RootIsOpen, Sound
<1>7. ListIsWhole'
  <2>1. \A a \in Address : heap'[a].next = heap[a].next
    BY <1>2, <1>3
  <2> QED BY <2>1, ListKept DEF Sound
<1>8. \A a \in Address \ {b} : Spared(a)
  BY <1>0, <1>2, <1>3, SparedBlock, Inodes
<1>9. OwnBlock(t)'
  <2>1. TasksWith(b)' = {}
    <3>1. t \notin TasksWith(b)'
      BY <1>2, TasksAfter
    <3> QED BY <1>2, <3>1, TasksAfter
  <2>2. ASSUME NEW u \in Task, u # t, Holds(u)'
        PROVE  local'[u].inode # b
    BY <1>2, <2>2 DEF Moves, Holds
  <2>3. /\ b = local'[t].inode /\ heap'[b].next = NULL /\ heap'[b].i_no # Link
        /\ heap'[b].i_open_cnts = 0 /\ (t = main => heap'[b].i_no = local'[main].no)
        /\ pc'[t] # "counting"
    BY <1>2, <1>3
  <2>4. \A s \in SlotsWith(b)' : t = main /\ s = local'[main].slot
    BY <1>2
  <2> QED BY ONLY <1>2, <2>1, <2>2, <2>3, <2>4 DEF OwnBlock
<1>10. b \in Held'
  BY <1>2, HeldIs
<1> QED BY <1>2, <1>4, <1>5, <1>6, <1>7, <1>8, <1>9, <1>10, StepSound

LEMMA TakeExact ==
    ASSUME Sound, ExactCounts, InodesAreShared, alone, NEW t \in Task, Moves(t),
           ~Holds(t), ~Uses(t), free_list # <<>>, NEW x, x = Head(free_list), heap[x].next = NULL,
           NEW e \in Inode, e.i_open_cnts = 0, heap' = [heap EXCEPT ![x] = e],
           Holds(t)', ~Uses(t)', local'[t].inode = x,
           \A a \in Address \ {x} : SlotsWith(a)' = SlotsWith(a)
    PROVE  /\ Others(x) /\ ExactCounts' /\ InodesAreShared'
           /\ \A no : ~Found(no) => \A c \in Address : heap'[c].i_open_cnts > 0 => heap'[c].i_no # no
<1>1. x \in Address /\ Types /\ x \in Held'
  BY HeadBlock, HeldIs DEF Sound
<1>2. heap'[x] = e /\ \A a \in Address \ {x} : heap'[a] = heap[a]
  BY <1>1, Put
<1>3. Others(x)
  BY <1>2 DEF Others
<1>4. ExactCounts'
  BY <1>1, <1>2, <1>3, ExactStep
<1>5. InodesAreShared'
  BY <1>2, <1>3, SharedStep
<1>6. ASSUME NEW no, ~Found(no), NEW c \in Address, heap'[c].i_open_cnts > 0
      PROVE  heap'[c].i_no # no
  <2>1. c # x /\ heap'[c] = heap[c]
    BY <1>2, <1>6
  <2>2. heap[c].next # NULL
    BY <1>6, <2>1 DEF ExactCounts
  <2> QED BY <1>6, <2>1, <2>2, Search DEF Sound
<1> QED BY <1>3, <1>4, <1>5, <1>6

(* The names, when t is not main and names or removes no file but one that *)
(* is open nowhere.                                                        *)
LEMMA NamesStep ==
    ASSUME Sound, Sound', Orderly, alone, NEW t \in Process, Quiet(t), Moves(t),
           NEW no, UNCHANGED <<taken, table>>, named' = named \/ (named' = named \ {no} /\ ~InUse(no)),
           NEW b, Others(b), SlotsWith(b)' # {} /\ b # NULL => heap'[b].i_no \in named'
    PROVE  ~Creating /\ ~Creating' /\ Numbers' /\ SlotsAreNamed'
<1>1. main \in Task \ {t} /\ Numbers /\ SlotsAreNamed /\ Types'
  BY Constants DEF Orderly, Sound
<1>2. pc[main] \in {"run", "unborn", "done"} /\ pc'[main] \in {"run", "unborn", "done"}
  BY <1>1 DEF Quiet, Moves
<1>3. ~Creating /\ ~Creating'
  BY <1>2 DEF Creating
<1>4. named' \subseteq named
  OBVIOUS
<1>5. Numbers'
  BY ONLY <1>1, <1>2, <1>4, UNCHANGED <<taken, table>> DEF Numbers
<1>6. ASSUME NEW s \in Slot, file_table[s].fd_inode # NULL,
             heap[file_table[s].fd_inode].i_no \in named
      PROVE  heap[file_table[s].fd_inode].i_no \in named'
  BY <1>6 DEF InUse
<1>7. SlotsAreNamed'
  BY <1>1, <1>3, <1>6, NamedStep
<1> QED BY <1>3, <1>5, <1>7

(* How t comes to open an inode for itself.                                *)
Wants(t, op, no) ==
    \/ op \in {"dir", "stat"} /\ Idle(t) /\ no \in named \cup {Root} /\ named' = named
    \/ op = "unlink" /\ At(t, "unnaming") /\ no = local[t].no /\ named' = named \ {no}

LEMMA WantsIs ==
    ASSUME Sound, NEW t \in Process, NEW op, NEW no \in Number, Wants(t, op, no)
    PROVE  /\ op = "unlink" => no \in File
           /\ named' \subseteq File /\ pc[t] \in {"run", "unnaming"}
<1>1. named \subseteq File /\ t \in Task
  BY Constants DEF Sound, Types
<1> QED BY <1>1 DEF Wants, Idle, At, Sound, CallFits

LEMMA AloneWants ==
    ASSUME Sound, Orderly, alone, NEW t \in Process, NEW op, NEW no \in Number, Wants(t, op, no)
    PROVE  /\ Quiet(t) /\ table[no] = no
           /\ named' = named \/ (named' = named \ {no} /\ ~InUse(no))
           /\ op = "unlink" => no \notin named'
<1>1. t \in Task /\ main \in Task \ {t} /\ Numbers /\ AloneFits(t)
  BY Constants DEF Orderly
<1>2. Quiet(t)
  BY <1>1, IsQuiet DEF Wants, InCall, At
<1>3. pc[main] \in {"run", "unborn", "done"}
  BY <1>1, <1>2 DEF Quiet
<1> QED BY <1>1, <1>2, <1>3 DEF Wants, Numbers, AloneFits, At

LEMMA StartReadKept ==
    ASSUME Sound, ~Reuse, NEW t \in Process, NEW op \in {"dir", "stat", "unlink"},
           NEW no \in Number, Wants(t, op, no),
           StartRead(t, op, no), UNCHANGED <<files, taken, table, alone>>
    PROVE  Kept
<1>0. (op = "unlink" => no \in File) /\ named' \subseteq File /\ pc[t] \in {"run", "unnaming"}
  BY WantsIs
<1>1. PICK x : x = Head(free_list)
  OBVIOUS
<1>2. PICK c : c = [NoCall EXCEPT !.op = op, !.no = no, !.inode = x]
  OBVIOUS
<1>3. /\ free_list # <<>> /\ heap[x].next = NULL
      /\ heap' = [heap EXCEPT ![x] = ZeroedInode] /\ free_list' = Tail(free_list)
      /\ local' = [local EXCEPT ![t] = c] /\ Goto(t, "reading")
      /\ UNCHANGED <<first, panic, hung>> /\ ~Found(no)
  BY <1>1, <1>2 DEF StartRead, Miss, TakeBlock
<1>4. x \in Address /\ t \in Task /\ t # main /\ Types
  BY <1>1, <1>3, HeadBlock, Constants DEF Sound
<1>5. c \in Call /\ c.op = op /\ c.no = no /\ c.inode = x
  BY <1>2, <1>4, Constants DEF NoCall, Call
<1>6. /\ pc' \in [Task -> {"unborn", "run", "reading", "using", "unnaming", "deleting",
                           "naming", "syncing", "pushing", "counting", "done"}]
      /\ local' \in [Task -> Call]
      /\ pc'[t] = "reading" /\ local'[t] = c /\ Moves(t)
  BY <1>3, <1>4, <1>5, GoesOn
<1>7. Tables'
  <2>1. Tables
    BY <1>4, TablesAre
  <2> QED BY <1>0, <1>3, <1>6, <2>1 DEF Tables
<1>8. Holds(t)' /\ ~Uses(t)' /\ ~Holds(t) /\ ~Uses(t)
  BY <1>0, <1>6 DEF Holds, Uses
<1>9. CallFits(t)'
  BY <1>0, <1>4, <1>5, <1>6 DEF CallFits
<1>10. /\ ZeroedInode \in Inode /\ ZeroedInode.next = NULL
       /\ ZeroedInode.i_no # Link /\ ZeroedInode.i_open_cnts = 0
  BY Zeroed, LinkIsNoNumber, Constants DEF ZeroedInode
<1>11. \A a : SlotsWith(a)' = SlotsWith(a)
  BY SlotsSame
<1>12. SlotsWith(x) = {} /\ ~hung'
  BY <1>1, <1>3, HeadBlock DEF Sound
<1>13. Sound'
  BY <1>1, <1>3, <1>4, <1>5, <1>6, <1>7, <1>8, <1>9, <1>10, <1>11, <1>12, TakeSound
<1>14. ASSUME Orderly, alone
       PROVE  Orderly'
  <2>1. /\ ~panic /\ ExactCounts /\ InodesAreShared /\ OwnSlots
        /\ Quiet(t) /\ table[no] = no /\ (op = "unlink" => no \notin named')
        /\ named' = named \/ (named' = named \ {no} /\ ~InUse(no))
    BY <1>14, AloneWants DEF Orderly
  <2>2. /\ Others(x) /\ ExactCounts' /\ InodesAreShared'
        /\ \A a \in Address : heap'[a].i_open_cnts > 0 => heap'[a].i_no # no
    BY <1>1, <1>3, <1>4, <1>5, <1>6, <1>8, <1>10, <1>11, <1>14, <2>1, TakeExact
  <2>3. Numbers' /\ SlotsAreNamed'
    BY <1>6, <1>11, <1>12, <1>13, <1>14, <2>1, <2>2, NamesStep
  <2>4. OwnSlots'
    <3>1. \A u \in Task, fd \in Fd :
              fd_table[u][fd] # NoSlot => file_table'[fd_table[u][fd]].fd_inode # NULL
      BY <2>1 DEF OwnSlots
    <3> QED BY <1>4, <1>5, <1>6, <2>1, <3>1, OwnSlotsKept
  <2>5. AloneFits(t)'
    BY <1>5, <1>6, <2>1, <2>2 DEF AloneFits
  <2> QED BY <1>3, <1>4, <1>6, <2>1, <2>2, <2>3, <2>4, <2>5, StepOrderly
<1> QED BY <1>13, <1>14 DEF Kept, Orderly

LEMMA OpenReadsKept ==
    ASSUME Sound, ~Reuse, NEW t \in Process, NEW no \in File, NEW writes \in BOOLEAN,
           file_open(t, no, writes), OpenReads(t, no, writes)
    PROVE  Kept
<1>0. PICK slot : slot = Min(FreeSlots)
  OBVIOUS
<1>1. PICK x : x = Head(free_list)
  OBVIOUS
<1>2. PICK c : c = [op |-> "open", no |-> no, inode |-> x, slot |-> slot, writes |-> writes]
  OBVIOUS
<1>3. /\ free_list # <<>> /\ heap[x].next = NULL
      /\ heap' = [heap EXCEPT ![x] = ZeroedInode] /\ free_list' = Tail(free_list)
      /\ local' = [local EXCEPT ![t] = c] /\ Goto(t, "reading")
      /\ file_table' = [file_table EXCEPT ![slot].writes = writes]
      /\ UNCHANGED <<first, fd_table, named, taken, table, alone, panic, hung>>
      /\ pc[t] = "run" /\ ~Found(no)
  BY <1>0, <1>1, <1>2 DEF OpenReads, Miss, TakeBlock, file_open, Idle, At
<1>4. x \in Address /\ t \in Task /\ t # main /\ Types /\ slot \in Slot
  BY <1>0, <1>1, <1>3, HeadBlock, FreeSlot, Constants DEF Sound, file_open
<1>5. c \in Call /\ c.op = "open" /\ c.inode = x /\ c.slot = slot /\ c.no = no
  BY <1>2, <1>4, Constants DEF Call
<1>6. /\ pc' \in [Task -> {"unborn", "run", "reading", "using", "unnaming", "deleting",
                           "naming", "syncing", "pushing", "counting", "done"}]
      /\ local' \in [Task -> Call]
      /\ pc'[t] = "reading" /\ local'[t] = c /\ Moves(t)
  BY <1>3, <1>4, <1>5, GoesOn
<1>7. /\ file_table' \in [Slot -> [fd_inode : Address \cup {NULL}, writes : BOOLEAN]]
      /\ \A s \in Slot : file_table'[s].fd_inode = file_table[s].fd_inode
  BY <1>3, <1>4 DEF Types
<1>8. Tables'
  <2>1. Tables
    BY <1>4, TablesAre
  <2> QED BY <1>3, <1>6, <1>7, <2>1 DEF Tables
<1>9. Holds(t)' /\ ~Uses(t)' /\ ~Holds(t) /\ ~Uses(t)
  BY <1>3, <1>6 DEF Holds, Uses
<1>10. CallFits(t)'
  BY <1>4, <1>5, <1>6 DEF CallFits
<1>11. /\ ZeroedInode \in Inode /\ ZeroedInode.next = NULL
       /\ ZeroedInode.i_no # Link /\ ZeroedInode.i_open_cnts = 0
  BY Zeroed, LinkIsNoNumber, Constants DEF ZeroedInode
<1>12. \A a : SlotsWith(a)' = SlotsWith(a)
  BY <1>7 DEF SlotsWith
<1>13. SlotsWith(x) = {} /\ ~hung'
  BY <1>1, <1>3, HeadBlock DEF Sound
<1>14. Sound'
  BY <1>1, <1>3, <1>4, <1>5, <1>6, <1>8, <1>9, <1>10, <1>11, <1>12, <1>13, TakeSound
<1>15. ASSUME Orderly, alone
       PROVE  Orderly'
  <2>1. /\ ~panic /\ ExactCounts /\ InodesAreShared /\ OwnSlots /\ Numbers /\ Quiet(t)
        /\ no \in named /\ file_table[slot].fd_inode = NULL
    BY <1>0, <1>4, <1>15, IsQuiet, FreeSlot DEF Orderly, file_open
  <2>2. /\ Others(x) /\ ExactCounts' /\ InodesAreShared'
        /\ \A a \in Address : heap'[a].i_open_cnts > 0 => heap'[a].i_no # no
    BY <1>1, <1>3, <1>4, <1>5, <1>6, <1>9, <1>11, <1>12, <1>15, <2>1, TakeExact
  <2>3. Numbers' /\ SlotsAreNamed'
    BY <1>3, <1>6, <1>12, <1>13, <1>14, <1>15, <2>1, <2>2, NamesStep
  <2>4. OwnSlots'
    <3>1. \A u \in Task, fd \in Fd :
              fd_table[u][fd] # NoSlot => file_table'[fd_table[u][fd]].fd_inode # NULL
      <4>1. \A u \in Task, fd \in Fd : fd_table[u][fd] \in Slot \cup {NoSlot}
        BY <1>4 DEF Types
      <4> QED BY <1>7, <2>1, <4>1 DEF OwnSlots
    <3>2. \A u \in Task, fd \in Fd : fd_table[u][fd] # local'[t].slot
      BY <1>4, <1>5, <1>6, <2>1, EmptyIsUnnamed
    <3> QED BY <1>3, <1>4, <1>6, <2>1, <3>1, <3>2, OwnSlotsKept
  <2>5. table[no] = no
    <3>1. pc[main] \in {"run", "unborn", "done"}
      BY <1>4, <2>1, Constants DEF Quiet
    <3> QED BY <2>1, <3>1 DEF Numbers
  <2>6. AloneFits(t)'
    BY <1>3, <1>4, <1>5, <1>6, <1>7, <2>1, <2>2, <2>5 DEF AloneFits
  <2> QED BY <1>3, <1>4, <1>6, <2>1, <2>2, <2>3, <2>4, <2>6, StepOrderly
<1> QED BY <1>3, <1>14, <1>15 DEF Kept, Orderly

LEMMA CreateKept ==
    ASSUME Sound, ~Reuse, NEW no \in File, NEW writes \in BOOLEAN, file_create(no, writes)
    PROVE  Kept
<1>0. PICK slot : slot = Min(FreeSlots)
  OBVIOUS
<1>1. PICK x : x = Head(free_list)
  OBVIOUS
<1>2. PICK c : c = [op |-> "create", no |-> no, inode |-> x, slot |-> slot, writes |-> writes]
  OBVIOUS
<1>3. PICK e : e = [ZeroedInode EXCEPT !.i_no = no]
  OBVIOUS
<1>4. /\ free_list # <<>> /\ heap[x].next = NULL
      /\ heap' = [heap EXCEPT ![x] = e] /\ free_list' = Tail(free_list)
      /\ local' = [local EXCEPT ![main] = c] /\ Goto(main, "naming")
      /\ file_table' = [file_table EXCEPT ![slot] = [fd_inode |-> x, writes |-> writes]]
      /\ taken' = taken \cup {no}
      /\ UNCHANGED <<first, fd_table, named, table, alone, panic, hung>>
      /\ pc[main] = "run"
  BY <1>0, <1>1, <1>2, <1>3 DEF file_create, Idle, At
<1>5. x \in Address /\ main \in Task /\ Types /\ slot \in Slot /\ no \in Number
  BY <1>0, <1>1, <1>4, HeadBlock, FreeSlot, Constants DEF Sound, file_create
<1>6. c \in Call /\ c.op = "create" /\ c.inode = x /\ c.slot = slot /\ c.no = no
  BY <1>2, <1>5, Constants DEF Call
<1>7. /\ pc' \in [Task -> {"unborn", "run", "reading", "using", "unnaming", "deleting",
                           "naming", "syncing", "pushing", "counting", "done"}]
      /\ local' \in [Task -> Call]
      /\ pc'[main] = "naming" /\ local'[main] = c /\ Moves(main)
  BY <1>4, <1>5, <1>6, GoesOn
<1>8. /\ file_table' \in [Slot -> [fd_inode : Address \cup {NULL}, writes : BOOLEAN]]
      /\ file_table'[slot].fd_inode = x
      /\ \A s \in Slot \ {slot} : file_table'[s].fd_inode = file_table[s].fd_inode
  BY <1>4, <1>5 DEF Types
<1>9. Tables'
  <2>1. Tables
    BY <1>5, TablesAre
  <2> QED BY <1>4, <1>5, <1>7, <1>8, <2>1 DEF Tables
<1>10. Holds(main)' /\ ~Uses(main)' /\ ~Holds(main) /\ ~Uses(main)
  BY <1>4, <1>7 DEF Holds, Uses
<1>11. CallFits(main)'
  BY <1>5, <1>6, <1>7 DEF CallFits
<1>12. e \in Inode /\ e.next = NULL /\ e.i_no = no /\ e.i_no # Link /\ e.i_open_cnts = 0
  BY <1>3, <1>5, LinkIsNoNumber DEF ZeroedInode, Inode
<1>13. \A a : SlotsWith(a)' = IF a = x THEN SlotsWith(a) \cup {slot} ELSE SlotsWith(a) \ {slot}
  BY ONLY <1>5, <1>8, SlotsAfter
<1>14. SlotsWith(x) = {} /\ ~hung'
  BY <1>1, <1>4, HeadBlock DEF Sound
<1>15. /\ \A a \in Address \ {x} : SlotsWith(a)' \subseteq SlotsWith(a)
       /\ \A s \in SlotsWith(x)' : s = local'[main].slot
  BY <1>6, <1>7, <1>13, <1>14
<1>16. Sound'
  BY <1>1, <1>4, <1>5, <1>6, <1>7, <1>9, <1>10, <1>11, <1>12, <1>14, <1>15, TakeSound
<1>17. ASSUME Orderly, alone
       PROVE  Orderly'
  <2>1. /\ ~panic /\ ExactCounts /\ InodesAreShared /\ OwnSlots /\ Numbers /\ SlotsAreNamed
        /\ Idle(main) /\ Quiet(main) /\ no \notin taken /\ file_table[slot].fd_inode = NULL
    BY <1>0, <1>5, <1>17, IsQuiet, FreeSlot DEF Orderly, file_create
  <2>2. ~Creating /\ Held = {} /\ \A a : TasksWith(a) = {}
    BY <1>5, <1>17, <2>1, AloneIdle
  <2>3. \A a \in Address \ {x} : SlotsWith(a)' = SlotsWith(a)
    <3>1. \A a \in Address : slot \notin SlotsWith(a)
      BY <2>1, Constants DEF SlotsWith
    <3> QED BY <1>13, <3>1
  <2>4. Others(x) /\ ExactCounts' /\ InodesAreShared'
    BY <1>1, <1>4, <1>5, <1>6, <1>7, <1>10, <1>12, <1>17, <2>1, <2>3, TakeExact
  <2>5. heap'[x] = e /\ \A a \in Address \ {x} : heap'[a] = heap[a]
    BY <1>4, <1>5, <1>12, Put
  <2>6. ASSUME NEW a \in Address, heap'[a].i_open_cnts > 0
        PROVE  heap'[a].i_no # no
    <3>1. a # x /\ heap'[a] = heap[a] /\ heap[a].i_open_cnts = Claims(a)
      BY <1>12, <2>1, <2>2, <2>5, <2>6 DEF ExactCounts
    <3>2. SlotsWith(a) # {} \/ a = 1
      BY <2>2, <2>6, <3>1, ClaimsIs
    <3>3. CASE a = 1
      BY <2>1, <3>1, <3>3 DEF Sound, RootIsOpen, Numbers
    <3>4. CASE SlotsWith(a) # {}
      <4>1. PICK s \in Slot : file_table[s].fd_inode = a
        BY <3>4 DEF SlotsWith
      <4>2. heap[a].i_no \in named
        BY <2>1, <2>2, <4>1, Constants DEF SlotsAreNamed
      <4> QED BY <2>1, <3>1, <4>2 DEF Numbers
    <3> QED BY <3>2, <3>3, <3>4
  <2>7. Numbers'
    BY <1>4, <1>7, <2>1 DEF Numbers
  <2>8. SlotsAreNamed'
    <3>1. Creating' /\ SlotsWith(x)' \subseteq {local'[main].slot} /\ Types'
      BY <1>7, <1>15, <1>16 DEF Creating, Sound
    <3> QED BY <1>4, <2>1, <2>2, <2>4, <3>1, NamedStep
  <2>9. OwnSlots'
    <3>1. \A u \in Task, fd \in Fd :
              fd_table[u][fd] # NoSlot => file_table'[fd_table[u][fd]].fd_inode # NULL
      <4>1. \A u \in Task, fd \in Fd : fd_table[u][fd] \in Slot \cup {NoSlot}
        BY <1>5 DEF Types
      <4> QED BY <1>5, <1>8, <2>1, <4>1, Constants DEF OwnSlots
    <3>2. \A u \in Task, fd \in Fd : fd_table[u][fd] # local'[main].slot
      BY <1>5, <1>6, <1>7, <2>1, EmptyIsUnnamed
    <3> QED BY <1>4, <1>5, <1>7, <2>1, <3>1, <3>2, OwnSlotsKept
  <2>10. AloneFits(main)'
    <3>1. no \in taken' /\ no \notin named'
      BY <1>4, <2>1 DEF Numbers
    <3>2. file_table'[local'[main].slot].fd_inode = local'[main].inode
          /\ heap'[local'[main].inode].i_no = no
      BY <1>6, <1>7, <1>8, <1>12, <2>5
    <3> QED BY ONLY <1>6, <1>7, <2>6, <3>1, <3>2 DEF AloneFits
  <2> QED BY <1>4, <1>5, <1>7, <2>1, <2>4, <2>7, <2>8, <2>9, <2>10, StepOrderly
<1> QED BY <1>4, <1>16, <1>17 DEF Kept, Orderly

LEMMA UseKept ==
    ASSUME Sound, NEW t \in Process, NEW op \in {"dir", "unlink"}, NEW no \in Number,
           Wants(t, op, no), Use(t, op, no), ~NotCounted(no),
           UNCHANGED <<files, taken, table, alone>>
    PROVE  Kept
<1>0. (op = "unlink" => no \in File) /\ named' \subseteq File /\ pc[t] \in {"run", "unnaming"}
  BY WantsIs
<1>1. no \in Number /\ t \in Task /\ t # main /\ Types /\ Found(no)
  BY Constants DEF Sound, Use
<1>2. PICK b \in Address :
              /\ b = InodeOf(no) /\ b \notin Held
              /\ heap[b].i_no = no /\ heap[b].next # NULL /\ no # Link
              /\ \A u \in Task : Holds(u) => local[u].inode # b
              /\ Claims(b) <= heap[b].i_open_cnts /\ Claims(b) \in Nat
  BY <1>1, FoundBlock
<1>3. PICK c : c = [NoCall EXCEPT !.op = op, !.no = no, !.inode = b]
  OBVIOUS
<1>4. /\ heap' = Count(b) /\ local' = [local EXCEPT ![t] = c] /\ Goto(t, "using")
      /\ UNCHANGED <<free_list, first, panic, hung>>
  BY <1>2, <1>3 DEF Use
<1>5. /\ heap' \in [Address -> Inode] /\ \A a \in Address \ {b} : heap'[a] = heap[a]
      /\ heap'[b].i_no = heap[b].i_no /\ heap'[b].next = heap[b].next
      /\ heap'[b].i_open_cnts = heap[b].i_open_cnts + 1
  <2>1. heap \in [Address -> Inode] /\ heap[b] \in Inode
    BY <1>1 DEF Types
  <2> QED BY <1>4, <2>1 DEF Count, Inode
<1>6. c \in Call /\ c.op = op /\ c.no = no /\ c.inode = b
  BY <1>3, Constants DEF NoCall, Call
<1>7. /\ pc' \in [Task -> {"unborn", "run", "reading", "using", "unnaming", "deleting",
                           "naming", "syncing", "pushing", "counting", "done"}]
      /\ local' \in [Task -> Call]
      /\ pc'[t] = "using" /\ local'[t] = c /\ Moves(t)
  BY <1>1, <1>4, <1>6, GoesOn
<1>8. Tables'
  <2>1. Tables
    BY <1>1, TablesAre
  <2> QED BY <1>0, <1>4, <1>7, <2>1 DEF Tables
<1>9. Types'
  BY <1>1, <1>4, <1>5, <1>8, TypesAre DEF Types
<1>10. ~Holds(t)' /\ Uses(t)' /\ ~Holds(t) /\ ~Uses(t)
  BY <1>0, <1>7 DEF Holds, Uses
<1>11. CallFits(t)'
  BY <1>0, <1>1, <1>6, <1>7 DEF CallFits
<1>12. \A a : SlotsWith(a)' = SlotsWith(a)
  BY SlotsSame
<1>13. \A a \in Address \ {b} : Spared(a)
  BY <1>1, <1>5, <1>12, SparedBlock, Inodes
<1>14. ListIsWhole'
  <2>1. \A a \in Address : heap'[a].next = heap[a].next
    BY <1>5
  <2> QED BY <1>4, <2>1, ListKept DEF Sound
<1>15. FreeBlocks' /\ RootIsOpen'
  <2>1. \A a \in Address : heap'[a].i_no = heap[a].i_no
    BY <1>5
  <2> QED BY <1>4, <2>1, FreeKept, Constants DEF Sound, RootIsOpen
<1>16. Claims(b)' = Claims(b) + 1
  <2>1. t \notin TasksWith(b) /\ t \in TasksWith(b)'
    BY <1>1, <1>6, <1>7, <1>10, TasksAfter
  <2>2. TasksWith(b) \ {t} = TasksWith(b)' \ {t}
    BY <1>1, <1>7, TasksAfter
  <2>3. TasksWith(b)' = TasksWith(b) \cup {t}
    BY ONLY <2>1, <2>2
  <2> QED BY <1>12, <2>1, <2>3, ClaimAdded
<1>17. Claims(b)' <= heap'[b].i_open_cnts /\ heap'[b].i_no # Link
  BY <1>1, <1>2, <1>5, <1>16, Inodes
<1>18. OwnBlock(t)' /\ ~hung'
  BY <1>4, <1>10 DEF OwnBlock, Sound
<1>19. Sound'
  BY ONLY Sound, <1>1, <1>2, <1>6, <1>7, <1>9, <1>10, <1>11, <1>13, <1>14, <1>15, <1>17, <1>18,
          StepSound
<1>20. ASSUME Orderly, alone
       PROVE  Orderly'
  <2>1. /\ ~panic /\ ExactCounts /\ InodesAreShared /\ OwnSlots
        /\ Quiet(t) /\ (op = "unlink" => no \notin named')
        /\ named' = named \/ (named' = named \ {no} /\ ~InUse(no))
    BY <1>20, AloneWants DEF Orderly
  <2>2. Others(b)
    BY <1>5, <1>12 DEF Others
  <2>3. heap[b].i_open_cnts = Claims(b) /\ Claims(b) > 0
    BY <1>2, <2>1 DEF ExactCounts
  <2>4. b \notin Held'
    <3>1. ASSUME NEW u \in Task, Holds(u)' PROVE local'[u].inode # b
      BY <1>2, <1>7, <1>10, <3>1 DEF Moves, Holds
    <3> QED BY <3>1, HeldIs
  <2>5. ExactCounts'
    <3>1. /\ heap'[b].i_open_cnts = Claims(b)' /\ heap'[b].next # NULL
          /\ heap'[b].i_open_cnts # 0
      BY <1>2, <1>5, <1>16, <2>3
    <3> QED BY <1>1, <1>6, <1>7, <1>10, <2>1, <2>2, <2>4, <3>1, ExactStep
  <2>6. InodesAreShared'
    <3>1. \A a \in Address \ {b} : heap[a].i_open_cnts > 0 => heap[a].i_no # heap'[b].i_no
      BY <1>2, <1>5, <1>20, <2>1, <2>3 DEF InodesAreShared
    <3> QED BY <1>20, <2>1, <2>2, <3>1, SharedStep
  <2>7. Numbers' /\ SlotsAreNamed'
    <3>1. ASSUME SlotsWith(b)' # {} PROVE heap'[b].i_no \in named'
      <4>1. PICK s \in Slot : file_table[s].fd_inode = b
        BY <1>12, <3>1 DEF SlotsWith
      <4>2. ~Creating
        BY <1>1, <2>1, Constants DEF Quiet, Creating
      <4>3. heap[b].i_no \in named
        BY <1>20, <4>1, <4>2, Constants DEF Orderly, SlotsAreNamed
      <4> QED BY <1>5, <2>1, <4>1, <4>3, Constants DEF InUse
    <3> QED BY <1>7, <1>19, <1>20, <2>1, <2>2, <3>1, NamesStep
  <2>8. OwnSlots'
    <3>1. \A u \in Task, fd \in Fd :
              fd_table[u][fd] # NoSlot => file_table'[fd_table[u][fd]].fd_inode # NULL
      BY <2>1 DEF OwnSlots
    <3> QED BY <1>1, <1>6, <1>7, <2>1, <3>1, OwnSlotsKept
  <2>9. AloneFits(t)'
    BY <1>6, <1>7, <1>10, <2>1 DEF AloneFits
  <2> QED BY <1>1, <1>4, <1>7, <2>1, <2>5, <2>6, <2>7, <2>8, <2>9, StepOrderly
<1> QED BY <1>19, <1>20 DEF Kept, Orderly

(* list_push of t's own block.                                             *)
LEMMA PushesSound ==
    ASSUME Sound, NEW t \in Task, Moves(t), Holds(t), pc[t] # "counting",
           NEW b, b = local[t].inode,
           heap' \in [Address -> Inode], \A a \in Address \ {b} : heap'[a] = heap[a],
           heap'[b].next = first, first' = b,
           free_list' \in Seq(Address), FreeBlocks',
           \A j, k \in 1 .. Len(free_list') : free_list'[j] = free_list'[k] => j = k,
           ~hung', Tables', CallFits(t)', OwnBlock(t)',
           Holds(t)' \/ Uses(t)' => local'[t].inode = b,
           \A a \in Address \ {b} : SlotsWith(a)' \subseteq SlotsWith(a),
           b \notin Held' => /\ Claims(b)' <= heap'[b].i_open_cnts
                             /\ Claims(b)' > 0 => heap'[b].i_no # Link
    PROVE  Sound'
<1>1. /\ b \in Address /\ b # 1 /\ heap[b].next = NULL
      /\ \A u \in Task \ {t} : Holds(u) => local[u].inode # b
  BY HeldBlock
<1>2. Types /\ ~Uses(t)
  BY DEF Sound, Holds, Uses
<1>3. Types'
  BY <1>1, TypesAre
<1>4. ListIsWhole'
  BY <1>1, ListPushed DEF Sound
<1>5. RootIsOpen'
  BY <1>1, Constants DEF Sound, RootIsOpen
<1>6. \A a \in Address \ {b} : Spared(a)
  BY <1>2, SparedBlock, Inodes
<1> QED BY <1>1, <1>2, <1>3, <1>4, <1>5, <1>6, StepSound

(* The same, when it has been filled and is t's own no longer.             *)
LEMMA PushSound ==
    ASSUME Sound, NEW t \in Task, Moves(t), Holds(t), ~Holds(t)', pc[t] # "counting",
           NEW b, b = local[t].inode,
           heap' \in [Address -> Inode], \A a \in Address \ {b} : heap'[a] = heap[a],
           heap'[b].next = first, first' = b,
           free_list' \in Seq(Address), FreeBlocks',
           \A j, k \in 1 .. Len(free_list') : free_list'[j] = free_list'[k] => j = k,
           ~hung', Tables', Uses(t)' => local'[t].inode = b, CallFits(t)',
           \A a \in Address \ {b} : SlotsWith(a)' \subseteq SlotsWith(a),
           /\ Claims(b)' <= heap'[b].i_open_cnts
           /\ Claims(b)' > 0 => heap'[b].i_no # Link
    PROVE  Sound'
<1>1. OwnBlock(t)'
  BY DEF OwnBlock
<1> QED BY <1>1, PushesSound

LEMMA ReadIs ==
    ASSUME Sound, NEW t \in Process, Holds(t)
    PROVE  /\ Read(t) \in [Address -> Inode]
           /\ \A a \in Address \ {local[t].inode} : Read(t)[a] = heap[a]
           /\ Read(t)[local[t].inode].i_no = table[local[t].no]
           /\ Read(t)[local[t].inode].i_open_cnts = 1
           /\ Read(t)[local[t].inode].next = first
           /\ table[local[t].no] \in Number /\ table[local[t].no] # Link
<1>1. t \in Task
  BY Constants
<1>2. PICK b \in Address : b = local[t].inode
  BY <1>1, HeldBlock
<1>3. PICK no : no = table[local[t].no]
  OBVIOUS
<1>4. heap \in [Address -> Inode] /\ first \in Address /\ no \in Number
  <2>1. Types /\ local[t] \in Call
    BY <1>1 DEF Sound, Types
  <2>2. local[t].no \in Number
    BY <2>1 DEF Call
  <2> QED BY <1>3, <2>1, <2>2 DEF Types
<1>5. PICK e : e = [ZeroedInode EXCEPT !.i_no = no, !.i_open_cnts = 1]
  OBVIOUS
<1>6. e \in Inode /\ e.i_no = no /\ e.i_open_cnts = 1
  BY <1>4, <1>5 DEF ZeroedInode, Inode
<1>7. PICK h : h = [heap EXCEPT ![b] = e]
  OBVIOUS
<1>8. h \in [Address -> Inode] /\ h[b] = e /\ \A a \in Address \ {b} : h[a] = heap[a]
  BY <1>4, <1>6, <1>7
<1>9. PICK f : f = [e EXCEPT !.next = first]
  OBVIOUS
<1>10. f \in Inode /\ f.i_no = no /\ f.i_open_cnts = 1 /\ f.next = first
  BY ONLY <1>4, <1>6, <1>9 DEF Inode
<1>11. Read(t) = [h EXCEPT ![b] = f]
  BY <1>2, <1>3, <1>5, <1>7, <1>8, <1>9 DEF Read, Push
<1>12. /\ [h EXCEPT ![b] = f] \in [Address -> Inode] /\ [h EXCEPT ![b] = f][b] = f
       /\ \A a \in Address \ {b} : [h EXCEPT ![b] = f][a] = h[a]
  BY ONLY <1>8, <1>10, b \in Address
<1> QED BY <1>2, <1>3, <1>4, <1>8, <1>10, <1>11, <1>12, LinkIsNoNumber

(* The inode that t read or made is counted and in the list.               *)
LEMMA PushExact ==
    ASSUME Sound, Orderly, alone, NEW t \in Task, Moves(t), Holds(t), ~Holds(t)',
           NEW b \in Address, b = local[t].inode,
           \A u \in Task \ {t} : Holds(u) => local[u].inode # b,
           Uses(t)' => local'[t].inode = b,
           \A a \in Address \ {b} : heap'[a] = heap[a] /\ SlotsWith(a)' = SlotsWith(a),
           heap'[b].next = first \/ heap'[b].next # NULL, heap'[b].i_open_cnts = Claims(b)',
           \/ heap'[b].i_open_cnts = 1 /\ heap'[b].i_no = local[t].no
           \/ heap'[b].i_open_cnts = 0 /\ heap'[b].i_no = Link
    PROVE  Others(b) /\ ExactCounts' /\ InodesAreShared'
<1>1. ExactCounts /\ InodesAreShared /\ AloneFits(t) /\ first \in Address /\ ~Uses(t)
  BY DEF Orderly, Sound, Types, Holds, Uses
<1>2. Others(b)
  BY DEF Others
<1>3. b \notin Held'
  <2>1. ASSUME NEW u \in Task, Holds(u)' PROVE local'[u].inode # b
    BY <2>1 DEF Moves, Holds
  <2> QED BY <2>1, HeldIs
<1>4. ExactCounts'
  BY <1>1, <1>2, <1>3, Constants, ExactStep
<1>5. InodesAreShared'
  <2>1. ASSUME heap'[b].i_open_cnts > 0, NEW a \in Address \ {b}, heap[a].i_open_cnts > 0
        PROVE  heap[a].i_no # heap'[b].i_no
    BY <1>1, <2>1 DEF AloneFits
  <2> QED BY <1>1, <1>2, <2>1, SharedStep
<1> QED BY <1>2, <1>4, <1>5

LEMMA ReadEndsKept ==
    ASSUME Sound, NEW t \in Process, ReadEnds(t)
    PROVE  Kept
<1>1. /\ pc[t] = "reading" /\ local[t].op \in {"dir", "unlink"}
      /\ heap' = Read(t) /\ first' = local[t].inode /\ panic' \in BOOLEAN
      /\ Goto(t, "using")
      /\ UNCHANGED <<free_list, files, disk, local, alone, hung>>
  BY DEF ReadEnds, At, PushFaults
<1>2. t \in Task /\ t # main /\ Types /\ Holds(t) /\ ~hung' /\ pc[t] # "counting"
  BY <1>1, Constants DEF Sound, Holds
<1>3. PICK b \in Address :
              /\ b = local[t].inode /\ b # 1 /\ b \in Held
              /\ heap[b].next = NULL /\ heap[b].i_no # Link
              /\ \A u \in Task \ {t} : Holds(u) => local[u].inode # b
              /\ TasksWith(b) = {}
              /\ \A s \in SlotsWith(b) :
                    t = main /\ s = local[main].slot /\ heap[b].i_open_cnts = 0
  BY <1>1, <1>2, HeldBlock
<1>4. /\ heap' \in [Address -> Inode] /\ \A a \in Address \ {b} : heap'[a] = heap[a]
      /\ heap'[b].i_no = table[local[t].no] /\ heap'[b].i_no # Link /\ heap'[b].i_open_cnts = 1 /\ heap'[b].next = first
  BY <1>1, <1>2, <1>3, ReadIs
<1>5. /\ pc' \in [Task -> {"unborn", "run", "reading", "using", "unnaming", "deleting",
                           "naming", "syncing", "pushing", "counting", "done"}]
      /\ pc'[t] = "using" /\ Moves(t)
  BY <1>1, <1>2 DEF Types, Moves
<1>6. Tables'
  <2>1. Tables
    BY <1>2, TablesAre
  <2> QED BY <1>1, <1>5, <2>1 DEF Tables
<1>7. ~Holds(t)' /\ Uses(t)' /\ local'[t].inode = b
  BY <1>1, <1>3, <1>5 DEF Holds, Uses
<1>8. CallFits(t)'
  <2>1. CallFits(t) /\ local'[t] = local[t]
    BY <1>1, <1>2 DEF Sound
  <2> QED BY ONLY <1>1, <1>3, <1>5, <2>1 DEF CallFits
<1>9. \A a : SlotsWith(a)' = SlotsWith(a)
  BY <1>1, SlotsSame
<1>10. FreeBlocks'
  BY <1>1, <1>3, <1>4, FreeKept
<1>11. Claims(b)' = 1
  <2>1. SlotsWith(b)' = {}
    BY <1>2, <1>3, <1>9
  <2>2. TasksWith(b)' = {t}
    <3>1. t \in TasksWith(b)' /\ TasksWith(b) \ {t} = TasksWith(b)' \ {t}
      BY <1>2, <1>5, <1>7, TasksAfter
    <3> QED BY <1>3, <3>1
  <2> QED BY <1>3, <2>1, <2>2, FewClaims
<1>12. /\ free_list' \in Seq(Address) /\ first' = b
       /\ \A j, k \in 1 .. Len(free_list') : free_list'[j] = free_list'[k] => j = k
  BY <1>1, <1>2, <1>3 DEF Types
<1>13. Claims(b)' <= heap'[b].i_open_cnts /\ (Claims(b)' > 0 => heap'[b].i_no # Link)
  BY <1>4, <1>11
<1>14. Sound'
  BY ONLY Sound, <1>2, <1>3, <1>4, <1>5, <1>6, <1>7, <1>8, <1>9, <1>10, <1>12, <1>13, PushSound
<1>15. ASSUME Orderly, alone
       PROVE  Orderly'
  <2>1. /\ OwnSlots /\ Quiet(t) /\ table[local[t].no] = local[t].no
        /\ local[t].op = "unlink" => local[t].no \notin named
    BY <1>1, <1>2, <1>15, IsQuiet DEF Orderly, AloneFits, InCall
  <2>2. Others(b) /\ ExactCounts' /\ InodesAreShared'
    BY <1>2, <1>3, <1>4, <1>5, <1>7, <1>9, <1>11, <1>15, <2>1, PushExact
  <2>3. SlotsWith(b)' = {}
    BY <1>2, <1>3, <1>9
  <2>4. Numbers' /\ SlotsAreNamed'
    BY <1>1, <1>5, <1>14, <1>15, <2>1, <2>2, <2>3, NamesStep
  <2>5. OwnSlots'
    <3>1. \A u \in Task, fd \in Fd :
              fd_table[u][fd] # NoSlot => file_table'[fd_table[u][fd]].fd_inode # NULL
      BY <1>1, <2>1 DEF OwnSlots
    <3> QED BY <1>1, <1>2, <1>5, <2>1, <3>1, OwnSlotsKept
  <2>6. AloneFits(t)'
    BY <1>1, <1>5, <1>7, <2>1 DEF AloneFits
  <2>7. ~panic'
    BY <2>1, HeadIs DEF Sound, ReadEnds
  <2> QED BY <1>2, <1>5, <2>1, <2>2, <2>4, <2>5, <2>6, <2>7, StepOrderly
<1> QED BY <1>1, <1>14, <1>15 DEF Kept, Orderly

LEMMA OpenEndsKept ==
    ASSUME Sound, NEW t \in Process, OpenEnds(t)
    PROVE  Kept
<1>0. PICK slot : slot = local[t].slot
  OBVIOUS
<1>1. /\ pc[t] = "reading" /\ local[t].op = "open"
      /\ first' = local[t].inode /\ panic' \in BOOLEAN
      /\ file_table' = [file_table EXCEPT ![slot].fd_inode = local[t].inode]
      /\ FileOpened(t, Read(t), local[t].inode, slot, local[t].writes)
      /\ Return(t)
      /\ UNCHANGED <<free_list, disk, alone, hung>>
  BY <1>0 DEF OpenEnds, At, PushFaults
<1>2. /\ t \in Task /\ t # main /\ Types /\ Holds(t) /\ ~hung' /\ pc[t] # "counting"
      /\ slot \in Slot /\ local[t].writes \in BOOLEAN
  <2>1. t \in Task /\ t # main /\ Types /\ Holds(t) /\ ~hung'
    BY <1>1, Constants DEF Sound, Holds
  <2>2. CallFits(t) /\ local[t] \in Call
    BY <2>1 DEF Sound, Types
  <2> QED BY <1>0, <1>1, <2>1, <2>2 DEF CallFits, Call
<1>3. PICK b \in Address :
              /\ b = local[t].inode /\ b # 1 /\ b \in Held
              /\ heap[b].next = NULL /\ heap[b].i_no # Link
              /\ \A u \in Task \ {t} : Holds(u) => local[u].inode # b
              /\ TasksWith(b) = {}
              /\ \A s \in SlotsWith(b) :
                    t = main /\ s = local[main].slot /\ heap[b].i_open_cnts = 0
  BY <1>1, <1>2, HeldBlock
<1>4. /\ heap' \in [Address -> Inode] /\ \A a \in Address \ {b} : heap'[a] = heap[a]
      /\ heap'[b].i_no = table[local[t].no] /\ heap'[b].i_no # Link
      /\ heap'[b].i_open_cnts = 1 /\ heap'[b].next = first
      /\ fd_table' \in [Task -> [Fd -> Slot \cup {NoSlot}]]
      /\ \/ fd_table' = fd_table
         \/ \E fd \in Fd : /\ fd_table[t][fd] = NoSlot
                           /\ fd_table' = [fd_table EXCEPT ![t][fd] = slot]
  <2>1. PICK h : h = Read(t)
    OBVIOUS
  <2>2. /\ h \in [Address -> Inode] /\ \A a \in Address \ {b} : h[a] = heap[a]
        /\ h[b].i_no = table[local[t].no] /\ h[b].i_no # Link
        /\ h[b].i_open_cnts = 1 /\ h[b].next = first
    BY <1>2, <1>3, <2>1, ReadIs
  <2>3. PICK w \in BOOLEAN : w = local[t].writes
    BY <1>2
  <2>4. FileOpened(t, h, b, slot, w)
    BY <1>1, <1>3, <2>1, <2>3
  <2>5. /\ heap' \in [Address -> Inode]
        /\ \A a \in Address \ {b} : heap'[a] = h[a]
        /\ heap'[b].i_no = h[b].i_no /\ heap'[b].next = h[b].next
        /\ heap'[b].i_open_cnts = h[b].i_open_cnts
        /\ fd_table' \in [Task -> [Fd -> Slot \cup {NoSlot}]]
        /\ \/ fd_table' = fd_table
           \/ \E fd \in Fd : /\ fd_table[t][fd] = NoSlot
                             /\ fd_table' = [fd_table EXCEPT ![t][fd] = slot]
    BY ONLY <1>2, <2>2, <2>4, OpenedIs, w \in BOOLEAN, b \in Address
  <2> QED BY ONLY <2>2, <2>5
<1>5. /\ pc' \in [Task -> {"unborn", "run", "reading", "using", "unnaming", "deleting",
                           "naming", "syncing", "pushing", "counting", "done"}]
      /\ local' \in [Task -> Call]
      /\ pc'[t] \in {"run", "done"} /\ local'[t] = NoCall
      /\ Moves(t) /\ CallFits(t)' /\ ~Holds(t)' /\ ~Uses(t)'
  BY <1>1, <1>2, Returns
<1>6. /\ file_table' \in [Slot -> [fd_inode : Address \cup {NULL}, writes : BOOLEAN]]
      /\ file_table'[slot].fd_inode = b
      /\ \A s \in Slot \ {slot} : file_table'[s].fd_inode = file_table[s].fd_inode
  BY <1>1, <1>2, <1>3 DEF Types
<1>7. Tables'
  <2>1. Tables
    BY <1>2, TablesAre
  <2> QED BY <1>1, <1>4, <1>5, <1>6, <2>1 DEF Tables
<1>8. \A a : SlotsWith(a)' = IF a = b THEN SlotsWith(a) \cup {slot} ELSE SlotsWith(a) \ {slot}
  BY ONLY <1>2, <1>6, SlotsAfter
<1>9. FreeBlocks'
  BY <1>1, <1>3, <1>4, FreeKept
<1>10. Claims(b)' = 1
  <2>1. SlotsWith(b)' = {slot}
    BY <1>2, <1>3, <1>8
  <2>2. TasksWith(b)' = {}
    <3>1. t \notin TasksWith(b)' /\ TasksWith(b) \ {t} = TasksWith(b)' \ {t}
      BY <1>2, <1>5, TasksAfter
    <3> QED BY <1>3, <3>1
  <2> QED BY <1>3, <2>1, <2>2, FewClaims
<1>11. \A a \in Address \ {b} : SlotsWith(a)' \subseteq SlotsWith(a)
  BY <1>8
<1>12. /\ free_list' \in Seq(Address) /\ first' = b
       /\ \A j, k \in 1 .. Len(free_list') : free_list'[j] = free_list'[k] => j = k
  BY <1>1, <1>2, <1>3 DEF Types
<1>13. Claims(b)' <= heap'[b].i_open_cnts /\ (Claims(b)' > 0 => heap'[b].i_no # Link)
  BY <1>4, <1>10
<1>14. Sound'
  BY ONLY Sound, <1>2, <1>3, <1>4, <1>5, <1>7, <1>9, <1>11, <1>12, <1>13, PushSound
<1>15. ASSUME Orderly, alone
       PROVE  Orderly'
  <2>1. /\ OwnSlots /\ Quiet(t) /\ table[local[t].no] = local[t].no
        /\ local[t].no \in named /\ file_table[slot].fd_inode = NULL
    BY <1>0, <1>1, <1>2, <1>15, IsQuiet DEF Orderly, AloneFits, InCall
  <2>2. \A a \in Address \ {b} : SlotsWith(a)' = SlotsWith(a)
    <3>1. \A a \in Address : slot \notin SlotsWith(a)
      BY <2>1, Constants DEF SlotsWith
    <3> QED BY <1>8, <3>1
  <2>3. Others(b) /\ ExactCounts' /\ InodesAreShared'
    BY <1>2, <1>3, <1>4, <1>5, <1>10, <1>15, <2>1, <2>2, PushExact
  <2>4. Numbers' /\ SlotsAreNamed'
    <3>1. heap'[b].i_no \in named' /\ named' = named
      BY <1>1, <1>4, <2>1
    <3> QED BY <1>1, <1>5, <1>14, <1>15, <2>1, <2>3, <3>1, NamesStep
  <2>5. OwnSlots'
    <3>1. \A u \in Task : local'[u].op = "none"
      BY <1>5, <2>1, NoCallIs DEF Quiet, Moves
    <3>2. file_table'[slot].fd_inode # NULL
      BY <1>6, Constants
    <3> QED BY <1>2, <1>4, <1>6, <2>1, <3>1, <3>2, EmptyIsUnnamed, OwnSlotsInstalled
  <2>6. AloneFits(t)' /\ ~panic'
    BY <1>2, <1>5, FitsOutside, HeadIs DEF Sound, OpenEnds
  <2> QED BY <1>2, <1>5, <2>1, <2>3, <2>4, <2>5, <2>6, StepOrderly
<1> QED BY <1>1, <1>14, <1>15 DEF Kept, Orderly


LEMMA StatEndsKept ==
    ASSUME Sound, NEW t \in Process, StatEnds(t)
    PROVE  Kept
<1>1. /\ pc[t] = "reading"
      /\ heap' = Closed(Read(t), local[t].inode) /\ first' = local[t].inode
      /\ free_list' = Append(free_list, local[t].inode)
      /\ panic' \in BOOLEAN /\ Return(t)
      /\ UNCHANGED <<files, disk, alone, hung>>
  BY DEF StatEnds, At, PushFaults
<1>2. t \in Task /\ t # main /\ Types /\ Holds(t) /\ ~hung' /\ pc[t] # "counting"
  BY <1>1, Constants DEF Sound, Holds
<1>3. PICK b \in Address :
              /\ b = local[t].inode /\ b # 1 /\ b \in Held
              /\ heap[b].next = NULL /\ heap[b].i_no # Link
              /\ \A u \in Task \ {t} : Holds(u) => local[u].inode # b
              /\ TasksWith(b) = {}
              /\ \A s \in SlotsWith(b) :
                    t = main /\ s = local[main].slot /\ heap[b].i_open_cnts = 0
  BY <1>1, <1>2, HeldBlock
<1>4. /\ heap' \in [Address -> Inode] /\ \A a \in Address \ {b} : heap'[a] = heap[a]
      /\ heap'[b].i_no = Link /\ heap'[b].i_open_cnts = 0 /\ heap'[b].next = first
  <2>1. PICK h : h = Read(t)
    OBVIOUS
  <2>2. /\ h \in [Address -> Inode] /\ \A a \in Address \ {b} : h[a] = heap[a]
        /\ h[b].i_open_cnts = 1 /\ h[b].next = first
    BY <1>2, <1>3, <2>1, ReadIs
  <2>3. PICK e : e = [h[b] EXCEPT !.i_open_cnts = 0, !.i_no = Link]
    OBVIOUS
  <2>4. h[b] \in Inode
    BY <2>2
  <2>5. e \in Inode /\ e.i_open_cnts = 0 /\ e.i_no = Link /\ e.next = first
    BY ONLY <2>2, <2>3, <2>4 DEF Inode
  <2>6. heap' = Closed(h, b)
    BY <1>1, <1>3, <2>1
  <2>7. LastClose(h, b)
    BY <2>2 DEF LastClose
  <2>8. heap' = [h EXCEPT ![b] = e]
    <3>1. PICK m : m = h[b].i_open_cnts - 1
      OBVIOUS
    <3>2. m = 0 /\ h[b].i_open_cnts # 0
      BY <2>2, <3>1
    <3>3. heap' = [h EXCEPT ![b] = [h[b] EXCEPT !.i_open_cnts = m, !.i_no = Link]]
      BY ONLY <2>2, <2>4, <2>6, <2>7, <3>1, <3>2 DEF Closed, Inode
    <3> QED BY ONLY <2>3, <3>2, <3>3
  <2> QED BY ONLY <2>2, <2>5, <2>8, b \in Address
<1>5. /\ pc' \in [Task -> {"unborn", "run", "reading", "using", "unnaming", "deleting",
                           "naming", "syncing", "pushing", "counting", "done"}]
      /\ local' \in [Task -> Call]
      /\ pc'[t] \in {"run", "done"} /\ local'[t] = NoCall
      /\ Moves(t) /\ CallFits(t)' /\ ~Holds(t)' /\ ~Uses(t)'
  BY <1>1, <1>2, Returns
<1>6. Tables'
  <2>1. Tables
    BY <1>2, TablesAre
  <2> QED BY <1>1, <1>5, <2>1 DEF Tables
<1>7. \A a : SlotsWith(a)' = SlotsWith(a)
  BY <1>1, SlotsSame
<1>8. /\ free_list' \in Seq(Address) /\ first' = b
      /\ \A j, k \in 1 .. Len(free_list') : free_list'[j] = free_list'[k] => j = k
  BY <1>1, <1>3, Returned
<1>9. FreeBlocks'
  <2>1. ASSUME NEW k \in 1 .. Len(free_list')
        PROVE  heap'[free_list'[k]].i_no = Link
    <3>1. free_list'[k] = b
          \/ (free_list'[k] \in Address \ {b} /\ heap[free_list'[k]].i_no = Link)
      BY <1>1, <1>3, Returned
    <3> QED BY ONLY <1>4, <3>1
  <2> QED BY <2>1 DEF FreeBlocks
<1>10. Claims(b)' = 0
  <2>1. SlotsWith(b)' = {}
    BY <1>2, <1>3, <1>7
  <2>2. TasksWith(b)' = {}
    <3>1. t \notin TasksWith(b)' /\ TasksWith(b) \ {t} = TasksWith(b)' \ {t}
      BY <1>2, <1>5, TasksAfter
    <3> QED BY <1>3, <3>1
  <2> QED BY <1>3, <2>1, <2>2, FewClaims
<1>11. Claims(b)' <= heap'[b].i_open_cnts /\ (Claims(b)' > 0 => heap'[b].i_no # Link)
  BY <1>4, <1>10
<1>12. Sound'
  BY ONLY Sound, <1>2, <1>3, <1>4, <1>5, <1>6, <1>7, <1>8, <1>9, <1>11, PushSound
<1>13. ASSUME Orderly, alone
       PROVE  Orderly'
  <2>1. OwnSlots /\ Quiet(t)
    BY <1>1, <1>2, <1>13, IsQuiet DEF Orderly, InCall
  <2>2. Others(b) /\ ExactCounts' /\ InodesAreShared'
    BY <1>2, <1>3, <1>4, <1>5, <1>7, <1>10, <1>13, PushExact
  <2>3. SlotsWith(b)' = {}
    BY <1>2, <1>3, <1>7
  <2>4. Numbers' /\ SlotsAreNamed'
    BY <1>1, <1>5, <1>12, <1>13, <2>1, <2>2, <2>3, NamesStep
  <2>5. OwnSlots'
    <3>1. \A u \in Task, fd \in Fd :
              fd_table[u][fd] # NoSlot => file_table'[fd_table[u][fd]].fd_inode # NULL
      BY <1>1, <2>1 DEF OwnSlots
    <3> QED BY <1>1, <1>2, <1>5, <2>1, <3>1, NoCallIs, OwnSlotsKept
  <2>6. AloneFits(t)' /\ ~panic'
    BY <1>2, <1>5, FitsOutside, HeadIs DEF Sound, StatEnds
  <2> QED BY <1>2, <1>5, <2>1, <2>2, <2>4, <2>5, <2>6, StepOrderly
<1> QED BY <1>1, <1>12, <1>13 DEF Kept, Orderly

LEMMA CreatePushesKept ==
    ASSUME Sound, CreatePushes
    PROVE  Kept
<1>0. PICK slot, no : slot = local[main].slot /\ no = local[main].no
  OBVIOUS
<1>1. /\ pc[main] = "pushing"
      /\ heap' = Push(heap, local[main].inode) /\ first' = local[main].inode
      /\ panic' = PushFaults /\ Goto(main, "counting")
      /\ UNCHANGED <<free_list, files, disk, local, alone, hung>>
  BY DEF CreatePushes, At
<1>2. main \in Task /\ Types /\ Holds(main) /\ ~Uses(main) /\ ~hung' /\ CallFits(main)
  BY <1>1, Constants DEF Sound, Holds, Uses
<1>3. PICK b \in Address :
              /\ b = local[main].inode /\ b # 1 /\ b \in Held
              /\ heap[b].next = NULL /\ heap[b].i_no # Link /\ heap[b].i_no = no
              /\ \A u \in Task \ {main} : Holds(u) => local[u].inode # b
              /\ TasksWith(b) = {}
              /\ \A s \in SlotsWith(b) : s = local[main].slot /\ heap[b].i_open_cnts = 0
  BY <1>0, <1>1, <1>2, HeldBlock
<1>4. /\ heap' \in [Address -> Inode] /\ \A a \in Address \ {b} : heap'[a] = heap[a]
      /\ heap'[b].i_no = heap[b].i_no /\ heap'[b].i_open_cnts = heap[b].i_open_cnts
      /\ heap'[b].next = first /\ first # NULL
  <2>1. heap \in [Address -> Inode] /\ heap[b] \in Inode /\ first \in Address
    BY <1>2 DEF Types
  <2>2. PICK e : e = [heap[b] EXCEPT !.next = first]
    OBVIOUS
  <2>3. e \in Inode /\ e.i_open_cnts = heap[b].i_open_cnts /\ e.i_no = heap[b].i_no /\ e.next = first
    BY ONLY <2>1, <2>2 DEF Inode
  <2>4. heap' = [heap EXCEPT ![b] = e]
    BY <1>1, <1>3, <2>2 DEF Push
  <2> QED BY ONLY <1>3, <2>1, <2>3, <2>4, b \in Address, Constants
<1>5. /\ pc' \in [Task -> {"unborn", "run", "reading", "using", "unnaming", "deleting",
                           "naming", "syncing", "pushing", "counting", "done"}]
      /\ local' \in [Task -> Call] /\ local' = local
      /\ pc'[main] = "counting" /\ Moves(main)
  BY <1>1, <1>2 DEF Types, Moves, Goto
<1>6. Holds(main)' /\ ~Uses(main)' /\ CallFits(main)'
  BY <1>1, <1>2, <1>5 DEF Holds, Uses, CallFits
<1>7. Tables'
  <2>1. Tables
    BY <1>2, TablesAre
  <2>2. PushFaults \in BOOLEAN
    BY DEF PushFaults
  <2> QED BY <1>1, <1>5, <2>1, <2>2 DEF Tables
<1>8. \A a : SlotsWith(a)' = SlotsWith(a)
  BY <1>1, SlotsSame
<1>9. FreeBlocks'
  BY <1>1, <1>3, <1>4, FreeKept
<1>10. OwnBlock(main)' /\ b \in Held'
  <2>1. \A u \in Task : u # main /\ Holds(u)' => local'[u].inode # b
    BY <1>3, <1>5 DEF Moves, Holds
  <2>2. TasksWith(b)' = {}
    <3>1. main \notin TasksWith(b)' /\ TasksWith(b) \ {main} = TasksWith(b)' \ {main}
      BY <1>2, <1>5, <1>6, TasksAfter
    <3> QED BY <1>3, <3>1
  <2>3. b \in Held'
    BY <1>2, <1>3, <1>5, <1>6, HeldIs
  <2> QED BY ONLY <1>0, <1>3, <1>4, <1>5, <1>8, <2>1, <2>2, <2>3 DEF OwnBlock
<1>11. Sound'
  <2>1. /\ free_list' \in Seq(Address) /\ first' = b /\ pc[main] # "counting"
        /\ \A j, k \in 1 .. Len(free_list') : free_list'[j] = free_list'[k] => j = k
    BY <1>1, <1>2, <1>3 DEF Types
  <2>2. local'[main].inode = b /\ \A a \in Address \ {b} : SlotsWith(a)' \subseteq SlotsWith(a)
    BY <1>3, <1>5, <1>8
  <2> QED BY ONLY Sound, <1>2, <1>3, <1>4, <1>5, <1>6, <1>7, <1>9, <1>10, <2>1, <2>2, PushesSound
<1>12. ASSUME Orderly, alone
       PROVE  Orderly'
  <2>1. /\ ExactCounts /\ InodesAreShared /\ Numbers /\ SlotsAreNamed /\ OwnSlots
        /\ Quiet(main) /\ AloneFits(main)
    BY <1>1, <1>2, <1>12, IsQuiet DEF Orderly, InCall
  <2>2. heap[b].i_open_cnts = 0 /\ Others(b)
    BY <1>3, <1>4, <1>8, <2>1 DEF ExactCounts, Others
  <2>3. ExactCounts'
    <3>1. /\ heap'[b].i_open_cnts = 0 /\ b \in Held' /\ local[main].inode = b
          /\ local'[main].inode = b
      BY <1>3, <1>4, <1>5, <1>10, <2>2
    <3> QED BY <1>2, <1>5, <2>1, <2>2, <3>1, ExactStep
  <2>4. InodesAreShared'
    <3>1. ~(heap'[b].i_open_cnts > 0)
      BY <1>4, <2>2
    <3> QED BY <1>12, <2>1, <2>2, <3>1, SharedStep
  <2>5. Numbers' /\ OwnSlots'
    BY <1>1, <1>5, <2>1 DEF Numbers, OwnSlots
  <2>6. SlotsAreNamed'
    <3>1. \A a \in Address : heap'[a].i_no = heap[a].i_no
      BY <1>4
    <3>2. \A s \in Slot : file_table[s].fd_inode \in Address \cup {NULL}
      BY <1>2 DEF Types
    <3>3. Creating /\ Creating'
      BY <1>1, <1>5 DEF Creating
    <3> QED BY <1>1, <1>5, <2>1, <3>1, <3>2, <3>3 DEF SlotsAreNamed
  <2>7. AloneFits(main)'
    <3>1. \A a \in Address : heap'[a].i_open_cnts > 0 => heap'[a].i_no # no
      BY <1>0, <1>2, <1>4, <2>1, <2>2 DEF AloneFits
    <3>2. /\ local[main].op = "create" /\ file_table[slot].fd_inode = b /\ no \in taken
          /\ no \in named /\ table[no] = no
      BY <1>0, <1>1, <1>2, <1>3, <2>1 DEF AloneFits, CallFits
    <3>3. heap'[b].i_no = no /\ UNCHANGED <<file_table, taken, named, table>>
      BY <1>1, <1>3, <1>4
    <3> QED BY ONLY <1>0, <1>3, <1>5, <3>1, <3>2, <3>3 DEF AloneFits
  <2>8. ~panic'
    BY <1>1, HeadIs DEF Sound
  <2> QED BY <1>2, <1>5, <2>1, <2>3, <2>4, <2>5, <2>6, <2>7, <2>8, StepOrderly
<1> QED BY <1>1, <1>11, <1>12 DEF Kept, Orderly

LEMMA CreateEndsKept ==
    ASSUME Sound, CreateEnds
    PROVE  Kept
<1>0. PICK slot : slot = local[main].slot
  OBVIOUS
<1>1. /\ pc[main] = "counting"
      /\ heap' = [heap EXCEPT ![local[main].inode].i_open_cnts = 1]
      /\ fd_table' = Install(main, slot) /\ Return(main)
      /\ UNCHANGED <<free_list, first, file_table, disk, stopped>>
  BY <1>0 DEF CreateEnds, At
<1>2. main \in Task /\ Types /\ Holds(main) /\ ~Uses(main) /\ ~hung' /\ slot \in Slot
  <2>1. main \in Task /\ Types /\ Holds(main) /\ ~Uses(main) /\ ~hung'
    BY <1>1, Constants DEF Sound, Holds, Uses
  <2>2. CallFits(main)
    BY <2>1 DEF Sound
  <2> QED BY <1>0, <1>1, <2>1, <2>2 DEF CallFits
<1>3. PICK b \in Address :
              /\ b = local[main].inode /\ b # 1 /\ b \in Held
              /\ heap[b].next # NULL /\ heap[b].i_no # Link
              /\ \A u \in Task \ {main} : Holds(u) => local[u].inode # b
              /\ TasksWith(b) = {}
              /\ \A s \in SlotsWith(b) : s = local[main].slot /\ heap[b].i_open_cnts = 0
  BY <1>1, <1>2, HeldBlock
<1>4. /\ heap' \in [Address -> Inode] /\ \A a \in Address \ {b} : heap'[a] = heap[a]
      /\ heap'[b].i_no = heap[b].i_no /\ heap'[b].i_no # Link
      /\ heap'[b].i_open_cnts = 1 /\ heap'[b].next = heap[b].next
  <2>1. heap \in [Address -> Inode] /\ heap[b] \in Inode
    BY <1>2 DEF Types
  <2>2. PICK e : e = [heap[b] EXCEPT !.i_open_cnts = 1]
    OBVIOUS
  <2>3. e \in Inode /\ e.i_open_cnts = 1 /\ e.i_no = heap[b].i_no /\ e.next = heap[b].next
    BY ONLY <2>1, <2>2 DEF Inode
  <2>4. heap' = [heap EXCEPT ![b] = e]
    BY <1>1, <1>3, <2>2
  <2> QED BY ONLY <1>3, <2>1, <2>3, <2>4, b \in Address
<1>5. /\ pc' \in [Task -> {"unborn", "run", "reading", "using", "unnaming", "deleting",
                           "naming", "syncing", "pushing", "counting", "done"}]
      /\ local' \in [Task -> Call]
      /\ pc'[main] \in {"run", "done"} /\ local'[main] = NoCall
      /\ Moves(main) /\ CallFits(main)' /\ ~Holds(main)' /\ ~Uses(main)' /\ OwnBlock(main)'
  BY <1>1, <1>2, Returns
<1>6. Tables'
  <2>1. Tables
    BY <1>2, TablesAre
  <2>2. fd_table' \in [Task -> [Fd -> Slot \cup {NoSlot}]]
    BY <1>1, <1>2, Installed
  <2> QED BY <1>1, <1>5, <2>1, <2>2 DEF Tables
<1>7. \A a : SlotsWith(a)' = SlotsWith(a)
  BY <1>1, SlotsSame
<1>8. Types' /\ ListIsWhole' /\ RootIsOpen'
  <2>1. Types'
    BY <1>1, <1>2, <1>4, <1>6, TypesAre DEF Types
  <2>2. ListIsWhole'
    <3>1. \A a \in Address : heap'[a].next = heap[a].next
      BY <1>4
    <3> QED BY <1>1, <3>1, ListKept DEF Sound
  <2> QED BY <1>3, <1>4, <2>1, <2>2, Constants DEF Sound, RootIsOpen
<1>9. FreeBlocks'
  BY <1>1, <1>3, <1>4, FreeKept
<1>10. Claims(b)' <= 1 /\ (slot \in SlotsWith(b) => Claims(b)' = 1)
  <2>1. /\ SlotsWith(b)' = {} \/ SlotsWith(b)' = {slot}
        /\ slot \in SlotsWith(b) => SlotsWith(b)' = {slot}
    BY <1>0, <1>3, <1>7
  <2>2. TasksWith(b)' = {}
    <3>1. main \notin TasksWith(b)' /\ TasksWith(b) \ {main} = TasksWith(b)' \ {main}
      BY <1>2, <1>5, TasksAfter
    <3> QED BY <1>3, <3>1
  <2>3. (Claims(b)' = 0 \/ Claims(b)' = 1) /\ (slot \in SlotsWith(b) => Claims(b)' = 1)
    BY ONLY <1>3, <2>1, <2>2, FewClaims
  <2> QED BY ONLY <2>3
<1>11. Claims(b)' <= heap'[b].i_open_cnts /\ (Claims(b)' > 0 => heap'[b].i_no # Link)
  BY <1>4, <1>10
<1>12. Sound'
  <2>1. \A a \in Address \ {b} : Spared(a)
    BY <1>2, <1>4, <1>7, SparedBlock, Inodes
  <2> QED BY <1>2, <1>3, <1>5, <1>8, <1>9, <1>11, <2>1, StepSound
<1>13. ASSUME Orderly, alone
       PROVE  Orderly'
  <2>0. PICK no : no = local[main].no
    OBVIOUS
  <2>1. /\ Numbers /\ SlotsAreNamed /\ OwnSlots /\ Quiet(main) /\ AloneFits(main)
        /\ local[main].op = "create"
    BY <1>1, <1>2, <1>13, IsQuiet DEF Orderly, InCall, Sound, CallFits
  <2>2. file_table[slot].fd_inode = b /\ heap[b].i_no = no /\ no \in named
    BY <1>0, <1>1, <1>3, <2>0, <2>1 DEF AloneFits
  <2>3. slot \in SlotsWith(b) /\ Claims(b)' = 1
    BY <1>2, <1>10, <2>2 DEF SlotsWith
  <2>4. Others(b) /\ ExactCounts' /\ InodesAreShared'
    BY <1>2, <1>3, <1>4, <1>5, <1>7, <1>13, <2>0, <2>2, <2>3, PushExact
  <2>5. Numbers'
    BY <1>1, <1>5, <2>1 DEF Numbers
  <2>6. SlotsAreNamed'
    <3> SUFFICES ASSUME NEW s \in Slot, NEW a, a = file_table[s].fd_inode, a # NULL
                 PROVE  heap'[a].i_no \in named
      BY <1>1 DEF SlotsAreNamed
    <3>1. a \in Address
      BY <1>2 DEF Types
    <3>2. CASE a = b
      BY <1>4, <2>2, <3>2
    <3>3. CASE a # b
      <4>1. s # slot
        BY <2>2, <3>3
      <4>2. heap[a].i_no \in named
        BY <1>0, <2>1, <4>1 DEF SlotsAreNamed
      <4> QED BY <1>4, <3>1, <3>3, <4>2
    <3> QED BY <3>2, <3>3
  <2>7. OwnSlots'
    <3>1. \A u \in Task : local'[u].op = "none"
      BY <1>5, <2>1, NoCallIs DEF Quiet, Moves
    <3>2. \A u \in Task, fd \in Fd : fd_table[u][fd] # slot
      BY <1>0, <1>2, <2>1 DEF OwnSlots
    <3>3. \/ fd_table' = fd_table
          \/ \E fd \in Fd : /\ fd_table[main][fd] = NoSlot
                            /\ fd_table' = [fd_table EXCEPT ![main][fd] = slot]
      BY <1>1, <1>2, Installed
    <3>4. file_table'[slot].fd_inode # NULL
      BY <1>1, <2>2, Constants
    <3> QED BY <1>1, <1>2, <2>1, <3>1, <3>2, <3>3, <3>4, OwnSlotsInstalled
  <2>8. AloneFits(main)' /\ ~panic'
    BY <1>1, <1>2, <1>5, <1>13, FitsOutside DEF Orderly
  <2> QED BY <1>2, <1>5, <2>1, <2>4, <2>5, <2>6, <2>7, <2>8, StepOrderly
<1> QED BY <1>1, <1>12, <1>13 DEF Kept, Orderly

(* An inode is closed, while one task at a time uses the file system.      *)
LEMMA CloseExact ==
    ASSUME Sound, Orderly, alone, ~Creating, NEW t \in Task, Moves(t), NEW b \in Address,
           b \notin Held, b \notin Held', Others(b), SlotsWith(b)' \subseteq SlotsWith(b),
           Holds(t) \/ Uses(t) => local[t].inode = b,
           Holds(t)' \/ Uses(t)' => local'[t].inode = b,
           Claims(b) >= 1, Claims(b)' = Claims(b) - 1,
           heap'[b].i_open_cnts = heap[b].i_open_cnts - 1, heap'[b].next = heap[b].next,
           heap'[b].i_no = IF heap[b].i_open_cnts = 1 THEN Link ELSE heap[b].i_no
    PROVE  /\ ExactCounts' /\ InodesAreShared'
           /\ SlotsWith(b)' # {} => heap'[b].i_no \in named
<1>1. /\ ExactCounts /\ InodesAreShared /\ SlotsAreNamed /\ heap[b].i_open_cnts = Claims(b)
      /\ heap[b].next # NULL /\ Claims(b) \in Nat
  BY ClaimsIs DEF Orderly, ExactCounts
<1>2. ExactCounts'
  <2>1. /\ heap'[b].i_open_cnts = Claims(b)' /\ heap'[b].next # NULL
        /\ heap'[b].i_open_cnts = 0 => heap'[b].i_no = Link
    BY <1>1
  <2> QED BY <1>1, <2>1, ExactStep
<1>3. heap'[b].i_open_cnts > 0 => heap'[b].i_no = heap[b].i_no
  BY <1>1
<1>4. InodesAreShared'
  <2>1. ASSUME heap'[b].i_open_cnts > 0, NEW a \in Address \ {b}, heap[a].i_open_cnts > 0
        PROVE  heap[a].i_no # heap'[b].i_no
    BY <1>1, <1>3, <2>1 DEF InodesAreShared
  <2> QED BY <1>1, <2>1, SharedStep
<1>5. ASSUME SlotsWith(b)' # {}
      PROVE  heap'[b].i_no \in named
  <2>1. PICK s \in Slot : file_table[s].fd_inode = b
    BY <1>5 DEF SlotsWith
  <2>2. heap[b].i_no \in named
    BY <1>1, <2>1, Constants DEF SlotsAreNamed
  <2>3. Claims(b)' # 0
    <3>1. Cardinality(SlotsWith(b)') # 0
      BY <1>5, ClaimsNext, Counting
    <3> QED BY <3>1, ClaimsNext
  <2>4. heap[b].i_open_cnts # 1
    BY <1>1, <2>3
  <2> QED BY <2>2, <2>4
<1> QED BY <1>2, <1>4, <1>5

(* A call closes the inode that it uses.                                   *)
LEMMA CallClosesKept ==
    ASSUME Sound, NEW t \in Process, Uses(t), heap' = Closed(heap, local[t].inode),
           free_list' = FreedBy(heap, local[t].inode), Return(t),
           \/ table' = table
           \/ local[t].op = "unlink" /\ table' = [table EXCEPT ![local[t].no] = Root],
           UNCHANGED <<first, files, named, taken, stopped>>
    PROVE  Kept
<1>1. t \in Task /\ Types /\ ~Holds(t) /\ ~hung'
  BY Constants DEF Sound, Uses, Holds
<1>2. PICK b \in Address : b = local[t].inode
  BY <1>1 DEF Sound, CallFits, Uses
<1>3. t \in TasksWith(b)
  BY <1>1, <1>2 DEF TasksWith, Uses
<1>4. b \notin Held
  BY <1>3, HeldIs DEF Sound, OwnBlock
<1>5. /\ pc' \in [Task -> {"unborn", "run", "reading", "using", "unnaming", "deleting",
                           "naming", "syncing", "pushing", "counting", "done"}]
      /\ local' \in [Task -> Call]
      /\ pc'[t] \in {"run", "done"} /\ local'[t] = NoCall
      /\ Moves(t) /\ CallFits(t)' /\ ~Holds(t)' /\ ~Uses(t)' /\ OwnBlock(t)'
  BY <1>1, Returns
<1>6. \A a : SlotsWith(a)' = SlotsWith(a)
  BY SlotsSame
<1>7. Claims(b)' = Claims(b) - 1
  <2>1. t \notin TasksWith(b)' /\ TasksWith(b) \ {t} = TasksWith(b)' \ {t}
    BY <1>1, <1>5, TasksAfter
  <2>2. TasksWith(b)' = TasksWith(b) \ {t}
    BY ONLY <2>1
  <2> QED BY <1>3, <1>6, <2>2, ClaimDropped
<1>8. heap \in [Address -> Inode]
  BY <1>1 DEF Types
<1>9. /\ heap' \in [Address -> Inode]
      /\ free_list' \in Seq(Address)
      /\ \A j, k \in 1 .. Len(free_list') : free_list'[j] = free_list'[k] => j = k
      /\ \A a \in Address \ {b} : heap'[a] = heap[a]
      /\ heap'[b].i_open_cnts = heap[b].i_open_cnts - 1 /\ heap'[b].next = heap[b].next
      /\ heap'[b].i_no = IF heap[b].i_open_cnts = 1 THEN Link ELSE heap[b].i_no
      /\ ListIsWhole' /\ FreeBlocks' /\ RootIsOpen'
      /\ Claims(b)' <= heap'[b].i_open_cnts
      /\ Claims(b)' > 0 => heap'[b].i_no # Link
  BY <1>2, <1>3, <1>4, <1>7, <1>8, CloseBlock
<1>10. Types'
  <2>1. Tables
    BY <1>1, TablesAre
  <2>2. table' \in [Number -> Number]
    BY <2>1, Constants DEF Tables
  <2>3. Tables' /\ first' \in Address
    BY <1>1, <1>5, <2>1, <2>2 DEF Tables, Types
  <2> QED BY <1>9, <2>3, TypesAre
<1>11. \A a \in Address \ {b} : Spared(a)
  BY <1>1, <1>6, <1>9, SparedBlock, Inodes
<1>12. \A u \in Task : Holds(u) => local[u].inode # b
  BY <1>4, NoHolder
<1>13. Sound'
  BY ONLY Sound, <1>1, <1>2, <1>5, <1>9, <1>10, <1>11, <1>12, StepSound
<1>14. ASSUME Orderly, alone
       PROVE  Orderly'
  <2>1. /\ Numbers /\ SlotsAreNamed /\ OwnSlots /\ Quiet(t) /\ ~panic
        /\ AloneFits(t) /\ CallFits(t)
    BY <1>1, <1>14, IsQuiet DEF Orderly, InCall, Uses, Sound
  <2>2. pc[main] \in {"run", "unborn", "done"} /\ pc'[main] \in {"run", "unborn", "done"}
    BY <1>5, <2>1, Constants DEF Quiet, Moves
  <2>3. ~Creating /\ ~Creating'
    BY <2>2 DEF Creating
  <2>4. Others(b) /\ b \notin Held'
    <3>1. ASSUME NEW u \in Task, Holds(u)' PROVE local'[u].inode # b
      BY <1>5, <1>12, <3>1 DEF Moves, Holds
    <3> QED BY <1>6, <1>9, <3>1, HeldIs DEF Others
  <2>5. Claims(b) >= 1
    BY <1>3, <1>4, UsedBlock
  <2>6. /\ ExactCounts' /\ InodesAreShared'
        /\ SlotsWith(b)' # {} => heap'[b].i_no \in named
    BY <1>1, <1>2, <1>4, <1>5, <1>6, <1>7, <1>9, <1>14, <2>3, <2>4, <2>5, CloseExact
  <2>7. Numbers'
    <3>1. ASSUME local[t].op = "unlink"
          PROVE  local[t].no \notin named \cup {Root}
      BY <2>1, <3>1, Constants DEF AloneFits, CallFits, Uses
    <3>2. ASSUME NEW no \in named \cup {Root}
          PROVE  table'[no] = no
      <4>1. table[no] = no /\ no \in Number /\ table \in [Number -> Number]
        BY <1>1, <2>1, <2>2, Constants DEF Numbers, Types
      <4> QED BY <3>1, <4>1
    <3> QED BY <2>1, <3>2 DEF Numbers
  <2>8. SlotsAreNamed'
    BY <1>10, <2>1, <2>3, <2>4, <2>6, NamedStep
  <2>9. OwnSlots'
    <3>1. \A u \in Task, fd \in Fd :
              fd_table[u][fd] # NoSlot => file_table'[fd_table[u][fd]].fd_inode # NULL
      BY <2>1 DEF OwnSlots
    <3> QED BY <1>1, <1>5, <2>1, <3>1, NoCallIs, OwnSlotsKept
  <2>10. AloneFits(t)' /\ ~panic'
    BY <1>1, <1>5, <2>1, FitsOutside
  <2> QED BY <1>1, <1>5, <2>1, <2>6, <2>7, <2>8, <2>9, <2>10, StepOrderly
<1> QED BY <1>13, <1>14 DEF Kept, Orderly

LEMMA DirCloseKept ==
    ASSUME Sound, NEW t \in Process, dir_close(t)
    PROVE  Kept
<1>1. Uses(t)
  BY DEF dir_close, At, Uses
<1> QED BY <1>1, CallClosesKept DEF dir_close

LEMMA InodeDeleteKept ==
    ASSUME Sound, NEW t \in Process, inode_delete(t)
    PROVE  Kept
<1>1. Uses(t)
  BY DEF inode_delete, At, Uses
<1>2. local[t].op = "unlink"
  BY Constants DEF Sound, CallFits, inode_delete, At
<1> QED BY <1>1, <1>2, CallClosesKept DEF inode_delete

LEMMA SysCloseKept ==
    ASSUME Sound, NEW t \in Process, NEW fd \in Fd, sys_close(t, fd)
    PROVE  Kept
<1>1. PICK slot, b : slot = fd_table[t][fd] /\ b = file_table[slot].fd_inode
  OBVIOUS
<1>2. t \in Task /\ Types /\ pc[t] = "run" /\ ~hung'
  BY Constants DEF Sound, sys_close, Idle, At
<1>3. slot \in Slot /\ b \in Address \cup {NULL}
  <2>1. fd_table[t][fd] \in Slot \cup {NoSlot} /\ fd_table[t][fd] # NoSlot
    BY <1>2 DEF Types, sys_close
  <2> QED BY <1>1, <1>2, <2>1 DEF Types
<1>4. UNCHANGED <<first, disk, pc, local, alone, hung>>
  BY DEF sys_close
<1>5. /\ Moves(t) /\ CallFits(t)' /\ ~Holds(t) /\ ~Uses(t) /\ ~Holds(t)' /\ ~Uses(t)'
      /\ OwnBlock(t)' /\ \A a : TasksWith(a)' = TasksWith(a)
  <2>1. Moves(t) /\ CallFits(t)' /\ ~Holds(t) /\ ~Uses(t) /\ ~Holds(t)' /\ ~Uses(t)'
    BY <1>2, <1>4, Stays, Outside
  <2> QED BY <1>4, <2>1 DEF OwnBlock, TasksWith
<1>6. Tables /\ first' \in Address
  BY <1>2, <1>4, TablesAre DEF Types
<1>7. ASSUME b = NULL PROVE Sound'
  <2>1. panic' = TRUE /\ UNCHANGED <<heap, free_list, file_table, fd_table>>
    BY <1>1, <1>7 DEF sys_close
  <2>2. Types'
    BY <1>2, <1>4, <2>1 DEF Types
  <2>3. \A a : SlotsWith(a)' = SlotsWith(a)
    BY <2>1, SlotsSame
  <2>4. \A a \in Address : Spared(a)
    BY <1>2, <2>1, <2>3, SparedBlock, Inodes
  <2>5. ListIsWhole' /\ FreeBlocks' /\ RootIsOpen'
    BY <1>4, <2>1, ListKept, FreeKept DEF Sound, RootIsOpen
  <2>6. \A u \in Task : Holds(u) => local[u].inode # NULL
    BY HeldBlock, Constants
  <2> QED BY <1>2, <1>5, <2>2, <2>4, <2>5, <2>6, StepSound
<1>8. ASSUME b # NULL PROVE Sound'
  <2>0. b \in Address
    BY <1>3, <1>8
  <2>1. PICK h : h = [heap EXCEPT ![b].write_deny = FALSE]
    OBVIOUS
  <2>2. /\ heap' = Closed(h, b) /\ free_list' = FreedBy(h, b)
        /\ file_table' = [file_table EXCEPT ![slot].fd_inode = NULL]
        /\ fd_table' = [fd_table EXCEPT ![t][fd] = NoSlot] /\ panic' = panic
    BY <1>1, <1>8, <2>1 DEF sys_close, EmptyTheSlot
  <2>3. /\ h \in [Address -> Inode] /\ \A a \in Address \ {b} : h[a] = heap[a]
        /\ h[b].i_no = heap[b].i_no /\ h[b].next = heap[b].next
        /\ h[b].i_open_cnts = heap[b].i_open_cnts
    <3>1. heap \in [Address -> Inode] /\ heap[b] \in Inode
      BY <1>2, <2>0 DEF Types
    <3> QED BY <2>0, <2>1, <3>1 DEF Inode
  <2>4. /\ file_table' \in [Slot -> [fd_inode : Address \cup {NULL}, writes : BOOLEAN]]
        /\ file_table'[slot].fd_inode = NULL
        /\ \A s \in Slot \ {slot} : file_table'[s].fd_inode = file_table[s].fd_inode
        /\ fd_table' \in [Task -> [Fd -> Slot \cup {NoSlot}]]
    BY <1>2, <1>3, <2>2 DEF Types
  <2>5. \A a : SlotsWith(a)' = IF a = NULL THEN SlotsWith(a) \cup {slot} ELSE SlotsWith(a) \ {slot}
    BY ONLY <1>3, <2>4, SlotsAfter
  <2>6. \A a \in Address : SlotsWith(a)' = SlotsWith(a) \ {slot}
    BY ONLY <2>5, Constants
  <2>7. Tables'
    BY <1>4, <1>6, <2>2, <2>4 DEF Tables
  <2>8. slot \in SlotsWith(b)
    BY <1>1, <1>3 DEF SlotsWith
  <2>9. CASE b \notin Held
    <3>1. Claims(b)' = Claims(b) - 1
      BY <1>5, <2>0, <2>6, <2>8, ClaimDropped
    <3>2. /\ heap' \in [Address -> Inode]
          /\ free_list' \in Seq(Address)
          /\ \A j, k \in 1 .. Len(free_list') : free_list'[j] = free_list'[k] => j = k
          /\ \A a \in Address \ {b} : heap'[a] = heap[a]
          /\ ListIsWhole' /\ FreeBlocks' /\ RootIsOpen'
          /\ Claims(b)' <= heap'[b].i_open_cnts
          /\ Claims(b)' > 0 => heap'[b].i_no # Link
      BY <1>4, <2>0, <2>2, <2>3, <2>8, <2>9, <3>1, CloseBlock
    <3>3. Types'
      BY <1>6, <2>7, <3>2, TypesAre
    <3>4. \A a \in Address \ {b} : Spared(a)
      BY <1>2, <2>6, <3>2, SparedBlock, Inodes
    <3>5. \A u \in Task : Holds(u) => local[u].inode # b
      BY <2>9, NoHolder
    <3> QED BY ONLY Sound, <1>2, <1>5, <2>0, <3>2, <3>3, <3>4, <3>5, StepSound
  <2>10. CASE b \in Held
    <3>1. heap[b].i_open_cnts = 0 /\ SlotsWith(b) = {slot} /\ heap[b].i_no # Link
      <4>1. PICK u \in Task : Holds(u) /\ local[u].inode = b
        BY <2>10, HeldIs
      <4>2. \A s \in SlotsWith(b) : s = local[main].slot /\ heap[b].i_open_cnts = 0
        BY <4>1, HeldBlock
      <4>3. heap[b].i_no # Link
        BY <4>1, HeldBlock
      <4> QED BY <2>8, <4>2, <4>3
    <3>2. /\ heap' \in [Address -> Inode] /\ \A a \in Address \ {b} : heap'[a] = heap[a]
          /\ heap'[b].i_no = heap[b].i_no /\ heap'[b].next = heap[b].next
          /\ heap'[b].i_open_cnts \in Nat
      <4>1. ~LastClose(h, b)
        BY <2>3, <3>1 DEF LastClose
      <4>2. PICK n \in Nat : n = Counts - 1
        BY OpenFilesAssumption
      <4>3. h[b] \in Inode
        BY <2>0, <2>3
      <4>4. PICK e : e = [h[b] EXCEPT !.i_open_cnts = n]
        OBVIOUS
      <4>5. e \in Inode /\ e.i_open_cnts \in Nat /\ e.i_no = h[b].i_no /\ e.next = h[b].next
        BY ONLY <4>2, <4>3, <4>4 DEF Inode
      <4>6. heap' = [h EXCEPT ![b] = e]
        BY ONLY <2>0, <2>2, <2>3, <3>1, <4>1, <4>2, <4>3, <4>4 DEF Closed, Inode
      <4>7. heap'[b] = e /\ heap' \in [Address -> Inode] /\ \A a \in Address \ {b} : heap'[a] = h[a]
        BY ONLY <2>0, <2>3, <4>5, <4>6
      <4> QED BY ONLY <2>0, <2>3, <4>5, <4>7
    <3>3. free_list' = free_list
      BY <2>2, <2>3, <3>1 DEF FreedBy, LastClose
    <3>4. ListIsWhole' /\ FreeBlocks' /\ RootIsOpen'
      <4>1. \A a \in Address : heap'[a].next = heap[a].next /\ heap'[a].i_no = heap[a].i_no
        BY ONLY <3>2
      <4> QED BY <1>4, <3>3, <4>1, ListKept, FreeKept, Constants DEF Sound, RootIsOpen
    <3>5. Types'
      <4>1. /\ free_list' \in Seq(Address)
            /\ \A j, k \in 1 .. Len(free_list') : free_list'[j] = free_list'[k] => j = k
        BY <1>2, <3>3 DEF Types
      <4> QED BY <1>6, <2>7, <3>2, <4>1, TypesAre
    <3>6. \A a \in Address \ {b} : Spared(a)
      BY <1>2, <2>6, <3>2, SparedBlock, Inodes
    <3>7. Spared(b)
      <4>1. SlotsWith(b)' = {}
        BY <2>0, <2>6, <3>1
      <4> QED BY <3>1, <3>2, <4>1 DEF Spared
    <3>8. \A u \in Task : Holds(u) => local[u].inode # NULL
      BY HeldBlock, Constants
    <3>9. \A a \in Address : Spared(a)
      BY <3>6, <3>7
    <3> QED BY ONLY Sound, <1>2, <1>5, <3>4, <3>5, <3>8, <3>9, StepSound
  <2> QED BY <2>9, <2>10
<1>9. Sound'
  BY <1>7, <1>8
<1>10. ASSUME Orderly, alone
       PROVE  Orderly'
  <2>1. /\ SlotsAreNamed /\ OwnSlots /\ Quiet(t) /\ Idle(t) /\ ~panic
        /\ fd_table[t][fd] # NoSlot
    BY <1>2, <1>10, IsQuiet DEF Orderly, sys_close
  <2>2. /\ ~Creating /\ Held = {}
        /\ \A u \in Task : pc[u] \in {"run", "unborn", "done"} /\ local[u] = NoCall
    BY <1>2, <1>10, <2>1, AloneIdle
  <2>3. Held' = {}
    BY <1>4, <2>2 DEF Held, Holds
  <2>4. b \in Address
    BY <1>1, <1>2, <1>3, <2>1 DEF OwnSlots
  <2>5. PICK h : h = [heap EXCEPT ![b].write_deny = FALSE]
    OBVIOUS
  <2>6. /\ heap' = Closed(h, b) /\ free_list' = FreedBy(h, b)
        /\ file_table' = [file_table EXCEPT ![slot].fd_inode = NULL]
        /\ fd_table' = [fd_table EXCEPT ![t][fd] = NoSlot] /\ panic' = panic
    BY <1>1, <2>4, <2>5, Constants DEF sys_close, EmptyTheSlot
  <2>7. /\ file_table'[slot].fd_inode = NULL
        /\ \A s \in Slot \ {slot} : file_table'[s].fd_inode = file_table[s].fd_inode
        /\ fd_table'[t][fd] = NoSlot
        /\ \A u \in Task, gd \in Fd : u # t \/ gd # fd => fd_table'[u][gd] = fd_table[u][gd]
    BY <1>2, <1>3, <2>6 DEF Types
  <2>8. \A a \in Address : SlotsWith(a)' = SlotsWith(a) \ {slot}
    <3>1. \A a : SlotsWith(a)' = IF a = NULL THEN SlotsWith(a) \cup {slot} ELSE SlotsWith(a) \ {slot}
      BY ONLY <1>3, <2>7, SlotsAfter
    <3> QED BY ONLY <3>1, Constants
  <2>9. slot \in SlotsWith(b) /\ \A a : a # b => slot \notin SlotsWith(a)
    BY <1>1, <1>3 DEF SlotsWith
  <2>10. Claims(b)' = Claims(b) - 1
    BY <1>5, <2>4, <2>8, <2>9, ClaimDropped
  <2>11. /\ \A a \in Address \ {b} : heap'[a] = heap[a]
         /\ heap'[b].i_open_cnts = heap[b].i_open_cnts - 1 /\ heap'[b].next = heap[b].next
         /\ heap'[b].i_no = IF heap[b].i_open_cnts = 1 THEN Link ELSE heap[b].i_no
    <3>1. /\ h \in [Address -> Inode] /\ \A a \in Address \ {b} : h[a] = heap[a]
          /\ h[b].i_no = heap[b].i_no /\ h[b].next = heap[b].next
          /\ h[b].i_open_cnts = heap[b].i_open_cnts
      <4>1. heap \in [Address -> Inode] /\ heap[b] \in Inode
        BY <1>2, <2>4 DEF Types
      <4> QED BY <2>4, <2>5, <4>1 DEF Inode
    <3> QED BY <1>4, <2>2, <2>4, <2>6, <2>9, <2>10, <3>1, CloseBlock
  <2>12. Others(b)
    BY <2>8, <2>9, <2>11 DEF Others
  <2>13. Claims(b) >= 1
    BY <2>2, <2>4, <2>9, UsedBlock
  <2>14. /\ ExactCounts' /\ InodesAreShared'
         /\ SlotsWith(b)' # {} => heap'[b].i_no \in named
    BY <1>2, <1>5, <1>10, <2>2, <2>3, <2>4, <2>8, <2>10, <2>11, <2>12, <2>13, CloseExact
  <2>15. Numbers' /\ SlotsAreNamed'
    BY <1>4, <1>5, <1>9, <1>10, <2>1, <2>12, <2>14, NamesStep
  <2>16. OwnSlots'
    <3>1. \A u \in Task, gd \in Fd :
             u # t \/ gd # fd => fd_table[u][gd] # slot /\ fd_table[u][gd] \in Slot \cup {NoSlot}
      BY <1>1, <1>2, <2>1 DEF OwnSlots, Types
    <3>2. \A u \in Task : local'[u].op = "none"
      BY <1>4, <2>2, NoCallIs
    <3>3. ASSUME NEW u \in Task, NEW gd \in Fd, fd_table'[u][gd] # NoSlot
          PROVE  /\ fd_table'[u][gd] = fd_table[u][gd] /\ fd_table[u][gd] # NoSlot
                 /\ file_table'[fd_table'[u][gd]].fd_inode # NULL
      <4>1. (u # t \/ gd # fd) /\ fd_table'[u][gd] = fd_table[u][gd] /\ fd_table[u][gd] # NoSlot
        BY ONLY <2>7, <3>3
      <4>2. fd_table[u][gd] \in Slot \ {slot} /\ file_table[fd_table[u][gd]].fd_inode # NULL
        BY <2>1, <3>1, <4>1 DEF OwnSlots
      <4> QED BY ONLY <2>7, <4>1, <4>2
    <3>4. ASSUME NEW u \in Task, NEW v \in Task, NEW gd \in Fd, NEW hd \in Fd,
                 fd_table'[u][gd] # NoSlot, fd_table'[u][gd] = fd_table'[v][hd]
          PROVE  u = v /\ gd = hd
      <4>1. /\ fd_table'[u][gd] = fd_table[u][gd] /\ fd_table'[v][hd] = fd_table[v][hd]
            /\ fd_table[u][gd] # NoSlot
        BY <3>3, <3>4
      <4>2. \A x, y \in Task, m, n \in Fd :
                fd_table[x][m] # NoSlot /\ fd_table[x][m] = fd_table[y][n] => x = y /\ m = n
        BY <2>1 DEF OwnSlots
      <4>3. fd_table[u][gd] = fd_table[v][hd]
        BY ONLY <3>4, <4>1
      <4> QED BY ONLY <4>1, <4>2, <4>3, u \in Task, v \in Task, gd \in Fd, hd \in Fd
    <3> QED BY ONLY <3>2, <3>3, <3>4 DEF OwnSlots
  <2>17. AloneFits(t)' /\ ~panic'
    BY <1>2, <1>4, <2>1, <2>2, <2>6, FitsOutside
  <2> QED BY <1>2, <1>5, <2>1, <2>14, <2>15, <2>16, <2>17, StepOrderly
<1> QED BY <1>4, <1>9, <1>10 DEF Kept, Orderly


(* A step that leaves the inodes and the files as they are.                *)
LEMMA InodesKept ==
    ASSUME Sound, NEW t \in Task, Moves(t), UNCHANGED <<inodes, files>>, ~hung', Tables',
           CallFits(t)', Holds(t)' <=> Holds(t), Uses(t)' <=> Uses(t),
           Holds(t) \/ Uses(t) => local'[t] = local[t],
           Holds(t) => pc[t] # "counting" /\ pc'[t] # "counting"
    PROVE  Sound'
<1>1. Types /\ Types'
  BY TypesAre DEF Sound, Types
<1>2. \A a : SlotsWith(a)' = SlotsWith(a)
  BY SlotsSame
<1>3. \A a \in Address : Spared(a)
  BY <1>1, <1>2, SparedBlock, Inodes
<1>4. ListIsWhole' /\ FreeBlocks' /\ RootIsOpen'
  BY ListKept, FreeKept DEF Sound, RootIsOpen
<1>5. ASSUME NEW a
      PROVE  TasksWith(a)' = TasksWith(a)
  <2>1. t \in TasksWith(a)' <=> t \in TasksWith(a)
    BY TasksAfter
  <2> QED BY <2>1, TasksAfter
<1>6. CASE Holds(t)
  <2>1. PICK b \in Address :
              /\ b = local[t].inode /\ b # 1 /\ b \in Held
              /\ heap[b].next = NULL /\ heap[b].i_no # Link
              /\ t = main => heap[b].i_no = local[main].no
              /\ \A u \in Task \ {t} : Holds(u) => local[u].inode # b
              /\ TasksWith(b) = {}
              /\ \A s \in SlotsWith(b) :
                    t = main /\ s = local[main].slot /\ heap[b].i_open_cnts = 0
    BY <1>6, HeldBlock
  <2>2. local'[t] = local[t] /\ ~Uses(t)
    BY <1>6 DEF Holds, Uses
  <2>3. \A u \in Task \ {t} : Holds(u)' => local'[u].inode # b
    BY <2>1 DEF Moves, Holds
  <2>4. \A s \in SlotsWith(b)' : t = main /\ s = local'[main].slot /\ heap'[b].i_open_cnts = 0
    BY <1>2, <2>1, <2>2
  <2>5. OwnBlock(t)'
    <3>1. /\ TasksWith(b)' = {} /\ heap'[b].next = NULL /\ heap'[b].i_no # Link
          /\ t = main => heap'[b].i_no = local'[main].no
          /\ pc'[t] # "counting"
      BY <1>5, <1>6, <2>1, <2>2
    <3> QED BY ONLY <2>1, <2>2, <2>3, <2>4, <3>1 DEF OwnBlock
  <2>6. b \in Held'
    BY <1>6, <2>1, <2>2, HeldIs
  <2> QED BY <1>1, <1>3, <1>4, <1>6, <2>1, <2>2, <2>5, <2>6, StepSound
<1>7. CASE ~Holds(t) /\ Uses(t)
  <2>1. PICK b \in Address : b = local[t].inode
    BY <1>7 DEF Sound, CallFits, Uses
  <2>2. t \in TasksWith(b)
    BY <1>7, <2>1 DEF TasksWith, Uses
  <2>3. b \notin Held
    BY <2>2, HeldIs DEF Sound, OwnBlock
  <2>4. Claims(b)' <= heap'[b].i_open_cnts /\ (Claims(b)' > 0 => heap'[b].i_no # Link)
    <3>1. Claims(b)' = Claims(b)
      BY <1>2, <1>5, ClaimsKept
    <3> QED BY <2>3, <3>1 DEF Sound, Shares
  <2>5. OwnBlock(t)' /\ \A u \in Task : Holds(u) => local[u].inode # b
    BY <1>7, <2>3, NoHolder DEF OwnBlock
  <2> QED BY <1>1, <1>3, <1>4, <1>7, <2>1, <2>4, <2>5, StepSound
<1>8. CASE ~Holds(t) /\ ~Uses(t)
  <2>1. \A u \in Task : Holds(u) => local[u].inode # NULL
    BY HeldBlock, Constants
  <2>2. OwnBlock(t)'
    BY <1>8 DEF OwnBlock
  <2> QED BY <1>1, <1>3, <1>4, <1>8, <2>1, <2>2, StepSound
<1> QED BY <1>6, <1>7, <1>8

LEMMA InodesExact ==
    ASSUME ExactCounts, InodesAreShared, NEW t \in Task, Moves(t), UNCHANGED <<inodes, files>>,
           Holds(t)' <=> Holds(t), Uses(t)' <=> Uses(t), alone,
           Holds(t) \/ Uses(t) => local'[t] = local[t]
    PROVE  ExactCounts' /\ InodesAreShared' /\ \A b : Others(b)
<1>1. heap' = heap /\ \A a : SlotsWith(a)' = SlotsWith(a)
  BY SlotsSame
<1>2. \A a : TasksWith(a)' = TasksWith(a)
  <2> SUFFICES ASSUME NEW a PROVE TasksWith(a)' = TasksWith(a)
    OBVIOUS
  <2>1. t \in TasksWith(a)' <=> t \in TasksWith(a)
    BY TasksAfter
  <2> QED BY <2>1, TasksAfter
<1>3. \A u \in Task : (Holds(u)' <=> Holds(u)) /\ (Holds(u) => local'[u].inode = local[u].inode)
  BY DEF Moves, Holds
<1>4. \A a : a \in Held' <=> a \in Held
  BY <1>3, HeldIs
<1>5. \A a : Claims(a)' = Claims(a)
  BY <1>1, <1>2, ClaimsKept
<1>6. ExactCounts'
  BY <1>1, <1>4, <1>5 DEF ExactCounts
<1>7. InodesAreShared'
  BY <1>1 DEF InodesAreShared
<1> QED BY <1>1, <1>6, <1>7 DEF Others

LEMMA UnlinkKept ==
    ASSUME Sound, NEW t \in Process, NEW no \in Number, sys_unlink(t, no)
    PROVE  Kept
<1>1. PICK c : c = [NoCall EXCEPT !.op = "unlink", !.no = no]
  OBVIOUS
<1>2. /\ pc[t] = "run" /\ local' = [local EXCEPT ![t] = c] /\ Goto(t, "unnaming")
      /\ UNCHANGED <<inodes, files, disk, stopped>> /\ no \in named
  BY <1>1 DEF sys_unlink, Idle, At
<1>3. t \in Task /\ t # main /\ Types /\ no \in File /\ ~hung'
  BY <1>2, Constants DEF Sound, Types
<1>4. c \in Call /\ c.op = "unlink" /\ c.no = no
  BY <1>1, Constants DEF NoCall, Call
<1>5. /\ pc' \in [Task -> {"unborn", "run", "reading", "using", "unnaming", "deleting",
                           "naming", "syncing", "pushing", "counting", "done"}]
      /\ local' \in [Task -> Call]
      /\ pc'[t] = "unnaming" /\ local'[t] = c /\ Moves(t)
  BY <1>2, <1>3, <1>4, GoesOn
<1>6. Tables'
  <2>1. Tables
    BY <1>3, TablesAre
  <2> QED BY <1>2, <1>5, <2>1 DEF Tables
<1>7. ~Holds(t) /\ ~Uses(t) /\ ~Holds(t)' /\ ~Uses(t)'
  BY <1>2, <1>5 DEF Holds, Uses
<1>8. CallFits(t)'
  BY <1>3, <1>4, <1>5 DEF CallFits
<1>9. Sound'
  BY <1>2, <1>3, <1>5, <1>6, <1>7, <1>8, InodesKept
<1>10. ASSUME Orderly, alone
       PROVE  Orderly'
  <2>1. /\ ExactCounts /\ InodesAreShared /\ OwnSlots /\ Numbers /\ SlotsAreNamed
        /\ Quiet(t) /\ Idle(t) /\ ~panic /\ ~InUse(no)
    BY <1>3, <1>10, IsQuiet DEF Orderly, sys_unlink, MayDelete
  <2>2. ~Creating
    BY <1>3, <1>10, <2>1, AloneIdle
  <2>3. ExactCounts' /\ InodesAreShared' /\ \A b : Others(b)
    BY <1>2, <1>3, <1>5, <1>7, <1>10, <2>1, InodesExact
  <2>4. Numbers' /\ SlotsAreNamed'
    <3>1. SlotsWith(NULL)' # {} /\ NULL # NULL => heap'[NULL].i_no \in named'
      OBVIOUS
    <3> QED BY <1>2, <1>3, <1>5, <1>9, <1>10, <2>1, <2>3, <3>1, NamesStep
  <2>5. OwnSlots'
    <3>1. \A u \in Task, fd \in Fd :
              fd_table[u][fd] # NoSlot => file_table'[fd_table[u][fd]].fd_inode # NULL
      BY <1>2, <2>1 DEF OwnSlots
    <3> QED BY <1>2, <1>3, <1>4, <1>5, <2>1, <3>1, OwnSlotsKept
  <2>6. AloneFits(t)'
    <3>1. table'[no] = no
      BY <1>2, <2>1, <2>2 DEF Numbers, Creating
    <3>2. ~InUse(no)'
      BY <1>2, <2>1 DEF InUse
    <3> QED BY ONLY <1>4, <1>5, <3>1, <3>2 DEF AloneFits, Holds
  <2> QED BY <1>2, <1>3, <1>5, <2>1, <2>3, <2>4, <2>5, <2>6, StepOrderly
<1> QED BY <1>2, <1>9, <1>10 DEF Kept, Orderly

LEMMA ReleaseKept ==
    ASSUME Sound, NEW t \in Process, ReleaseNumber(t)
    PROVE  Kept
<1>1. /\ pc[t] = "using" /\ local[t].op = "unlink" /\ Goto(t, "deleting")
      /\ taken' = taken \ {local[t].no}
      /\ UNCHANGED <<inodes, files, named, table, local, stopped>>
  BY DEF ReleaseNumber, At
<1>2. t \in Task /\ Types /\ ~hung' /\ CallFits(t)
  BY <1>1, Constants DEF Sound
<1>3. /\ pc' \in [Task -> {"unborn", "run", "reading", "using", "unnaming", "deleting",
                           "naming", "syncing", "pushing", "counting", "done"}]
      /\ pc'[t] = "deleting" /\ Moves(t) /\ local'[t] = local[t]
  BY <1>1, <1>2 DEF Types, Moves
<1>4. Tables'
  <2>1. Tables
    BY <1>2, TablesAre
  <2> QED BY <1>1, <1>3, <2>1 DEF Tables
<1>5. ~Holds(t) /\ Uses(t) /\ ~Holds(t)' /\ Uses(t)'
  BY <1>1, <1>3 DEF Holds, Uses
<1>6. CallFits(t)'
  BY ONLY <1>1, <1>2, <1>3 DEF CallFits
<1>7. Sound'
  BY <1>1, <1>2, <1>3, <1>4, <1>5, <1>6, InodesKept
<1>8. ASSUME Orderly, alone
      PROVE  Orderly'
  <2>1. /\ ExactCounts /\ InodesAreShared /\ OwnSlots /\ Numbers /\ SlotsAreNamed
        /\ Quiet(t) /\ ~panic /\ AloneFits(t)
    BY <1>1, <1>2, <1>8, IsQuiet DEF Orderly, InCall
  <2>2. pc[main] \in {"run", "unborn", "done"} /\ pc'[main] \in {"run", "unborn", "done"}
    BY <1>2, <1>3, <2>1, Constants DEF Quiet, Moves
  <2>3. ExactCounts' /\ InodesAreShared' /\ \A b : Others(b)
    BY <1>1, <1>2, <1>3, <1>5, <1>8, <2>1, InodesExact
  <2>4. local[t].no \notin named /\ local[t].no \in File
    BY <1>1, <1>2, <2>1 DEF AloneFits, CallFits
  <2>5. Numbers'
    <3>1. local[t].no # Root
      BY <2>4, Constants, OpenFilesAssumption DEF Root
    <3> QED BY ONLY <1>1, <2>1, <2>2, <2>4, <3>1 DEF Numbers
  <2>6. SlotsAreNamed'
    <3>1. heap' = heap /\ file_table' = file_table /\ named' = named
      BY <1>1
    <3> QED BY <2>1, <2>2, <3>1 DEF SlotsAreNamed, Creating
  <2>7. OwnSlots'
    <3>1. \A u \in Task, fd \in Fd :
              fd_table[u][fd] # NoSlot => file_table'[fd_table[u][fd]].fd_inode # NULL
      BY <1>1, <2>1 DEF OwnSlots
    <3> QED BY <1>1, <1>2, <1>3, <2>1, <3>1, OwnSlotsKept
  <2>8. AloneFits(t)'
    BY ONLY <1>1, <1>3, <2>4 DEF AloneFits, Holds
  <2> QED BY <1>1, <1>2, <1>3, <2>1, <2>3, <2>5, <2>6, <2>7, <2>8, StepOrderly
<1> QED BY <1>1, <1>7, <1>8 DEF Kept, Orderly

(* The steps of file_create between its first and its last.                *)
LEMMA CreatingKept ==
    ASSUME Sound, sync_dir_entry \/ inode_sync, \A no \in File : no < SyncNumbers
    PROVE  Kept
<1>0. inode_locate(local[main].no) = local[main].no \/ ~inode_sync
  <2>1. CASE inode_sync
    <3>1. local[main].no \in File /\ local[main].no \in Nat
      BY <2>1, Constants DEF inode_sync, At, Sound, CallFits
    <3>2. local[main].no < SyncNumbers /\ SyncNumbers \in Nat \ {0}
      BY <3>1, OpenFilesAssumption
    <3> QED BY ONLY <3>1, <3>2, SMT DEF inode_locate
  <2> QED BY <2>1
<1>1. PICK label \in {"syncing", "pushing"} : Goto(main, label)
  BY DEF sync_dir_entry, inode_sync
<1>2. /\ pc[main] \in {"naming", "syncing"}
      /\ UNCHANGED <<inodes, files, taken, local, stopped>>
  BY DEF sync_dir_entry, inode_sync, At
<1>3. main \in Task /\ Types /\ ~hung' /\ CallFits(main)
  BY <1>2, Constants DEF Sound
<1>4. local[main].op = "create" /\ local[main].no \in File
  BY <1>2, <1>3 DEF CallFits
<1>5. /\ pc' \in [Task -> {"unborn", "run", "reading", "using", "unnaming", "deleting",
                           "naming", "syncing", "pushing", "counting", "done"}]
      /\ pc'[main] = label /\ Moves(main) /\ local'[main] = local[main]
  BY <1>1, <1>2, <1>3 DEF Types, Moves
<1>6. named' \subseteq File /\ table' \in [Number -> Number]
  <2>1. named \subseteq File /\ table \in [Number -> Number] /\ local[main].no \in Number
    BY <1>3, <1>4, Constants DEF Types
  <2> QED BY <1>0, <1>4, <2>1 DEF sync_dir_entry, inode_sync
<1>7. Tables'
  <2>1. Tables
    BY <1>3, TablesAre
  <2> QED BY <1>2, <1>5, <1>6, <2>1 DEF Tables
<1>8. Holds(main) /\ ~Uses(main) /\ Holds(main)' /\ ~Uses(main)'
  BY <1>2, <1>5 DEF Holds, Uses
<1>9. CallFits(main)'
  BY ONLY <1>2, <1>3, <1>4, <1>5 DEF CallFits
<1>10. Sound'
  BY <1>2, <1>3, <1>5, <1>7, <1>8, <1>9, InodesKept
<1>11. ASSUME Orderly, alone
       PROVE  Orderly'
  <2>0. PICK no, b, slot : no = local[main].no /\ b = local[main].inode /\ slot = local[main].slot
    OBVIOUS
  <2>1. /\ ExactCounts /\ InodesAreShared /\ OwnSlots /\ Numbers /\ SlotsAreNamed
        /\ Quiet(main) /\ ~panic /\ AloneFits(main) /\ Creating /\ Creating'
    BY <1>1, <1>2, <1>3, <1>5, <1>11, IsQuiet DEF Orderly, InCall, Creating
  <2>2. ExactCounts' /\ InodesAreShared'
    BY <1>2, <1>3, <1>5, <1>8, <1>11, <2>1, InodesExact
  <2>3. /\ \/ named' = named \cup {no} /\ table' = table /\ pc'[main] = "syncing"
           \/ named' = named /\ table' = [table EXCEPT ![no] = no] /\ pc'[main] = "pushing"
              /\ pc[main] = "syncing"
        /\ named \subseteq named' /\ no \in named'
    <3>1. CASE sync_dir_entry
      <4>1. named' = named \cup {no} /\ table' = table /\ Goto(main, "syncing")
        BY <2>0, <3>1 DEF sync_dir_entry
      <4>2. pc'[main] = "syncing"
        BY ONLY <1>3, <4>1 DEF Goto, Types
      <4> QED BY ONLY <4>1, <4>2
    <3>2. CASE inode_sync
      <4>1. /\ named' = named /\ table' = [table EXCEPT ![no] = no] /\ Goto(main, "pushing")
            /\ pc[main] = "syncing"
        BY <1>0, <2>0, <3>2 DEF inode_sync, At
      <4>2. pc'[main] = "pushing"
        BY ONLY <1>3, <4>1 DEF Goto, Types
      <4>3. no \in named
        BY <1>4, <2>0, <2>1, <4>1 DEF AloneFits
      <4> QED BY ONLY <4>1, <4>2, <4>3
    <3> QED BY <3>1, <3>2
  <2>4. no \in taken /\ no \in Number /\ table \in [Number -> Number]
    BY <1>3, <1>4, <2>0, <2>1, Constants DEF AloneFits, Types
  <2>5. Numbers'
    <3>1. taken' = taken /\ local'[main].no = no
      BY <1>2, <2>0
    <3>2. \A m \in named \cup {Root} : table[m] = m \/ m = no
      BY <2>0, <2>1 DEF Numbers
    <3>3. named \cup {Root} \subseteq taken
      BY <2>1 DEF Numbers
    <3>4. \A m \in named' \cup {Root} : m \in Number
      BY <1>6, Constants
    <3> QED BY ONLY <2>3, <2>4, <3>1, <3>2, <3>3, <3>4 DEF Numbers
  <2>6. SlotsAreNamed'
    <3>1. heap' = heap /\ file_table' = file_table /\ local' = local
      BY <1>2
    <3> QED BY <2>1, <2>3, <3>1 DEF SlotsAreNamed
  <2>7. OwnSlots'
    <3>1. fd_table' = fd_table /\ file_table' = file_table /\ local' = local
      BY <1>2
    <3> QED BY <2>1, <3>1 DEF OwnSlots
  <2>8. AloneFits(main)'
    <3>1. heap' = heap /\ file_table' = file_table /\ local' = local /\ taken' = taken
      BY <1>2
    <3>2. pc'[main] = "pushing" => table'[no] = no
      BY <2>3, <2>4
    <3>3. \A a \in Address : heap[a].i_open_cnts > 0 => heap[a].i_no # no
      BY <1>8, <2>0, <2>1 DEF AloneFits
    <3>4. file_table[slot].fd_inode = b /\ heap[b].i_no = no
      BY <1>4, <2>0, <2>1 DEF AloneFits
    <3>5. pc'[main] \in {"syncing", "pushing"}
      BY <2>3
    <3> QED BY ONLY <1>4, <2>0, <2>3, <2>4, <3>1, <3>2, <3>3, <3>4, <3>5 DEF AloneFits
  <2> QED BY <1>2, <1>3, <1>5, <2>1, <2>2, <2>5, <2>6, <2>7, <2>8, StepOrderly
<1> QED BY <1>2, <1>10, <1>11 DEF Kept, Orderly


LEMMA CreateFailsKept ==
    ASSUME Sound, CreateFails
    PROVE  Kept
<1>0. PICK slot : slot = local[main].slot
  OBVIOUS
<1>1. /\ pc[main] = "naming"
      /\ file_table' = [file_table EXCEPT ![slot] = EmptySlot]
      /\ heap' = [heap EXCEPT ![local[main].inode].i_no = Link]
      /\ free_list' = Append(free_list, local[main].inode)
      /\ taken' = taken \ {local[main].no} /\ Return(main)
      /\ UNCHANGED <<first, fd_table, named, table, stopped>>
  BY <1>0 DEF CreateFails, At
<1>2. main \in Task /\ Types /\ Holds(main) /\ ~Uses(main) /\ ~hung' /\ slot \in Slot
  <2>1. main \in Task /\ Types /\ Holds(main) /\ ~Uses(main) /\ ~hung'
    BY <1>1, Constants DEF Sound, Holds, Uses
  <2>2. CallFits(main)
    BY <2>1 DEF Sound
  <2> QED BY <1>0, <1>1, <2>1, <2>2 DEF CallFits
<1>3. PICK b \in Address :
              /\ b = local[main].inode /\ b # 1 /\ b \in Held
              /\ heap[b].next = NULL /\ heap[b].i_no # Link
              /\ \A u \in Task \ {main} : Holds(u) => local[u].inode # b
              /\ TasksWith(b) = {}
              /\ \A s \in SlotsWith(b) : s = local[main].slot /\ heap[b].i_open_cnts = 0
  BY <1>1, <1>2, HeldBlock
<1>4. /\ heap' \in [Address -> Inode] /\ \A a \in Address \ {b} : heap'[a] = heap[a]
      /\ heap'[b].i_no = Link /\ heap'[b].i_open_cnts \in Nat /\ heap'[b].next = heap[b].next
      /\ heap'[b].i_open_cnts = heap[b].i_open_cnts
  <2>1. heap \in [Address -> Inode] /\ heap[b] \in Inode
    BY <1>2 DEF Types
  <2>2. heap' = [heap EXCEPT ![b].i_no = Link]
    BY <1>1, <1>3
  <2> QED BY ONLY <2>1, <2>2, b \in Address DEF Inode
<1>5. /\ pc' \in [Task -> {"unborn", "run", "reading", "using", "unnaming", "deleting",
                           "naming", "syncing", "pushing", "counting", "done"}]
      /\ local' \in [Task -> Call]
      /\ pc'[main] \in {"run", "done"} /\ local'[main] = NoCall
      /\ Moves(main) /\ CallFits(main)' /\ ~Holds(main)' /\ ~Uses(main)' /\ OwnBlock(main)'
  BY <1>1, <1>2, Returns
<1>6. /\ file_table' \in [Slot -> [fd_inode : Address \cup {NULL}, writes : BOOLEAN]]
      /\ file_table'[slot].fd_inode = NULL
      /\ \A s \in Slot \ {slot} : file_table'[s].fd_inode = file_table[s].fd_inode
  BY <1>1, <1>2 DEF Types, EmptySlot
<1>7. \A a \in Address : SlotsWith(a)' = SlotsWith(a) \ {slot}
  <2>1. \A a : SlotsWith(a)' = IF a = NULL THEN SlotsWith(a) \cup {slot} ELSE SlotsWith(a) \ {slot}
    BY ONLY <1>2, <1>6, SlotsAfter
  <2> QED BY ONLY <2>1, Constants
<1>8. /\ free_list' \in Seq(Address)
      /\ \A j, k \in 1 .. Len(free_list') : free_list'[j] = free_list'[k] => j = k
  BY <1>1, <1>3, Returned
<1>9. Types'
  <2>1. Tables
    BY <1>2, TablesAre
  <2>2. Tables' /\ first' \in Address
    BY <1>1, <1>2, <1>5, <1>6, <2>1 DEF Tables, Types
  <2> QED BY <1>4, <1>8, <2>2, TypesAre
<1>10. FreeBlocks'
  <2>1. ASSUME NEW k \in 1 .. Len(free_list')
        PROVE  heap'[free_list'[k]].i_no = Link
    <3>1. free_list'[k] = b
          \/ (free_list'[k] \in Address \ {b} /\ heap[free_list'[k]].i_no = Link)
      BY <1>1, <1>3, Returned
    <3> QED BY ONLY <1>4, <3>1
  <2> QED BY <2>1 DEF FreeBlocks
<1>11. ListIsWhole'
  <2>1. \A a \in Address : heap'[a].next = heap[a].next
    BY <1>4
  <2> QED BY <1>1, <2>1, ListKept DEF Sound
<1>12. RootIsOpen'
  BY <1>3, <1>4, Constants DEF Sound, RootIsOpen
<1>13. Claims(b)' = 0
  <2>1. SlotsWith(b)' = {}
    BY <1>0, <1>3, <1>7
  <2>2. TasksWith(b)' = {}
    <3>1. main \notin TasksWith(b)' /\ TasksWith(b) \ {main} = TasksWith(b)' \ {main}
      BY <1>2, <1>5, TasksAfter
    <3> QED BY <1>3, <3>1
  <2> QED BY <1>3, <2>1, <2>2, FewClaims
<1>14. Claims(b)' <= heap'[b].i_open_cnts /\ (Claims(b)' > 0 => heap'[b].i_no # Link)
  BY <1>4, <1>13
<1>15. \A a \in Address \ {b} : Spared(a)
  BY <1>2, <1>4, <1>7, SparedBlock, Inodes
<1>16. Sound'
  BY ONLY Sound, <1>2, <1>3, <1>5, <1>9, <1>10, <1>11, <1>12, <1>14, <1>15, StepSound
<1>17. ASSUME Orderly, alone
       PROVE  Orderly'
  <2>0. PICK no : no = local[main].no
    OBVIOUS
  <2>1. /\ ExactCounts /\ InodesAreShared /\ OwnSlots /\ Numbers /\ SlotsAreNamed
        /\ Quiet(main) /\ ~panic /\ AloneFits(main) /\ local[main].op = "create" /\ no \in File
    BY <1>1, <1>2, <1>17, <2>0, IsQuiet DEF Orderly, InCall, Sound, CallFits
  <2>2. file_table[slot].fd_inode = b /\ no \notin named
    BY <1>0, <1>1, <1>3, <2>0, <2>1 DEF AloneFits
  <2>3. Others(b)
    <3>1. \A a \in Address \ {b} : slot \notin SlotsWith(a)
      BY <2>2 DEF SlotsWith
    <3>2. \A a \in Address \ {b} : SlotsWith(a)' = SlotsWith(a)
      BY ONLY <1>7, <3>1
    <3> QED BY ONLY <1>4, <3>2 DEF Others
  <2>4. heap'[b].i_open_cnts = 0
    BY <1>3, <1>4, <2>1 DEF ExactCounts
  <2>5. ExactCounts'
    <3>1. /\ heap'[b].i_open_cnts = IF b \in Held' THEN 0 ELSE Claims(b)'
          /\ heap'[b].i_open_cnts > 0 => heap'[b].next # NULL
          /\ b \notin Held' /\ heap'[b].i_open_cnts = 0 => heap'[b].i_no = Link
      BY <1>4, <1>13, <2>4
    <3> QED BY <1>2, <1>3, <1>5, <2>1, <2>3, <3>1, ExactStep
  <2>6. InodesAreShared'
    BY <1>17, <2>1, <2>3, <2>4, SharedStep
  <2>7. Numbers'
    <3>1. no # Root
      BY <2>1, OpenFilesAssumption DEF Root
    <3> QED BY <1>1, <1>5, <2>0, <2>1, <2>2, <3>1 DEF Numbers
  <2>8. SlotsAreNamed'
    <3> SUFFICES ASSUME NEW s \in Slot, NEW a, a = file_table'[s].fd_inode, a # NULL
                 PROVE  heap'[a].i_no \in named
      BY <1>1 DEF SlotsAreNamed
    <3>1. s # slot /\ file_table[s].fd_inode = a
      BY <1>6
    <3>2. a \in Address /\ a # b
      BY <1>0, <1>2, <1>3, <3>1 DEF Types, SlotsWith
    <3>3. heap[a].i_no \in named
      BY <1>0, <2>1, <3>1 DEF SlotsAreNamed
    <3> QED BY <1>4, <3>2, <3>3
  <2>9. OwnSlots'
    <3>1. \A u \in Task, fd \in Fd : fd_table[u][fd] # slot /\ fd_table[u][fd] \in Slot \cup {NoSlot}
      BY <1>0, <1>2, <2>1 DEF OwnSlots, Types
    <3>2. \A u \in Task, fd \in Fd :
              fd_table[u][fd] # NoSlot => file_table'[fd_table[u][fd]].fd_inode # NULL
      BY <1>6, <2>1, <3>1 DEF OwnSlots
    <3> QED BY <1>1, <1>2, <1>5, <2>1, <3>2, NoCallIs, OwnSlotsKept
  <2>10. AloneFits(main)' /\ ~panic'
    BY <1>1, <1>2, <1>5, <2>1, FitsOutside
  <2> QED BY <1>2, <1>5, <2>1, <2>5, <2>6, <2>7, <2>8, <2>9, <2>10, StepOrderly
<1> QED BY <1>1, <1>16, <1>17 DEF Kept, Orderly

(* What a fork adds to the count of an inode.                              *)
LEMMA ForkCounts ==
    ASSUME Types, NEW t \in Task, NEW a \in Address, heap' = CountAgain(t)
    PROVE  /\ heap' \in [Address -> Inode]
           /\ heap'[a].i_no = heap[a].i_no /\ heap'[a].next = heap[a].next
           /\ heap'[a].i_open_cnts \in Nat /\ heap'[a].i_open_cnts >= heap[a].i_open_cnts
           /\ (\A fd \in Fd : fd_table[t][fd] # NoSlot => fd_table[t][fd] \notin SlotsWith(a))
                => heap'[a] = heap[a]
<1> DEFINE D(x) == {fd \in Fd : /\ fd_table[t][fd] # NoSlot
                                /\ file_table[fd_table[t][fd]].fd_inode = x}
<1>1. \A x : Cardinality(D(x)) \in Nat
  <2>1. \A x : D(x) \subseteq Fd
    OBVIOUS
  <2> HIDE DEF D
  <2> QED BY <2>1, Finite, FS_Subset, FS_CardinalityType
<1>2. heap' = [x \in Address |-> [heap[x] EXCEPT !.i_open_cnts = heap[x].i_open_cnts + Cardinality(D(x))]]
  BY DEF CountAgain, Types, Inode
<1>3. (\A fd \in Fd : fd_table[t][fd] # NoSlot => fd_table[t][fd] \notin SlotsWith(a)) => D(a) = {}
  <2>1. \A fd \in Fd : fd_table[t][fd] # NoSlot => fd_table[t][fd] \in Slot
    BY DEF Types
  <2> QED BY <2>1 DEF SlotsWith
<1> HIDE DEF D
<1>4. ASSUME NEW x \in Address, NEW e, e = [heap[x] EXCEPT !.i_open_cnts = heap[x].i_open_cnts + Cardinality(D(x))]
      PROVE  /\ e \in Inode /\ e.i_no = heap[x].i_no /\ e.next = heap[x].next
             /\ e.i_open_cnts \in Nat /\ e.i_open_cnts >= heap[x].i_open_cnts
  <2>1. heap[x] \in Inode
    BY DEF Types
  <2>2. PICK n \in Nat : n = heap[x].i_open_cnts + Cardinality(D(x))
    BY <1>1, Inodes
  <2>3. n >= heap[x].i_open_cnts
    BY <1>1, <2>2, Inodes
  <2> QED BY ONLY <1>4, <2>1, <2>2, <2>3 DEF Inode
<1>5. \A x \in Address : heap'[x] = [heap[x] EXCEPT !.i_open_cnts = heap[x].i_open_cnts + Cardinality(D(x))]
  BY ONLY <1>2
<1>6. \A x \in Address : heap'[x] \in Inode
  BY ONLY <1>4, <1>5
<1>7. heap' \in [Address -> Inode]
  BY ONLY <1>2, <1>6
<1>8. D(a) = {} => heap'[a] = heap[a]
  <2>1. D(a) = {} => heap[a].i_open_cnts + Cardinality(D(a)) = heap[a].i_open_cnts
    BY FS_EmptySet, Inodes
  <2>2. heap[a] \in Inode
    BY Inodes
  <2> QED BY ONLY <1>5, <2>1, <2>2, a \in Address DEF Inode
<1> QED BY ONLY <1>3, <1>4, <1>5, <1>7, <1>8, a \in Address

LEMMA ForkKept ==
    ASSUME Sound, ~StaleForks, NEW t \in Process, NEW child \in Process, sys_fork(t, child)
    PROVE  Kept
<1>1. /\ pc[child] = "unborn" /\ heap' = CountAgain(t) /\ panic' \in BOOLEAN
      /\ fd_table' = [fd_table EXCEPT ![child] = fd_table[t]] /\ Goto(child, "run")
      /\ UNCHANGED <<free_list, first, file_table, disk, local, alone, hung>>
  BY DEF sys_fork
<1>2. t \in Task /\ child \in Task /\ Types /\ ~hung' /\ CallFits(child)
  BY <1>1, Constants DEF Sound
<1>3. /\ pc' \in [Task -> {"unborn", "run", "reading", "using", "unnaming", "deleting",
                           "naming", "syncing", "pushing", "counting", "done"}]
      /\ pc'[child] = "run" /\ Moves(child) /\ local'[child] = local[child]
      /\ fd_table' \in [Task -> [Fd -> Slot \cup {NoSlot}]]
  BY <1>1, <1>2 DEF Types, Moves
<1>4. heap' \in [Address -> Inode]
  BY <1>1, <1>2, ForkCounts, Constants
<1>5. Types'
  <2>1. Tables
    BY <1>2, TablesAre
  <2>2. Tables'
    BY <1>1, <1>3, <2>1 DEF Tables
  <2> QED BY <1>1, <1>2, <1>4, <2>2, TypesAre DEF Types
<1>6. ~Holds(child) /\ ~Uses(child) /\ ~Holds(child)' /\ ~Uses(child)' /\ OwnBlock(child)'
  BY <1>1, <1>3 DEF Holds, Uses, OwnBlock
<1>7. CallFits(child)'
  BY ONLY <1>1, <1>2, <1>3 DEF CallFits
<1>8. \A a : SlotsWith(a)' = SlotsWith(a)
  BY <1>1, SlotsSame
<1>9. ASSUME NEW a \in Address
      PROVE  Spared(a)
  <2>1. /\ heap'[a].i_no = heap[a].i_no /\ heap'[a].next = heap[a].next
        /\ heap'[a].i_open_cnts >= heap[a].i_open_cnts
    BY <1>1, <1>2, ForkCounts
  <2>2. ASSUME SlotsWith(a)' # {}, a \in Held
        PROVE  heap'[a] = heap[a]
    <3>1. PICK u \in Task : Holds(u) /\ local[u].inode = a
      BY <2>2, HeldIs
    <3>2. u = main /\ \A s \in SlotsWith(a) : s = local[main].slot
      BY <1>8, <2>2, <3>1, HeldBlock
    <3>3. Creating
      BY <3>1, <3>2 DEF Holds, Creating, Sound, CallFits
    <3>4. \A fd \in Fd : fd_table[t][fd] # NoSlot => fd_table[t][fd] # local[main].slot
      BY <3>3 DEF sys_fork
    <3>5. \A fd \in Fd : fd_table[t][fd] # NoSlot => fd_table[t][fd] \notin SlotsWith(a)
      BY <3>2, <3>4
    <3> QED BY <1>1, <1>2, <3>5, ForkCounts
  <2> QED BY <1>8, <2>1, <2>2 DEF Spared
<1>10. ListIsWhole' /\ FreeBlocks' /\ RootIsOpen'
  <2>1. \A a \in Address : heap'[a].next = heap[a].next /\ heap'[a].i_no = heap[a].i_no
    BY <1>1, <1>2, ForkCounts
  <2> QED BY <1>1, <2>1, ListKept, FreeKept, Constants DEF Sound, RootIsOpen
<1>11. \A u \in Task : Holds(u) => local[u].inode # NULL
  BY HeldBlock, Constants
<1>12. Sound'
  BY ONLY Sound, <1>2, <1>3, <1>5, <1>6, <1>7, <1>9, <1>10, <1>11, StepSound
<1>13. ASSUME Orderly, alone
       PROVE  Orderly'
  <2>1. /\ ExactCounts /\ InodesAreShared /\ OwnSlots /\ SlotsAreNamed
        /\ ~panic /\ Idle(t) /\ \A fd \in Fd : fd_table[t][fd] = NoSlot
    BY <1>13 DEF Orderly, sys_fork
  <2>2. \A u \in Task : pc[u] \in {"run", "unborn", "done"} /\ local[u] = NoCall
    BY <1>2, <1>13, <2>1, AloneIdle
  <2>3. Quiet(child)
    BY <2>2 DEF Quiet
  <2>4. \A a \in Address : heap'[a] = heap[a]
    BY <1>1, <1>2, <2>1, ForkCounts
  <2>5. Others(NULL)
    BY <1>8, <2>4 DEF Others
  <2>6. NULL \notin Address
    BY Constants
  <2>7. ExactCounts'
    BY <1>2, <1>3, <1>6, <2>1, <2>5, <2>6, ExactStep
  <2>8. InodesAreShared'
    BY <1>13, <2>1, <2>5, <2>6, SharedStep
  <2>9. Numbers' /\ SlotsAreNamed'
    <3>1. UNCHANGED <<taken, table, named>>
      BY <1>1
    <3> QED BY <1>2, <1>3, <1>12, <1>13, <2>3, <2>5, <3>1, NamesStep
  <2>10. OwnSlots'
    <3>1. \A u \in Task, fd \in Fd :
              fd_table'[u][fd] # NoSlot => u # child /\ fd_table'[u][fd] = fd_table[u][fd]
      <4>1. \A fd \in Fd : fd_table'[child][fd] = fd_table[t][fd]
        BY <1>1, <1>2 DEF Types
      <4>2. \A u \in Task \ {child} : fd_table'[u] = fd_table[u]
        BY <1>1, <1>2 DEF Types
      <4> QED BY ONLY <2>1, <4>1, <4>2
    <3>2. \A u \in Task : local'[u].op = "none"
      BY <1>1, <2>2, NoCallIs
    <3>3. \A u \in Task, fd \in Fd : fd_table[u][fd] # NoSlot => file_table[fd_table[u][fd]].fd_inode # NULL
      BY <2>1 DEF OwnSlots
    <3>4. \A u, v \in Task, fd, gd \in Fd :
              fd_table[u][fd] # NoSlot /\ fd_table[u][fd] = fd_table[v][gd] => u = v /\ fd = gd
      BY <2>1 DEF OwnSlots
    <3>5. file_table' = file_table
      BY <1>1
    <3>6. ASSUME NEW u \in Task, NEW v \in Task, NEW fd \in Fd, NEW gd \in Fd,
                 fd_table'[u][fd] # NoSlot, fd_table'[u][fd] = fd_table'[v][gd]
          PROVE  u = v /\ fd = gd
      <4>1. fd_table[u][fd] # NoSlot /\ fd_table[u][fd] = fd_table[v][gd]
        BY <3>1, <3>6
      <4> QED BY ONLY <3>4, <4>1, u \in Task, v \in Task, fd \in Fd, gd \in Fd
    <3>7. ASSUME NEW u \in Task, NEW fd \in Fd, fd_table'[u][fd] # NoSlot
          PROVE  file_table'[fd_table'[u][fd]].fd_inode # NULL
      BY <3>1, <3>3, <3>5, <3>7
    <3> QED BY ONLY <3>2, <3>6, <3>7 DEF OwnSlots
  <2>11. AloneFits(child)' /\ ~panic'
    <3>1. ~panic'
      BY <2>1 DEF sys_fork
    <3> QED BY <1>1, <1>2, <1>3, <2>2, <3>1, FitsOutside
  <2> QED BY <1>2, <1>3, <2>3, <2>7, <2>8, <2>9, <2>10, <2>11, StepOrderly
<1> QED BY <1>1, <1>12, <1>13 DEF Kept, Orderly


LEMMA Unlost == ASSUME Sound, NEW no PROVE ~Lost(no)
BY Search DEF Sound, Lost

(* sys_stat frees an inode that has no count, and so no users.             *)
LEMMA StatFreesKept ==
    ASSUME Sound, NEW t \in Process, Idle(t), NEW no \in Number, ~NotCounted(no), StatFrees(no),
           UNCHANGED <<files, disk, alone>>
    PROVE  Kept
<1>1. t \in Task /\ Types /\ Found(no) /\ ~Holds(t) /\ ~Uses(t)
  BY Constants DEF Sound, StatFrees, Idle, At, Holds, Uses
<1>2. PICK b \in Address :
              /\ b = InodeOf(no) /\ b \notin Held
              /\ heap[b].i_no = no /\ heap[b].next # NULL /\ no # Link
              /\ \A u \in Task : Holds(u) => local[u].inode # b
              /\ Claims(b) <= heap[b].i_open_cnts /\ Claims(b) \in Nat
  BY <1>1, FoundBlock
<1>3. /\ heap[b].i_open_cnts = 0 /\ heap' = Closed(Count(b), b)
      /\ free_list' = Append(free_list, b)
      /\ UNCHANGED <<first, file_table, fd_table, named, taken, table, pc, local, panic, hung, alone>>
  BY <1>2 DEF StatFrees
<1>4. Claims(b) = 0 /\ b # 1
  <2>1. Claims(b) = 0
    BY ONLY <1>2, <1>3
  <2> QED BY <2>1, ClaimsIs
<1>5. /\ heap' \in [Address -> Inode] /\ \A a \in Address \ {b} : heap'[a] = heap[a]
      /\ heap'[b].i_no = Link /\ heap'[b].i_open_cnts = 0 /\ heap'[b].next = heap[b].next
  <2>1. heap \in [Address -> Inode] /\ heap[b] \in Inode
    BY <1>1 DEF Types
  <2>2. PICK h : h = Count(b)
    OBVIOUS
  <2>3. /\ h \in [Address -> Inode] /\ \A a \in Address \ {b} : h[a] = heap[a]
        /\ h[b].i_open_cnts = 1 /\ h[b].next = heap[b].next /\ h[b] \in Inode
    BY <1>3, <2>1, <2>2 DEF Count, Inode
  <2>4. PICK e : e = [h[b] EXCEPT !.i_open_cnts = 0, !.i_no = Link]
    OBVIOUS
  <2>5. e \in Inode /\ e.i_open_cnts = 0 /\ e.i_no = Link /\ e.next = heap[b].next
    BY ONLY <2>3, <2>4 DEF Inode
  <2>6. LastClose(h, b) /\ heap' = Closed(h, b)
    BY <1>3, <2>2, <2>3 DEF LastClose
  <2>7. heap' = [h EXCEPT ![b] = e]
    <3>1. PICK m : m = h[b].i_open_cnts - 1
      OBVIOUS
    <3>2. m = 0 /\ h[b].i_open_cnts # 0
      BY ONLY <2>3, <3>1
    <3>3. heap' = [h EXCEPT ![b] = [h[b] EXCEPT !.i_open_cnts = m, !.i_no = Link]]
      BY ONLY <2>3, <2>6, <3>1, <3>2 DEF Closed, Inode
    <3> QED BY ONLY <2>4, <3>2, <3>3
  <2> QED BY ONLY <2>3, <2>5, <2>7, b \in Address
<1>6. /\ Moves(t) /\ CallFits(t)' /\ ~Holds(t)' /\ ~Uses(t)' /\ OwnBlock(t)'
      /\ \A a : SlotsWith(a)' = SlotsWith(a)
  <2>1. Moves(t) /\ CallFits(t)' /\ ~Holds(t)' /\ ~Uses(t)'
    BY <1>1, <1>3, Stays
  <2> QED BY <1>3, <2>1, SlotsSame DEF OwnBlock
<1>7. /\ free_list' \in Seq(Address)
      /\ \A j, k \in 1 .. Len(free_list') : free_list'[j] = free_list'[k] => j = k
  BY <1>2, <1>3, Returned
<1>8. FreeBlocks'
  <2>1. ASSUME NEW k \in 1 .. Len(free_list')
        PROVE  heap'[free_list'[k]].i_no = Link
    <3>1. free_list'[k] = b
          \/ (free_list'[k] \in Address \ {b} /\ heap[free_list'[k]].i_no = Link)
      BY <1>2, <1>3, Returned
    <3> QED BY ONLY <1>5, <3>1
  <2> QED BY <2>1 DEF FreeBlocks
<1>9. Types' /\ ListIsWhole' /\ RootIsOpen'
  <2>1. Tables'
    <3>1. Tables
      BY <1>1, TablesAre
    <3> QED BY <1>1, <1>3, <3>1 DEF Tables, Types
  <2>2. Types'
    BY <1>1, <1>3, <1>5, <1>7, <2>1, TypesAre DEF Types
  <2>3. ListIsWhole'
    <3>1. \A a \in Address : heap'[a].next = heap[a].next
      BY <1>5
    <3> QED BY <1>3, <3>1, ListKept DEF Sound
  <2>4. RootIsOpen'
    BY <1>4, <1>5, Constants DEF Sound, RootIsOpen
  <2> QED BY <2>2, <2>3, <2>4
<1>10. Sound'
  <2>1. \A a \in Address \ {b} : Spared(a)
    BY <1>1, <1>5, <1>6, SparedBlock, Inodes
  <2>2. Claims(b)' = 0
    <3>1. TasksWith(b)' = TasksWith(b)
      BY <1>3 DEF TasksWith
    <3> QED BY <1>4, <1>6, <3>1, ClaimsKept
  <2>3. Claims(b)' <= heap'[b].i_open_cnts /\ ~(Claims(b)' > 0) /\ ~hung'
    BY <1>3, <1>5, <2>2 DEF Sound
  <2> QED BY <1>1, <1>2, <1>6, <1>8, <1>9, <2>1, <2>3, StepSound
<1>11. ASSUME Orderly, alone PROVE FALSE
  <2>1. heap[b].i_no = Link
    BY <1>2, <1>3, <1>11 DEF Orderly, ExactCounts
  <2> QED BY <1>2, <2>1
<1> QED BY <1>3, <1>10, <1>11 DEF Kept, Orderly

LEMMA OpensKept ==
    ASSUME Sound, ~Reuse, ~LateCounts, NEW t \in Process
    PROVE  /\ \A no \in File, writes \in BOOLEAN : file_open(t, no, writes) => Kept
           /\ \A no \in Number : dir_open(t, no) \/ sys_stat(t, no) => Kept
           /\ delete_dir_entry(t) => Kept
<1>1. ASSUME NEW no \in File, NEW writes \in BOOLEAN, file_open(t, no, writes)
      PROVE  Kept
  BY <1>1, OpenCachedKept, OpenReadsKept, Unlost DEF file_open
<1>2. named \subseteq File /\ t \in Task
  BY Constants DEF Sound, Types
<1>3. ASSUME NEW no \in Number, dir_open(t, no) PROVE Kept
  <2>1. /\ Wants(t, "dir", no) /\ UNCHANGED <<files, disk, alone>>
        /\ ~NotCounted(no)
    BY <1>3 DEF dir_open, Wants
  <2>2. CASE Use(t, "dir", no)
    BY <1>2, <2>1, <2>2, UseKept
  <2>3. CASE StartRead(t, "dir", no)
    BY <1>2, <2>1, <2>3, StartReadKept
  <2> QED BY <1>3, <2>2, <2>3, Unlost DEF dir_open
<1>4. ASSUME NEW no \in Number, sys_stat(t, no) PROVE Kept
  <2>1. /\ Wants(t, "stat", no) /\ UNCHANGED <<files, disk, alone>>
        /\ Idle(t) /\ ~NotCounted(no)
    BY <1>4 DEF sys_stat, Wants
  <2>2. CASE StartRead(t, "stat", no)
    BY <1>2, <2>1, <2>2, StartReadKept
  <2>3. CASE StatFrees(no)
    BY <2>1, <2>3, StatFreesKept
  <2> QED BY <1>4, <2>2, <2>3, Unlost DEF sys_stat
<1>5. ASSUME delete_dir_entry(t) PROVE Kept
  <2>0. PICK no : no = local[t].no
    OBVIOUS
  <2>1. /\ Wants(t, "unlink", no) /\ UNCHANGED <<files, taken, table, alone>>
        /\ \/ Use(t, "unlink", no) \/ StartRead(t, "unlink", no) \/ Lost(no)
        /\ ~NotCounted(no)
    BY <1>5, <2>0 DEF delete_dir_entry, Wants
  <2>2. no \in Number
    BY <1>2, <2>0 DEF Sound, Types, Call
  <2>3. CASE Use(t, "unlink", no)
    BY <2>1, <2>2, <2>3, UseKept
  <2>4. CASE StartRead(t, "unlink", no)
    BY <2>1, <2>2, <2>4, StartReadKept
  <2> QED BY <2>1, <2>3, <2>4, Unlost
<1> QED BY <1>1, <1>3, <1>4, <1>5

LEMMA NextKept ==
    ASSUME Sound, Careful, Next
    PROVE  Kept
<1>0. ~Reuse /\ ~StaleForks /\ ~LateCounts /\ \A no \in File : no < SyncNumbers
  BY DEF Careful
<1>1. ASSUME NEW t \in Process,
             \/ \E no \in File, writes \in BOOLEAN : file_open(t, no, writes)
             \/ \E no \in Number : dir_open(t, no) \/ sys_stat(t, no) \/ sys_unlink(t, no)
             \/ \E fd \in Fd : sys_close(t, fd)
             \/ \E child \in Process : sys_fork(t, child)
             \/ OpenEnds(t) \/ ReadEnds(t) \/ StatEnds(t)
             \/ dir_close(t)
             \/ delete_dir_entry(t) \/ ReleaseNumber(t) \/ inode_delete(t)
      PROVE  Kept
  <2>1. CASE \/ \E no \in File, writes \in BOOLEAN : file_open(t, no, writes)
             \/ \E no \in Number : dir_open(t, no) \/ sys_stat(t, no)
             \/ delete_dir_entry(t)
    BY <1>0, <2>1, OpensKept
  <2>2. CASE \E no \in Number : sys_unlink(t, no)
    BY <2>2, UnlinkKept
  <2>3. CASE \E fd \in Fd : sys_close(t, fd)
    BY <2>3, SysCloseKept
  <2>4. CASE \E child \in Process : sys_fork(t, child)
    BY <1>0, <2>4, ForkKept
  <2>5. CASE OpenEnds(t) \/ ReadEnds(t) \/ StatEnds(t)
    BY <2>5, OpenEndsKept, ReadEndsKept, StatEndsKept
  <2>6. CASE dir_close(t) \/ ReleaseNumber(t) \/ inode_delete(t)
    BY <2>6, DirCloseKept, ReleaseKept, InodeDeleteKept
  <2> QED BY <1>1, <2>1, <2>2, <2>3, <2>4, <2>5, <2>6
<1>2. CASE \E no \in File, writes \in BOOLEAN : file_create(no, writes)
  BY <1>0, <1>2, CreateKept
<1>3. CASE sync_dir_entry \/ CreateFails \/ inode_sync \/ CreatePushes \/ CreateEnds
  BY <1>0, <1>3, CreatingKept, CreateFailsKept, CreatePushesKept, CreateEndsKept
<1> QED BY <1>1, <1>2, <1>3 DEF Next

LEMMA StutterSound ==
    ASSUME Sound, UNCHANGED vars
    PROVE  Sound'
<1>1. \A a : SlotsWith(a)' = SlotsWith(a) /\ TasksWith(a)' = TasksWith(a)
  BY DEF SlotsWith, TasksWith
<1>2. Held' = Held /\ Types' /\ ~hung' /\ FreeBlocks' /\ RootIsOpen'
  BY DEF Sound, Types, Held, Holds, FreeBlocks, RootIsOpen
<1>3. ListIsWhole'
  BY ListKept DEF Sound
<1>4. Shares'
  <2>1. \A a : Claims(a)' = Claims(a)
    BY <1>1, ClaimsKept
  <2> QED BY <1>2, <2>1 DEF Sound, Shares
<1>5. ASSUME NEW t \in Task PROVE CallFits(t)' /\ OwnBlock(t)'
  <2>1. CallFits(t) /\ OwnBlock(t)
    BY DEF Sound
  <2> QED BY <1>1, <2>1 DEF CallFits, OwnBlock, Holds
<1> QED BY <1>2, <1>3, <1>4, <1>5 DEF Sound

LEMMA InitSound == ASSUME Init PROVE Sound
<1>1. Types
  <2>1. heap \in [Address -> Inode]
    BY Constants DEF Init, ZeroedInode, Inode
  <2>2. /\ free_list \in Seq(Address)
        /\ \A j, k \in 1 .. Len(free_list) : free_list[j] = free_list[k] => j = k
    <3>1. PICK n \in Nat : n = Blocks - 1
      BY Constants
    <3>2. free_list = [k \in 1 .. n |-> k + 1]
      BY <3>1 DEF Init
    <3>3. \A k \in 1 .. n : k + 1 \in Address
      BY <3>1, Constants DEF Address
    <3>4. free_list \in [1 .. n -> Address] /\ \A k \in 1 .. n : free_list[k] = k + 1
      BY ONLY <3>2, <3>3
    <3>5. free_list \in Seq(Address) /\ Len(free_list) = n
      BY ONLY <3>4, n \in Nat, SeqDef, LenProperties
    <3> QED BY ONLY <3>4, <3>5, n \in Nat
  <2>3. /\ first \in Address
        /\ file_table \in [Slot -> [fd_inode : Address \cup {NULL}, writes : BOOLEAN]]
        /\ fd_table \in [Task -> [Fd -> Slot \cup {NoSlot}]]
        /\ alone \in BOOLEAN /\ panic \in BOOLEAN /\ hung \in BOOLEAN
    BY Constants DEF Init, EmptySlot
  <2>4. named \subseteq File /\ taken \subseteq Number /\ table \in [Number -> Number]
    BY Constants, OpenFilesAssumption DEF Init
  <2>5. pc \in [Task -> {"unborn", "run", "reading", "using", "unnaming", "deleting",
                         "naming", "syncing", "pushing", "counting", "done"}]
    BY DEF Init
  <2>6. local \in [Task -> Call]
    BY Constants DEF Init, NoCall, Call
  <2> QED BY <2>1, <2>2, <2>3, <2>4, <2>5, <2>6 DEF Types
<1>2. /\ \A a \in Address : /\ a # 1 => heap[a].next = NULL /\ heap[a].i_no = Link
                            /\ a = 1 => /\ heap[a].next = TheTail /\ heap[a].i_no = Root
                                        /\ heap[a].i_open_cnts = 1
      /\ first = 1 /\ \A t \in Task : pc[t] \in {"run", "unborn"} /\ local[t] = NoCall
      /\ \A s \in Slot : file_table[s].fd_inode = NULL
  BY DEF Init, ZeroedInode, EmptySlot
<1>3. ListIsWhole
  <2> DEFINE order == [i \in 1 .. 1 |-> 1]
  <2>1. order \in [1 .. 1 -> Address] /\ order[1] = 1 /\ \A i \in 1 .. 1 : i = 1
    BY Constants
  <2>2. IsOpenList(1, order)
    <3> HIDE DEF order
    <3> QED BY <1>2, <2>1 DEF IsOpenList
  <2>3. 1 \in 1 .. Blocks
    BY Constants
  <2> HIDE DEF order
  <2> QED BY <2>1, <2>2, <2>3 DEF ListIsWhole
<1>4. FreeBlocks
  <2>1. \A k \in 1 .. Len(free_list) : free_list[k] \in Address /\ free_list[k] # 1
    BY Constants DEF Init, Address
  <2> QED BY <1>2, <2>1 DEF FreeBlocks
<1>5. \A t \in Task : CallFits(t) /\ OwnBlock(t) /\ ~Holds(t)
  <2> SUFFICES ASSUME NEW t \in Task PROVE CallFits(t) /\ OwnBlock(t) /\ ~Holds(t)
    OBVIOUS
  <2>1. pc[t] \in {"run", "unborn"} /\ local[t] = NoCall /\ local[t].op = "none"
    <3>1. pc[t] \in {"run", "unborn"} /\ local[t] = NoCall
      BY <1>2
    <3>2. NoCall.op = "none"
      BY DEF NoCall
    <3> QED BY ONLY <3>1, <3>2
  <2>2. ~Holds(t)
    BY ONLY <2>1 DEF Holds
  <2>3. CallFits(t)
    BY ONLY <2>1 DEF CallFits
  <2> QED BY <2>2, <2>3 DEF OwnBlock
<1>6. Shares
  <2> SUFFICES ASSUME NEW a \in Address
               PROVE  Claims(a) <= heap[a].i_open_cnts /\ (Claims(a) > 0 => heap[a].i_no # Link)
    BY DEF Shares
  <2>1. SlotsWith(a) = {} /\ TasksWith(a) = {}
    BY <1>2, Constants DEF SlotsWith, TasksWith
  <2>2. Claims(a) = IF a = 1 THEN 1 ELSE 0
    BY <2>1, FS_EmptySet DEF Claims
  <2>3. heap[a].i_open_cnts \in Nat
    BY <1>1, Inodes
  <2>4. Root # Link
    BY Constants, LinkIsNoNumber
  <2> QED BY <1>2, <2>2, <2>3, <2>4
<1>7. RootIsOpen /\ ~hung
  BY <1>2, Constants DEF RootIsOpen, Init
<1> QED BY <1>1, <1>3, <1>4, <1>5, <1>6, <1>7 DEF Sound


LEMMA StutterOrderly ==
    ASSUME Orderly, UNCHANGED vars
    PROVE  Orderly'
<1> SUFFICES ASSUME alone PROVE Orderly'
  BY DEF Orderly
<1>1. \A a : SlotsWith(a)' = SlotsWith(a) /\ TasksWith(a)' = TasksWith(a)
  BY DEF SlotsWith, TasksWith
<1>2. ExactCounts'
  <2>1. \A a : Claims(a)' = Claims(a)
    BY <1>1, ClaimsKept
  <2>2. Held' = Held
    BY DEF Held, Holds
  <2> QED BY <2>1, <2>2 DEF Orderly, ExactCounts
<1>3. OneCall' /\ InodesAreShared' /\ ~panic'
  BY DEF Orderly, OneCall, InCall, InodesAreShared
<1>4. Numbers' /\ SlotsAreNamed' /\ OwnSlots'
  BY DEF Orderly, Numbers, SlotsAreNamed, Creating, OwnSlots
<1>5. ASSUME NEW t \in Task PROVE AloneFits(t)'
  <2>1. AloneFits(t)
    BY DEF Orderly
  <2> QED BY <2>1 DEF AloneFits, Holds, InUse
<1> QED BY <1>2, <1>3, <1>4, <1>5 DEF Orderly

LEMMA InitOrderly == ASSUME Init PROVE Orderly
<1>1. /\ \A t \in Task : pc[t] \in {"run", "unborn"} /\ local[t] = NoCall
      /\ \A s \in Slot : file_table[s].fd_inode = NULL
      /\ \A t \in Task, fd \in Fd : fd_table[t][fd] = NoSlot
      /\ ~panic /\ named = Existing /\ taken = Existing \cup {Root}
      /\ table = [no \in Number |-> IF no \in Existing THEN no ELSE Root]
  BY DEF Init, EmptySlot
<1>2. /\ Existing \subseteq Number /\ Root \in Number
      /\ \A a \in Address : /\ heap[a].i_open_cnts = IF a = 1 THEN 1 ELSE 0
                            /\ a = 1 => heap[a].next # NULL
                            /\ a # 1 => heap[a].i_no = Link
  BY Constants, OpenFilesAssumption DEF Init, ZeroedInode, Number
<1>3. Held = {}
  BY <1>1 DEF Held, Holds
<1>4. ExactCounts
  <2> SUFFICES ASSUME NEW a \in Address
               PROVE  /\ heap[a].i_open_cnts = IF a \in Held THEN 0 ELSE Claims(a)
                      /\ heap[a].i_open_cnts > 0 => heap[a].next # NULL
                      /\ a \notin Held /\ heap[a].i_open_cnts = 0 => heap[a].i_no = Link
    BY DEF ExactCounts
  <2>1. SlotsWith(a) = {} /\ TasksWith(a) = {}
    BY <1>1, Constants DEF SlotsWith, TasksWith
  <2>2. Claims(a) = IF a = 1 THEN 1 ELSE 0
    BY <2>1, FS_EmptySet DEF Claims
  <2> QED BY <1>2, <1>3, <2>2
<1>5. InodesAreShared /\ OneCall
  BY <1>1, <1>2 DEF InodesAreShared, OneCall, InCall
<1>6. Numbers
  BY <1>1, <1>2 DEF Numbers
<1>7. SlotsAreNamed /\ OwnSlots
  BY <1>1, NoCallIs DEF SlotsAreNamed, OwnSlots
<1>8. ASSUME NEW t \in Task PROVE AloneFits(t)
  <2>1. pc[t] \in {"run", "unborn"} /\ local[t].op = "none"
    BY <1>1, NoCallIs
  <2> QED BY ONLY <2>1 DEF AloneFits, Holds
<1> QED BY <1>1, <1>4, <1>5, <1>6, <1>7, <1>8 DEF Orderly

---------------------------------------------------------------------------
(* What the invariant says of the properties                               *)

(* The slots that Users counts are those of Claims, but for the slot of a  *)
(* file that main is creating.                                             *)
LEMMA UsersAreClaims ==
    ASSUME Sound, NEW a \in Address
    PROVE  /\ Users(a) \in Nat
           /\ a \notin Held => Users(a) <= Claims(a)
           /\ a \notin Held /\ ~Creating => Users(a) = Claims(a)
           /\ a \in Held => Users(a) = 0
<1> DEFINE S == {s \in Slot : /\ file_table[s].fd_inode = a
                              /\ ~ \E t \in Task : local[t].op = "create" /\ local[t].slot = s}
<1>1. Users(a) = Cardinality(S) + Cardinality(TasksWith(a)) + (IF a = 1 THEN 1 ELSE 0)
  BY DEF Users, TasksWith
<1>2. S \subseteq SlotsWith(a)
  BY DEF SlotsWith
<1>3. ~Creating => S = SlotsWith(a)
  <2>1. ASSUME NEW t \in Task, local[t].op = "create" PROVE Creating
    <3>1. CallFits(t) /\ t = main
      BY <2>1 DEF Sound, CallFits
    <3>2. pc[t] \in {"unborn", "run", "reading", "using", "unnaming", "deleting",
                     "naming", "syncing", "pushing", "counting", "done"}
      BY DEF Sound, Types
    <3> QED BY <2>1, <3>1, <3>2, NoCallIs DEF CallFits, Creating
  <2> QED BY <2>1 DEF SlotsWith
<1>4. a \in Held => S = {} /\ TasksWith(a) = {} /\ a # 1
  <2> SUFFICES ASSUME a \in Held PROVE S = {} /\ TasksWith(a) = {} /\ a # 1
    OBVIOUS
  <2>1. PICK t \in Task : Holds(t) /\ local[t].inode = a
    BY HeldIs
  <2>2. /\ TasksWith(a) = {} /\ a # 1 /\ CallFits(t)
        /\ \A s \in SlotsWith(a) : t = main /\ s = local[main].slot
    BY <2>1 DEF Sound, OwnBlock
  <2>3. ASSUME NEW s \in S PROVE FALSE
    <3>1. t = main /\ s = local[t].slot
      BY <1>2, <2>2
    <3>2. local[t].op # "none"
      BY <2>1, <2>2 DEF CallFits, Holds
    <3>3. local[t].op = "create"
      BY <2>2, <3>1, <3>2 DEF CallFits
    <3> QED BY <3>1, <3>3
  <2> QED BY <2>2, <2>3
<1> HIDE DEF S
<1>5. /\ IsFiniteSet(SlotsWith(a)) /\ Cardinality(SlotsWith(a)) \in Nat
      /\ Cardinality(TasksWith(a)) \in Nat
      /\ Claims(a) = Cardinality(SlotsWith(a)) + Cardinality(TasksWith(a)) + (IF a = 1 THEN 1 ELSE 0)
  BY ClaimsIs DEF Claims
<1>6. Cardinality(S) \in Nat /\ Cardinality(S) <= Cardinality(SlotsWith(a))
  BY <1>2, <1>5, FS_Subset, FS_CardinalityType
<1>7. a \in Held => Users(a) = 0
  BY <1>1, <1>4, FS_EmptySet
<1>8. ~Creating => Cardinality(S) = Cardinality(SlotsWith(a))
  BY <1>3
<1> QED BY ONLY <1>1, <1>5, <1>6, <1>7, <1>8

(* What the invariant is for.                                              *)
LEMMA InvImplies ==
    ASSUME Inv
    PROVE  Types /\ SearchesEnd /\ CountsCoverUsers /\ DescriptorsAreLive /\ InodesAreShared
<1>1. Sound /\ Types /\ SearchesEnd /\ Orderly
  BY DEF Inv, Sound, SearchesEnd
<1>2. ASSUME NEW a \in Address
      PROVE  /\ Users(a) <= heap[a].i_open_cnts
             /\ alone => Users(a) = heap[a].i_open_cnts
             /\ Users(a) > 0 => heap[a].i_no # Link
  <2>1. heap[a].i_open_cnts \in Nat /\ Users(a) \in Nat /\ Claims(a) \in Nat
    BY <1>1, Inodes, UsersAreClaims, ClaimsIs
  <2>2. CASE a \in Held
    <3>1. Users(a) = 0
      BY <1>1, <2>2, UsersAreClaims
    <3>2. alone => heap[a].i_open_cnts = 0
      BY <1>1, <2>2 DEF Orderly, ExactCounts
    <3> QED BY ONLY <2>1, <3>1, <3>2
  <2>3. CASE a \notin Held
    <3>1. Users(a) <= Claims(a) /\ (~Creating => Users(a) = Claims(a))
      BY <1>1, <2>3, UsersAreClaims
    <3>2. Claims(a) <= heap[a].i_open_cnts /\ (Claims(a) > 0 => heap[a].i_no # Link)
      BY <1>1, <2>3 DEF Sound, Shares
    <3>3. ASSUME alone PROVE Users(a) = heap[a].i_open_cnts
      <4>1. heap[a].i_open_cnts = Claims(a)
        BY <1>1, <2>3, <3>3 DEF Orderly, ExactCounts
      <4>2. CASE ~Creating
        BY <3>1, <4>1, <4>2
      <4>3. CASE Creating
        <5>1. /\ local[main].op = "create" /\ InCall(main) /\ Holds(main) /\ main \in Task
              /\ file_table[local[main].slot].fd_inode = local[main].inode
          BY <1>1, <3>3, <4>3, Constants DEF Creating, Sound, CallFits, InCall, Holds, Orderly, AloneFits
        <5>2. local[main].inode \in Held
          BY <5>1, HeldIs
        <5>3. \A t \in Task : local[t].op = "create" => t = main
          BY <1>1 DEF Sound, CallFits
        <5>4. {s \in Slot : /\ file_table[s].fd_inode = a
                            /\ ~ \E t \in Task : local[t].op = "create" /\ local[t].slot = s}
              = SlotsWith(a)
          BY <2>3, <5>1, <5>2, <5>3 DEF SlotsWith
        <5>5. Users(a) = Claims(a)
          BY <5>4 DEF Users, Claims, TasksWith
        <5> QED BY <4>1, <5>5
      <4> QED BY <4>2, <4>3
    <3> QED BY ONLY <2>1, <3>1, <3>2, <3>3
  <2> QED BY <2>2, <2>3
<1>3. CountsCoverUsers
  BY <1>2 DEF CountsCoverUsers
<1>4. DescriptorsAreLive
  <2> SUFFICES ASSUME alone
               PROVE  /\ ~panic
                      /\ \A d \in Descriptors :
                            /\ file_table[fd_table[d[1]][d[2]]].fd_inode # NULL
                            /\ heap[file_table[fd_table[d[1]][d[2]]].fd_inode].i_no \in named
                      /\ \A d, e \in Descriptors :
                            fd_table[d[1]][d[2]] = fd_table[e[1]][e[2]] => d = e
    BY DEF DescriptorsAreLive
  <2>1. ~panic /\ SlotsAreNamed /\ OwnSlots
    BY <1>1 DEF Orderly
  <2>2. ASSUME NEW t \in Task, NEW fd \in Fd, fd_table[t][fd] # NoSlot
        PROVE  /\ file_table[fd_table[t][fd]].fd_inode # NULL
               /\ heap[file_table[fd_table[t][fd]].fd_inode].i_no \in named
    <3>1. fd_table[t][fd] \in Slot
      BY <1>1, <2>2 DEF Types
    <3>2. file_table[fd_table[t][fd]].fd_inode # NULL
      BY <2>1, <2>2 DEF OwnSlots
    <3>3. ~(Creating /\ fd_table[t][fd] = local[main].slot)
      <4>1. Creating => main \in Task /\ local[main].op = "create"
        BY <1>1, Constants DEF Creating, Sound, CallFits
      <4> QED BY <2>1, <4>1 DEF OwnSlots
    <3> QED BY <2>1, <3>1, <3>2, <3>3 DEF SlotsAreNamed
  <2>3. ASSUME NEW d \in Descriptors
        PROVE  d[1] \in Task /\ d[2] \in Fd /\ d = <<d[1], d[2]>> /\ fd_table[d[1]][d[2]] # NoSlot
    BY DEF Descriptors
  <2>4. ASSUME NEW d \in Descriptors, NEW e \in Descriptors,
               fd_table[d[1]][d[2]] = fd_table[e[1]][e[2]]
        PROVE  d = e
    <3>1. d[1] = e[1] /\ d[2] = e[2]
      BY <2>1, <2>3, <2>4 DEF OwnSlots
    <3> QED BY <2>3, <3>1
  <2> QED BY <2>1, <2>2, <2>3, <2>4
<1>5. InodesAreShared
  BY <1>1 DEF Orderly, InodesAreShared
<1> QED BY <1>1, <1>3, <1>4, <1>5


---------------------------------------------------------------------------
(* How far a count can be from the shares                                  *)

LEMMA LeaksAre ==
    /\ IsFiniteSet(Listed) /\ Cardinality(Listed) \in Nat /\ Cardinality(Listed) <= Blocks
    /\ IsFiniteSet(Born) /\ Cardinality(Born) \in Nat /\ Cardinality(Born) <= Cardinality(Process)
    /\ Cardinality(Process) \in Nat /\ Fds \in Nat /\ Blocks \in Nat /\ Slots \in Nat
    /\ Leaks \in Nat /\ Leaks <= Blocks + Fds * Cardinality(Process) + 1
<1>1. IsFiniteSet(Address) /\ Cardinality(Address) = Blocks /\ IsFiniteSet(Process)
  BY FS_Interval, OpenFilesAssumption DEF Address
<1>2. Listed \subseteq Address /\ Born \subseteq Process
  BY DEF Listed, Born
<1>3. /\ IsFiniteSet(Listed) /\ Cardinality(Listed) <= Blocks
      /\ IsFiniteSet(Born) /\ Cardinality(Born) <= Cardinality(Process)
  BY <1>1, <1>2, FS_Subset
<1>4. Cardinality(Listed) \in Nat /\ Cardinality(Born) \in Nat /\ Cardinality(Process) \in Nat
  BY <1>1, <1>3, FS_CardinalityType
<1>5. Fds \in Nat /\ Blocks \in Nat /\ Slots \in Nat
  BY OpenFilesAssumption
<1>6. PICK l, b, p, n : /\ l = Cardinality(Listed) /\ b = Cardinality(Born) /\ p = Cardinality(Process)
                        /\ n = IF pc[main] = "done" THEN 1 ELSE 0
  OBVIOUS
<1>7. Leaks = l + Fds * b + n
  BY <1>6 DEF Leaks
<1>8. l \in Nat /\ b \in Nat /\ p \in Nat /\ n \in {0, 1} /\ b <= p /\ l <= Blocks
  BY <1>3, <1>4, <1>6
<1>9. Fds * b \in Nat /\ Fds * p \in Nat /\ Fds * b <= Fds * p
  BY ONLY <1>5, <1>8, SMTT(30)
<1>10. Leaks \in Nat /\ Leaks <= Blocks + Fds * p + 1
  BY ONLY <1>5, <1>7, <1>8, <1>9
<1> QED BY ONLY <1>3, <1>4, <1>5, <1>6, <1>10, Zenon

(* The list, the tasks there are and main's one call only ever come to     *)
(* more.                                                                   *)
LEMMA LeaksGrow ==
    ASSUME NEW t \in Task, Moves(t), pc[t] \notin {"unborn", "done"}, pc'[t] # "unborn",
           \A a \in Address : heap[a].next # NULL => heap'[a].next # NULL
    PROVE  /\ Leaks' \in Nat /\ Leaks' >= Leaks
           /\ (\E b \in Address : heap[b].next = NULL /\ heap'[b].next # NULL) => Leaks' >= Leaks + 1
           /\ t = main /\ pc'[main] = "done" => Leaks' >= Leaks + 1
<1>1. /\ Leaks = Cardinality(Listed) + Fds * Cardinality(Born) + (IF pc[main] = "done" THEN 1 ELSE 0)
      /\ Leaks' = Cardinality(Listed)' + Fds * Cardinality(Born)' + (IF pc'[main] = "done" THEN 1 ELSE 0)
  BY DEF Leaks
<1>2. Born' = Born
  <2>1. \A p \in Process : pc[p] # "unborn" <=> pc'[p] # "unborn"
    BY Constants DEF Moves
  <2> QED BY <2>1 DEF Born
<1>3. Listed \subseteq Listed' /\ Listed' \subseteq Address
  BY DEF Listed
<1>4. IsFiniteSet(Address)
  BY FS_Interval, OpenFilesAssumption DEF Address
<1>5. /\ IsFiniteSet(Listed') /\ Cardinality(Listed') \in Nat
      /\ Cardinality(Listed) <= Cardinality(Listed')
  BY ONLY <1>3, <1>4, FS_Subset, FS_CardinalityType
<1>6. (\E b \in Address : heap[b].next = NULL /\ heap'[b].next # NULL)
        => Cardinality(Listed) + 1 <= Cardinality(Listed')
  <2> SUFFICES ASSUME NEW b \in Address, heap[b].next = NULL, heap'[b].next # NULL
               PROVE  Cardinality(Listed) + 1 <= Cardinality(Listed')
    OBVIOUS
  <2>1. b \notin Listed /\ Listed \cup {b} \subseteq Listed'
    BY <1>3 DEF Listed
  <2>2. IsFiniteSet(Listed)
    BY ONLY <1>3, <1>5, FS_Subset
  <2>3. Cardinality(Listed \cup {b}) = Cardinality(Listed) + 1
    BY ONLY <2>1, <2>2, FS_AddElement
  <2>4. Cardinality(Listed \cup {b}) <= Cardinality(Listed')
    BY ONLY <1>5, <2>1, FS_Subset
  <2> QED BY ONLY <2>3, <2>4, Zenon
<1>7. /\ pc[main] = "done" => pc'[main] = "done"
      /\ t = main => pc[main] # "done"
  BY Constants DEF Moves
<1>8. PICK l, k, b, m, n : /\ l = Cardinality(Listed) /\ k = Cardinality(Listed')
                           /\ b = Fds * Cardinality(Born)
                           /\ m = (IF pc[main] = "done" THEN 1 ELSE 0)
                           /\ n = (IF pc'[main] = "done" THEN 1 ELSE 0)
  OBVIOUS
<1>9. Leaks = l + b + m /\ Leaks' = k + b + n
  BY ONLY <1>1, <1>2, <1>8, Zenon
<1>10. l \in Nat /\ k \in Nat /\ b \in Nat /\ l <= k
  <2>1. l \in Nat /\ Cardinality(Born) \in Nat /\ Fds \in Nat
    BY <1>8, LeaksAre, Zenon
  <2>2. b \in Nat
    BY ONLY <1>8, <2>1
  <2> QED BY ONLY <1>5, <1>8, <2>1, <2>2, Zenon
<1>11. m \in Nat /\ n \in Nat /\ m <= n /\ (t = main /\ pc'[main] = "done" => m + 1 <= n)
  BY ONLY <1>7, <1>8
<1>12. /\ Leaks' \in Nat /\ Leaks' >= Leaks
       /\ l + 1 <= k => Leaks' >= Leaks + 1
       /\ m + 1 <= n => Leaks' >= Leaks + 1
  BY ONLY <1>9, <1>10, <1>11
<1> QED BY ONLY <1>6, <1>8, <1>11, <1>12, Zenon

(* An inode the step does not count; a slot of it may be assigned anew.    *)
Uncounted(a) ==
    /\ heap'[a].i_open_cnts = heap[a].i_open_cnts /\ heap'[a].next = heap[a].next
    /\ TasksWith(a)' = TasksWith(a) /\ (Arriving(a) => Arriving(a)')
    /\ \/ SlotsWith(a)' = SlotsWith(a)
       \/ Leaks' >= Leaks + 1 /\ \E s : SlotsWith(a)' = SlotsWith(a) \ {s}

LEMMA LeaksSame ==
    ASSUME Sound, NEW a \in Address, Leaks' \in Nat, Leaks' >= Leaks, FewLeaks(a), Uncounted(a)
    PROVE  FewLeaks(a)'
<1>1. /\ Claims(a) \in Nat /\ Claims(a)' \in Nat /\ Leaks \in Nat
      /\ heap[a].i_open_cnts \in Nat
  <2>1. Types
    BY DEF Sound
  <2> QED BY <2>1, ClaimsIs, ClaimsNext, LeaksAre, Inodes
<1>2. Claims(a)' <= Claims(a)
  BY ClaimsShrink DEF Uncounted
<1>3. Claims(a)' + Leaks' >= Claims(a) + Leaks
  <2>1. CASE SlotsWith(a)' = SlotsWith(a)
    <3>1. Claims(a)' = Claims(a)
      BY <2>1, ClaimsKept DEF Uncounted
    <3> QED BY ONLY <1>1, <3>1, Leaks' \in Nat, Leaks' >= Leaks
  <2>2. ASSUME Leaks' >= Leaks + 1, NEW s, SlotsWith(a)' = SlotsWith(a) \ {s}
        PROVE  Claims(a)' + Leaks' >= Claims(a) + Leaks
    <3>1. CASE s \in SlotsWith(a)
      <4>1. Claims(a)' = Claims(a) - 1
        BY <2>2, <3>1, ClaimDropped DEF Uncounted
      <4> QED BY ONLY <1>1, <2>2, <4>1, Leaks' \in Nat
    <3>2. CASE s \notin SlotsWith(a)
      <4>1. SlotsWith(a)' = SlotsWith(a)
        BY ONLY <2>2, <3>2
      <4> QED BY <2>1, <4>1
    <3> QED BY <3>1, <3>2
  <2> QED BY <2>1, <2>2 DEF Uncounted
<1>4. CASE heap[a].i_open_cnts <= Claims(a) + Leaks
  <2>1. heap'[a].i_open_cnts <= Claims(a)' + Leaks'
    BY ONLY <1>1, <1>3, <1>4, Leaks' \in Nat, Uncounted(a) DEF Uncounted
  <2> QED BY <2>1 DEF FewLeaks
<1>5. CASE /\ heap[a].next = NULL \/ Arriving(a)
           /\ heap[a].i_open_cnts = Counts - 1 /\ Claims(a) = 0
  <2>1. Claims(a)' = 0
    BY ONLY <1>1, <1>2, <1>5
  <2> QED BY <1>5, <2>1 DEF FewLeaks, Uncounted
<1> QED BY <1>4, <1>5 DEF FewLeaks

(* An inode is counted, closed, taken, or put into the list.               *)
LEMMA LeaksCounted ==
    ASSUME Sound, NEW b \in Address, Leaks' \in Nat, Leaks' >= Leaks, FewLeaks(b),
           \/ /\ heap[b].next # NULL /\ b \notin Held /\ heap'[b].i_open_cnts = heap[b].i_open_cnts + 1
              /\ Claims(b)' = Claims(b) + 1
           \/ /\ Claims(b) >= 1 /\ heap'[b].i_open_cnts = heap[b].i_open_cnts - 1
              /\ Claims(b)' = Claims(b) - 1
           \/ heap'[b].i_open_cnts = 0
           \/ heap'[b].i_open_cnts = 1 /\ Leaks' >= Leaks + 1
    PROVE  FewLeaks(b)'
<1>1. /\ Claims(b) \in Nat /\ Claims(b)' \in Nat /\ Leaks \in Nat
      /\ heap[b].i_open_cnts \in Nat
  <2>1. Types
    BY DEF Sound
  <2> QED BY <2>1, ClaimsIs, ClaimsNext, LeaksAre, Inodes
<1>2. PICK n, m, c, d, l, k : /\ n = heap[b].i_open_cnts /\ m = heap'[b].i_open_cnts
                              /\ c = Claims(b) /\ d = Claims(b)' /\ l = Leaks /\ k = Leaks'
  OBVIOUS
<1>3. n \in Nat /\ c \in Nat /\ d \in Nat /\ l \in Nat /\ k \in Nat /\ k >= l
  BY ONLY <1>1, <1>2, Leaks' \in Nat, Leaks' >= Leaks, Zenon
<1>4. CASE heap[b].next # NULL /\ b \notin Held /\ m = n + 1 /\ d = c + 1
  <2>1. n <= c + l
    <3>1. ~Arriving(b)
      BY <1>4, HeldIs, Constants DEF Arriving, Holds
    <3> QED BY ONLY <1>2, <1>4, <3>1, FewLeaks(b), Zenon DEF FewLeaks
  <2>2. m <= d + k
    BY ONLY <1>3, <1>4, <2>1
  <2> QED BY ONLY <1>2, <2>2, Zenon DEF FewLeaks
<1>5. CASE c >= 1 /\ m = n - 1 /\ d = c - 1
  <2>1. c # 0
    BY ONLY <1>3, <1>5
  <2>2. n <= c + l
    BY ONLY <1>2, <2>1, FewLeaks(b), Zenon DEF FewLeaks
  <2>3. m <= d + k
    BY ONLY <1>3, <1>5, <2>2
  <2> QED BY ONLY <1>2, <2>3, Zenon DEF FewLeaks
<1>6. CASE m = 0 \/ (m = 1 /\ k >= l + 1)
  <2>1. m <= d + k
    BY ONLY <1>3, <1>6
  <2> QED BY ONLY <1>2, <2>1, Zenon DEF FewLeaks
<1>7. \/ heap[b].next # NULL /\ b \notin Held /\ m = n + 1 /\ d = c + 1
      \/ c >= 1 /\ m = n - 1 /\ d = c - 1
      \/ m = 0
      \/ m = 1 /\ k >= l + 1
  BY <1>2, Zenon
<1> QED BY ONLY <1>4, <1>5, <1>6, <1>7, Zenon

(* The step of t on the block b.                                           *)
LEMMA LeaksStep ==
    ASSUME Sound, LeaksAreFew, NEW b, Leaks' \in Nat, Leaks' >= Leaks,
           \A a \in Address \ {b} : Uncounted(a),
           b \in Address => FewLeaks(b)'
    PROVE  LeaksAreFew'
<1>1. ASSUME NEW a \in Address PROVE FewLeaks(a)'
  <2>1. CASE a = b
    BY <2>1
  <2>2. CASE a # b
    <3>1. FewLeaks(a) /\ Uncounted(a)
      BY <1>1, <2>2 DEF LeaksAreFew
    <3> QED BY ONLY Sound, <1>1, <3>1, Leaks' \in Nat, Leaks' >= Leaks, LeaksSame
  <2> QED BY <2>1, <2>2
<1> QED BY <1>1 DEF LeaksAreFew

(* Nobody else's call is on another inode.                                 *)
LEMMA TasksElsewhere ==
    ASSUME NEW t \in Task, Moves(t), NEW b, Uses(t) => local[t].inode = b,
           Uses(t)' => local'[t].inode = b
    PROVE  \A a : a # b => TasksWith(a)' = TasksWith(a)
<1> SUFFICES ASSUME NEW a, a # b
             PROVE  TasksWith(a)' = TasksWith(a)
  OBVIOUS
<1>1. t \notin TasksWith(a) /\ t \notin TasksWith(a)' /\ TasksWith(a) \ {t} = TasksWith(a)' \ {t}
  BY TasksAfter
<1> QED BY ONLY <1>1

(* What is to be shown of a step of t on the block b.                      *)
LEMMA LeaksOf ==
    ASSUME Sound, LeaksAreFew, NEW t \in Task, Moves(t),
           pc[t] \notin {"unborn", "done"}, pc'[t] # "unborn", NEW b \in Address,
           \A a \in Address \ {b} : heap'[a] = heap[a],
           heap[b].next # NULL => heap'[b].next # NULL,
           Holds(t) \/ Uses(t) => local[t].inode = b, Uses(t)' => local'[t].inode = b,
           \A a \in Address \ {b} :
               \/ SlotsWith(a)' = SlotsWith(a)
               \/ /\ heap[b].next = NULL /\ heap'[b].next # NULL
                  /\ \E s : SlotsWith(a)' = SlotsWith(a) \ {s},
           \/ /\ heap[b].next # NULL /\ b \notin Held /\ heap'[b].i_open_cnts = heap[b].i_open_cnts + 1
              /\ Claims(b)' = Claims(b) + 1
           \/ /\ Claims(b) >= 1 /\ heap'[b].i_open_cnts = heap[b].i_open_cnts - 1
              /\ Claims(b)' = Claims(b) - 1
           \/ heap'[b].i_open_cnts = 0
           \/ heap'[b].i_open_cnts = 1 /\ heap[b].next = NULL /\ heap'[b].next # NULL
           \/ heap'[b].i_open_cnts = 1 /\ t = main /\ pc'[main] = "done"
           \/ /\ heap'[b].i_open_cnts = Counts - 1 /\ Claims(b)' = 0
              /\ heap'[b].next = NULL \/ Arriving(b)'
           \/ /\ heap'[b].i_open_cnts = heap[b].i_open_cnts
              /\ Claims(b)' = Claims(b) /\ Arriving(b)'
    PROVE  LeaksAreFew'
<1>1. \A a \in Address : heap[a].next # NULL => heap'[a].next # NULL
  <2> SUFFICES ASSUME NEW a \in Address, heap[a].next # NULL PROVE heap'[a].next # NULL
    OBVIOUS
  <2>1. CASE a = b
    BY ONLY <2>1, heap[b].next # NULL => heap'[b].next # NULL, heap[a].next # NULL, Zenon
  <2>2. CASE a # b
    <3>1. heap'[a] = heap[a]
      BY <2>2
    <3> QED BY ONLY <3>1, heap[a].next # NULL, Zenon
  <2> QED BY <2>1, <2>2, Zenon
<1>2. /\ Leaks' \in Nat /\ Leaks' >= Leaks
      /\ (\E c \in Address : heap[c].next = NULL /\ heap'[c].next # NULL) => Leaks' >= Leaks + 1
      /\ t = main /\ pc'[main] = "done" => Leaks' >= Leaks + 1
  BY ONLY <1>1, LeaksGrow, t \in Task, Moves(t), pc[t] \notin {"unborn", "done"},
     pc'[t] # "unborn"
<1>3. \A a : a # b => TasksWith(a)' = TasksWith(a)
  BY ONLY TasksElsewhere, t \in Task, Moves(t),
     Holds(t) \/ Uses(t) => local[t].inode = b, Uses(t)' => local'[t].inode = b
<1>4. heap[b].next = NULL /\ heap'[b].next # NULL => Leaks' >= Leaks + 1
  BY ONLY <1>2, b \in Address, Zenon
<1>5. ASSUME NEW a \in Address \ {b} PROVE Uncounted(a)
  <2>1. heap'[a] = heap[a] /\ TasksWith(a)' = TasksWith(a)
    BY <1>3
  <2>2. \/ SlotsWith(a)' = SlotsWith(a)
        \/ /\ heap[b].next = NULL /\ heap'[b].next # NULL
           /\ \E s : SlotsWith(a)' = SlotsWith(a) \ {s}
    BY Zenon
  <2>3. Arriving(a) => Arriving(a)'
    <3>1. CASE t = main
      <4>1. ~Arriving(a)
        BY <3>1 DEF Arriving, Holds
      <4> QED BY ONLY <4>1, Zenon
    <3>2. CASE t # main
      <4>1. pc'[main] = pc[main] /\ local'[main] = local[main]
        BY <3>2, Constants DEF Moves
      <4> QED BY ONLY <4>1, Zenon DEF Arriving
    <3> QED BY ONLY <3>1, <3>2, Zenon
  <2> QED BY ONLY <1>4, <2>1, <2>2, <2>3, Zenon DEF Uncounted
<1>6. FewLeaks(b)
  BY Zenon DEF LeaksAreFew
<1>7. FewLeaks(b)'
  <2>1. CASE /\ heap'[b].i_open_cnts = Counts - 1 /\ Claims(b)' = 0
             /\ heap'[b].next = NULL \/ Arriving(b)'
    BY ONLY <2>1, Zenon DEF FewLeaks
  <2>3. CASE /\ heap'[b].i_open_cnts = heap[b].i_open_cnts
             /\ Claims(b)' = Claims(b) /\ Arriving(b)'
    <3>1. CASE heap[b].i_open_cnts <= Claims(b) + Leaks
      <4>1. Claims(b) \in Nat /\ Leaks \in Nat /\ heap[b].i_open_cnts \in Nat
        BY ClaimsIs, LeaksAre, Inodes DEF Sound
      <4>2. heap'[b].i_open_cnts <= Claims(b)' + Leaks'
        BY ONLY <1>2, <2>3, <3>1, <4>1
      <4> QED BY ONLY <4>2, Zenon DEF FewLeaks
    <3>2. CASE heap[b].i_open_cnts = Counts - 1 /\ Claims(b) = 0
      BY ONLY <2>3, <3>2, Zenon DEF FewLeaks
    <3> QED BY ONLY <1>6, <3>1, <3>2, Zenon DEF FewLeaks
  <2>2. CASE \/ /\ heap[b].next # NULL /\ b \notin Held /\ heap'[b].i_open_cnts = heap[b].i_open_cnts + 1
                /\ Claims(b)' = Claims(b) + 1
             \/ /\ Claims(b) >= 1 /\ heap'[b].i_open_cnts = heap[b].i_open_cnts - 1
                /\ Claims(b)' = Claims(b) - 1
             \/ heap'[b].i_open_cnts = 0
             \/ heap'[b].i_open_cnts = 1 /\ Leaks' >= Leaks + 1
    BY ONLY <1>2, <1>6, <2>2, LeaksCounted, Sound, b \in Address
  <2>4. CASE heap'[b].i_open_cnts = 1 /\ t = main /\ pc'[main] = "done"
    BY ONLY <1>2, <2>2, <2>4, Zenon
  <2> QED BY <1>4, <2>1, <2>2, <2>3, <2>4, Zenon
<1> QED BY ONLY <1>2, <1>5, <1>7, LeaksStep, Sound, LeaksAreFew

LEMMA OpenCachedLeaks ==
    ASSUME Sound, LeaksAreFew, ~LateCounts, NEW t \in Process, NEW no \in File, NEW writes \in BOOLEAN,
           file_open(t, no, writes), OpenCached(t, no, writes)
    PROVE  LeaksAreFew'
<1>1. PICK slot : slot = Min(FreeSlots)
  OBVIOUS
<1>2. slot \in Slot /\ file_table[slot].fd_inode = NULL
  BY <1>1, FreeSlot DEF file_open
<1>3. no \in Number /\ t \in Task /\ Types
  BY Constants DEF Sound
<1>4. Found(no) /\ ~NotCounted(no)
  BY DEF OpenCached, file_open
<1>5. PICK b \in Address : b = InodeOf(no) /\ heap[b].next # NULL /\ b \notin Held
  BY <1>3, <1>4, FoundBlock
<1>6. PICK h : h = Count(b)
  OBVIOUS
<1>7. /\ file_table' = [file_table EXCEPT ![slot] = [fd_inode |-> b, writes |-> writes]]
      /\ FileOpened(t, h, b, slot, writes)
      /\ pc' = pc /\ local' = local /\ pc[t] = "run"
  BY <1>1, <1>5, <1>6 DEF OpenCached, file_open, Idle, At
<1>8. /\ h \in [Address -> Inode] /\ \A a \in Address \ {b} : h[a] = heap[a]
      /\ h[b].next = heap[b].next /\ h[b].i_open_cnts = heap[b].i_open_cnts + 1
  <2>1. heap \in [Address -> Inode] /\ heap[b] \in Inode
    BY <1>3 DEF Types
  <2> QED BY <1>5, <1>6, <2>1 DEF Count, Inode
<1>9. /\ \A a \in Address \ {b} : heap'[a] = h[a]
      /\ heap'[b].next = h[b].next /\ heap'[b].i_open_cnts = h[b].i_open_cnts
  BY ONLY <1>2, <1>3, <1>7, <1>8, OpenedIs, writes \in BOOLEAN, b \in Address
<1>10. \A a : SlotsWith(a)' = IF a = b THEN SlotsWith(a) \cup {slot} ELSE SlotsWith(a) \ {slot}
  <2>1. /\ file_table'[slot].fd_inode = b
        /\ \A s \in Slot \ {slot} : file_table'[s].fd_inode = file_table[s].fd_inode
    BY <1>2, <1>3, <1>7 DEF Types
  <2> QED BY ONLY <1>2, <2>1, SlotsAfter
<1>11. Moves(t) /\ ~Holds(t) /\ ~Uses(t) /\ ~Uses(t)'
  BY <1>3, <1>7, Stays, Outside
<1>12. \A a \in Address : slot \notin SlotsWith(a)
  BY <1>2, Constants DEF SlotsWith
<1>13. \A a \in Address \ {b} : SlotsWith(a)' = SlotsWith(a)
  BY ONLY <1>10, <1>12
<1>14. TasksWith(b)' = TasksWith(b)
  BY ONLY <1>7, Zenon DEF TasksWith
<1>15. SlotsWith(b)' = SlotsWith(b) \cup {slot} /\ slot \notin SlotsWith(b)
  BY ONLY <1>10, <1>12, b \in Address
<1>16. Claims(b)' = Claims(b) + 1
  BY ONLY <1>14, <1>15, ClaimAdded
<1>17. \A a \in Address \ {b} : heap'[a] = heap[a]
  BY ONLY <1>8, <1>9
<1>18. heap'[b].i_open_cnts = heap[b].i_open_cnts + 1 /\ heap'[b].next = heap[b].next
  BY ONLY <1>8, <1>9
<1>19. pc[t] \notin {"unborn", "done"} /\ pc'[t] # "unborn"
  BY ONLY <1>7
<1> QED BY ONLY <1>3, <1>5, <1>11, <1>13, <1>16, <1>17, <1>18, <1>19, LeaksOf, Sound, LeaksAreFew

LEMMA TakeLeaks ==
    ASSUME Sound, LeaksAreFew, NEW t \in Task, Moves(t), ~Holds(t), ~Uses(t), ~Uses(t)',
           pc[t] \notin {"unborn", "done"}, pc'[t] # "unborn",
           free_list # <<>>, NEW x, x = Head(free_list), heap[x].next = NULL,
           NEW e \in Inode, e.i_open_cnts = 0, heap' = [heap EXCEPT ![x] = e],
           \A a \in Address \ {x} : SlotsWith(a)' = SlotsWith(a)
    PROVE  LeaksAreFew'
<1>1. x \in Address /\ Types
  BY HeadBlock DEF Sound
<1>2. heap'[x] = e /\ \A a \in Address \ {x} : heap'[a] = heap[a]
  BY ONLY <1>1, Put, e \in Inode, heap' = [heap EXCEPT ![x] = e]
<1>3. heap'[x].i_open_cnts = 0
  BY <1>2
<1> QED BY <1>1, <1>2, <1>3, LeaksOf

LEMMA StartReadLeaks ==
    ASSUME Sound, LeaksAreFew, ~Reuse, NEW t \in Process, NEW op \in {"dir", "stat", "unlink"},
           NEW no \in Number, pc[t] \in {"run", "unnaming"},
           StartRead(t, op, no), file_table' = file_table
    PROVE  LeaksAreFew'
<1>1. PICK x : x = Head(free_list)
  OBVIOUS
<1>2. PICK c : c = [NoCall EXCEPT !.op = op, !.no = no, !.inode = x]
  OBVIOUS
<1>3. /\ free_list # <<>> /\ heap[x].next = NULL
      /\ heap' = [heap EXCEPT ![x] = ZeroedInode]
      /\ local' = [local EXCEPT ![t] = c] /\ Goto(t, "reading")
  BY <1>1, <1>2 DEF StartRead, Miss, TakeBlock
<1>4. x \in Address /\ t \in Task /\ Types
  BY <1>1, <1>3, HeadBlock, Constants DEF Sound
<1>5. c \in Call
  BY <1>2, <1>4, Constants DEF NoCall, Call
<1>6. pc'[t] = "reading" /\ Moves(t)
  BY <1>3, <1>4, <1>5, GoesOn
<1>7. /\ ~Holds(t) /\ ~Uses(t)' /\ ~Uses(t)
      /\ pc[t] \notin {"unborn", "done"} /\ pc'[t] # "unborn"
  BY ONLY <1>6, pc[t] \in {"run", "unnaming"} DEF Holds, Uses
<1>8. ZeroedInode \in Inode /\ ZeroedInode.i_open_cnts = 0
  BY Zeroed DEF ZeroedInode
<1>9. \A a \in Address \ {x} : SlotsWith(a)' = SlotsWith(a)
  BY ONLY SlotsSame, file_table' = file_table
<1> QED BY ONLY <1>1, <1>3, <1>4, <1>6, <1>7, <1>8, <1>9, TakeLeaks, Sound, LeaksAreFew

LEMMA OpenReadsLeaks ==
    ASSUME Sound, LeaksAreFew, ~Reuse, NEW t \in Process, NEW no \in File, NEW writes \in BOOLEAN,
           file_open(t, no, writes), OpenReads(t, no, writes)
    PROVE  LeaksAreFew'
<1>0. PICK slot : slot = Min(FreeSlots)
  OBVIOUS
<1>1. PICK x : x = Head(free_list)
  OBVIOUS
<1>2. PICK c : c = [op |-> "open", no |-> no, inode |-> x, slot |-> slot, writes |-> writes]
  OBVIOUS
<1>3. /\ free_list # <<>> /\ heap[x].next = NULL
      /\ heap' = [heap EXCEPT ![x] = ZeroedInode]
      /\ local' = [local EXCEPT ![t] = c] /\ Goto(t, "reading")
      /\ file_table' = [file_table EXCEPT ![slot].writes = writes] /\ pc[t] = "run"
  BY <1>0, <1>1, <1>2 DEF OpenReads, Miss, TakeBlock, file_open, Idle, At
<1>4. x \in Address /\ t \in Task /\ Types /\ slot \in Slot
  BY <1>0, <1>1, <1>3, HeadBlock, FreeSlot, Constants DEF Sound, file_open
<1>5. c \in Call
  BY <1>2, <1>4, Constants DEF Call
<1>6. pc'[t] = "reading" /\ Moves(t)
  BY <1>3, <1>4, <1>5, GoesOn
<1>7. \A s \in Slot : file_table'[s].fd_inode = file_table[s].fd_inode
  BY <1>3, <1>4 DEF Types
<1>8. /\ ~Holds(t) /\ ~Uses(t)' /\ ~Uses(t)
      /\ pc[t] \notin {"unborn", "done"} /\ pc'[t] # "unborn"
  BY ONLY <1>3, <1>6 DEF Holds, Uses
<1>9. ZeroedInode \in Inode /\ ZeroedInode.i_open_cnts = 0
  BY Zeroed DEF ZeroedInode
<1>10. \A a \in Address \ {x} : SlotsWith(a)' = SlotsWith(a)
  BY ONLY <1>7 DEF SlotsWith
<1> QED BY ONLY <1>1, <1>3, <1>4, <1>6, <1>8, <1>9, <1>10, TakeLeaks, Sound, LeaksAreFew

LEMMA UseLeaks ==
    ASSUME Sound, LeaksAreFew, NEW t \in Process, NEW op \in {"dir", "unlink"}, NEW no \in Number,
           pc[t] \in {"run", "unnaming"}, Use(t, op, no), ~NotCounted(no),
           file_table' = file_table
    PROVE  LeaksAreFew'
<1>1. t \in Task /\ Types /\ Found(no)
  BY Constants DEF Sound, Use
<1>2. PICK b \in Address : b = InodeOf(no) /\ heap[b].next # NULL /\ b \notin Held
  BY <1>1, FoundBlock
<1>3. PICK c : c = [NoCall EXCEPT !.op = op, !.no = no, !.inode = b]
  OBVIOUS
<1>4. heap' = Count(b) /\ local' = [local EXCEPT ![t] = c] /\ Goto(t, "using")
  BY <1>2, <1>3 DEF Use
<1>5. /\ \A a \in Address \ {b} : heap'[a] = heap[a]
      /\ heap'[b].next = heap[b].next /\ heap'[b].i_open_cnts = heap[b].i_open_cnts + 1
  <2>1. heap \in [Address -> Inode] /\ heap[b] \in Inode
    BY <1>1 DEF Types
  <2> QED BY <1>4, <2>1 DEF Count, Inode
<1>6. c \in Call /\ c.inode = b
  BY <1>3, Constants DEF NoCall, Call
<1>7. pc'[t] = "using" /\ local'[t] = c /\ Moves(t)
  BY <1>1, <1>4, <1>6, GoesOn
<1>8. /\ ~Holds(t) /\ ~Uses(t) /\ Uses(t)' /\ local'[t].inode = b
      /\ pc[t] \notin {"unborn", "done"} /\ pc'[t] # "unborn"
  BY ONLY <1>6, <1>7, pc[t] \in {"run", "unnaming"} DEF Holds, Uses
<1>9. \A a : SlotsWith(a)' = SlotsWith(a)
  BY ONLY SlotsSame, file_table' = file_table
<1>10. Claims(b)' = Claims(b) + 1
  <2>1. t \notin TasksWith(b) /\ t \in TasksWith(b)' /\ TasksWith(b) \ {t} = TasksWith(b)' \ {t}
    BY ONLY <1>1, <1>7, <1>8, TasksAfter
  <2>2. TasksWith(b)' = TasksWith(b) \cup {t}
    BY ONLY <2>1
  <2> QED BY ONLY <1>9, <2>1, <2>2, ClaimAdded
<1> QED BY ONLY <1>1, <1>2, <1>5, <1>7, <1>8, <1>9, <1>10, LeaksOf, Sound, LeaksAreFew

LEMMA CreateLeaks ==
    ASSUME Sound, LeaksAreFew, ~Reuse, NEW no \in File, NEW writes \in BOOLEAN,
           file_create(no, writes)
    PROVE  LeaksAreFew'
<1>0. PICK slot : slot = Min(FreeSlots)
  OBVIOUS
<1>1. PICK x : x = Head(free_list)
  OBVIOUS
<1>2. PICK c : c = [op |-> "create", no |-> no, inode |-> x, slot |-> slot, writes |-> writes]
  OBVIOUS
<1>3. PICK e : e = [ZeroedInode EXCEPT !.i_no = no]
  OBVIOUS
<1>4. /\ free_list # <<>> /\ heap[x].next = NULL /\ heap' = [heap EXCEPT ![x] = e]
      /\ local' = [local EXCEPT ![main] = c] /\ Goto(main, "naming")
      /\ file_table' = [file_table EXCEPT ![slot] = [fd_inode |-> x, writes |-> writes]]
      /\ pc[main] = "run"
  BY <1>0, <1>1, <1>2, <1>3 DEF file_create, Idle, At
<1>5. /\ x \in Address /\ main \in Task /\ Types /\ slot \in Slot /\ no \in Number
      /\ file_table[slot].fd_inode = NULL
  BY <1>0, <1>1, <1>4, HeadBlock, FreeSlot, Constants DEF Sound, file_create
<1>6. c \in Call
  BY <1>2, <1>5, Constants DEF Call
<1>7. pc'[main] = "naming" /\ Moves(main)
  BY <1>4, <1>5, <1>6, GoesOn
<1>8. /\ file_table'[slot].fd_inode = x
      /\ \A s \in Slot \ {slot} : file_table'[s].fd_inode = file_table[s].fd_inode
  BY <1>4, <1>5 DEF Types
<1>9. /\ ~Holds(main) /\ ~Uses(main)' /\ ~Uses(main)
      /\ pc[main] \notin {"unborn", "done"} /\ pc'[main] # "unborn"
  BY ONLY <1>4, <1>7 DEF Holds, Uses
<1>10. e \in Inode /\ e.i_open_cnts = 0
  BY <1>3, <1>5 DEF ZeroedInode, Inode
<1>11. \A a \in Address \ {x} : SlotsWith(a)' = SlotsWith(a)
  <2>1. \A a : SlotsWith(a)' = IF a = x THEN SlotsWith(a) \cup {slot} ELSE SlotsWith(a) \ {slot}
    BY ONLY <1>5, <1>8, SlotsAfter
  <2>2. \A a \in Address : slot \notin SlotsWith(a)
    BY <1>5, Constants DEF SlotsWith
  <2> QED BY ONLY <2>1, <2>2
<1> QED BY ONLY <1>1, <1>4, <1>5, <1>7, <1>9, <1>10, <1>11, TakeLeaks, Sound, LeaksAreFew

(* An inode that was read or made comes into the list.                     *)
LEMMA PushLeaks ==
    ASSUME Sound, LeaksAreFew, NEW t \in Task, Moves(t), Holds(t), pc[t] # "counting",
           pc'[t] # "unborn", NEW b, b = local[t].inode, \A a \in Address \ {b} : heap'[a] = heap[a],
           heap'[b].next = first, heap'[b].i_open_cnts \in {0, 1},
           Uses(t)' => local'[t].inode = b,
           \A a \in Address \ {b} :
               SlotsWith(a)' = SlotsWith(a) \/ \E s : SlotsWith(a)' = SlotsWith(a) \ {s}
    PROVE  LeaksAreFew'
<1>1. b \in Address /\ heap[b].next = NULL
  BY HeldBlock
<1>2. first # NULL
  BY Constants DEF Sound, Types
<1>3. ~Uses(t) /\ pc[t] \notin {"unborn", "done"}
  BY DEF Holds, Uses
<1>4. heap'[b].next # NULL
  BY ONLY <1>2, heap'[b].next = first, Zenon
<1>5. \A a \in Address \ {b} :
          \/ SlotsWith(a)' = SlotsWith(a)
          \/ /\ heap[b].next = NULL /\ heap'[b].next # NULL
             /\ \E s : SlotsWith(a)' = SlotsWith(a) \ {s}
  BY <1>1, <1>4, Zenon
<1>6. heap'[b].i_open_cnts = 0 \/ heap'[b].i_open_cnts = 1
  OBVIOUS
<1> QED BY <1>1, <1>3, <1>4, <1>5, <1>6, LeaksOf

LEMMA ReadEndsLeaks ==
    ASSUME Sound, LeaksAreFew, NEW t \in Process, ReadEnds(t)
    PROVE  LeaksAreFew'
<1>1. /\ pc[t] = "reading" /\ heap' = Read(t) /\ Goto(t, "using")
      /\ local' = local /\ file_table' = file_table
  BY DEF ReadEnds, At
<1>2. t \in Task /\ Types /\ Holds(t)
  BY <1>1, Constants DEF Sound, Holds
<1>3. PICK b : b = local[t].inode
  OBVIOUS
<1>4. /\ \A a \in Address \ {b} : heap'[a] = heap[a]
      /\ heap'[b].i_open_cnts \in {0, 1} /\ heap'[b].next = first
  BY <1>1, <1>2, <1>3, ReadIs
<1>5. pc[t] # "counting" /\ pc'[t] # "unborn" /\ Moves(t) /\ local'[t].inode = b
  BY <1>1, <1>2, <1>3 DEF Types, Moves
<1>6. \A a \in Address \ {b} : SlotsWith(a)' = SlotsWith(a)
  BY ONLY <1>1, SlotsSame
<1> QED BY ONLY <1>2, <1>3, <1>4, <1>5, <1>6, PushLeaks, Sound, LeaksAreFew

LEMMA OpenEndsLeaks ==
    ASSUME Sound, LeaksAreFew, NEW t \in Process, OpenEnds(t)
    PROVE  LeaksAreFew'
<1>0. PICK slot : slot = local[t].slot
  OBVIOUS
<1>1. /\ pc[t] = "reading" /\ local[t].op = "open"
      /\ file_table' = [file_table EXCEPT ![slot].fd_inode = local[t].inode]
      /\ FileOpened(t, Read(t), local[t].inode, slot, local[t].writes)
      /\ Return(t)
  BY <1>0 DEF OpenEnds, At
<1>2. /\ t \in Task /\ Types /\ Holds(t) /\ slot \in Slot /\ local[t].writes \in BOOLEAN
  <2>1. t \in Task /\ Types /\ Holds(t)
    BY <1>1, Constants DEF Sound, Holds
  <2>2. CallFits(t) /\ local[t] \in Call
    BY <2>1 DEF Sound, Types
  <2> QED BY <1>0, <1>1, <2>1, <2>2 DEF CallFits, Call
<1>3. PICK b \in Address : b = local[t].inode
  BY <1>2, HeldBlock
<1>4. /\ \A a \in Address \ {b} : heap'[a] = heap[a]
      /\ heap'[b].i_open_cnts \in {0, 1} /\ heap'[b].next = first
  <2>1. PICK h : h = Read(t)
    OBVIOUS
  <2>2. /\ h \in [Address -> Inode] /\ \A a \in Address \ {b} : h[a] = heap[a]
        /\ h[b].i_open_cnts = 1 /\ h[b].next = first
    BY <1>2, <1>3, <2>1, ReadIs
  <2>3. PICK w \in BOOLEAN : w = local[t].writes
    BY <1>2
  <2>4. FileOpened(t, h, b, slot, w)
    BY <1>1, <1>3, <2>1, <2>3
  <2>5. /\ \A a \in Address \ {b} : heap'[a] = h[a]
        /\ heap'[b].next = h[b].next /\ heap'[b].i_open_cnts = h[b].i_open_cnts
    BY ONLY <1>2, <2>2, <2>4, OpenedIs, w \in BOOLEAN, b \in Address
  <2> QED BY ONLY <2>2, <2>5
<1>5. pc[t] # "counting" /\ pc'[t] # "unborn" /\ Moves(t) /\ ~Uses(t)'
  BY <1>1, <1>2, Returns
<1>6. \A a \in Address \ {b} : SlotsWith(a)' = SlotsWith(a) \ {slot}
  <2>1. /\ file_table'[slot].fd_inode = b
        /\ \A s \in Slot \ {slot} : file_table'[s].fd_inode = file_table[s].fd_inode
    BY <1>1, <1>2, <1>3 DEF Types
  <2>2. \A a : SlotsWith(a)' = IF a = b THEN SlotsWith(a) \cup {slot} ELSE SlotsWith(a) \ {slot}
    BY ONLY <1>2, <2>1, SlotsAfter
  <2> QED BY ONLY <2>2
<1> QED BY ONLY <1>2, <1>3, <1>4, <1>5, <1>6, PushLeaks, Sound, LeaksAreFew

LEMMA StatEndsLeaks ==
    ASSUME Sound, LeaksAreFew, NEW t \in Process, StatEnds(t)
    PROVE  LeaksAreFew'
<1>1. /\ pc[t] = "reading" /\ heap' = Closed(Read(t), local[t].inode)
      /\ Return(t) /\ file_table' = file_table
  BY DEF StatEnds, At
<1>2. t \in Task /\ Types /\ Holds(t)
  BY <1>1, Constants DEF Sound, Holds
<1>3. PICK b \in Address : b = local[t].inode
  BY <1>2, HeldBlock
<1>4. /\ \A a \in Address \ {b} : heap'[a] = heap[a]
      /\ heap'[b].i_open_cnts \in {0, 1} /\ heap'[b].next = first
  <2>1. PICK h : h = Read(t)
    OBVIOUS
  <2>2. /\ h \in [Address -> Inode] /\ \A a \in Address \ {b} : h[a] = heap[a]
        /\ h[b].i_open_cnts = 1 /\ h[b].next = first /\ h[b] \in Inode
    BY <1>2, <1>3, <2>1, ReadIs
  <2>3. LastClose(h, b) /\ heap' = Closed(h, b)
    BY <1>1, <1>3, <2>1, <2>2 DEF LastClose
  <2>4. PICK m : m = h[b].i_open_cnts - 1
    OBVIOUS
  <2>5. m = 0 /\ h[b].i_open_cnts # 0
    BY ONLY <2>2, <2>4
  <2>6. heap' = [h EXCEPT ![b] = [h[b] EXCEPT !.i_open_cnts = m, !.i_no = Link]]
    BY ONLY <2>2, <2>3, <2>4, <2>5 DEF Closed, Inode
  <2> QED BY ONLY <2>2, <2>5, <2>6, b \in Address DEF Inode
<1>5. pc[t] # "counting" /\ pc'[t] # "unborn" /\ Moves(t) /\ ~Uses(t)'
  BY <1>1, <1>2, Returns
<1>6. \A a \in Address \ {b} : SlotsWith(a)' = SlotsWith(a)
  BY ONLY <1>1, SlotsSame
<1> QED BY ONLY <1>2, <1>3, <1>4, <1>5, <1>6, PushLeaks, Sound, LeaksAreFew

LEMMA CreatePushesLeaks ==
    ASSUME Sound, LeaksAreFew, CreatePushes
    PROVE  LeaksAreFew'
<1>1. /\ pc[main] = "pushing" /\ Goto(main, "counting")
      /\ heap' = Push(heap, local[main].inode)
      /\ local' = local /\ file_table' = file_table
  BY DEF CreatePushes, At, files
<1>2. main \in Task /\ Types /\ Holds(main)
  BY <1>1, Constants DEF Sound, Holds
<1>3. PICK b \in Address : b = local[main].inode /\ heap[b].next = NULL
  BY <1>1, <1>2, HeldBlock
<1>4. /\ \A a \in Address \ {b} : heap'[a] = heap[a]
      /\ heap'[b].i_open_cnts = heap[b].i_open_cnts
  <2>1. heap \in [Address -> Inode] /\ heap[b] \in Inode /\ first \in Address
    BY <1>2 DEF Types
  <2>2. heap' = [heap EXCEPT ![b].next = first]
    BY <1>1, <1>3 DEF Push
  <2> QED BY ONLY <2>1, <2>2, b \in Address DEF Inode
<1>5. /\ pc'[main] = "counting" /\ Moves(main) /\ ~Uses(main) /\ ~Uses(main)'
      /\ pc[main] \notin {"unborn", "done"} /\ pc'[main] # "unborn"
  BY <1>1, <1>2 DEF Types, Goto, Moves, Uses
<1>6. \A a : SlotsWith(a)' = SlotsWith(a)
  BY ONLY <1>1, SlotsSame
<1>7. Claims(b)' = Claims(b) /\ Arriving(b)'
  <2>1. TasksWith(b)' = TasksWith(b)
    BY ONLY <1>1, <1>2, <1>5, TasksAfter DEF Uses
  <2> QED BY ONLY <1>1, <1>3, <1>5, <1>6, <2>1, ClaimsKept DEF Arriving
<1> QED BY ONLY <1>2, <1>3, <1>4, <1>5, <1>6, <1>7, LeaksOf, Sound, LeaksAreFew

LEMMA CreateEndsLeaks ==
    ASSUME Sound, LeaksAreFew, CreateEnds
    PROVE  LeaksAreFew'
<1>1. /\ pc[main] = "counting"
      /\ heap' = [heap EXCEPT ![local[main].inode].i_open_cnts = 1]
      /\ Return(main) /\ file_table' = file_table
  BY DEF CreateEnds, At
<1>2. main \in Task /\ Types /\ Holds(main)
  BY <1>1, Constants DEF Sound, Holds
<1>3. PICK b \in Address : b = local[main].inode
  BY <1>2, HeldBlock
<1>4. /\ \A a \in Address \ {b} : heap'[a] = heap[a]
      /\ heap'[b].i_open_cnts = 1 /\ heap'[b].next = heap[b].next
  <2>1. heap \in [Address -> Inode] /\ heap[b] \in Inode
    BY <1>2 DEF Types
  <2> QED BY ONLY <1>1, <1>3, <2>1, b \in Address DEF Inode
<1>5. /\ pc'[main] = "done" /\ Moves(main) /\ ~Uses(main)'
      /\ pc[main] \notin {"unborn", "done"} /\ pc'[main] # "unborn"
  <2>1. Moves(main) /\ ~Uses(main)'
    BY <1>1, <1>2, Returns
  <2>2. pc'[main] = "done"
    BY <1>1, <1>2 DEF Return, Goto, Types
  <2> QED BY ONLY <1>1, <2>1, <2>2
<1>6. \A a \in Address \ {b} : SlotsWith(a)' = SlotsWith(a)
  BY ONLY <1>1, SlotsSame
<1> QED BY ONLY <1>2, <1>3, <1>4, <1>5, <1>6, LeaksOf, Sound, LeaksAreFew

(* sys_stat frees an inode that has no count.                              *)
LEMMA StatFreesLeaks ==
    ASSUME Sound, LeaksAreFew, NEW t \in Process, Idle(t), NEW no \in Number, ~NotCounted(no),
           StatFrees(no), file_table' = file_table
    PROVE  LeaksAreFew'
<1>1. t \in Task /\ Types /\ Found(no) /\ pc[t] = "run" /\ pc' = pc /\ local' = local
  BY Constants DEF Sound, StatFrees, Idle, At
<1>2. PICK b \in Address : b = InodeOf(no)
  BY <1>1, FoundBlock
<1>3. /\ \A a \in Address \ {b} : heap'[a] = heap[a]
      /\ heap'[b].i_open_cnts = 0 /\ heap'[b].next = heap[b].next
  <2>1. heap \in [Address -> Inode] /\ heap[b] \in Inode
    BY <1>1 DEF Types
  <2>2. PICK h : h = Count(b)
    OBVIOUS
  <2>3. heap[b].i_open_cnts = 0 /\ heap' = Closed(h, b)
    BY <1>2, <2>2 DEF StatFrees
  <2>4. /\ h \in [Address -> Inode] /\ \A a \in Address \ {b} : h[a] = heap[a]
        /\ h[b].i_open_cnts = 1 /\ h[b].next = heap[b].next /\ h[b] \in Inode
    BY <2>1, <2>2, <2>3 DEF Count, Inode
  <2>5. PICK m : m = h[b].i_open_cnts - 1
    OBVIOUS
  <2>6. m = 0 /\ h[b].i_open_cnts # 0 /\ LastClose(h, b)
    BY ONLY <2>4, <2>5 DEF LastClose
  <2>7. heap' = [h EXCEPT ![b] = [h[b] EXCEPT !.i_open_cnts = m, !.i_no = Link]]
    BY ONLY <2>3, <2>4, <2>5, <2>6 DEF Closed, Inode
  <2> QED BY ONLY <2>4, <2>6, <2>7, b \in Address DEF Inode
<1>4. Moves(t) /\ ~Holds(t) /\ ~Uses(t) /\ ~Uses(t)'
  BY <1>1, Stays, Outside
<1>5. pc[t] \notin {"unborn", "done"} /\ pc'[t] # "unborn"
  BY ONLY <1>1
<1>6. \A a \in Address \ {b} : SlotsWith(a)' = SlotsWith(a)
  BY ONLY SlotsSame, file_table' = file_table
<1> QED BY ONLY <1>1, <1>3, <1>4, <1>5, <1>6, LeaksOf, Sound, LeaksAreFew

LEMMA CallClosesLeaks ==
    ASSUME Sound, LeaksAreFew, NEW t \in Process, Uses(t), heap' = Closed(heap, local[t].inode),
           free_list' = FreedBy(heap, local[t].inode), Return(t),
           UNCHANGED <<first, file_table>>
    PROVE  LeaksAreFew'
<1>1. t \in Task /\ Types /\ ~Holds(t) /\ pc[t] \notin {"unborn", "done"}
  BY Constants DEF Sound, Holds, Uses
<1>2. PICK b \in Address : b = local[t].inode
  BY <1>1 DEF Sound, CallFits, Uses
<1>3. t \in TasksWith(b)
  BY <1>1, <1>2 DEF TasksWith, Uses
<1>4. b \notin Held
  BY <1>3, HeldIs DEF Sound, OwnBlock
<1>5. pc'[t] # "unborn" /\ Moves(t) /\ ~Uses(t)'
  BY <1>1, Returns
<1>6. \A a : SlotsWith(a)' = SlotsWith(a)
  BY SlotsSame
<1>7. Claims(b)' = Claims(b) - 1
  <2>1. t \notin TasksWith(b)' /\ TasksWith(b) \ {t} = TasksWith(b)' \ {t}
    BY <1>1, <1>5, TasksAfter
  <2>2. TasksWith(b)' = TasksWith(b) \ {t}
    BY ONLY <2>1
  <2> QED BY <1>3, <1>6, <2>2, ClaimDropped
<1>8. heap \in [Address -> Inode]
  BY <1>1 DEF Types
<1>9. /\ \A a \in Address \ {b} : heap'[a] = heap[a]
      /\ heap'[b].i_open_cnts = heap[b].i_open_cnts - 1 /\ heap'[b].next = heap[b].next
  BY <1>2, <1>3, <1>4, <1>7, <1>8, CloseBlock
<1>10. Claims(b) >= 1
  BY <1>3, <1>4, UsedBlock
<1> QED BY ONLY <1>1, <1>2, <1>5, <1>6, <1>7, <1>9, <1>10, LeaksOf, Sound, LeaksAreFew

(* No inode is counted, opened or closed.                                  *)
LEMMA InodesLeaks ==
    ASSUME Sound, LeaksAreFew, NEW t \in Task, Moves(t),
           pc[t] \notin {"unborn", "done"}, pc'[t] # "unborn",
           heap' = heap, file_table' = file_table, t = main => pc[t] # "counting",
           Uses(t)' <=> Uses(t), Uses(t) => local'[t] = local[t]
    PROVE  LeaksAreFew'
<1>1. \A a : SlotsWith(a)' = SlotsWith(a)
  BY SlotsSame
<1>2. ASSUME NEW a PROVE TasksWith(a)' = TasksWith(a)
  <2>1. t \in TasksWith(a)' <=> t \in TasksWith(a)
    BY TasksAfter
  <2> QED BY <2>1, TasksAfter
<1>3. Leaks' \in Nat /\ Leaks' >= Leaks
  BY LeaksGrow
<1>4. \A a : Arriving(a) => Arriving(a)'
  <2>1. CASE t = main
    BY <2>1 DEF Arriving
  <2>2. CASE t # main
    <3>1. pc'[main] = pc[main] /\ local'[main] = local[main]
      BY <2>2, Constants DEF Moves
    <3> QED BY ONLY <3>1, Zenon DEF Arriving
  <2> QED BY <2>1, <2>2
<1>5. \A a \in Address : Uncounted(a)
  BY ONLY <1>1, <1>2, <1>4, heap' = heap, Zenon DEF Uncounted
<1>6. NULL \notin Address
  BY Constants
<1> QED BY ONLY <1>3, <1>5, <1>6, LeaksStep, Sound, LeaksAreFew

LEMMA SysCloseLeaks ==
    ASSUME Sound, LeaksAreFew, NEW t \in Process, NEW fd \in Fd, sys_close(t, fd)
    PROVE  LeaksAreFew'
<1>1. PICK slot, b : slot = fd_table[t][fd] /\ b = file_table[slot].fd_inode
  OBVIOUS
<1>2. t \in Task /\ Types /\ pc[t] = "run" /\ UNCHANGED <<first, pc, local>>
  BY Constants DEF Sound, sys_close, Idle, At
<1>3. slot \in Slot /\ b \in Address \cup {NULL}
  <2>1. fd_table[t][fd] \in Slot \cup {NoSlot} /\ fd_table[t][fd] # NoSlot
    BY <1>2 DEF Types, sys_close
  <2> QED BY <1>1, <1>2, <2>1 DEF Types
<1>4. /\ Moves(t) /\ ~Holds(t) /\ ~Uses(t) /\ ~Uses(t)'
      /\ pc[t] \notin {"unborn", "done", "counting"} /\ pc'[t] # "unborn"
      /\ \A a : TasksWith(a)' = TasksWith(a)
  <2>1. Moves(t) /\ ~Holds(t) /\ ~Uses(t) /\ ~Uses(t)'
    BY <1>2, Stays, Outside
  <2> QED BY <1>2, <2>1 DEF TasksWith
<1>5. CASE b = NULL
  <2>1. heap' = heap /\ file_table' = file_table
    BY <1>1, <1>5 DEF sys_close
  <2> QED BY ONLY <1>2, <1>4, <2>1, InodesLeaks, Sound, LeaksAreFew
<1>6. CASE b # NULL
  <2>0. b \in Address
    BY <1>3, <1>6
  <2>1. PICK h : h = [heap EXCEPT ![b].write_deny = FALSE]
    OBVIOUS
  <2>2. /\ heap' = Closed(h, b) /\ free_list' = FreedBy(h, b)
        /\ file_table' = [file_table EXCEPT ![slot].fd_inode = NULL]
    BY <1>1, <1>6, <2>1 DEF sys_close, EmptyTheSlot
  <2>3. /\ h \in [Address -> Inode] /\ \A a \in Address \ {b} : h[a] = heap[a]
        /\ h[b].i_no = heap[b].i_no /\ h[b].next = heap[b].next
        /\ h[b].i_open_cnts = heap[b].i_open_cnts
    <3>1. heap \in [Address -> Inode] /\ heap[b] \in Inode
      BY <1>2, <2>0 DEF Types
    <3> QED BY <2>0, <2>1, <3>1 DEF Inode
  <2>4. /\ file_table'[slot].fd_inode = NULL
        /\ \A s \in Slot \ {slot} : file_table'[s].fd_inode = file_table[s].fd_inode
    BY <1>2, <1>3, <2>2 DEF Types
  <2>5. \A a \in Address : SlotsWith(a)' = SlotsWith(a) \ {slot}
    <3>1. \A a : SlotsWith(a)' = IF a = NULL THEN SlotsWith(a) \cup {slot}
                                 ELSE SlotsWith(a) \ {slot}
      BY ONLY <1>3, <2>4, SlotsAfter
    <3> QED BY ONLY <3>1, Constants
  <2>6. slot \in SlotsWith(b)
    BY <1>1, <1>3 DEF SlotsWith
  <2>7. \A a \in Address \ {b} : SlotsWith(a)' = SlotsWith(a)
    <3>1. \A a \in Address \ {b} : slot \notin SlotsWith(a)
      BY <1>1 DEF SlotsWith
    <3> QED BY ONLY <2>5, <3>1
  <2>8. CASE b \notin Held
    <3>1. Claims(b)' = Claims(b) - 1
      BY <1>4, <2>0, <2>5, <2>6, ClaimDropped
    <3>2. /\ \A a \in Address \ {b} : heap'[a] = heap[a]
          /\ heap'[b].i_open_cnts = heap[b].i_open_cnts - 1 /\ heap'[b].next = heap[b].next
      BY <1>2, <2>0, <2>2, <2>3, <2>6, <2>8, <3>1, CloseBlock
    <3>3. Claims(b) >= 1
      BY <2>0, <2>6, <2>8, UsedBlock
    <3> QED BY ONLY <1>2, <1>4, <2>0, <2>7, <3>1, <3>2, <3>3, LeaksOf, Sound, LeaksAreFew
  <2>9. CASE b \in Held
    <3>1. PICK u \in Task : Holds(u) /\ local[u].inode = b
      BY <2>9, HeldIs
    <3>2. /\ heap[b].i_open_cnts = 0 /\ (heap[b].next = NULL \/ Arriving(b))
          /\ b # 1 /\ TasksWith(b) = {} /\ \A s \in SlotsWith(b) : s = local[main].slot
      BY <2>6, <3>1, HeldBlock DEF Arriving
    <3>3. SlotsWith(b)' = {} /\ TasksWith(b)' = {}
      BY ONLY <1>4, <2>0, <2>5, <2>6, <3>2
    <3>4. Claims(b)' = 0
      BY <3>2, <3>3, FewClaims
    <3>5. /\ \A a \in Address \ {b} : heap'[a] = heap[a]
          /\ heap'[b].i_open_cnts = Counts - 1 /\ heap'[b].next = heap[b].next
      <4>1. ~LastClose(h, b) /\ h[b].i_open_cnts = 0
        BY <2>3, <3>2 DEF LastClose
      <4>2. PICK n : n = Counts - 1
        OBVIOUS
      <4>3. h[b] \in Inode
        BY <2>0, <2>3
      <4>4. heap' = [h EXCEPT ![b] = [h[b] EXCEPT !.i_open_cnts = n]]
        BY ONLY <2>0, <2>2, <2>3, <4>1, <4>2, <4>3 DEF Closed, Inode
      <4> QED BY ONLY <2>0, <2>3, <4>2, <4>3, <4>4 DEF Inode
    <3>6. heap'[b].next = NULL \/ Arriving(b)'
      BY ONLY <1>2, <3>2, <3>5, Zenon DEF Arriving
    <3>7. heap[b].next # NULL => heap'[b].next # NULL
      BY ONLY <3>5
    <3> QED BY ONLY <1>2, <1>4, <2>0, <2>7, <3>4, <3>5, <3>6, <3>7, LeaksOf, Sound, LeaksAreFew
  <2> QED BY <2>8, <2>9
<1> QED BY <1>5, <1>6

LEMMA UnlinkLeaks ==
    ASSUME Sound, LeaksAreFew, NEW t \in Process,
           (\E no \in Number : sys_unlink(t, no)) \/ ReleaseNumber(t)
    PROVE  LeaksAreFew'
<1>1. t \in Task /\ Types
  BY Constants DEF Sound
<1>2. CASE \E no \in Number : sys_unlink(t, no)
  <2>0. PICK no \in Number : sys_unlink(t, no)
    BY <1>2
  <2>1. PICK c : c = [NoCall EXCEPT !.op = "unlink", !.no = no]
    OBVIOUS
  <2>2. /\ pc[t] = "run" /\ local' = [local EXCEPT ![t] = c] /\ Goto(t, "unnaming")
        /\ UNCHANGED <<inodes, files>>
    BY ONLY <2>0, <2>1 DEF sys_unlink, Idle, At
  <2>3. c \in Call
    BY <2>1, Constants DEF NoCall, Call
  <2>4. pc'[t] = "unnaming" /\ Moves(t)
    BY <1>1, <2>2, <2>3, GoesOn
  <2>5. ~Uses(t) /\ ~Uses(t)' /\ pc[t] \notin {"unborn", "done", "counting"} /\ pc'[t] # "unborn"
    BY ONLY <2>2, <2>4 DEF Uses
  <2>6. heap' = heap /\ file_table' = file_table
    BY ONLY <2>2 DEF inodes, files
  <2> QED BY ONLY <1>1, <2>4, <2>5, <2>6, InodesLeaks, Sound, LeaksAreFew
<1>3. CASE ReleaseNumber(t)
  <2>1. /\ pc[t] = "using" /\ Goto(t, "deleting") /\ local' = local
        /\ heap' = heap /\ file_table' = file_table
    BY <1>3 DEF ReleaseNumber, At, inodes, files
  <2>2. pc'[t] = "deleting" /\ Moves(t)
    BY <1>1, <2>1 DEF Types, Moves
  <2>3. Uses(t) /\ Uses(t)' /\ pc[t] \notin {"unborn", "done", "counting"} /\ pc'[t] # "unborn"
    BY ONLY <2>1, <2>2 DEF Uses
  <2> QED BY ONLY <1>1, <2>1, <2>2, <2>3, InodesLeaks, Sound, LeaksAreFew
<1> QED BY <1>2, <1>3

LEMMA CreatingLeaks ==
    ASSUME Sound, LeaksAreFew, sync_dir_entry \/ inode_sync
    PROVE  LeaksAreFew'
<1>1. PICK label \in {"syncing", "pushing"} : Goto(main, label)
  BY DEF sync_dir_entry, inode_sync
<1>2. pc[main] \in {"naming", "syncing"} /\ local' = local /\ heap' = heap /\ file_table' = file_table
  BY DEF sync_dir_entry, inode_sync, At, inodes, files
<1>3. main \in Task /\ Types
  BY Constants DEF Sound
<1>4. pc'[main] = label /\ Moves(main)
  BY <1>1, <1>2, <1>3 DEF Types, Moves
<1>5. ~Uses(main) /\ ~Uses(main)' /\ pc[main] \notin {"unborn", "done"} /\ pc'[main] # "unborn"
  BY ONLY <1>2, <1>4, label \in {"syncing", "pushing"} DEF Uses
<1> QED BY ONLY <1>2, <1>3, <1>4, <1>5, InodesLeaks, Sound, LeaksAreFew

(* A slot that another open has taken over meanwhile is emptied with it.   *)
LEMMA CreateFailsLeaks ==
    ASSUME Sound, LeaksAreFew, CreateFails
    PROVE  LeaksAreFew'
<1>0. PICK slot : slot = local[main].slot
  OBVIOUS
<1>1. /\ pc[main] = "naming"
      /\ file_table' = [file_table EXCEPT ![slot] = EmptySlot]
      /\ heap' = [heap EXCEPT ![local[main].inode].i_no = Link] /\ Return(main)
  BY <1>0 DEF CreateFails, At
<1>2. main \in Task /\ Types /\ Holds(main) /\ ~Uses(main) /\ slot \in Slot
  <2>1. main \in Task /\ Types /\ Holds(main) /\ ~Uses(main)
    BY <1>1, Constants DEF Sound, Holds, Uses
  <2>2. CallFits(main)
    BY <2>1 DEF Sound
  <2> QED BY <1>0, <1>1, <2>1, <2>2 DEF CallFits
<1>3. PICK b \in Address : b = local[main].inode
  BY <1>2, HeldBlock
<1>4. \A a \in Address : heap'[a].i_open_cnts = heap[a].i_open_cnts /\ heap'[a].next = heap[a].next
  <2>1. heap \in [Address -> Inode] /\ heap[b] \in Inode
    BY <1>2 DEF Types
  <2>2. heap' = [heap EXCEPT ![b].i_no = Link]
    BY <1>1, <1>3
  <2> QED BY ONLY <2>1, <2>2, b \in Address DEF Inode
<1>5. pc'[main] = "done" /\ Moves(main) /\ ~Uses(main)'
  <2>1. Moves(main) /\ ~Uses(main)'
    BY <1>1, <1>2, Returns
  <2>2. pc'[main] = "done"
    BY <1>1, <1>2 DEF Return, Goto, Types
  <2> QED BY <2>1, <2>2
<1>6. \A a \in Address : SlotsWith(a)' = SlotsWith(a) \ {slot}
  <2>1. /\ file_table'[slot].fd_inode = NULL
        /\ \A s \in Slot \ {slot} : file_table'[s].fd_inode = file_table[s].fd_inode
    BY <1>1, <1>2 DEF Types, EmptySlot
  <2>2. \A a : SlotsWith(a)' = IF a = NULL THEN SlotsWith(a) \cup {slot} ELSE SlotsWith(a) \ {slot}
    BY ONLY <1>2, <2>1, SlotsAfter
  <2> QED BY ONLY <2>2, Constants
<1>7. ASSUME NEW a PROVE TasksWith(a)' = TasksWith(a)
  <2>1. main \notin TasksWith(a) /\ main \notin TasksWith(a)'
        /\ TasksWith(a) \ {main} = TasksWith(a)' \ {main}
    BY ONLY <1>2, <1>5, TasksAfter
  <2> QED BY ONLY <2>1
<1>8. Leaks' \in Nat /\ Leaks' >= Leaks /\ Leaks' >= Leaks + 1
  <2>1. /\ pc[main] \notin {"unborn", "done"} /\ pc'[main] # "unborn"
        /\ \A a \in Address : heap[a].next # NULL => heap'[a].next # NULL
    BY ONLY <1>1, <1>4, <1>5
  <2> QED BY ONLY <1>2, <1>5, <2>1, LeaksGrow
<1>9. \A a \in Address : Uncounted(a)
  <2>1. \A a : ~Arriving(a)
    BY ONLY <1>1 DEF Arriving
  <2> QED BY ONLY <1>4, <1>6, <1>7, <1>8, <2>1, Zenon DEF Uncounted
<1>10. NULL \notin Address
  BY Constants
<1> QED BY ONLY <1>8, <1>9, <1>10, LeaksStep, Sound, LeaksAreFew

(* The child's copies of one task's descriptors are all that fork adds.    *)
LEMMA ForkAdds ==
    ASSUME Types, NEW t \in Task, NEW a \in Address, heap' = CountAgain(t)
    PROVE  heap'[a].i_open_cnts \in Nat /\ heap'[a].i_open_cnts <= heap[a].i_open_cnts + Fds
<1>1. PICK D : D = {fd \in Fd : /\ fd_table[t][fd] # NoSlot
                                /\ file_table[fd_table[t][fd]].fd_inode = a}
  OBVIOUS
<1>2. heap'[a].i_open_cnts = heap[a].i_open_cnts + Cardinality(D)
  <2>1. heap[a] \in Inode
    BY Inodes
  <2>2. PICK n : n = heap[a].i_open_cnts + Cardinality(D)
    OBVIOUS
  <2>3. heap'[a] = [heap[a] EXCEPT !.i_open_cnts = n]
    BY ONLY <1>1, <2>1, <2>2, a \in Address, heap' = CountAgain(t) DEF CountAgain, Inode
  <2> QED BY ONLY <2>1, <2>2, <2>3 DEF Inode
<1>3. D \subseteq Fd
  BY ONLY <1>1
<1>4. Cardinality(Fd) = Fds /\ Fds \in Nat /\ IsFiniteSet(Fd)
  BY FS_Interval, OpenFilesAssumption DEF Fd
<1>5. Cardinality(D) \in Nat /\ Cardinality(D) <= Fds
  BY ONLY <1>3, <1>4, FS_Subset, FS_CardinalityType
<1>6. heap[a].i_open_cnts \in Nat
  BY Inodes
<1> QED BY ONLY <1>2, <1>4, <1>5, <1>6

LEMMA ForkLeaks ==
    ASSUME Sound, LeaksAreFew, NEW t \in Process, NEW child \in Process, sys_fork(t, child)
    PROVE  LeaksAreFew'
<1>1. /\ pc[child] = "unborn" /\ heap' = CountAgain(t) /\ Goto(child, "run")
      /\ file_table' = file_table /\ local' = local
  BY DEF sys_fork
<1>2. t \in Task /\ child \in Task /\ child # main /\ Types
  BY <1>1, Constants DEF Sound
<1>3. pc'[child] = "run" /\ \A u \in Task \ {child} : pc'[u] = pc[u]
  BY <1>1, <1>2 DEF Types
<1>4. \A a : SlotsWith(a)' = SlotsWith(a)
  BY <1>1, SlotsSame
<1>5. ASSUME NEW a PROVE TasksWith(a)' = TasksWith(a)
  <2>1. Moves(child) /\ ~Uses(child) /\ ~Uses(child)'
    BY <1>1, <1>2, <1>3 DEF Moves, Uses
  <2>2. child \notin TasksWith(a) /\ child \notin TasksWith(a)'
        /\ TasksWith(a) \ {child} = TasksWith(a)' \ {child}
    BY ONLY <1>2, <2>1, TasksAfter
  <2> QED BY ONLY <2>2
<1>6. \A a \in Address : heap'[a].next = heap[a].next
  BY <1>1, <1>2, ForkCounts
<1>7. Leaks \in Nat /\ Leaks' = Leaks + Fds
  <2>1. Listed' = Listed
    BY ONLY <1>6 DEF Listed
  <2>2. Born' = Born \cup {child} /\ child \notin Born
    BY <1>1, <1>3, Constants DEF Born
  <2>3. Cardinality(Born \cup {child}) = Cardinality(Born) + 1
    BY ONLY <2>2, LeaksAre, FS_AddElement
  <2>4. pc'[main] = pc[main]
    BY <1>2, <1>3, Constants
  <2>5. PICK l, b, n : l = Cardinality(Listed) /\ b = Cardinality(Born)
                       /\ n = IF pc[main] = "done" THEN 1 ELSE 0
    OBVIOUS
  <2>6. /\ Leaks = l + Fds * b + n
        /\ Leaks' = Cardinality(Listed)' + Fds * Cardinality(Born)'
                       + (IF pc'[main] = "done" THEN 1 ELSE 0)
    BY <2>5 DEF Leaks
  <2>7. Leaks' = l + Fds * (b + 1) + n
    BY ONLY <2>1, <2>2, <2>3, <2>4, <2>5, <2>6, Zenon
  <2>8. l \in Nat /\ b \in Nat /\ Fds \in Nat /\ Leaks \in Nat
    BY ONLY <2>5, LeaksAre, Zenon
  <2>9. n \in {0, 1}
    BY ONLY <2>5
  <2>10. Fds * (b + 1) = Fds * b + Fds /\ Fds * b \in Nat
    BY ONLY <2>8, SMTT(30)
  <2> QED BY ONLY <2>6, <2>7, <2>8, <2>9, <2>10
<1>8. ASSUME NEW a \in Address PROVE FewLeaks(a)'
  <2>1. Claims(a)' = Claims(a)
    BY <1>4, <1>5, ClaimsKept
  <2>2. FewLeaks(a)
    BY <1>8 DEF LeaksAreFew
  <2>3. CASE heap[a].i_open_cnts <= Claims(a) + Leaks
    <3>1. heap[a].i_open_cnts \in Nat /\ Claims(a) \in Nat /\ Fds \in Nat
      BY <1>2, Inodes, ClaimsIs, LeaksAre
    <3>2. heap'[a].i_open_cnts \in Nat /\ heap'[a].i_open_cnts <= heap[a].i_open_cnts + Fds
      BY <1>1, <1>2, ForkAdds
    <3>3. heap'[a].i_open_cnts <= Claims(a)' + Leaks'
      BY ONLY <1>7, <2>1, <2>3, <3>1, <3>2
    <3> QED BY ONLY <3>3, Zenon DEF FewLeaks
  <2>4. CASE /\ heap[a].next = NULL \/ Arriving(a)
             /\ heap[a].i_open_cnts = Counts - 1 /\ Claims(a) = 0
    <3>1. SlotsWith(a) = {}
      BY <2>4, ClaimsIs
    <3>2. heap'[a] = heap[a]
      BY <1>1, <1>2, <3>1, ForkCounts
    <3>3. Arriving(a)' <=> Arriving(a)
      BY <1>1, <1>2, <1>3, Constants DEF Arriving
    <3> QED BY ONLY <2>1, <2>4, <3>2, <3>3, Zenon DEF FewLeaks
  <2> QED BY <2>2, <2>3, <2>4 DEF FewLeaks
<1> QED BY <1>8 DEF LeaksAreFew

LEMMA OpensLeaks ==
    ASSUME Sound, LeaksAreFew, ~Reuse, ~LateCounts, NEW t \in Process
    PROVE  /\ \A no \in File, writes \in BOOLEAN : file_open(t, no, writes) => LeaksAreFew'
           /\ \A no \in Number : dir_open(t, no) \/ sys_stat(t, no) => LeaksAreFew'
           /\ delete_dir_entry(t) => LeaksAreFew'
<1>1. ASSUME NEW no \in File, NEW writes \in BOOLEAN, file_open(t, no, writes)
      PROVE  LeaksAreFew'
  BY <1>1, OpenCachedLeaks, OpenReadsLeaks, Unlost DEF file_open
<1>2. ASSUME NEW no \in Number, NEW op \in {"dir", "stat", "unlink"},
             (op \in {"dir", "unlink"} /\ Use(t, op, no)) \/ StartRead(t, op, no),
             ~NotCounted(no),
             pc[t] \in {"run", "unnaming"}, file_table' = file_table
      PROVE  LeaksAreFew'
  BY ONLY <1>2, UseLeaks, StartReadLeaks, Sound, LeaksAreFew, ~Reuse, t \in Process
<1>3. ASSUME NEW no \in Number, dir_open(t, no) PROVE LeaksAreFew'
  <2>1. /\ Use(t, "dir", no) \/ StartRead(t, "dir", no)
        /\ pc[t] \in {"run", "unnaming"} /\ file_table' = file_table /\ ~NotCounted(no)
    BY <1>3, Unlost DEF dir_open, Idle, At, files
  <2> QED BY <1>2, <2>1
<1>4. ASSUME NEW no \in Number, sys_stat(t, no) PROVE LeaksAreFew'
  <2>1. /\ StartRead(t, "stat", no) \/ StatFrees(no)
        /\ Idle(t) /\ file_table' = file_table /\ ~NotCounted(no)
    BY <1>4, Unlost DEF sys_stat, files
  <2>2. pc[t] \in {"run", "unnaming"}
    BY ONLY <2>1 DEF Idle, At
  <2>3. CASE StartRead(t, "stat", no)
    BY <1>2, <2>1, <2>2, <2>3
  <2>4. CASE StatFrees(no)
    BY <2>1, <2>4, StatFreesLeaks
  <2> QED BY <2>1, <2>3, <2>4
<1>5. ASSUME delete_dir_entry(t) PROVE LeaksAreFew'
  <2>1. PICK no : no = local[t].no
    OBVIOUS
  <2>2. /\ Use(t, "unlink", no) \/ StartRead(t, "unlink", no)
        /\ pc[t] \in {"run", "unnaming"} /\ file_table' = file_table /\ ~NotCounted(no)
    BY <1>5, <2>1, Unlost DEF delete_dir_entry, At, files
  <2>3. no \in Number
    BY <2>1, Constants DEF Sound, Types, Call
  <2> QED BY <1>2, <2>2, <2>3
<1> QED BY <1>1, <1>3, <1>4, <1>5

LEMMA LeaksNext ==
    ASSUME Sound, LeaksAreFew, ~Reuse, ~LateCounts, Next
    PROVE  LeaksAreFew'
<1>1. ASSUME NEW t \in Process,
             \/ \E no \in File, writes \in BOOLEAN : file_open(t, no, writes)
             \/ \E no \in Number : dir_open(t, no) \/ sys_stat(t, no) \/ sys_unlink(t, no)
             \/ \E fd \in Fd : sys_close(t, fd)
             \/ \E child \in Process : sys_fork(t, child)
             \/ OpenEnds(t) \/ ReadEnds(t) \/ StatEnds(t)
             \/ dir_close(t)
             \/ delete_dir_entry(t) \/ ReleaseNumber(t) \/ inode_delete(t)
      PROVE  LeaksAreFew'
  <2>1. CASE \/ \E no \in File, writes \in BOOLEAN : file_open(t, no, writes)
             \/ \E no \in Number : dir_open(t, no) \/ sys_stat(t, no)
             \/ delete_dir_entry(t)
    BY <2>1, OpensLeaks
  <2>2. CASE (\E no \in Number : sys_unlink(t, no)) \/ ReleaseNumber(t)
    BY <2>2, UnlinkLeaks
  <2>3. CASE \E fd \in Fd : sys_close(t, fd)
    BY <2>3, SysCloseLeaks
  <2>4. CASE \E child \in Process : sys_fork(t, child)
    BY <2>4, ForkLeaks
  <2>5. CASE OpenEnds(t) \/ ReadEnds(t) \/ StatEnds(t)
    BY <2>5, OpenEndsLeaks, ReadEndsLeaks, StatEndsLeaks
  <2>6. CASE dir_close(t) \/ inode_delete(t)
    <3>1. /\ Uses(t) /\ heap' = Closed(heap, local[t].inode)
          /\ free_list' = FreedBy(heap, local[t].inode) /\ Return(t)
          /\ UNCHANGED <<first, files>>
      BY <2>6 DEF dir_close, inode_delete, At, Uses
    <3>2. UNCHANGED <<first, file_table>>
      BY ONLY <3>1 DEF files
    <3> QED BY ONLY <3>1, <3>2, CallClosesLeaks, Sound, LeaksAreFew, t \in Process
  <2> QED BY <1>1, <2>1, <2>2, <2>3, <2>4, <2>5, <2>6
<1>2. CASE \E no \in File, writes \in BOOLEAN : file_create(no, writes)
  BY <1>2, CreateLeaks
<1>3. CASE sync_dir_entry \/ CreateFails \/ inode_sync \/ CreatePushes \/ CreateEnds
  BY <1>3, CreatingLeaks, CreateFailsLeaks, CreatePushesLeaks, CreateEndsLeaks
<1> QED BY <1>1, <1>2, <1>3 DEF Next

LEMMA LeaksStutter ==
    ASSUME LeaksAreFew, UNCHANGED vars
    PROVE  LeaksAreFew'
<1>1. heap' = heap /\ pc' = pc /\ file_table' = file_table /\ local' = local
  BY DEF vars, inodes, files
<1>2. \A a : SlotsWith(a)' = SlotsWith(a) /\ TasksWith(a)' = TasksWith(a)
  BY ONLY <1>1 DEF SlotsWith, TasksWith
<1>3. \A a : Claims(a)' = Claims(a)
  BY ONLY <1>2, ClaimsKept
<1>4. Listed' = Listed /\ Born' = Born
  BY ONLY <1>1 DEF Listed, Born
<1>5. Leaks' = Leaks
  BY ONLY <1>1, <1>4, Zenon DEF Leaks
<1>6. ASSUME NEW a \in Address PROVE FewLeaks(a)'
  <2>1. FewLeaks(a)
    BY DEF LeaksAreFew
  <2> QED BY ONLY <1>1, <1>3, <1>5, <2>1, Zenon DEF FewLeaks, Arriving
<1> QED BY <1>6 DEF LeaksAreFew

LEMMA LeaksInit == ASSUME Init PROVE LeaksAreFew
<1> SUFFICES ASSUME NEW a \in Address PROVE FewLeaks(a)
  BY DEF LeaksAreFew
<1>1. Claims(a) \in Nat /\ (a = 1 => Claims(a) # 0) /\ Leaks \in Nat
  BY ClaimsIs, LeaksAre
<1>2. heap[a].i_open_cnts = IF a = 1 THEN 1 ELSE 0
  BY DEF Init, ZeroedInode
<1>3. heap[a].i_open_cnts <= Claims(a) + Leaks
  BY ONLY <1>1, <1>2
<1> QED BY <1>3 DEF FewLeaks

(* The shares and the leaks of an inode are too few to overflow its count. *)
LEMMA CountsAreSmall ==
    ASSUME Types, LeaksAreFew, MostUsers < Counts
    PROVE  TypeOK
<1>1. ASSUME NEW a \in Address PROVE heap[a].i_open_cnts < Counts
  <2>1. heap[a].i_open_cnts \in Nat
    BY Inodes
  <2>2. PICK s, t, p, m : /\ s = Cardinality(SlotsWith(a)) /\ t = Cardinality(TasksWith(a))
                          /\ p = Cardinality(Process) /\ m = Fds * p
    OBVIOUS
  <2>3. s \in Nat /\ s <= Slots
    <3>1. IsFiniteSet(Slot) /\ Cardinality(Slot) = Slots
      BY FS_Interval, OpenFilesAssumption DEF Slot
    <3> QED BY ONLY <2>2, <3>1, ClaimsIs, FS_Subset
  <2>4. t \in Nat /\ t <= p + 1
    <3>1. IsFiniteSet(Task) /\ Cardinality(Task) = p + 1
      BY <2>2, Finite, OpenFilesAssumption, FS_AddElement DEF Task
    <3> QED BY ONLY <2>2, <3>1, ClaimsIs, FS_Subset
  <2>5. p \in Nat /\ Fds \in Nat /\ Blocks \in Nat /\ Slots \in Nat
        /\ Leaks \in Nat /\ Leaks <= Blocks + m + 1
    BY ONLY <2>2, LeaksAre, Zenon
  <2>6. m \in Nat /\ (Fds + 1) * p = m + p
    BY ONLY <2>2, <2>5, SMTT(30)
  <2>7. Claims(a) = s + t + IF a = 1 THEN 1 ELSE 0
    BY ONLY <2>2, Zenon DEF Claims
  <2>8. MostUsers = Slots + Blocks + (m + p) + 3
    BY ONLY <2>2, <2>6, Zenon DEF MostUsers
  <2>9. Counts \in Nat
    BY OpenFilesAssumption
  <2>10. Claims(a) \in Nat /\ Claims(a) + Leaks <= MostUsers
    BY ONLY <2>3, <2>4, <2>5, <2>6, <2>7, <2>8
  <2>11. MostUsers \in Nat
    BY ONLY <2>5, <2>6, <2>8
  <2>12. CASE heap[a].i_open_cnts <= Claims(a) + Leaks
    BY ONLY <2>1, <2>5, <2>9, <2>10, <2>11, <2>12, MostUsers < Counts
  <2>13. CASE heap[a].i_open_cnts = Counts - 1
    BY ONLY <2>9, <2>13
  <2> QED BY <2>12, <2>13 DEF LeaksAreFew, FewLeaks
<1> QED BY <1>1 DEF TypeOK

---------------------------------------------------------------------------
(* The theorems                                                            *)

(* The list of open inodes is whole, each count covers its shares, a block *)
(* that is being filled has one owner; and what there is besides while one *)
(* task at a time uses the file system.  That a freed inode's block is not *)
(* handed out again is inode_close's doing, which leaves it in the list;   *)
(* fork counts the inode that file_create is about to count afresh.        *)
THEOREM Invariance == Careful /\ Spec => []Inv
<1>1. Init => Inv
  BY InitSound, InitOrderly DEF Inv
<1>2. CASE Careful
  <2>1. ASSUME Inv, Next PROVE Inv'
    BY <1>2, <2>1, NextKept DEF Inv, Kept
  <2>2. ASSUME Inv, UNCHANGED vars PROVE Inv'
    BY <2>2, StutterSound, StutterOrderly DEF Inv
  <2>3. Inv /\ [Next]_vars => Inv'
    BY <2>1, <2>2
  <2> QED BY <1>1, <2>3, PTL DEF Spec
<1>3. CASE ~Careful
  BY <1>3
<1> QED BY <1>2, <1>3

(* inode.c:71: inode_open's search comes to an end: the list of open       *)
(* inodes, which tasks push onto while others sleep in inode_open, never   *)
(* gets a cycle and loses no link.                                         *)
THEOREM SearchesAlwaysEnd == Careful /\ Spec => []SearchesEnd
<1>1. Inv => SearchesEnd
  BY InvImplies
<1> QED BY <1>1, Invariance, PTL

(* inode.c:131: an inode is freed with its last close and not before: its  *)
(* count covers the slots and the calls that have it, whatever tasks do at *)
(* the same time, and is exact while one at a time uses the file system.   *)
THEOREM CountsAlwaysCoverUsers == Careful /\ Spec => []CountsCoverUsers
<1>1. Inv => CountsCoverUsers
  BY InvImplies
<1> QED BY <1>1, Invariance, PTL

(* The state fits its types, and i_open_cnts fits its uint32_t: inode_open *)
(* and fork, which count an inode again and again, and the opens that lose *)
(* a slot and leave its inode counted for ever, are too few to carry it    *)
(* past 2^32; and an inode that file_create makes, which may be closed     *)
(* while its count is still 0, has no user at that time.                   *)
THEOREM CountsNeverOverflow ==
    Careful /\ MostUsers < Counts /\ Spec => []TypeOK
<1>1. Init => LeaksAreFew
  BY LeaksInit
<1>2. CASE Careful /\ MostUsers < Counts
  <2>1. ASSUME Inv, LeaksAreFew, [Next]_vars PROVE LeaksAreFew'
    <3>1. Sound
      BY <2>1 DEF Inv
    <3>2. CASE Next
      BY ONLY <1>2, <2>1, <3>1, <3>2, LeaksNext DEF Careful
    <3>3. CASE UNCHANGED vars
      BY ONLY <2>1, <3>3, LeaksStutter
    <3> QED BY ONLY <2>1, <3>2, <3>3
  <2>2. ASSUME Inv, LeaksAreFew PROVE TypeOK
    <3>1. Types
      BY <2>2, InvImplies
    <3> QED BY ONLY <1>2, <2>2, <3>1, CountsAreSmall
  <2>3. Spec => []Inv
    BY <1>2, Invariance, PTL
  <2>4. Inv /\ LeaksAreFew /\ [Next]_vars => LeaksAreFew'
    BY ONLY <2>1, Zenon
  <2>5. Inv /\ LeaksAreFew => TypeOK
    BY ONLY <2>2, Zenon
  <2> QED BY <1>1, <2>3, <2>4, <2>5, PTL DEF Spec
<1>3. CASE ~(Careful /\ MostUsers < Counts)
  BY <1>3
<1> QED BY <1>2, <1>3

(* file_open, file_close and sys_unlink: while one task at a time uses the *)
(* file system, each descriptor has a slot of its own, in it an inode of a *)
(* file that is in a directory, and no access faults.                      *)
THEOREM DescriptorsAreAlwaysLive == Careful /\ Spec => []DescriptorsAreLive
<1>1. Inv => DescriptorsAreLive
  BY InvImplies
<1> QED BY <1>1, Invariance, PTL

(* inode_open, under the same condition: a number has one inode in memory, *)
(* so that all who open a file share its size, its blocks, its write_deny. *)
THEOREM InodesAreAlwaysShared == Careful /\ Spec => []InodesAreShared
<1>1. Inv => InodesAreShared
  BY InvImplies
<1> QED BY <1>1, Invariance, PTL
=============================================================================
