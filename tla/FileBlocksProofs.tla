-------------------------- MODULE FileBlocksProofs --------------------------
(***************************************************************************)
(* The blocks of files for any sizes of blocks, files, disks and counts:   *)
(* Inv of module FileBlocks is inductive for the calls that Regular        *)
(* admits, and the safety properties follow from it.                       *)
(***************************************************************************)
EXTENDS FileBlocks, WellFoundedInduction, TLAPS

USE DEF vars, Goto, Offset, Index, AllBlocks, NoBlock

---------------------------------------------------------------------------
(* Numbers                                                                 *)

(* Every nonempty set of naturals has a smallest element.                  *)
LEMMA Smallest ==
    ASSUME NEW S, S \subseteq Nat, S # {}
    PROVE  Min(S) \in S
<1> DEFINE Less == OpToRel(<, Nat)
<1>1. IsWellFoundedOn(Less, Nat)
  BY NatLessThanWellFounded
<1>2. PICK m \in S : \A n \in S : ~(<<n, m>> \in Less)
  <2> HIDE DEF Less
  <2> QED BY ONLY <1>1, WFMin, S \subseteq Nat, S # {}
<1>3. \A n \in S : ~(n < m)
  BY <1>2 DEF OpToRel
<1>4. \A n \in S : m <= n
  BY <1>3
<1> QED BY <1>4 DEF Min

(* The block and the offset of a byte.                                     *)
LEMMA Division ==
    ASSUME NEW s \in Nat
    PROVE  /\ s \div BLOCK_SIZE \in Nat
           /\ s % BLOCK_SIZE \in Nat
           /\ s % BLOCK_SIZE < BLOCK_SIZE
           /\ s % BLOCK_SIZE <= s
           /\ s \div BLOCK_SIZE <= s
           /\ s % BLOCK_SIZE \in Offset
BY FileBlocksAssumption

(* Bytes that lie in the block of s.                                       *)
LEMMA SameBlock ==
    ASSUME NEW s \in Nat, NEW o \in Nat, o < BLOCK_SIZE
    PROVE  /\ ((s - (s % BLOCK_SIZE)) + o) \div BLOCK_SIZE = s \div BLOCK_SIZE
           /\ ((s - (s % BLOCK_SIZE)) + o) % BLOCK_SIZE = o
BY FileBlocksAssumption

(* The first byte of the block that follows.                               *)
LEMMA NextBlock ==
    ASSUME NEW s \in Nat
    PROVE  /\ (s + (BLOCK_SIZE - (s % BLOCK_SIZE))) \div BLOCK_SIZE = (s \div BLOCK_SIZE) + 1
           /\ (s + (BLOCK_SIZE - (s % BLOCK_SIZE))) % BLOCK_SIZE = 0
<1> DEFINE q == s \div BLOCK_SIZE
           n == s + (BLOCK_SIZE - (s % BLOCK_SIZE))
<1>1. BLOCK_SIZE \in Nat \ {0} /\ q \in Nat /\ n \in Nat
  BY FileBlocksAssumption, Division
<1>2. s = BLOCK_SIZE * q + (s % BLOCK_SIZE)
  BY FileBlocksAssumption
<1>3. n = BLOCK_SIZE * (q + 1)
  BY <1>1, <1>2, Division
<1> HIDE DEF q, n
<1>4. n \div BLOCK_SIZE = q + 1 /\ n % BLOCK_SIZE = 0
  BY <1>1, <1>3
<1> QED BY <1>4 DEF q, n

LEMMA Monotone ==
    ASSUME NEW r \in Nat, NEW s \in Nat, r <= s
    PROVE  r \div BLOCK_SIZE <= s \div BLOCK_SIZE
BY FileBlocksAssumption

(* Two bytes of the same block differ as their offsets do.                 *)
LEMMA OffsetsDiffer ==
    ASSUME NEW r \in Nat, NEW s \in Nat, r \div BLOCK_SIZE = s \div BLOCK_SIZE
    PROVE  r - (r % BLOCK_SIZE) = s - (s % BLOCK_SIZE)
BY FileBlocksAssumption

LEMMA InsideMaxSize ==
    ASSUME NEW s \in Nat, BlocksOf(s) <= AllBlocks
    PROVE  s < MaxSize
BY FileBlocksAssumption DEF BlocksOf, MaxSize

---------------------------------------------------------------------------
(* Blocks and their owners                                                 *)

(* The entry that holds the address of block i of a file.                  *)
EntryOf(i) == IF i < Direct THEN i ELSE i + 1

LEMMA EntryIs ==
    ASSUME NEW i \in Index
    PROVE  /\ EntryOf(i) \in Entries
           /\ EntryOf(i) # Direct
           /\ \A f : BlockAt(f, i) = Addr(f, EntryOf(i))
           /\ \A f : BlockAt(f, i)' = Addr(f, EntryOf(i))'
           /\ \A j \in Index : EntryOf(i) = EntryOf(j) => i = j
<1>1. /\ Direct \in Nat \ {0} /\ BLOCK_SIZE \in Nat \ {0} /\ i \in Nat
  BY FileBlocksAssumption
<1>2. CASE i < Direct
  BY <1>1, <1>2 DEF EntryOf, Entries, BlockAt, Addr
<1>3. CASE ~(i < Direct)
  <2>1. i - Direct = (i + 1) - (Direct + 1) /\ ~(i + 1 <= Direct)
    BY <1>1, <1>3
  <2>2. EntryOf(i) \in Entries /\ EntryOf(i) # Direct /\ EntryOf(i) = i + 1
    BY <1>1, <1>3 DEF EntryOf, Entries
  <2>3. \A f : BlockAt(f, i) = Addr(f, EntryOf(i))
    BY <1>3, <2>1, <2>2 DEF BlockAt, Addr
  <2>4. \A f : BlockAt(f, i)' = Addr(f, EntryOf(i))'
    BY <1>3, <2>1, <2>2 DEF BlockAt, Addr
  <2>5. \A j \in Index : EntryOf(i) = EntryOf(j) => i = j
    BY <1>1, <1>3 DEF EntryOf
  <2> QED BY <2>2, <2>3, <2>4, <2>5
<1> QED BY <1>2, <1>3

(* A block of the disk is free unless it is full.                          *)
LEMMA FreeBlock ==
    ASSUME Types, ~DiskFull
    PROVE  /\ FirstFree \in DataBlock /\ FirstFree \notin used
           /\ FirstFree # NoBlock /\ FirstFree \in Block
           /\ MarkUsed(FirstFree) = used \cup {FirstFree}
<1>1. DataBlock \ used # {} /\ DataBlock \ used \subseteq Nat \ {0}
  BY FileBlocksAssumption DEF DiskFull
<1>2. FirstFree \in DataBlock \ used
  BY <1>1, Smallest DEF FirstFree
<1> QED BY <1>1, <1>2 DEF MarkUsed, Block

LEMMA Addresses ==
    ASSUME Types, Ownership
    PROVE  /\ NoBlock \in Block /\ NoBlock \notin used
           /\ disk[NoBlock] = EmptyBlock
           /\ \A f \in File, k \in Entries : Addr(f, k) \in Block
           /\ \A f \in File, i \in Index : BlockAt(f, i) \in Block
<1>1. NoBlock \in Block /\ NoBlock \notin used
  BY FileBlocksAssumption DEF Types, Block
<1>2. disk[NoBlock] = EmptyBlock
  BY <1>1 DEF Ownership, Free
<1>3. \A f \in File, k \in Entries : Addr(f, k) \in Block
  BY <1>1 DEF Ownership, Types, Block
<1> QED BY <1>1, <1>2, <1>3, EntryIs

(* The step leaves f and its blocks as they are.                           *)
Untouched(f) ==
    /\ inode'[f] = inode[f]
    /\ \A k \in Entries : disk'[Addr(f, k)] = disk[Addr(f, k)]

(* The step keeps the bytes of f where they are.                           *)
Kept(f) ==
    /\ inode[f].i_size <= inode'[f].i_size
    /\ \A k \in 0 .. inode[f].i_size - 1 :
          BlockAt(f, k \div BLOCK_SIZE)' = BlockAt(f, k \div BLOCK_SIZE)

BytesOf(f) ==
    \A i \in 0 .. inode[f].i_size - 1 :
        disk[BlockAt(f, i \div BLOCK_SIZE)][i % BLOCK_SIZE] = <<f, i>>

(* The blocks of the bytes of a file are among those of an inode.          *)
LEMMA ByteBlocks ==
    ASSUME NEW s \in Nat, BlocksOf(s) <= AllBlocks, NEW k \in 0 .. s
    PROVE  k \div BLOCK_SIZE \in Index /\ k \div BLOCK_SIZE <= s \div BLOCK_SIZE
<1>1. k \div BLOCK_SIZE <= s \div BLOCK_SIZE
  BY Monotone
<1>2. k \div BLOCK_SIZE \in Nat /\ s \div BLOCK_SIZE \in Nat
  BY Division
<1>3. (s \div BLOCK_SIZE) + 1 <= Direct + BLOCK_SIZE
  BY DEF BlocksOf
<1> QED BY ONLY <1>1, <1>2, <1>3, FileBlocksAssumption DEF Index, AllBlocks

LEMMA UntouchedIs ==
    ASSUME Types, Ownership, NEW f \in File, Untouched(f)
    PROVE  /\ \A k \in Entries : Addr(f, k)' = Addr(f, k)
           /\ \A i \in Index : BlockAt(f, i)' = BlockAt(f, i)
           /\ Allocated(f) => Allocated(f)' /\ Kept(f)
           /\ Allocated(f) /\ BytesOf(f) => BytesOf(f)'
<1>1. inode[f].i_size \in Nat /\ inode'[f] = inode[f]
  BY DEF Types, Untouched
<1>2. Direct \in Entries /\ Direct \in Nat
  BY FileBlocksAssumption DEF Entries
<1>3. disk'[inode[f].i_sectors[Direct]] = disk[inode[f].i_sectors[Direct]]
  BY <1>2 DEF Untouched, Addr
<1>4. \A k \in Entries : Addr(f, k)' = Addr(f, k)
  BY <1>1, <1>3 DEF Addr, TableEntry
<1>5. \A i \in Index : BlockAt(f, i)' = BlockAt(f, i)
  BY <1>4, EntryIs
<1>6. ASSUME Allocated(f), NEW k \in 0 .. inode[f].i_size
      PROVE  k \div BLOCK_SIZE \in Index
  BY <1>1, <1>6, ByteBlocks DEF Allocated
<1>7. Allocated(f) => Allocated(f)'
  <2> SUFFICES ASSUME Allocated(f)
               PROVE  Allocated(f)'
    OBVIOUS
  <2>1. \A i \in 0 .. inode[f].i_size \div BLOCK_SIZE : i \in Index
    BY <1>1, FileBlocksAssumption DEF Allocated, BlocksOf
  <2> QED BY <1>1, <1>5, <2>1 DEF Allocated
<1>8. Allocated(f) => Kept(f)
  BY <1>1, <1>5, <1>6 DEF Kept
<1>9. ASSUME Allocated(f), BytesOf(f)
      PROVE  BytesOf(f)'
  <2>1. ASSUME NEW i \in 0 .. inode[f].i_size - 1
        PROVE  disk'[BlockAt(f, i \div BLOCK_SIZE)'][i % BLOCK_SIZE] = <<f, i>>
    <3>1. i \div BLOCK_SIZE \in Index
      BY <1>1, <1>6, <1>9
    <3>2. disk'[BlockAt(f, i \div BLOCK_SIZE)] = disk[BlockAt(f, i \div BLOCK_SIZE)]
      BY <3>1, EntryIs DEF Untouched
    <3> QED BY <1>5, <1>9, <3>1, <3>2 DEF BytesOf
  <2> QED BY <1>1, <2>1 DEF BytesOf
<1> QED BY <1>4, <1>5, <1>7, <1>8, <1>9

---------------------------------------------------------------------------
(* What a step has to show                                                 *)

(* Only p moves; another process sees no more of it than that p's file     *)
(* grows behind the bytes that it has.                                     *)
OnlyMoves(p) ==
    /\ \A u \in Process \ {p} : /\ pc'[u] = pc[u] /\ local'[u] = local[u]
                                /\ desc'[u] = desc[u]
    /\ desc'[p].file = desc[p].file
    /\ desc'[p].writes = desc[p].writes
    /\ \A f \in File : \/ Untouched(f)
                       \/ f = desc[p].file /\ desc[p].writes /\ Kept(f)

LEMMA AllKept ==
    ASSUME Inv, NEW p \in Process, OnlyMoves(p), NEW f \in File
    PROVE  Kept(f)
BY UntouchedIs DEF Inv, OnlyMoves

(* What u # p has in its hands is still true.                              *)
LEMMA BystanderReads ==
    ASSUME Inv, Types', NEW p \in Process, OnlyMoves(p), NEW u \in Process, u # p
    PROVE  ReadFits(u)'
<1> DEFINE f == desc[u].file
<1>1. /\ pc'[u] = pc[u] /\ local'[u] = local[u] /\ desc'[u] = desc[u]
      /\ f \in File /\ ReadFits(u)
  BY DEF OnlyMoves, Inv, Types
<1>2. /\ inode[f].i_size \in Nat /\ inode'[f].i_size \in Nat
      /\ inode[f].i_size <= inode'[f].i_size
      /\ \A k \in 0 .. inode[f].i_size - 1 :
            BlockAt(f, k \div BLOCK_SIZE)' = BlockAt(f, k \div BLOCK_SIZE)
  BY <1>1, AllKept DEF Kept, Inv, Types
<1>3. desc[u].fd_pos \in Nat /\ local[u].left \in Nat
  BY <1>1 DEF Inv, Types, Locals
<1>4. CASE pc[u] # "fetch"
  BY <1>1, <1>4 DEF ReadFits
<1>5. CASE pc[u] = "fetch"
  <2> DEFINE pos == desc[u].fd_pos
  <2>1. /\ pos + local[u].left <= inode[f].i_size
        /\ pos = local[u].start + Len(local[u].out)
        /\ \A i \in Index : \A k \in pos .. (pos + local[u].left) - 1 :
              i = k \div BLOCK_SIZE => local[u].blocks[i] = BlockAt(f, i)
    BY <1>1, <1>5 DEF ReadFits, Size
  <2>2. pos + local[u].left <= inode'[f].i_size
    BY <1>2, <1>3, <2>1
  <2>3. ASSUME NEW i \in Index, NEW k \in pos .. (pos + local[u].left) - 1,
               i = k \div BLOCK_SIZE
        PROVE  local[u].blocks[i] = BlockAt(f, i)'
    <3>1. k \in 0 .. inode[f].i_size - 1
      BY <1>2, <1>3, <2>1
    <3> QED BY <1>2, <2>1, <2>3, <3>1
  <2> QED BY <1>1, <1>5, <2>1, <2>2, <2>3 DEF ReadFits, Size
<1> QED BY <1>4, <1>5

LEMMA BystanderWrites ==
    ASSUME Inv, Types', NEW p \in Process, OnlyMoves(p), NEW u \in Process, u # p
    PROVE  WriteFits(u)'
<1> DEFINE f == desc[u].file
<1>1. /\ pc'[u] = pc[u] /\ local'[u] = local[u] /\ desc'[u] = desc[u]
      /\ f \in File /\ WriteFits(u)
  BY DEF OnlyMoves, Inv, Types
<1>2. CASE ~Writing(u)
  BY <1>1, <1>2 DEF WriteFits, Writing
<1>3. CASE Writing(u)
  <2>1. Untouched(f)
    BY <1>1, <1>3 DEF Inv, Openings, OnlyMoves
  <2>2. /\ inode'[f] = inode[f]
        /\ \A i \in Index : BlockAt(f, i)' = BlockAt(f, i)
        /\ \A i \in Index : disk'[BlockAt(f, i)] = disk[BlockAt(f, i)]
    BY <1>1, <2>1, UntouchedIs, EntryIs DEF Inv, Untouched
  <2>3. /\ Size(u)' = Size(u) /\ Sectors(u)' = Sectors(u) /\ Start(u)' = Start(u)
        /\ Planned(u)' = Planned(u) /\ Allocating(u)' = Allocating(u)
    BY <1>1, <2>2 DEF Size, Sectors, Start, Planned, Allocating
  <2>4. Planned(u) /\ Size(u) \in Nat /\ local[u].left \in Nat /\ local[u].will \in Nat
    BY <1>1, <1>3 DEF WriteFits, Inv, Types, Size, Locals
  <2>5. ASSUME NEW i \in BlocksOf(Size(u)) - 1 .. local[u].will - 1
        PROVE  i \in Index
    BY <2>4, Division, FileBlocksAssumption DEF BlocksOf, Planned
  <2>6. CASE pc[u] \in {"plan", "alloc"}
    BY <1>1, <2>3, <2>6 DEF WriteFits, Writing
  <2>7. CASE pc[u] \in {"data", "put", "grow"}
    <3>1. Ready(u) /\ Ready(u)'
      <4>1. Ready(u)
        BY <1>1, <2>7 DEF WriteFits
      <4> QED BY <1>1, <2>2, <2>3, <2>5, <4>1 DEF Ready
    <3>2. \A n : Holds(u, local[u].io, n)' = Holds(u, local[u].io, n)
      BY <1>1, <2>3 DEF Holds
    <3>3. CASE pc[u] = "grow"
      <4> DEFINE b == local[u].blocks[Size(u) \div BLOCK_SIZE]
                 n == (Size(u) % BLOCK_SIZE) + ChunkSize(local[u].left, Size(u))
      <4>1. Size(u) \div BLOCK_SIZE \in BlocksOf(Size(u)) - 1 .. local[u].will - 1
        <5>1. Size(u) \div BLOCK_SIZE <= (Size(u) + local[u].left) \div BLOCK_SIZE
          BY <2>4, Monotone
        <5> QED BY <2>4, <5>1, Division DEF Planned, BlocksOf
      <4>2. b = BlockAt(f, Size(u) \div BLOCK_SIZE)
        BY <3>1, <4>1 DEF Ready
      <4>3. disk'[b] = disk[b]
        BY <2>2, <2>5, <4>1, <4>2
      <4>4. Holds(u, disk[b], n)
        BY <1>1, <3>3 DEF WriteFits
      <4>5. \A o \in Offset : o < n => disk'[b][o] = <<desc[u].file, Start(u) + o>>
        BY <4>3, <4>4 DEF Holds
      <4>6. Holds(u, disk[local[u].blocks[Size(u) \div BLOCK_SIZE]],
                  (Size(u) % BLOCK_SIZE) + ChunkSize(local[u].left, Size(u)))'
        BY <1>1, <2>3, <4>5 DEF Holds, ChunkSize, Smaller
      <4> QED BY <1>1, <2>3, <3>1, <3>3, <4>6 DEF WriteFits, Writing
    <3>4. CASE pc[u] = "put"
      BY <1>1, <2>3, <3>1, <3>2, <3>4 DEF WriteFits, Writing
    <3>5. CASE pc[u] = "data"
      BY <1>1, <2>3, <3>1, <3>5 DEF WriteFits, Writing
    <3> QED BY <2>7, <3>3, <3>4, <3>5
  <2> QED BY <1>3, <2>6, <2>7 DEF Writing
<1> QED BY <1>2, <1>3

ExactRead(p) ==
    local[p].out = [k \in 1 .. Len(local[p].out) |->
                        <<desc[p].file, (local[p].start + k) - 1>>]

Positioned(p) ==
    /\ desc[p].fd_pos <= Size(p)
    /\ Writing(p) => desc[p].writes

(* What remains to be shown of a step of p: what concerns p and its file,  *)
(* and who owns which block.                                               *)
LEMMA StepInv ==
    ASSUME Inv, NEW p \in Process, OnlyMoves(p), Types', NoPanic',
           Ownership', Hands', NothingAhead',
           Allocated(desc[p].file)', BytesOf(desc[p].file)',
           WriteFits(p)', ReadFits(p)', ExactRead(p)', Positioned(p)'
    PROVE  Inv'
<1>1. Openings'
  <2>1. \A u, v \in Process :
           desc'[u].writes /\ desc'[v].writes /\ desc'[u].file = desc'[v].file => u = v
    BY DEF OnlyMoves, Inv, Openings
  <2>2. ASSUME NEW u \in Process
        PROVE  Positioned(u)'
    <3>1. CASE u = p
      BY <3>1
    <3>2. CASE u # p
      <4>1. /\ pc'[u] = pc[u] /\ desc'[u] = desc[u] /\ desc[u].file \in File
            /\ desc[u].fd_pos \in Nat
            /\ inode[desc[u].file].i_size \in Nat /\ inode'[desc[u].file].i_size \in Nat
        BY <3>2 DEF OnlyMoves, Inv, Types
      <4>2. inode[desc[u].file].i_size <= inode'[desc[u].file].i_size
        BY <4>1, AllKept DEF Kept
      <4>3. desc[u].fd_pos <= Size(u) /\ (Writing(u) => desc[u].writes)
        BY DEF Inv, Openings
      <4> QED BY <4>1, <4>2, <4>3 DEF Positioned, Size, Writing
    <3> QED BY <3>1, <3>2
  <2> QED BY <2>1, <2>2 DEF Openings, Positioned
<1>2. \A f \in File : Allocated(f)' /\ BytesOf(f)'
  <2>1. ASSUME NEW f \in File, f # desc[p].file
        PROVE  Allocated(f)' /\ BytesOf(f)'
    <3>1. Untouched(f) /\ Allocated(f) /\ BytesOf(f)
      BY <2>1 DEF OnlyMoves, Inv, FileHoldsItsBytes, BytesOf
    <3> QED BY <3>1, UntouchedIs DEF Inv
  <2>2. ASSUME NEW f \in File, f = desc[p].file
        PROVE  Allocated(f)' /\ BytesOf(f)'
    <3>1. f = desc'[p].file
      BY <2>2 DEF OnlyMoves
    <3> QED BY <3>1 DEF Allocated, BytesOf
  <2> QED BY <2>1, <2>2
<1>3. \A u \in Process : WriteFits(u)' /\ ReadFits(u)'
  BY BystanderReads, BystanderWrites
<1>4. ReadsAreExact'
  <2>1. ASSUME NEW u \in Process
        PROVE  ExactRead(u)'
    <3>1. CASE u = p
      BY ONLY <3>1, ExactRead(p)'
    <3>2. CASE u # p
      <4>1. local'[u] = local[u] /\ desc'[u] = desc[u]
        BY ONLY <3>2, OnlyMoves(p), u \in Process DEF OnlyMoves
      <4>2. ExactRead(u)
        BY ONLY Inv, u \in Process DEF Inv, ReadsAreExact, ExactRead
      <4> QED BY ONLY <4>1, <4>2 DEF ExactRead
    <3> QED BY ONLY <3>1, <3>2
  <2> QED BY <2>1 DEF ReadsAreExact, ExactRead
<1>5. FileHoldsItsBytes'
  BY <1>2 DEF FileHoldsItsBytes, BytesOf
<1> QED BY <1>1, <1>2, <1>3, <1>4, <1>5 DEF Inv

(* A step of p that changes no file and no block.                          *)
LEMMA QuietInv ==
    ASSUME Inv, NEW p \in Process, UNCHANGED <<inode, used, disk>>,
           Types', NoPanic',
           \A u \in Process \ {p} : /\ pc'[u] = pc[u] /\ local'[u] = local[u]
                                    /\ desc'[u] = desc[u],
           desc'[p].file = desc[p].file, desc'[p].writes = desc[p].writes,
           Hands', NothingAhead',
           WriteFits(p)', ReadFits(p)', ExactRead(p)', Positioned(p)'
    PROVE  Inv' /\ OnlyMoves(p)
<1>1. \A f \in File : Untouched(f)
  BY DEF Untouched
<1>2. OnlyMoves(p)
  BY <1>1 DEF OnlyMoves
<1>3. Ownership'
  BY DEF Inv, Ownership, Addr, TableEntry, Free
<1>4. desc[p].file \in File
  BY DEF Inv, Types
<1>5. Allocated(desc[p].file)' /\ BytesOf(desc[p].file)'
  <2>1. Allocated(desc[p].file) /\ BytesOf(desc[p].file)
    BY <1>4 DEF Inv, FileHoldsItsBytes, BytesOf
  <2>2. PICK f \in File : f = desc[p].file
    BY <1>4
  <2>3. Allocated(f)' /\ BytesOf(f)'
    BY ONLY Inv, <1>1, <2>1, <2>2, UntouchedIs DEF Inv
  <2>4. f = desc'[p].file
    BY <2>2
  <2> QED BY ONLY <2>3, <2>4 DEF Allocated, BytesOf
<1> QED BY <1>2, <1>3, <1>5, StepInv

(* No block goes from one owner to another, and p has none in hand.        *)
LEMMA HandsKept ==
    ASSUME Inv, NEW p \in Process,
           \A f \in File, k \in Entries : Addr(f, k)' = Addr(f, k) \/ Addr(f, k)' \notin used,
           used \subseteq used',
           \A u \in Process \ {p} : pc'[u] = pc[u] /\ local'[u] = local[u],
           Fresh(p)' = {}
    PROVE  Hands'
<1>1. \A u \in Process : Fresh(u)' \subseteq Fresh(u)
  BY DEF Fresh
<1>2. \A u \in Process : Fresh(u)' # {} => local'[u] = local[u]
  OBVIOUS
<1>3. Hands
  BY DEF Inv
<1> HIDE DEF Fresh, Addr
<1> QED BY <1>1, <1>2, <1>3 DEF Hands

(* A process that has finished knows nothing.                              *)
LEMMA Idle ==
    ASSUME NEW p \in Process, Types', pc'[p] = "run", local'[p] = NoLocals,
           (desc[p].fd_pos <= Size(p))'
    PROVE  WriteFits(p)' /\ ReadFits(p)' /\ ExactRead(p)' /\ Positioned(p)' /\ Fresh(p)' = {}
<1>1. local'[p].out = <<>>
  BY DEF NoLocals
<1>2. ~Writing(p)'
  BY DEF Writing
<1> QED BY <1>1, <1>2 DEF WriteFits, ReadFits, ExactRead, Positioned, Writing, Fresh

(* What the other writers have reserved stays reserved, and p may take     *)
(* more, or end its write, or not write at all.                            *)
LEMMA AheadKept ==
    ASSUME Inv, NEW p \in Process, used \subseteq used',
           \A u \in Process \ {p} : pc'[u] = pc[u] /\ local'[u] = local[u] /\ desc'[u] = desc[u],
           desc'[p].file = desc[p].file,
           \A f \in File \ {desc[p].file} : inode'[f] = inode[f],
           \/ ~Writing(p) /\ ~Writing(p)' /\ inode'[desc[p].file] = inode[desc[p].file]
           \/ /\ Writing(p)' /\ desc[p].writes
              /\ DiskFull' \/ Clear(desc[p].file, Reserved(p))'
           \/ /\ ~Writing(p)' /\ desc[p].writes
              /\ DiskFull' \/ Clear(desc[p].file, BlocksOf(inode[desc[p].file].i_size))'
    PROVE  NothingAhead'
<1> DEFINE f == desc[p].file
<1>1. CASE DiskFull'
  BY <1>1 DEF NothingAhead
<1>2. CASE ~DiskFull'
  <2>1. ~DiskFull
    BY <1>2 DEF DiskFull
  <2>2. /\ \A g \in File : \/ \E u \in Process : Writing(u) /\ desc[u].file = g
                           \/ Clear(g, BlocksOf(inode[g].i_size))
        /\ \A u \in Process : Writing(u) => Clear(desc[u].file, Reserved(u))
        /\ \A u \in Process : Writing(u) => desc[u].writes
        /\ f \in File /\ \A u \in Process : desc[u].file \in File
    BY <2>1 DEF Inv, NothingAhead, Openings, Types
  <2>3. \A u \in Process \ {p} : desc[u].file # f => Reserved(u)' = Reserved(u)
    BY <2>2 DEF Reserved, Size
  <2>4. \A u \in Process \ {p} : Writing(u)' = Writing(u)
    BY DEF Writing
  <2>5. \A g \in File \ {f}, n \in Nat : Clear(g, n)' = Clear(g, n)
    BY DEF Clear
  <2>6. ASSUME NEW g \in File
        PROVE  \/ \E u \in Process : Writing(u)' /\ desc'[u].file = g
               \/ Clear(g, BlocksOf(inode[g].i_size))'
    <3>1. CASE g # f
      <4>1. CASE \E u \in Process : Writing(u) /\ desc[u].file = g
        BY <2>4, <3>1, <4>1
      <4>2. CASE ~ \E u \in Process : Writing(u) /\ desc[u].file = g
        BY <2>2, <3>1, <4>2 DEF Clear
      <4> QED BY <4>1, <4>2
    <3>2. CASE g = f
      <4>1. CASE \E u \in Process : Writing(u)' /\ desc'[u].file = g
        BY <4>1
      <4>2. CASE ~ \E u \in Process : Writing(u)' /\ desc'[u].file = g
        <5>1. ~Writing(p)'
          BY <3>2, <4>2
        <5>2. CASE Clear(f, BlocksOf(inode[f].i_size))'
          BY <3>2, <5>2 DEF Clear
        <5>3. CASE ~Writing(p) /\ inode'[f] = inode[f]
          <6>1. ~ \E u \in Process : Writing(u) /\ desc[u].file = g
            BY <2>4, <4>2, <5>3
          <6> QED BY <2>2, <3>2, <5>3, <6>1 DEF Clear
        <5> QED BY <1>2, <5>1, <5>2, <5>3
      <4> QED BY <4>1, <4>2
    <3> QED BY <3>1, <3>2
  <2>7. ASSUME NEW u \in Process, Writing(u)'
        PROVE  Clear(desc[u].file, Reserved(u))'
    <3>1. CASE u = p
      <4>1. Clear(f, Reserved(p))'
        BY <1>2, <2>7, <3>1
      <4> QED BY <3>1, <4>1 DEF Clear
    <3>2. CASE u # p /\ desc[u].file # f
      BY <2>2, <2>3, <2>4, <2>7, <3>2 DEF Clear
    <3>3. CASE u # p /\ desc[u].file = f
      <4>1. Writing(u) /\ desc[u].writes /\ ~desc[p].writes
        BY <2>2, <2>4, <2>7, <3>3 DEF Inv, Openings
      <4>2. inode'[f] = inode[f]
        BY <4>1
      <4>3. Reserved(u)' = Reserved(u)
        BY <3>3, <4>2 DEF Reserved, Size
      <4> QED BY <2>2, <3>3, <4>1, <4>2, <4>3 DEF Clear
    <3> QED BY <3>1, <3>2, <3>3
  <2> QED BY <2>6, <2>7 DEF NothingAhead
<1> QED BY <1>1, <1>2

(* The entries of all inodes and tables, when only sizes change.           *)
LEMMA SameEntries ==
    ASSUME UNCHANGED <<inode, disk>>
    PROVE  /\ \A f \in File, k \in Entries : Addr(f, k)' = Addr(f, k)
           /\ \A f \in File, i \in Index : BlockAt(f, i)' = BlockAt(f, i)
BY DEF Addr, BlockAt, TableEntry

---------------------------------------------------------------------------
(* Reading                                                                 *)

LEMMA ReadReturnsInv ==
    ASSUME Inv, NEW p \in Process, ReadReturns(p)
    PROVE  Inv'
<1>1. /\ pc[p] = "fetch" /\ pc' = [pc EXCEPT ![p] = "run"]
      /\ local' = [local EXCEPT ![p] = NoLocals]
      /\ inode' = inode /\ used' = used /\ disk' = disk /\ desc' = desc
      /\ panic' = (local[p].left # 0) /\ Len(local[p].out) >= local[p].size
  BY DEF ReadReturns, Return, At
<1>0. local[p].left = 0
  <2>1. local[p].left \in Nat /\ Len(local[p].out) \in Nat
    BY DEF Inv, Types, Locals
  <2>2. local[p].size = Len(local[p].out) + local[p].left
    BY <1>1 DEF Inv, ReadFits
  <2> QED BY <1>1, <2>1, <2>2
<1>2. NoLocals \in Locals
  BY DEF NoLocals, EmptyBlock, Word, Block, Locals
<1>3. Types' /\ NoPanic'
  BY <1>0, <1>1, <1>2 DEF Inv, Types, NoPanic
<1>4. pc'[p] = "run" /\ local'[p] = NoLocals /\ (desc[p].fd_pos <= Size(p))'
  BY <1>1 DEF Inv, Types, Openings, Size
<1>5. WriteFits(p)' /\ ReadFits(p)' /\ ExactRead(p)' /\ Positioned(p)' /\ Fresh(p)' = {}
  BY <1>3, <1>4, Idle
<1>6. ~Writing(p) /\ ~Writing(p)'
  BY <1>1, <1>4 DEF Writing
<1>7. NothingAhead'
  BY <1>1, <1>6, AheadKept DEF Inv, Types
<1>8. Hands'
  BY <1>1, <1>5, SameEntries, HandsKept
<1> QED BY <1>1, <1>3, <1>5, <1>7, <1>8, QuietInv

LEMMA Chunk ==
    ASSUME NEW left \in Nat \ {0}, NEW pos \in Nat
    PROVE  /\ ChunkSize(left, pos) \in Nat \ {0}
           /\ ChunkSize(left, pos) <= left
           /\ (pos % BLOCK_SIZE) + ChunkSize(left, pos) <= BLOCK_SIZE
           /\ \/ ChunkSize(left, pos) = left
              \/ ChunkSize(left, pos) = BLOCK_SIZE - (pos % BLOCK_SIZE)
BY Division, FileBlocksAssumption DEF ChunkSize, Smaller

(* The bytes of f that follow pos in the same block.                       *)
LEMMA BytesBehind ==
    ASSUME Inv, NEW f \in File, NEW pos \in Nat, NEW m \in Nat,
           pos <= m, m < inode[f].i_size, m - pos < BLOCK_SIZE - (pos % BLOCK_SIZE)
    PROVE  disk[BlockAt(f, pos \div BLOCK_SIZE)][(pos % BLOCK_SIZE) + (m - pos)] = <<f, m>>
<1> DEFINE o == (pos % BLOCK_SIZE) + (m - pos)
<1>1. o \in Nat /\ o < BLOCK_SIZE /\ (pos - (pos % BLOCK_SIZE)) + o = m
  BY Division, FileBlocksAssumption
<1>2. m \div BLOCK_SIZE = pos \div BLOCK_SIZE /\ m % BLOCK_SIZE = o
  <2> HIDE DEF o
  <2> QED BY <1>1, SameBlock
<1>3. inode[f].i_size \in Nat
  BY DEF Inv, Types
<1>4. disk[BlockAt(f, m \div BLOCK_SIZE)][m % BLOCK_SIZE] = <<f, m>>
  BY <1>3 DEF Inv, FileHoldsItsBytes
<1> QED BY <1>2, <1>4

LEMMA FetchInv ==
    ASSUME Inv, NEW p \in Process, Fetch(p)
    PROVE  Inv'
<1>30. PICK f \in File : f = desc[p].file
  BY DEF Inv, Types
<1> DEFINE r     == local[p]
           pos   == desc[p].fd_pos
           off   == pos % BLOCK_SIZE
           chunk == ChunkSize(r.left, pos)
           from  == disk[r.blocks[pos \div BLOCK_SIZE]]
           got   == [k \in 1 .. chunk |-> from[(off + k) - 1]]
           new   == [r EXCEPT !.out = @ \o got, !.left = @ - chunk]
<1>1. /\ pc[p] = "fetch" /\ pc' = pc /\ Len(r.out) < r.size
      /\ local' = [local EXCEPT ![p] = new]
      /\ desc' = [desc EXCEPT ![p].fd_pos = pos + chunk]
      /\ inode' = inode /\ used' = used /\ disk' = disk /\ panic' = panic
  BY DEF Fetch, At, Inv, Types
<1>31. r.left \in Nat /\ Len(r.out) \in Nat /\ r.size = Len(r.out) + r.left
  BY <1>1 DEF Inv, Types, Locals, ReadFits
<1>32. r.left \in Nat \ {0}
  <2> HIDE DEF r
  <2> QED BY <1>1, <1>31
<1>2. /\ f \in File /\ pos \in Nat /\ r.left \in Nat \ {0} /\ inode[f].i_size \in Nat
      /\ r.start \in Nat /\ r.out \in Seq(Byte)
      /\ r \in Locals
  BY <1>1, <1>30, <1>32 DEF Inv, Types, Locals
<1>3. /\ pos + r.left <= inode[f].i_size
      /\ pos = r.start + Len(r.out)
      /\ \A i \in Index : \A k \in pos .. (pos + r.left) - 1 :
            i = k \div BLOCK_SIZE => r.blocks[i] = BlockAt(f, i)
  BY <1>1, <1>30 DEF Inv, ReadFits, Size
<1>0. r = local[p] /\ pos = desc[p].fd_pos /\ f = desc[p].file
  BY <1>30
<1> HIDE DEF r, pos
<1>20. /\ pos \in Nat /\ r.left \in Nat \ {0} /\ inode[f].i_size \in Nat /\ r.start \in Nat
       /\ pos + r.left <= inode[f].i_size
  BY <1>2, <1>3
<1>33. r.left \in Nat /\ Len(r.out) \in Nat /\ r.size = Len(r.out) + r.left
  BY <1>0, <1>31
<1>24. Len(r.out) \in Nat /\ pos = r.start + Len(r.out)
  BY <1>2, <1>3
<1>21. r.out \in Seq(Byte)
  BY <1>2
<1>4. /\ chunk \in Nat \ {0} /\ chunk <= r.left
      /\ off \in Nat /\ off + chunk <= BLOCK_SIZE
  BY <1>2, Chunk, Division
<1>5. pos \div BLOCK_SIZE \in Index
  <2>1. BlocksOf(inode[f].i_size) <= AllBlocks
    BY <1>2 DEF Inv, Allocated
  <2>2. pos \in 0 .. inode[f].i_size
    BY <1>2, <1>3
  <2> QED BY <1>2, <2>1, <2>2, ByteBlocks
<1>6. from = disk[BlockAt(f, pos \div BLOCK_SIZE)]
  <2>1. pos \in pos .. (pos + r.left) - 1
    BY <1>2
  <2> QED BY <1>3, <1>5, <2>1
<1>7. got = [k \in 1 .. chunk |-> <<f, (pos + k) - 1>>]
  <2> HIDE DEF from, chunk
  <2>1. ASSUME NEW k \in 1 .. chunk
        PROVE  from[(off + k) - 1] = <<f, (pos + k) - 1>>
    <3> DEFINE m == (pos + k) - 1
    <3>1. m - pos < BLOCK_SIZE - (pos % BLOCK_SIZE)
      <4>1. k <= BLOCK_SIZE - off
        BY <1>4, FileBlocksAssumption
      <4> HIDE DEF off
      <4>2. k - 1 < BLOCK_SIZE - off /\ m - pos = k - 1
        BY <1>2, <1>4, <4>1, FileBlocksAssumption
      <4> QED BY <4>2 DEF off
    <3> HIDE DEF off
    <3>2. /\ m \in Nat /\ pos <= m /\ m < inode[f].i_size
          /\ off + (m - pos) = (off + k) - 1
      BY <1>20, <1>4
    <3> HIDE DEF m
    <3>3. from[off + (m - pos)] = <<f, m>>
      BY <1>2, <1>6, <3>1, <3>2, BytesBehind DEF off
    <3> QED BY <3>2, <3>3 DEF m
  <2> QED BY <2>1
<1> HIDE DEF got, from, off, chunk
<1>8. got \in Seq(Byte) /\ Len(got) = chunk
  <2>1. ASSUME NEW k \in 1 .. chunk
        PROVE  <<f, (pos + k) - 1>> \in Byte
    <3>1. (pos + k) - 1 \in Nat
      BY <1>20, <1>4
    <3> QED BY <1>2, <3>1 DEF Byte
  <2>2. got \in [1 .. chunk -> Byte]
    BY <1>7, <2>1
  <2> QED BY <1>4, <2>2
<1>9. /\ new.out = r.out \o got /\ new.left = r.left - chunk
      /\ new.blocks = r.blocks /\ new.start = r.start
      /\ new.out \in Seq(Byte) /\ Len(new.out) = Len(r.out) + chunk
      /\ new.left \in Nat
      /\ new \in Locals
  <2>1. r.out \o got \in Seq(Byte) /\ Len(r.out \o got) = Len(r.out) + chunk
    BY <1>21, <1>8
  <2>2. r.left - chunk \in Nat
    BY <1>2, <1>4
  <2>3. new.out = r.out \o got /\ new.left = r.left - chunk
        /\ new.blocks = r.blocks /\ new.start = r.start
    BY <1>2
  <2> QED BY <1>2, <2>1, <2>2, <2>3 DEF Locals
<1>22. new.out = r.out \o got /\ Len(new.out) = Len(r.out) + chunk
  BY <1>9
<1>23. new.left = r.left - chunk /\ new.left \in Nat /\ new.start = r.start
  BY <1>9
<1>25. new.blocks = r.blocks
  BY <1>9
<1>34. new.size = r.size
  BY <1>2
<1>26. pos + chunk \in Nat /\ pos + chunk <= inode[f].i_size
       /\ (pos + chunk) + new.left = pos + r.left
  <2> HIDE DEF new
  <2> QED BY <1>20, <1>4, <1>23
<1>10. new.out = [k \in 1 .. Len(new.out) |-> <<f, (r.start + k) - 1>>]
  <2>1. r.out = [k \in 1 .. Len(r.out) |-> <<f, (r.start + k) - 1>>]
    BY <1>0 DEF Inv, ReadsAreExact
  <2>2. Len(r.out) \in Nat
    BY <1>2
  <2> HIDE DEF new
  <2>3. ASSUME NEW k \in 1 .. Len(new.out)
        PROVE  new.out[k] = <<f, (r.start + k) - 1>>
    <3>1. CASE k <= Len(r.out)
      <4>1. new.out[k] = r.out[k]
        BY <1>2, <1>8, <1>9, <3>1
      <4> QED BY <2>1, <2>2, <3>1, <4>1
    <3>2. CASE ~(k <= Len(r.out))
      <4>1. k - Len(r.out) \in 1 .. chunk
        BY <1>4, <1>22, <1>24, <3>2
      <4>2. new.out[k] = got[k - Len(r.out)]
        BY <1>21, <1>22, <1>24, <1>8, <1>4, <3>2
      <4>3. (pos + (k - Len(r.out))) - 1 = (r.start + k) - 1
        BY <1>20, <1>24
      <4> QED BY <1>7, <4>1, <4>2, <4>3
    <3> QED BY <3>1, <3>2
  <2>4. new.out \in Seq(Byte)
    BY <1>9
  <2>5. new.out \in [1 .. Len(new.out) -> Byte]
    BY <2>4
  <2> QED BY <2>3, <2>5
<1> HIDE DEF new
<1>11. local'[p] = new /\ desc'[p] = [desc[p] EXCEPT !.fd_pos = pos + chunk] /\ pc'[p] = "fetch"
  BY <1>1 DEF Inv, Types
<1>12. Types' /\ NoPanic'
  <2>1. new \in Locals
    BY <1>9
  <2>2. local' \in [Process -> Locals]
    BY <1>1, <2>1 DEF Inv, Types
  <2>3. desc' \in [Process -> [file : File, writes : BOOLEAN, fd_pos : Nat]]
    BY <1>1, <1>26 DEF Inv, Types
  <2> QED BY <1>1, <2>2, <2>3 DEF Inv, Types, NoPanic
<1>13. /\ desc'[p].file = f /\ desc'[p].writes = desc[p].writes /\ desc'[p].fd_pos = pos + chunk
  BY <1>0, <1>2, <1>11 DEF Inv, Types
<1>14. ReadFits(p)'
  <2>1. ASSUME NEW i \in Index, NEW k \in pos + chunk .. ((pos + chunk) + new.left) - 1,
               i = k \div BLOCK_SIZE
        PROVE  new.blocks[i] = BlockAt(f, i)'
    <3>1. k \in pos .. (pos + r.left) - 1
      BY <1>20, <1>4, <1>26
    <3>2. r.blocks[i] = BlockAt(f, i)
      BY <1>3, <2>1, <3>1
    <3> QED BY <1>1, <1>2, <1>25, <3>2, SameEntries
  <2>2. (pos + chunk) + new.left <= inode[f].i_size
    BY <1>20, <1>26
  <2>3. pos + chunk = new.start + Len(new.out)
    BY <1>20, <1>4, <1>22, <1>23, <1>24
  <2>4. Size(p)' = inode[f].i_size
    BY <1>1, <1>13 DEF Size
  <2>5. new.size = Len(new.out) + new.left
    BY <1>4, <1>22, <1>23, <1>33, <1>34
  <2> QED BY <1>11, <1>13, <2>1, <2>2, <2>3, <2>4, <2>5 DEF ReadFits
<1>15. WriteFits(p)' /\ ExactRead(p)' /\ Positioned(p)'
  <2>1. pos + chunk <= inode[f].i_size
    BY <1>26
  <2>2. ExactRead(p)'
    BY <1>9, <1>10, <1>11, <1>13 DEF ExactRead
  <2> QED BY <1>1, <1>11, <1>13, <2>1, <2>2 DEF WriteFits, Positioned, Writing, Size
<1>16. NothingAhead'
  <2>1. ~Writing(p) /\ ~Writing(p)'
    BY <1>1 DEF Writing
  <2> QED BY <1>0, <1>1, <1>13, <2>1, AheadKept DEF Inv, Types
<1>17. Hands'
  <2>1. Fresh(p)' = {}
    BY <1>1 DEF Fresh
  <2> QED BY <1>1, <2>1, SameEntries, HandsKept
<1> QED BY <1>0, <1>1, <1>12, <1>13, <1>14, <1>15, <1>16, <1>17, QuietInv

LEMMA NoLocalsFit == NoLocals \in Locals
BY DEF NoLocals, EmptyBlock, Word, Block, Locals

(* The call of a read that Regular admits.                                 *)
LEMMA FileReadInv ==
    ASSUME Inv, ~AnyCall, NEW p \in Process, NEW count \in Count, file_read(p, count)
    PROVE  Inv'
<1>1. PICK f \in File : f = desc[p].file
  BY DEF Inv, Types
<1>2. PICK pos \in Nat : pos = desc[p].fd_pos
  BY DEF Inv, Types
<1>3. PICK left : left = ReadSize(Size(p), pos, count)
  OBVIOUS
<1>4. PICK new : local' = [local EXCEPT ![p] = new]
                 /\ new = [NoLocals EXCEPT
                 !.left = left,
                 !.size = left,
                 !.start = pos,
                 !.blocks = [i \in Index |->
                    IF i < Direct
                    THEN IF i \in (pos \div BLOCK_SIZE) .. ((pos + count) \div BLOCK_SIZE)
                         THEN Sectors(p)[i] ELSE NoBlock
                    ELSE IF (pos + count) \div BLOCK_SIZE >= Direct
                         THEN BlockOf(TableOf(p)[i - Direct]) ELSE NoBlock]]
  BY <1>2, <1>3 DEF file_read
<1>5. /\ pc[p] = "run" /\ pc' = [pc EXCEPT ![p] = "fetch"]
      /\ inode' = inode /\ used' = used /\ disk' = disk /\ desc' = desc
      /\ (pos + count) \div BLOCK_SIZE < AllBlocks - 1
      /\ panic' = ~ReadAsserts(p, pos \div BLOCK_SIZE, (pos + count) \div BLOCK_SIZE)
      /\ left # 0
  BY <1>2, <1>3 DEF file_read, At
<1>6. count \in Nat \ {0} /\ inode[f].i_size \in Nat /\ Size(p) = inode[f].i_size
      /\ pos <= inode[f].i_size
  BY <1>1, <1>2, FileBlocksAssumption DEF Inv, Types, Size, Openings
<1>7. left \in Nat \ {0} /\ pos + left <= inode[f].i_size /\ left <= count
  BY <1>3, <1>5, <1>6 DEF ReadSize
<1>8. \A i \in Index : /\ i < Direct => Sectors(p)[i] = BlockAt(f, i)
                       /\ ~(i < Direct) => BlockOf(TableOf(p)[i - Direct]) = BlockAt(f, i)
  BY <1>1 DEF Sectors, TableOf, BlockAt, TableEntry
<1>9. \A i \in Index : BlockAt(f, i) \in Block /\ NoBlock \in Block
  BY Addresses DEF Inv
<1>10. new.left = left /\ new.size = left /\ new.start = pos /\ new.out = <<>>
  BY <1>4 DEF NoLocals
<1>11. new.blocks \in [Index -> Block]
  BY <1>4, <1>8, <1>9 DEF NoLocals
<1>12. new \in Locals
  <2>1. new = [NoLocals EXCEPT !.left = left, !.size = left, !.start = pos, !.blocks = new.blocks]
    BY <1>4 DEF NoLocals
  <2>2. left \in Nat /\ pos \in Nat
    BY <1>7
  <2> QED BY <1>11, <2>1, <2>2, NoLocalsFit DEF Locals
<1>13. ASSUME NEW i \in Index, NEW k \in pos .. (pos + left) - 1, i = k \div BLOCK_SIZE
       PROVE  new.blocks[i] = BlockAt(f, i)'
  <2>1. pos \div BLOCK_SIZE <= i /\ i <= (pos + count) \div BLOCK_SIZE
    <3>1. k \in Nat /\ pos <= k /\ k <= pos + count /\ pos + count \in Nat
      BY <1>6, <1>7
    <3> QED BY <1>13, <3>1, Monotone
  <2>2. pos \div BLOCK_SIZE \in Nat /\ (pos + count) \div BLOCK_SIZE \in Nat
    BY <1>6, Division
  <2>3. new.blocks[i] = IF i < Direct
                    THEN IF i \in (pos \div BLOCK_SIZE) .. ((pos + count) \div BLOCK_SIZE)
                         THEN BlockAt(f, i) ELSE NoBlock
                    ELSE IF (pos + count) \div BLOCK_SIZE >= Direct
                         THEN BlockAt(f, i) ELSE NoBlock
    BY <1>4, <1>8 DEF NoLocals
  <2>4. new.blocks[i] = BlockAt(f, i)
    BY <2>1, <2>2, <2>3, FileBlocksAssumption
  <2> QED BY <1>5, <2>4, SameEntries
<1>21. ASSUME pos \div BLOCK_SIZE >= Direct PROVE Sectors(p)[Direct] # NoBlock
  <2>1. pos \in Nat /\ pos < inode[f].i_size
    BY <1>6, <1>7
  <2>2. \A i \in 0 .. inode[f].i_size \div BLOCK_SIZE : BlockAt(f, i) # NoBlock
    BY <1>6, <2>1 DEF Inv, Allocated
  <2>3. pos \div BLOCK_SIZE \in Nat /\ pos \div BLOCK_SIZE <= inode[f].i_size \div BLOCK_SIZE
    BY <1>6, <2>1, Division, Monotone
  <2>4. BlockAt(f, Direct) # NoBlock
    <3>1. inode[f].i_size \div BLOCK_SIZE \in Nat /\ Direct \in Nat
      BY <1>6, Division, FileBlocksAssumption
    <3>2. Direct \in 0 .. inode[f].i_size \div BLOCK_SIZE
      BY <1>21, <2>3, <3>1
    <3> QED BY <2>2, <3>2
  <2>5. BlockAt(f, Direct) = BlockOf(disk[inode[f].i_sectors[Direct]][0])
    BY FileBlocksAssumption DEF BlockAt, TableEntry
  <2>6. BlockOf(disk[NoBlock][0]) = NoBlock
    BY Addresses, FileBlocksAssumption DEF Inv, EmptyBlock, Offset, BlockOf, Entry
  <2> QED BY <1>1, <2>4, <2>5, <2>6 DEF Sectors
<1>22. ReadAsserts(p, pos \div BLOCK_SIZE, (pos + count) \div BLOCK_SIZE)
  BY <1>5, <1>21 DEF ReadAsserts
<1>14. Types' /\ NoPanic'
  BY <1>4, <1>5, <1>12, <1>22 DEF Inv, Types, NoPanic
<1>15. pc'[p] = "fetch" /\ local'[p] = new
  BY <1>4, <1>5 DEF Inv, Types
<1>16. Size(p)' = inode[f].i_size /\ desc'[p].file = f /\ desc'[p].fd_pos = pos
  BY <1>1, <1>2, <1>5 DEF Size
<1>17. ReadFits(p)'
  <2>1. pos = new.start + Len(new.out) /\ pos + new.left <= inode[f].i_size
        /\ new.size = Len(new.out) + new.left
    BY <1>7, <1>10
  <2> QED BY <1>10, <1>13, <1>15, <1>16, <2>1 DEF ReadFits
<1>18. WriteFits(p)' /\ ExactRead(p)' /\ Positioned(p)'
  BY <1>6, <1>10, <1>15, <1>16 DEF WriteFits, ExactRead, Positioned, Writing
<1>20. /\ \A u \in Process \ {p} : /\ pc'[u] = pc[u] /\ local'[u] = local[u]
                                   /\ desc'[u] = desc[u]
       /\ inode' = inode /\ used' = used /\ disk' = disk
       /\ desc'[p].file = desc[p].file /\ desc'[p].writes = desc[p].writes
  BY <1>4, <1>5 DEF Inv, Types
<1>19. NothingAhead' /\ Hands'
  <2>1. ~Writing(p) /\ ~Writing(p)' /\ Fresh(p)' = {}
    BY <1>5, <1>15 DEF Writing, Fresh
  <2>2. NothingAhead'
    BY <1>4, <1>5, <2>1, AheadKept DEF Inv, Types
  <2> QED BY <1>20, <2>1, <2>2, SameEntries, HandsKept
<1> QED BY <1>20, <1>14, <1>17, <1>18, <1>19, QuietInv

LEMMA SeekInv ==
    ASSUME Inv, NEW p \in Process, NEW pos \in Nat, sys_lseek(p, pos)
    PROVE  Inv'
<1>1. /\ pc[p] = "run" /\ pc' = pc /\ pos < Size(p)
      /\ desc' = [desc EXCEPT ![p].fd_pos = pos]
      /\ inode' = inode /\ used' = used /\ disk' = disk /\ local' = local /\ panic' = panic
  BY DEF sys_lseek, At
<1>2. Types' /\ NoPanic'
  BY <1>1 DEF Inv, Types, NoPanic
<1>3. /\ desc'[p].file = desc[p].file /\ desc'[p].writes = desc[p].writes
      /\ desc'[p].fd_pos = pos /\ pc'[p] = "run" /\ local'[p] = local[p]
      /\ \A u \in Process \ {p} : desc'[u] = desc[u]
  BY <1>1 DEF Inv, Types
<1>4. local[p].out = <<>>
  BY <1>1 DEF Inv, ReadFits
<1>5. WriteFits(p)' /\ ReadFits(p)' /\ ExactRead(p)' /\ Positioned(p)'
  <2>1. pos <= Size(p)'
    BY <1>1, <1>3 DEF Size, Inv, Types
  <2> QED BY <1>3, <1>4, <2>1 DEF WriteFits, ReadFits, ExactRead, Positioned, Writing
<1>6. ~Writing(p) /\ ~Writing(p)' /\ Fresh(p)' = {}
  BY <1>1, <1>3 DEF Writing, Fresh
<1>7. NothingAhead' /\ Hands'
  BY <1>1, <1>3, <1>6, AheadKept, SameEntries, HandsKept DEF Inv, Types
<1> QED BY <1>1, <1>2, <1>3, <1>5, <1>7, QuietInv

(* A write that finds the disk full leaves what it has got.                *)
LEMMA AllocFailsInv ==
    ASSUME Inv, NEW p \in Process, AllocFails(p)
    PROVE  Inv'
<1>1. /\ DiskFull /\ pc' = [pc EXCEPT ![p] = "run"]
      /\ local' = [local EXCEPT ![p] = NoLocals]
      /\ inode' = inode /\ used' = used /\ disk' = disk /\ desc' = desc /\ panic' = panic
  BY DEF AllocFails, Return
<1>2. Types' /\ NoPanic'
  BY <1>1, NoLocalsFit DEF Inv, Types, NoPanic
<1>3. pc'[p] = "run" /\ local'[p] = NoLocals /\ (desc[p].fd_pos <= Size(p))'
  BY <1>1 DEF Inv, Types, Openings, Size
<1>4. WriteFits(p)' /\ ReadFits(p)' /\ ExactRead(p)' /\ Positioned(p)' /\ Fresh(p)' = {}
  BY <1>2, <1>3, Idle
<1>5. NothingAhead'
  BY <1>1 DEF NothingAhead, DiskFull
<1>6. Hands'
  BY <1>1, <1>4, SameEntries, HandsKept
<1> QED BY <1>1, <1>2, <1>4, <1>5, <1>6, QuietInv

---------------------------------------------------------------------------
(* Writing                                                                 *)

(* The first free block goes to an empty entry of the inode of f.          *)
Takes(f, k) ==
    /\ ~DiskFull
    /\ inode[f].i_sectors[k] = NoBlock
    /\ inode' = [inode EXCEPT ![f].i_sectors[k] = FirstFree]
    /\ used' = MarkUsed(FirstFree)
    /\ disk' = disk

LEMMA TakenEntries ==
    ASSUME Inv, NEW f \in File, NEW k \in 0 .. Direct, Takes(f, k)
    PROVE  /\ \A g \in File, j \in Entries :
                 Addr(g, j)' = IF g = f /\ j = k THEN FirstFree ELSE Addr(g, j)
           /\ inode'[f].i_size = inode[f].i_size
           /\ \A j \in 0 .. Direct :
                 inode'[f].i_sectors[j] = IF j = k THEN FirstFree ELSE inode[f].i_sectors[j]
           /\ \A g \in File \ {f} : inode'[g] = inode[g]
<1>1. /\ inode \in [File -> [i_size : Nat, i_sectors : [0 .. Direct -> Block]]]
      /\ Types /\ Ownership
  BY DEF Inv, Types
<1>2. /\ inode'[f].i_size = inode[f].i_size
      /\ \A j \in 0 .. Direct :
            inode'[f].i_sectors[j] = IF j = k THEN FirstFree ELSE inode[f].i_sectors[j]
      /\ \A g \in File \ {f} : inode'[g] = inode[g]
  BY <1>1 DEF Takes
<1>3. Direct \in Nat \ {0} /\ BLOCK_SIZE \in Nat \ {0}
  BY FileBlocksAssumption
<1>4. ASSUME NEW g \in File, NEW j \in Entries
      PROVE  Addr(g, j)' = IF g = f /\ j = k THEN FirstFree ELSE Addr(g, j)
  <2>1. CASE j <= Direct
    <3>1. j \in 0 .. Direct
      BY <1>3, <2>1 DEF Entries
    <3> QED BY <1>2, <2>1, <3>1 DEF Addr
  <2>2. CASE ~(j <= Direct)
    <3> DEFINE o == j - (Direct + 1)
    <3>1. o \in Offset /\ j # k
      BY <1>3, <2>2 DEF Entries
    <3>2. Addr(g, j) = BlockOf(disk[inode[g].i_sectors[Direct]][o])
      BY <2>2 DEF Addr, TableEntry
    <3>3. Addr(g, j)' = BlockOf(disk[inode'[g].i_sectors[Direct]][o])
      BY <2>2 DEF Addr, TableEntry, Takes
    <3> HIDE DEF o
    <3>4. CASE g = f /\ k = Direct
      <4>1. inode[g].i_sectors[Direct] = NoBlock /\ inode'[g].i_sectors[Direct] = FirstFree
        BY <1>2, <1>3, <3>4 DEF Takes
      <4>2. disk[NoBlock] = EmptyBlock
        BY <1>1, Addresses
      <4>3. disk[FirstFree] = EmptyBlock
        <5>1. FirstFree \in Block /\ FirstFree \notin used
          BY <1>1, FreeBlock DEF Takes
        <5> QED BY <1>1, <5>1 DEF Ownership, Free
      <4> QED BY <3>1, <3>2, <3>3, <4>1, <4>2, <4>3
    <3>5. CASE ~(g = f /\ k = Direct)
      <4>1. inode'[g].i_sectors[Direct] = inode[g].i_sectors[Direct]
        BY <1>2, <1>3, <3>5
      <4> QED BY <3>1, <3>2, <3>3, <4>1
    <3> QED BY <3>4, <3>5
  <2> QED BY <2>1, <2>2
<1> QED BY <1>2, <1>4

LEMMA TakenBlocks ==
    ASSUME Inv, NEW f \in File, NEW k \in 0 .. Direct, Takes(f, k)
    PROVE  /\ Ownership'
           /\ used \subseteq used'
           /\ \A g \in File, j \in Entries : Addr(g, j)' = Addr(g, j) \/ Addr(g, j)' \notin used
           /\ \A g \in File \ {f} : Untouched(g)
           /\ \A i \in Index : BlockAt(f, i) # NoBlock => BlockAt(f, i)' = BlockAt(f, i)
           /\ Kept(f) /\ Allocated(f)' /\ BytesOf(f)'
<1>1. Types /\ Ownership /\ Allocated(f) /\ BytesOf(f)
  BY DEF Inv, FileHoldsItsBytes, BytesOf
<1>2. /\ FirstFree \in DataBlock /\ FirstFree \notin used
      /\ FirstFree # NoBlock /\ FirstFree \in Block
      /\ used' = used \cup {FirstFree}
  BY <1>1, FreeBlock DEF Takes
<1>3. PICK b : b = FirstFree
  OBVIOUS
<1>4. /\ \A g \in File, j \in Entries :
            Addr(g, j)' = IF g = f /\ j = k THEN b ELSE Addr(g, j)
      /\ b \notin used /\ b # NoBlock /\ used' = used \cup {b} /\ disk' = disk
  <2>1. \A g \in File, j \in Entries :
            Addr(g, j)' = IF g = f /\ j = k THEN FirstFree ELSE Addr(g, j)
    BY TakenEntries
  <2>2. disk' = disk
    BY DEF Takes
  <2> QED BY <1>2, <1>3, <2>1, <2>2
<1>5. Ownership'
  <2>1. /\ \A g \in File, j \in Entries : Addr(g, j) \in used \cup {NoBlock}
        /\ \A g, h \in File, i, j \in Entries :
              Addr(g, i) # NoBlock /\ Addr(g, i) = Addr(h, j) => g = h /\ i = j
        /\ \A c \in Block : Free(c) => disk[c] = EmptyBlock
    BY <1>1 DEF Ownership
  <2> HIDE DEF Addr
  <2>2. \A g \in File, j \in Entries : Addr(g, j)' \in used' \cup {NoBlock}
    BY <1>4, <2>1
  <2>3. \A g, h \in File, i, j \in Entries :
           Addr(g, i)' # NoBlock /\ Addr(g, i)' = Addr(h, j)' => g = h /\ i = j
    BY <1>4, <2>1
  <2>4. \A c \in Block : Free(c)' => disk'[c] = EmptyBlock
    BY <1>4, <2>1 DEF Free
  <2> QED BY <2>2, <2>3, <2>4 DEF Ownership
<1>6. \A i \in Index : BlockAt(f, i) # NoBlock => BlockAt(f, i)' = BlockAt(f, i)
  <2>1. Addr(f, k) = NoBlock
    BY DEF Addr, Takes
  <2> QED BY <1>4, <2>1, EntryIs
<1>7. \A g \in File \ {f} : Untouched(g)
  BY <1>4, TakenEntries DEF Untouched
<1>8. inode'[f].i_size = inode[f].i_size /\ inode[f].i_size \in Nat
  BY <1>1, TakenEntries DEF Types
<1>9. ASSUME inode[f].i_size # 0
      PROVE  \A i \in 0 .. inode[f].i_size \div BLOCK_SIZE :
                i \in Index /\ BlockAt(f, i)' = BlockAt(f, i) /\ BlockAt(f, i) # NoBlock
  <2>1. \A i \in 0 .. inode[f].i_size \div BLOCK_SIZE : BlockAt(f, i) # NoBlock
    BY <1>1, <1>9 DEF Allocated
  <2>2. \A i \in 0 .. inode[f].i_size \div BLOCK_SIZE : i \in Index
    <3>1. (inode[f].i_size \div BLOCK_SIZE) + 1 <= Direct + BLOCK_SIZE
      BY <1>1 DEF Allocated, BlocksOf
    <3>2. inode[f].i_size \div BLOCK_SIZE \in Nat
      BY <1>8, Division
    <3> QED BY <3>1, <3>2, FileBlocksAssumption
  <2> QED BY <1>6, <2>1, <2>2
<1>10. \A i \in 0 .. inode[f].i_size - 1 :
           /\ inode[f].i_size # 0 /\ i \div BLOCK_SIZE \in 0 .. inode[f].i_size \div BLOCK_SIZE
  <2>1. ASSUME NEW i \in 0 .. inode[f].i_size - 1
        PROVE  i \div BLOCK_SIZE \in 0 .. inode[f].i_size \div BLOCK_SIZE
    <3>1. i \in Nat /\ i <= inode[f].i_size
      BY <1>8
    <3>2. i \div BLOCK_SIZE <= inode[f].i_size \div BLOCK_SIZE
      BY <1>8, <3>1, Monotone
    <3> QED BY <1>8, <3>1, <3>2, Division
  <2> QED BY <1>8, <2>1
<1>11. Kept(f)
  BY <1>8, <1>9, <1>10 DEF Kept
<1>12. BytesOf(f)'
  <2>1. ASSUME NEW i \in 0 .. inode[f].i_size - 1
        PROVE  disk'[BlockAt(f, i \div BLOCK_SIZE)'][i % BLOCK_SIZE] = <<f, i>>
    BY <1>1, <1>4, <1>9, <1>10, <2>1 DEF BytesOf
  <2> QED BY <1>8, <2>1 DEF BytesOf
<1>13. Allocated(f)'
  <2>1. BlocksOf(inode'[f].i_size) <= AllBlocks
    BY <1>1, <1>8 DEF Allocated
  <2>2. CASE inode[f].i_size # 0
    BY <1>8, <1>9, <2>1, <2>2 DEF Allocated
  <2>3. CASE inode[f].i_size = 0
    <3>1. 0 \in Index /\ 0 \div BLOCK_SIZE = 0
      BY FileBlocksAssumption
    <3>2. BlockAt(f, 0) = inode[f].i_sectors[0] /\ BlockAt(f, 0)' = inode'[f].i_sectors[0]
      BY FileBlocksAssumption DEF BlockAt
    <3>3. CASE k = 0
      <4>1. inode'[f].i_sectors[0] # NoBlock
        BY <1>2, <3>3, TakenEntries
      <4> QED BY <1>8, <2>1, <2>3, <3>1, <3>2, <4>1 DEF Allocated
    <3>4. CASE k # 0
      <4>1. inode'[f].i_sectors[0] = inode[f].i_sectors[0]
        BY <3>4, TakenEntries, FileBlocksAssumption
      <4> QED BY <1>1, <1>8, <2>1, <2>3, <3>1, <3>2, <4>1 DEF Allocated
    <3> QED BY <3>3, <3>4
  <2> QED BY <2>2, <2>3
<1> QED BY <1>4, <1>5, <1>6, <1>7, <1>11, <1>12, <1>13, <1>2

(* What is known of a process that writes.                                 *)
LEMMA WriterIs ==
    ASSUME Inv, NEW p \in Process, Writing(p), NEW f \in File, f = desc[p].file
    PROVE  /\ desc[p].writes /\ Size(p) = inode[f].i_size /\ Sectors(p) = inode[f].i_sectors
           /\ inode[f].i_size \in Nat
           /\ local[p].left \in Nat \ {0}
           /\ local[p].will = BlocksOf(inode[f].i_size + local[p].left)
           /\ local[p].will \in Nat /\ local[p].will <= AllBlocks
           /\ BlocksOf(inode[f].i_size) \in Nat \ {0}
           /\ BlocksOf(inode[f].i_size) <= local[p].will
           /\ \A i \in 0 .. BlocksOf(inode[f].i_size) - 1 :
                 i \in Index /\ BlockAt(f, i) # NoBlock
           /\ DiskFull \/ Clear(f, Reserved(p))
           /\ \A u \in Process \ {p} : ~(Writing(u) /\ desc[u].file = f)
           /\ local[p] \in Locals
           /\ ~panic
<1>1. /\ desc[p].writes /\ Size(p) = inode[f].i_size /\ Sectors(p) = inode[f].i_sectors
      /\ inode[f].i_size \in Nat /\ local[p] \in Locals /\ ~panic
  BY DEF Inv, Types, Openings, Size, Sectors, NoPanic
<1>2. /\ local[p].left \in Nat \ {0}
      /\ local[p].will = BlocksOf(inode[f].i_size + local[p].left)
      /\ local[p].will \in Nat /\ local[p].will <= AllBlocks
      /\ inode[f].i_sectors[0] # NoBlock
  BY <1>1 DEF Inv, WriteFits, Planned, Locals
<1>3. (inode[f].i_size \div BLOCK_SIZE) \in Nat
  BY <1>1, Division
<1>4. inode[f].i_size \div BLOCK_SIZE <= (inode[f].i_size + local[p].left) \div BLOCK_SIZE
  BY <1>1, <1>2, Monotone
<1>5. (inode[f].i_size + local[p].left) \div BLOCK_SIZE \in Nat
  <2>1. inode[f].i_size + local[p].left \in Nat
    BY <1>1, <1>2
  <2> QED BY <2>1, Division
<1>6. /\ BlocksOf(inode[f].i_size) \in Nat \ {0}
      /\ BlocksOf(inode[f].i_size) <= local[p].will
      /\ BlocksOf(inode[f].i_size) - 1 = inode[f].i_size \div BLOCK_SIZE
  BY <1>2, <1>3, <1>4, <1>5 DEF BlocksOf
<1>7. \A i \in 0 .. BlocksOf(inode[f].i_size) - 1 : i \in Index
  BY <1>2, <1>6, FileBlocksAssumption
<1>8. \A i \in 0 .. BlocksOf(inode[f].i_size) - 1 : BlockAt(f, i) # NoBlock
  BY <1>2, <1>6 DEF Inv, Allocated
<1>9. DiskFull \/ Clear(f, Reserved(p))
  BY DEF Inv, NothingAhead
<1>10. \A u \in Process \ {p} : ~(Writing(u) /\ desc[u].file = f)
  BY <1>1 DEF Inv, Openings
<1> QED BY <1>1, <1>2, <1>6, <1>7, <1>8, <1>9, <1>10

(* A step of p that takes a block for the inode of its file.               *)
LEMMA TakeInv ==
    ASSUME Inv, NEW p \in Process, NEW f \in File, f = desc[p].file, desc[p].writes,
           NEW k \in 0 .. Direct, Takes(f, k),
           Types', NoPanic', desc' = desc,
           \A u \in Process \ {p} : pc'[u] = pc[u] /\ local'[u] = local[u],
           Writing(p)', Fresh(p)' = {},
           DiskFull' \/ Clear(f, Reserved(p))',
           local'[p].out = <<>>, WriteFits(p)'
    PROVE  Inv'
<1>1. OnlyMoves(p)
  BY TakenBlocks DEF OnlyMoves
<1>2. Ownership' /\ Allocated(f)' /\ BytesOf(f)'
  BY TakenBlocks
<1>3. Hands'
  BY TakenBlocks, HandsKept
<1>4. NothingAhead'
  <2>1. used \subseteq used'
    BY TakenBlocks
  <2>2. \A g \in File \ {f} : inode'[g] = inode[g]
    BY TakenEntries
  <2>3. DiskFull' \/ Clear(desc[p].file, Reserved(p))'
    BY DEF Clear
  <2> QED BY <2>1, <2>2, <2>3, AheadKept
<1>5. Positioned(p)'
  <2>1. desc[p].fd_pos <= inode[f].i_size
    BY DEF Inv, Openings, Size
  <2>2. inode'[f].i_size = inode[f].i_size
    BY TakenEntries
  <2> QED BY <2>1, <2>2 DEF Positioned, Size
<1>6. ReadFits(p)' /\ ExactRead(p)'
  BY DEF ReadFits, ExactRead, Writing
<1>7. Allocated(desc[p].file)' /\ BytesOf(desc[p].file)'
  BY <1>2 DEF Allocated, BytesOf
<1> QED BY <1>1, <1>2, <1>3, <1>4, <1>5, <1>6, <1>7, StepInv

(* A step of a writer that changes no file, no bitmap and no block.        *)
LEMMA WriterQuiet ==
    ASSUME Inv, NEW p \in Process, NEW f \in File, f = desc[p].file, desc[p].writes,
           UNCHANGED <<inode, used, disk, desc>>,
           Types', NoPanic',
           \A u \in Process \ {p} : pc'[u] = pc[u] /\ local'[u] = local[u],
           Writing(p)', Fresh(p)' = {},
           DiskFull' \/ Clear(f, Reserved(p))',
           local'[p].out = <<>>, WriteFits(p)'
    PROVE  Inv'
<1>1. Hands'
  BY SameEntries, HandsKept
<1>2. NothingAhead'
  <2>1. DiskFull' \/ Clear(desc[p].file, Reserved(p))'
    BY DEF Clear
  <2> QED BY <2>1, AheadKept
<1>3. Positioned(p)'
  BY DEF Positioned, Size, Inv, Openings
<1>4. ReadFits(p)' /\ ExactRead(p)'
  BY DEF ReadFits, ExactRead, Writing
<1> QED BY <1>1, <1>2, <1>3, <1>4, QuietInv

LEMMA FileWriteInv ==
    ASSUME Inv, ~AnyCall, NEW p \in Process, NEW count \in Count, file_write(p, count)
    PROVE  Inv'
<1>1. PICK f \in File : f = desc[p].file
  BY DEF Inv, Types
<1>2. PICK size \in Nat : size = inode[f].i_size
  BY DEF Inv, Types
<1>3. PICK new : /\ local' = [local EXCEPT ![p] = new]
                 /\ new = [NoLocals EXCEPT !.left = count, !.will = BlocksOf(size + count)]
  BY <1>1, <1>2 DEF file_write, Size
<1>4. /\ pc[p] = "run" /\ pc' = [pc EXCEPT ![p] = "plan"] /\ desc[p].writes
      /\ disk' = disk /\ desc' = desc /\ panic' = panic
      /\ RegularWrite(size, count)
  BY <1>1, <1>2 DEF file_write, At, Size
<1>5. count \in Nat \ {0} /\ BlocksOf(size + count) \in Nat /\ BlocksOf(size) \in Nat \ {0}
  <2>1. count \in Nat \ {0}
    BY FileBlocksAssumption
  <2> QED BY <2>1, Division DEF BlocksOf
<1>6. /\ new \in Locals /\ new.left = count /\ new.will = BlocksOf(size + count)
      /\ new.first = TRUE /\ new.out = <<>> /\ new.blocks = NoLocals.blocks
  <2>1. new \in Locals
    BY <1>3, <1>5, NoLocalsFit DEF Locals
  <2> QED BY <1>3, <2>1 DEF NoLocals
<1>7. /\ local'[p] = new /\ pc'[p] = "plan"
      /\ \A u \in Process \ {p} : pc'[u] = pc[u] /\ local'[u] = local[u]
  BY <1>3, <1>4 DEF Inv, Types
<1>8. Writing(p)' /\ Fresh(p)' = {}
  BY <1>7 DEF Writing, Fresh
<1>9. local' \in [Process -> Locals]
  BY <1>3, <1>6 DEF Inv, Types
<1>11. ASSUME inode'[f].i_sectors[0] # NoBlock, inode'[f].i_size = size
       PROVE  WriteFits(p)'
  <2>1. Size(p)' = size /\ Sectors(p)' = inode'[f].i_sectors
    BY <1>1, <1>4, <1>11 DEF Size, Sectors
  <2>2. BlocksOf(size + count) <= AllBlocks
    BY <1>4 DEF RegularWrite
  <2>3. RegularWrite(Size(p), local[p].left)'
    BY <1>4, <1>6, <1>7, <2>1 DEF RegularWrite, BlocksOf
  <2>4. Planned(p)'
    BY <1>5, <1>6, <1>7, <1>11, <2>1, <2>2 DEF Planned, BlocksOf
  <2> QED BY <1>6, <1>7, <2>3, <2>4 DEF WriteFits, NoLocals
<1>12. Reserved(p)' = BlocksOf(inode'[f].i_size)
  BY <1>1, <1>4, <1>7 DEF Reserved, Size, BlocksOf
<1>13. DiskFull \/ Clear(f, BlocksOf(size))
  <2>1. ~ \E u \in Process : Writing(u) /\ desc[u].file = f
    BY <1>1, <1>4 DEF Inv, Openings, Writing
  <2> QED BY <1>2, <2>1 DEF Inv, NothingAhead
<1>14. CASE Sectors(p)[0] # NoBlock
  <2>1. inode' = inode /\ used' = used
    BY <1>14 DEF file_write
  <2>2. Types' /\ NoPanic'
    BY <1>4, <1>9, <2>1 DEF Inv, Types, NoPanic
  <2>3. WriteFits(p)'
    BY <1>1, <1>2, <1>11, <1>14, <2>1 DEF Sectors
  <2>4. DiskFull' \/ Clear(f, Reserved(p))'
    BY <1>2, <1>12, <1>13, <2>1 DEF DiskFull, Clear
  <2> QED BY <1>1, <1>4, <1>6, <1>7, <1>8, <2>1, <2>2, <2>3, <2>4, WriterQuiet
<1>15. CASE Sectors(p)[0] = NoBlock
  <2>1. Takes(f, 0) /\ 0 \in 0 .. Direct
    BY <1>1, <1>4, <1>15, FileBlocksAssumption DEF file_write, Takes, Sectors
  <2>2. /\ inode'[f].i_size = size
        /\ \A j \in 0 .. Direct :
              inode'[f].i_sectors[j] = IF j = 0 THEN FirstFree ELSE inode[f].i_sectors[j]
    BY <1>2, <2>1, TakenEntries
  <2>3. FirstFree \in DataBlock /\ FirstFree # NoBlock /\ FirstFree \in Block
        /\ used' = used \cup {FirstFree}
    BY <2>1, FreeBlock DEF Inv, Takes
  <2>4. Types' /\ NoPanic'
    BY <1>4, <1>9, <2>1, <2>3 DEF Inv, Types, NoPanic, Takes
  <2>5. WriteFits(p)'
    BY <1>11, <2>1, <2>2, <2>3
  <2>6. DiskFull' \/ Clear(f, Reserved(p))'
    <3>1. Clear(f, BlocksOf(size))
      BY <1>13, <2>1 DEF Takes
    <3>2. \A i \in BlocksOf(size) .. Direct : inode'[f].i_sectors[i] = NoBlock
      BY <1>5, <2>2, <3>1, FileBlocksAssumption DEF Clear
    <3> QED BY <1>12, <2>2, <3>2 DEF Clear
  <2> QED BY <1>1, <1>4, <1>6, <1>7, <1>8, <2>1, <2>4, <2>5, <2>6, TakeInv
<1> QED BY <1>14, <1>15

(* A write that Regular admits stays inside of the direct blocks, or       *)
(* crosses into the table, or needs no new block.                          *)
LEMMA PlanIs ==
    ASSUME Inv, NEW p \in Process, pc[p] = "plan", NEW f \in File, f = desc[p].file
    PROVE  /\ \/ local[p].will <= Direct
              \/ BlocksOf(inode[f].i_size) = Direct
              \/ BlocksOf(inode[f].i_size) = local[p].will
           /\ DiskFull \/ Clear(f, BlocksOf(inode[f].i_size))
           /\ local[p].blocks = [i \in Index |-> NoBlock]
           /\ local[p].first /\ local[p].out = <<>>
<1>1. Writing(p) /\ Size(p) = inode[f].i_size
  BY DEF Writing, Size
<1>2. local[p].will = BlocksOf(inode[f].i_size + local[p].left)
  BY <1>1, WriterIs
<1>3. RegularWrite(inode[f].i_size, local[p].left)
  BY <1>1 DEF Inv, WriteFits
<1>4. DiskFull \/ Clear(f, BlocksOf(inode[f].i_size))
  <2>1. Reserved(p) = BlocksOf(inode[f].i_size)
    BY <1>1 DEF Reserved
  <2> QED BY <1>1, <2>1, WriterIs
<1>5. local[p].blocks = [i \in Index |-> NoBlock] /\ local[p].first
  BY DEF Inv, WriteFits, NoLocals
<1>6. local[p].out = <<>>
  BY DEF Inv, ReadFits
<1> QED BY <1>2, <1>3, <1>4, <1>5, <1>6 DEF RegularWrite

(* The ASSERTs in front of the first allocation.                           *)
LEMMA PlanHolds ==
    ASSUME Inv, NEW p \in Process, pc[p] = "plan", ~NeedsTable(p) \/ ~DiskFull
    PROVE  PlanAsserts(p)
<1>1. PICK f \in File : f = desc[p].file
  BY DEF Inv, Types
<1>2. Writing(p)
  BY DEF Writing
<1>3. PICK has : has = BlocksOf(inode[f].i_size)
  OBVIOUS
<1>4. /\ Size(p) = inode[f].i_size /\ Sectors(p) = inode[f].i_sectors
      /\ local[p].will \in Nat /\ local[p].will <= AllBlocks
      /\ has \in Nat \ {0} /\ has <= local[p].will
      /\ \A i \in 0 .. has - 1 : i \in Index /\ BlockAt(f, i) # NoBlock
  BY <1>1, <1>2, <1>3, WriterIs
<1>5. /\ local[p].will <= Direct \/ has = Direct \/ has = local[p].will
      /\ DiskFull \/ Clear(f, has)
  BY <1>1, <1>3, PlanIs
<1>6. Direct \in Nat \ {0}
  BY FileBlocksAssumption
<1>7. has < local[p].will /\ local[p].will <= Direct => inode[f].i_sectors[has - 1] # NoBlock
  <2> SUFFICES ASSUME has < local[p].will, local[p].will <= Direct
               PROVE  inode[f].i_sectors[has - 1] # NoBlock
    OBVIOUS
  <2>1. has - 1 \in 0 .. has - 1 /\ has - 1 < Direct
    BY <1>4, <1>6
  <2> QED BY <1>4, <2>1 DEF BlockAt
<1>8. NeedsTable(p) => inode[f].i_sectors[Direct] = NoBlock
  BY <1>3, <1>4, <1>5, <1>6 DEF NeedsTable, Clear
<1>9. has > Direct => inode[f].i_sectors[Direct] # NoBlock
  <2> SUFFICES ASSUME has > Direct, inode[f].i_sectors[Direct] = NoBlock
               PROVE  FALSE
    OBVIOUS
  <2>1. Direct \in 0 .. has - 1
    BY <1>4, <1>6
  <2>2. BlockAt(f, Direct) = BlockOf(disk[NoBlock][0])
    BY <1>6 DEF BlockAt, TableEntry
  <2>3. disk[NoBlock] = EmptyBlock
    BY Addresses DEF Inv
  <2>4. BlockOf(EmptyBlock[0]) = NoBlock
    BY FileBlocksAssumption DEF EmptyBlock, BlockOf, Entry
  <2> QED BY <1>4, <2>1, <2>2, <2>3, <2>4
<1> QED BY <1>3, <1>4, <1>7, <1>8, <1>9 DEF PlanAsserts

LEMMA PlanInPlaceInv ==
    ASSUME Inv, NEW p \in Process, PlanInPlace(p)
    PROVE  Inv'
<1>1. PICK f \in File : f = desc[p].file
  BY DEF Inv, Types
<1>2. PICK last : last = BlocksOf(Size(p)) - 1
  OBVIOUS
<1>3. PICK all : /\ local' = [local EXCEPT ![p].blocks = all]
                 /\ all = [i \in Index |->
                  IF last < Direct THEN IF i = last THEN Sectors(p)[i] ELSE NoBlock
                  ELSE IF i >= Direct THEN BlockOf(TableOf(p)[i - Direct]) ELSE NoBlock]
  BY <1>2 DEF PlanInPlace
<1>4. /\ pc[p] = "plan" /\ pc' = [pc EXCEPT ![p] = "data"]
      /\ local[p].will = last + 1
      /\ inode' = inode /\ used' = used /\ disk' = disk /\ desc' = desc
      /\ panic' = ~PlanAsserts(p)
  BY <1>2 DEF PlanInPlace, At
<1>5. Writing(p)
  BY <1>4 DEF Writing
<1>6. PICK w \in Locals : w = local[p]
  BY DEF Inv, Types
<1>7. /\ desc[p].writes /\ Size(p) = inode[f].i_size /\ Sectors(p) = inode[f].i_sectors
      /\ last \in Nat /\ last + 1 <= AllBlocks /\ BlocksOf(inode[f].i_size) = last + 1
      /\ last \in Index /\ BlockAt(f, last) # NoBlock
      /\ DiskFull \/ Clear(f, last + 1)
      /\ w.first /\ w.out = <<>> /\ w.will = last + 1
  <2>1. /\ desc[p].writes /\ Size(p) = inode[f].i_size /\ Sectors(p) = inode[f].i_sectors
        /\ BlocksOf(inode[f].i_size) \in Nat \ {0}
        /\ local[p].will <= AllBlocks
        /\ \A i \in 0 .. BlocksOf(inode[f].i_size) - 1 : i \in Index /\ BlockAt(f, i) # NoBlock
    BY <1>1, <1>5, WriterIs
  <2>2. BlocksOf(inode[f].i_size) = last + 1 /\ last \in Nat
    BY <1>2, <2>1
  <2> QED BY <1>1, <1>4, <1>6, <2>1, <2>2, PlanIs
<1>8. /\ \A i \in Index : i < Direct => Sectors(p)[i] = BlockAt(f, i)
      /\ \A i \in Index : ~(i < Direct) => BlockOf(TableOf(p)[i - Direct]) = BlockAt(f, i)
      /\ \A i \in Index : BlockAt(f, i) \in Block /\ NoBlock \in Block
  BY <1>1, Addresses DEF Sectors, TableOf, BlockAt, TableEntry, Inv
<1>9. all \in [Index -> Block] /\ all[last] = BlockAt(f, last)
  <2>1. \A i \in Index : i >= Direct <=> ~(i < Direct)
    BY FileBlocksAssumption
  <2>2. all \in [Index -> Block]
    BY <1>3, <1>8, <2>1
  <2>3. all[last] = BlockAt(f, last)
    BY <1>3, <1>7, <1>8, <2>1
  <2> QED BY <2>2, <2>3
<1>10. /\ local'[p] = [w EXCEPT !.blocks = all] /\ pc'[p] = "data"
       /\ \A u \in Process \ {p} : pc'[u] = pc[u] /\ local'[u] = local[u]
  BY <1>3, <1>4, <1>6 DEF Inv, Types
<1>11. /\ local'[p] \in Locals /\ local'[p].blocks = all /\ local'[p].will = last + 1
       /\ local'[p].left = w.left /\ local'[p].first = w.first /\ local'[p].out = <<>>
  BY ZenonT(120), <1>6, <1>7, <1>9, <1>10 DEF Locals
<1>12. PlanAsserts(p)
  <2>1. ~NeedsTable(p)
    BY <1>4, <1>7, FileBlocksAssumption DEF NeedsTable
  <2> QED BY <1>4, <2>1, PlanHolds
<1>13. Types' /\ NoPanic'
  <2>1. local' \in [Process -> Locals]
    BY <1>3, <1>9 DEF Inv, Types, Locals
  <2> QED BY <1>4, <1>12, <2>1 DEF Inv, Types, NoPanic
<1>14. Writing(p)' /\ Fresh(p)' = {} /\ Reserved(p)' = last + 1
  BY <1>10, <1>11 DEF Writing, Fresh, Reserved
<1>15. DiskFull' \/ Clear(f, Reserved(p))'
  BY <1>4, <1>7, <1>14 DEF DiskFull, Clear
<1>16. WriteFits(p)'
  <2>1. Size(p)' = Size(p) /\ Sectors(p)' = Sectors(p)
    BY <1>4 DEF Size, Sectors
  <2>2. Planned(p)'
    <3>1. Planned(p)
      BY <1>5 DEF Inv, WriteFits
    <3> QED BY <1>4, <1>6, <1>11, <2>1, <3>1 DEF Planned, BlocksOf
  <2>3. Ready(p)'
    <3>1. BlockAt(f, last)' = BlockAt(f, last)
      BY <1>4 DEF BlockAt, TableEntry
    <3>2. \A i \in (last + 1) - 1 .. (last + 1) - 1 : i = last
      BY <1>7
    <3>3. BlocksOf(Size(p))' = last + 1 /\ desc'[p].file = f
      BY <1>1, <1>4, <1>7, <2>1 DEF BlocksOf
    <3> QED BY <1>7, <1>9, <1>11, <3>1, <3>2, <3>3 DEF Ready
  <2> QED BY <1>7, <1>10, <1>11, <2>2, <2>3 DEF WriteFits
<1> QED BY <1>1, <1>4, <1>7, <1>10, <1>11, <1>13, <1>14, <1>15, <1>16, WriterQuiet

LEMMA PlanMoreInv ==
    ASSUME Inv, NEW p \in Process, PlanMore(p)
    PROVE  Inv'
<1>1. PICK f \in File : f = desc[p].file
  BY DEF Inv, Types
<1>2. PICK has : has = BlocksOf(Size(p))
  OBVIOUS
<1>3. PICK a : a = IF has <= Direct THEN Sectors(p)[has - 1] ELSE NoBlock
  OBVIOUS
<1>4. /\ pc[p] = "plan" /\ pc' = [pc EXCEPT ![p] = "alloc"]
      /\ local[p].will # has
      /\ local' = [local EXCEPT ![p].idx = has, ![p].blocks[has - 1] = a]
      /\ disk' = disk /\ desc' = desc
      /\ panic' = ~PlanAsserts(p)
  BY <1>2, <1>3 DEF PlanMore, At
<1>5. Writing(p)
  BY <1>4 DEF Writing
<1>6. PICK w \in Locals : w = local[p]
  BY DEF Inv, Types
<1>7. /\ desc[p].writes /\ Size(p) = inode[f].i_size /\ Sectors(p) = inode[f].i_sectors
      /\ has \in Nat \ {0} /\ w.will \in Nat /\ has < w.will /\ w.will <= AllBlocks
      /\ has = BlocksOf(inode[f].i_size)
      /\ \A i \in 0 .. has - 1 : i \in Index /\ BlockAt(f, i) # NoBlock
      /\ w.left \in Nat \ {0}
  <2>1. /\ desc[p].writes /\ Size(p) = inode[f].i_size /\ Sectors(p) = inode[f].i_sectors
        /\ BlocksOf(inode[f].i_size) \in Nat \ {0}
        /\ BlocksOf(inode[f].i_size) <= local[p].will
        /\ local[p].will \in Nat /\ local[p].will <= AllBlocks
        /\ local[p].left \in Nat \ {0}
        /\ \A i \in 0 .. BlocksOf(inode[f].i_size) - 1 : i \in Index /\ BlockAt(f, i) # NoBlock
    BY <1>1, <1>5, WriterIs
  <2> QED BY <1>2, <1>4, <1>6, <2>1
<1>8. /\ w.will <= Direct \/ has = Direct
      /\ DiskFull \/ Clear(f, has)
      /\ w.blocks = [i \in Index |-> NoBlock]
      /\ w.first /\ w.out = <<>>
  BY <1>1, <1>4, <1>6, <1>7, PlanIs
<1>9. Direct \in Nat \ {0} /\ has <= Direct /\ has - 1 \in Index /\ has - 1 < Direct
      /\ has - 1 \in 0 .. Direct
  BY <1>7, <1>8, FileBlocksAssumption
<1>10. a = inode[f].i_sectors[has - 1] /\ a # NoBlock /\ a \in Block
  <2>1. a = BlockAt(f, has - 1)
    BY <1>3, <1>7, <1>9 DEF BlockAt
  <2>2. has - 1 \in 0 .. has - 1
    BY <1>7
  <2> QED BY <1>3, <1>7, <1>9, <2>1, <2>2, Addresses DEF Inv
<1>11. NeedsTable(p) <=> w.will > Direct
  BY <1>2, <1>6, <1>9 DEF NeedsTable
<1>12. PICK new : new = [w EXCEPT !.idx = has, !.blocks = [w.blocks EXCEPT ![has - 1] = a]]
  OBVIOUS
<1>13. /\ new \in Locals /\ new.idx = has /\ new.will = w.will /\ new.left = w.left
       /\ new.first = w.first /\ new.out = <<>>
       /\ new.blocks[has - 1] = a
       /\ \A i \in Index : i # has - 1 => new.blocks[i] = NoBlock
  BY <1>6, <1>7, <1>8, <1>9, <1>10, <1>12 DEF Locals
<1>14. /\ local'[p] = new /\ pc'[p] = "alloc" /\ local' \in [Process -> Locals]
       /\ \A u \in Process \ {p} : pc'[u] = pc[u] /\ local'[u] = local[u]
  BY <1>4, <1>6, <1>12, <1>13 DEF Inv, Types
<1>20. disk' = disk /\ desc' = desc /\ panic' = ~PlanAsserts(p)
       /\ pc' \in [Process -> {"run", "plan", "alloc", "data", "put", "grow", "fetch"}]
  BY <1>4 DEF Inv, Types
<1>15. Writing(p)' /\ Fresh(p)' = {}
  BY <1>9, <1>13, <1>14 DEF Writing, Fresh
<1>16. Reserved(p)' = IF w.will <= Direct THEN has ELSE w.will
  BY <1>13, <1>14 DEF Reserved
<1>17. ASSUME inode'[f].i_size = inode[f].i_size,
              inode'[f].i_sectors[0] = inode[f].i_sectors[0],
              inode'[f].i_sectors[has - 1] = a,
              w.will > Direct => inode'[f].i_sectors[Direct] # NoBlock
       PROVE  WriteFits(p)'
  <2>1. Size(p)' = Size(p) /\ Sectors(p)' = inode'[f].i_sectors /\ BlocksOf(Size(p))' = has
    BY <1>1, <1>4, <1>7, <1>17 DEF Size, Sectors, BlocksOf
  <2>2. Planned(p)'
    <3>1. Planned(p)
      BY <1>5 DEF Inv, WriteFits
    <3> QED BY <1>6, <1>7, <1>13, <1>14, <1>17, <2>1, <3>1 DEF Planned, BlocksOf
  <2>3. Allocating(p)'
    <3>1. has \in has .. w.will
      BY <1>7
    <3>2. w.will > Direct => has = Direct
      BY <1>7, <1>8, <1>9
    <3>3. \A i \in has - 1 .. has - 1 : i = has - 1
      BY <1>7
    <3>4. \A i \in has .. AllBlocks - 1 : i \in Index /\ i # has - 1
      BY <1>7
    <3> QED BY <1>9, <1>10, <1>13, <1>14, <1>17, <2>1, <3>1, <3>2, <3>3, <3>4 DEF Allocating
  <2> QED BY <1>8, <1>13, <1>14, <2>2, <2>3 DEF WriteFits
<1>18. CASE NeedsTable(p)
  <2>1. /\ ~DiskFull /\ used' = MarkUsed(FirstFree)
        /\ inode' = [inode EXCEPT ![f].i_sectors[Direct] = FirstFree]
    BY <1>1, <1>18 DEF PlanMore
  <2>2. inode[f].i_sectors[Direct] = NoBlock
    BY <1>8, <1>9, <2>1 DEF Clear
  <2>3. Takes(f, Direct) /\ Direct \in 0 .. Direct
    BY <1>4, <1>9, <2>1, <2>2 DEF Takes
  <2>4. /\ inode'[f].i_size = inode[f].i_size
        /\ \A j \in 0 .. Direct : inode'[f].i_sectors[j] = IF j = Direct THEN FirstFree
                                                          ELSE inode[f].i_sectors[j]
    BY <2>3, TakenEntries
  <2>5. FirstFree \in DataBlock /\ FirstFree # NoBlock /\ FirstFree \in Block
        /\ used' = used \cup {FirstFree}
    BY <2>1, FreeBlock DEF Inv
  <2>6. PlanAsserts(p)
    BY <1>4, <2>1, PlanHolds
  <2>7. Types' /\ NoPanic'
    BY <1>14, <1>20, <2>1, <2>5, <2>6 DEF Inv, Types, NoPanic
  <2>8. WriteFits(p)'
    BY <1>9, <1>10, <1>17, <2>4, <2>5
  <2>9. Clear(f, Reserved(p))'
    BY <1>7, <1>9, <1>11, <1>16, <1>18 DEF Clear
  <2>10. /\ \A u \in Process \ {p} : pc'[u] = pc[u] /\ local'[u] = local[u]
         /\ local'[p].out = <<>> /\ desc[p].writes /\ desc' = desc
    BY <1>7, <1>13, <1>14, <1>20
  <2> QED BY <1>1, <1>15, <2>3, <2>7, <2>8, <2>9, <2>10, TakeInv
<1>19. CASE ~NeedsTable(p)
  <2>1. inode' = inode /\ used' = used
    BY <1>19 DEF PlanMore
  <2>2. PlanAsserts(p)
    BY <1>4, <1>19, PlanHolds
  <2>3. Types' /\ NoPanic'
    BY <1>14, <1>20, <2>1, <2>2 DEF Inv, Types, NoPanic
  <2>4. WriteFits(p)'
    BY <1>10, <1>11, <1>17, <1>19, <2>1
  <2>5. DiskFull' \/ Clear(f, Reserved(p))'
    BY <1>7, <1>8, <1>9, <1>11, <1>16, <1>19, <2>1 DEF DiskFull, Clear
  <2>6. local'[p].out = <<>> /\ desc[p].writes
    BY <1>7, <1>13, <1>14
  <2>7. \A u \in Process \ {p} : pc'[u] = pc[u] /\ local'[u] = local[u]
    BY <1>14
  <2>8. UNCHANGED <<inode, used, disk, desc>>
    BY <1>20, <2>1
  <2> QED BY <1>1, <1>15, <2>3, <2>4, <2>5, <2>6, <2>7, <2>8, WriterQuiet
<1> QED BY <1>18, <1>19

(* What a write that allocates has got.                                    *)
LEMMA AllocIs ==
    ASSUME Inv, NEW p \in Process, pc[p] = "alloc", NEW f \in File, f = desc[p].file,
           NEW has, has = BlocksOf(inode[f].i_size),
           NEW w \in Locals, w = local[p]
    PROVE  /\ has \in Nat \ {0} /\ w.will \in Nat /\ w.idx \in Nat /\ w.left \in Nat
           /\ Direct \in Nat \ {0} /\ BLOCK_SIZE \in Nat \ {0}
           /\ has <= Direct /\ has <= w.idx /\ w.idx <= w.will /\ w.will <= AllBlocks
           /\ w.will > Direct => has = Direct /\ inode[f].i_sectors[Direct] # NoBlock
           /\ \A i \in has - 1 .. w.idx - 1 :
                 w.blocks[i] # NoBlock /\ (i < Direct => w.blocks[i] = inode[f].i_sectors[i])
           /\ \A i \in w.idx .. AllBlocks - 1 : w.blocks[i] = NoBlock
           /\ w.first /\ w.out = <<>> /\ Planned(p)
           /\ Size(p) = inode[f].i_size /\ Sectors(p) = inode[f].i_sectors
           /\ desc[p].writes
           /\ DiskFull \/ Clear(f, IF w.will <= Direct THEN w.idx ELSE w.will)
<1>1. Writing(p)
  BY DEF Writing
<1>2. /\ Size(p) = inode[f].i_size /\ Sectors(p) = inode[f].i_sectors
      /\ has \in Nat \ {0} /\ w.will \in Nat /\ w.idx \in Nat /\ w.left \in Nat
      /\ w.will <= AllBlocks /\ desc[p].writes
      /\ DiskFull \/ Clear(f, Reserved(p))
  BY <1>1, WriterIs DEF Locals
<1>3. Allocating(p) /\ w.first /\ Planned(p) /\ w.out = <<>>
  BY <1>1 DEF Inv, WriteFits, ReadFits
<1>4. Reserved(p) = IF w.will <= Direct THEN w.idx ELSE w.will
  BY DEF Reserved
<1>5. Direct \in Nat \ {0} /\ BLOCK_SIZE \in Nat \ {0}
  BY FileBlocksAssumption
<1>6. w.idx \in has .. w.will /\ has <= Direct
  BY <1>2, <1>3 DEF Allocating
<1> QED BY <1>2, <1>3, <1>4, <1>5, <1>6 DEF Allocating

(* A block more is in its place.                                           *)
LEMMA AddedFits ==
    ASSUME Inv, NEW p \in Process, NEW f \in File, f = desc[p].file, pc[p] = "alloc",
           NEW w \in Locals, w = local[p], w.idx < w.will,
           NEW b \in Block, b # NoBlock,
           NEW new, new.out = w.out, new.idx = w.idx + 1, new.will = w.will,
           new.left = w.left, new.first = w.first,
           \A i \in Index : new.blocks[i] = IF i = w.idx THEN b ELSE w.blocks[i],
           pc'[p] = "alloc", local'[p] = new, desc' = desc,
           inode'[f].i_size = inode[f].i_size,
           \A j \in 0 .. Direct : j # w.idx \/ w.will > Direct
                                   => inode'[f].i_sectors[j] = inode[f].i_sectors[j],
           w.will <= Direct => inode'[f].i_sectors[w.idx] = b
    PROVE  WriteFits(p)' /\ w.out = <<>> /\ desc[p].writes
<1>1. PICK has : has = BlocksOf(inode[f].i_size)
  OBVIOUS
<1>2. /\ has \in Nat \ {0} /\ w.will \in Nat /\ w.idx \in Nat /\ w.left \in Nat
      /\ Direct \in Nat \ {0} /\ BLOCK_SIZE \in Nat \ {0}
      /\ has <= Direct /\ has <= w.idx /\ w.idx <= w.will /\ w.will <= AllBlocks
  BY ONLY Inv, f = desc[p].file, pc[p] = "alloc", w \in Locals, w = local[p], <1>1, AllocIs,
          p \in Process, f \in File
<1>3. /\ w.will > Direct => has = Direct /\ inode[f].i_sectors[Direct] # NoBlock
      /\ \A i \in has - 1 .. w.idx - 1 :
            w.blocks[i] # NoBlock /\ (i < Direct => w.blocks[i] = inode[f].i_sectors[i])
      /\ \A i \in w.idx .. AllBlocks - 1 : w.blocks[i] = NoBlock
  <2>1. w.will > Direct => has = Direct /\ inode[f].i_sectors[Direct] # NoBlock
    BY ONLY Inv, f = desc[p].file, pc[p] = "alloc", w \in Locals, w = local[p], <1>1, AllocIs,
            p \in Process, f \in File
  <2>2. ASSUME NEW i \in has - 1 .. w.idx - 1
        PROVE  w.blocks[i] # NoBlock /\ (i < Direct => w.blocks[i] = inode[f].i_sectors[i])
    BY ONLY Inv, f = desc[p].file, pc[p] = "alloc", w \in Locals, w = local[p], <1>1, AllocIs,
            p \in Process, f \in File, i \in has - 1 .. w.idx - 1
  <2>3. \A i \in w.idx .. AllBlocks - 1 : w.blocks[i] = NoBlock
    BY ONLY Inv, f = desc[p].file, pc[p] = "alloc", w \in Locals, w = local[p], <1>1, AllocIs,
            p \in Process, f \in File
  <2> QED BY ONLY <2>1, <2>2, <2>3
<1>4. /\ w.first /\ w.out = <<>> /\ Planned(p) /\ desc[p].writes
      /\ Size(p) = inode[f].i_size /\ Sectors(p) = inode[f].i_sectors
  BY ONLY Inv, f = desc[p].file, pc[p] = "alloc", w \in Locals, w = local[p], <1>1, AllocIs,
          p \in Process, f \in File
<1>5. Size(p)' = Size(p) /\ Sectors(p)' = inode'[f].i_sectors /\ BlocksOf(Size(p))' = has
  BY ONLY <1>1, <1>4, desc' = desc, f = desc[p].file, inode'[f].i_size = inode[f].i_size
     DEF Size, Sectors, BlocksOf
<1>6. Planned(p)'
  <2>1. inode'[f].i_sectors[0] = inode[f].i_sectors[0]
    <3>1. 0 \in 0 .. Direct /\ 0 # w.idx
      BY ONLY <1>2
    <3> QED BY ONLY <3>1, \A j \in 0 .. Direct : j # w.idx \/ w.will > Direct
                                   => inode'[f].i_sectors[j] = inode[f].i_sectors[j]
  <2> QED BY ONLY <1>4, <1>5, <2>1, w = local[p], local'[p] = new, new.left = w.left,
                  new.will = w.will DEF Planned, BlocksOf
<1>7. Allocating(p)'
  <2>1. w.idx + 1 \in has .. w.will
    BY ONLY <1>2, w.idx < w.will
  <2>2. w.will > Direct => has = Direct /\ inode'[f].i_sectors[Direct] # NoBlock
    <3>1. Direct \in 0 .. Direct
      BY ONLY <1>2
    <3> QED BY ONLY <1>3, <3>1, \A j \in 0 .. Direct : j # w.idx \/ w.will > Direct
                                   => inode'[f].i_sectors[j] = inode[f].i_sectors[j]
  <2>3. ASSUME NEW i \in has - 1 .. (w.idx + 1) - 1
        PROVE  /\ new.blocks[i] # NoBlock
               /\ i < Direct => new.blocks[i] = inode'[f].i_sectors[i]
    <3>1. i \in Index /\ (i < Direct => i \in 0 .. Direct)
      BY ONLY <1>2, w.idx < w.will, i \in has - 1 .. (w.idx + 1) - 1 DEF Index, AllBlocks
    <3>2. new.blocks[i] = IF i = w.idx THEN b ELSE w.blocks[i]
      BY ONLY <3>1, \A j \in Index : new.blocks[j] = IF j = w.idx THEN b ELSE w.blocks[j]
    <3>3. CASE i = w.idx
      <4>1. i < Direct => inode'[f].i_sectors[i] = b
        <5>1. i < Direct => w.will <= Direct
          BY ONLY <1>2, <1>3, <3>3
        <5> QED BY ONLY <3>3, <5>1, w.will <= Direct => inode'[f].i_sectors[w.idx] = b
      <4> QED BY ONLY <3>2, <3>3, <4>1, b # NoBlock
    <3>4. CASE i # w.idx
      <4>1. i \in has - 1 .. w.idx - 1
        BY ONLY <1>2, <3>4, i \in has - 1 .. (w.idx + 1) - 1
      <4>2. i < Direct => inode'[f].i_sectors[i] = inode[f].i_sectors[i]
        BY ONLY <3>1, <3>4, \A j \in 0 .. Direct : j # w.idx \/ w.will > Direct
                                   => inode'[f].i_sectors[j] = inode[f].i_sectors[j]
      <4> QED BY ONLY <1>3, <3>2, <3>4, <4>1, <4>2
    <3> QED BY ONLY <3>3, <3>4
  <2>4. ASSUME NEW i \in w.idx + 1 .. AllBlocks - 1
        PROVE  new.blocks[i] = NoBlock
    <3>1. i \in Index /\ i # w.idx /\ i \in w.idx .. AllBlocks - 1
      BY ONLY <1>2, i \in w.idx + 1 .. AllBlocks - 1 DEF Index, AllBlocks
    <3>2. new.blocks[i] = w.blocks[i]
      BY ONLY <3>1, \A j \in Index : new.blocks[j] = IF j = w.idx THEN b ELSE w.blocks[j]
    <3> QED BY ONLY <1>3, <3>1, <3>2
  <2> QED BY ONLY <1>2, <1>3, <1>5, <2>1, <2>2, <2>3, <2>4, local'[p] = new, new.idx = w.idx + 1,
                  new.will = w.will DEF Allocating
<1> QED BY ONLY <1>4, <1>6, <1>7, pc'[p] = "alloc", local'[p] = new, new.first = w.first
        DEF WriteFits

(* The first free block comes into the hands of a write that crosses into  *)
(* the table.                                                              *)
LEMMA HandTakes ==
    ASSUME Inv, NEW p \in Process, pc[p] = "alloc", ~DiskFull,
           UNCHANGED <<inode, disk>>, used' = MarkUsed(FirstFree), pc' = pc,
           local[p].idx \in Nat, Direct <= local[p].idx, local[p].idx \in Index,
           local'[p].idx = local[p].idx + 1,
           \A i \in Index : local'[p].blocks[i] = IF i = local[p].idx THEN FirstFree
                                                  ELSE local[p].blocks[i],
           \A u \in Process \ {p} : local'[u] = local[u]
    PROVE  Ownership' /\ Hands'
<1> HIDE DEF Index, AllBlocks
<1>1. Types /\ Ownership /\ Hands
  BY DEF Inv
<1>2. /\ FirstFree # NoBlock /\ FirstFree \notin used
      /\ used' = used \cup {FirstFree}
  BY <1>1, FreeBlock
<1>3. \A f \in File, k \in Entries : Addr(f, k)' = Addr(f, k)
  BY SameEntries
<1>4. \A f \in File, k \in Entries : Addr(f, k) # FirstFree
  BY <1>1, <1>2 DEF Ownership
<1>5. Ownership'
  <2>1. \A b \in Block : Free(b)' => Free(b)
    BY <1>2 DEF Free
  <2> HIDE DEF Addr, Free
  <2> QED BY <1>1, <1>2, <1>3, <2>1 DEF Ownership
<1>6. PICK n \in Nat : n = local[p].idx
  OBVIOUS
<1>7. \A u \in Process \ {p} : Fresh(u)' = Fresh(u)
  BY DEF Fresh
<1>8. \A i \in Fresh(p)' : i = n \/ i \in Fresh(p)
  BY <1>6 DEF Fresh
<1>9. \A i \in Fresh(p) : i # n /\ i \in Index
  <2>1. n <= AllBlocks - 1
    BY <1>6 DEF Index
  <2>2. Direct \in Nat /\ AllBlocks \in Nat
    BY FileBlocksAssumption DEF AllBlocks
  <2> QED BY <1>6, <2>1, <2>2 DEF Fresh, Index
<1>10. ASSUME NEW u \in Process, NEW i \in Fresh(u)'
       PROVE  \/ /\ i \in Fresh(u) /\ local'[u].blocks[i] = local[u].blocks[i]
                 /\ local[u].blocks[i] # FirstFree
              \/ u = p /\ i = n /\ local'[u].blocks[i] = FirstFree
  <2>1. ASSUME i \in Fresh(u)
        PROVE  local[u].blocks[i] # FirstFree
    BY <1>1, <1>2, <2>1 DEF Hands
  <2>2. CASE u = p
    BY <1>6, <1>8, <1>9, <2>1, <2>2
  <2>3. CASE u # p
    BY <1>7, <2>1, <2>3
  <2> QED BY <2>2, <2>3
<1> HIDE DEF Fresh, Addr
<1>11. Hands'
  <2>1. ASSUME NEW u \in Process, NEW i \in Fresh(u)'
        PROVE  /\ local'[u].blocks[i] \in used'
               /\ \A f \in File, k \in Entries : Addr(f, k)' # local'[u].blocks[i]
    BY <1>1, <1>2, <1>3, <1>4, <1>10 DEF Hands
  <2>2. ASSUME NEW u \in Process, NEW v \in Process, NEW i \in Fresh(u)', NEW j \in Fresh(v)',
               local'[u].blocks[i] = local'[v].blocks[j]
        PROVE  u = v /\ i = j
    BY <1>1, <1>10, <2>2 DEF Hands
  <2> QED BY <2>1, <2>2 DEF Hands
<1> QED BY <1>5, <1>11

LEMMA AddBlockInv ==
    ASSUME Inv, NEW p \in Process, AddBlock(p)
    PROVE  Inv'
<1>1. PICK f \in File : f = desc[p].file
  BY DEF Inv, Types
<1>2. PICK w \in Locals : w = local[p]
  BY DEF Inv, Types
<1>3. PICK b : b = FirstFree
  OBVIOUS
<1>4. /\ pc[p] = "alloc" /\ pc' = pc /\ w.idx < w.will /\ ~DiskFull
      /\ used' = MarkUsed(b) /\ disk' = disk /\ desc' = desc
      /\ local' = [local EXCEPT ![p].blocks[w.idx] = b, ![p].idx = w.idx + 1]
      /\ inode' = IF w.will <= Direct THEN [inode EXCEPT ![f].i_sectors[w.idx] = b] ELSE inode
      /\ panic' = (w.will <= Direct /\ inode[f].i_sectors[w.idx] # NoBlock)
  BY <1>1, <1>2, <1>3 DEF AddBlock, At, Sectors, EntryToFill
<1>5. b \in DataBlock /\ b # NoBlock /\ b \in Block /\ used' = used \cup {b}
  BY <1>3, <1>4, FreeBlock DEF Inv
<1>6. PICK has : has = BlocksOf(inode[f].i_size)
  OBVIOUS
<1>7. /\ has \in Nat \ {0} /\ w.will \in Nat /\ w.idx \in Nat
      /\ Direct \in Nat \ {0} /\ BLOCK_SIZE \in Nat \ {0}
      /\ has <= Direct /\ has <= w.idx /\ w.idx <= w.will /\ w.will <= AllBlocks
      /\ w.will > Direct => has = Direct
      /\ Clear(f, IF w.will <= Direct THEN w.idx ELSE w.will)
  <2> QED BY ONLY SMTT(30), Inv, <1>1, <1>2, <1>4, <1>6, AllocIs, p \in Process
<1>8. w.idx \in Index
  BY <1>4, <1>7
<1>9. PICK new : new = [w EXCEPT !.blocks = [w.blocks EXCEPT ![w.idx] = b], !.idx = w.idx + 1]
  OBVIOUS
<1>10. /\ new \in Locals /\ new.out = w.out /\ new.idx = w.idx + 1 /\ new.will = w.will
       /\ new.left = w.left /\ new.first = w.first
       /\ \A i \in Index : new.blocks[i] = IF i = w.idx THEN b ELSE w.blocks[i]
  <2>1. [w.blocks EXCEPT ![w.idx] = b] \in [Index -> Block] /\ w.idx + 1 \in Nat
    BY ONLY <1>5, <1>8, w \in Locals DEF Locals
  <2>2. new.blocks = [w.blocks EXCEPT ![w.idx] = b]
    BY ONLY <1>9, w \in Locals DEF Locals
  <2>3. new \in Locals
    BY ONLY <1>9, <2>1, w \in Locals DEF Locals
  <2>4. /\ new.out = w.out /\ new.idx = w.idx + 1 /\ new.will = w.will
        /\ new.left = w.left /\ new.first = w.first
    BY ONLY <1>9, w \in Locals DEF Locals
  <2>5. \A i \in Index : new.blocks[i] = IF i = w.idx THEN b ELSE w.blocks[i]
    BY ONLY <1>8, <2>2, w \in Locals DEF Locals
  <2> QED BY ONLY <2>3, <2>4, <2>5
<1>11. /\ local'[p] = new /\ local' \in [Process -> Locals]
       /\ \A u \in Process \ {p} : pc'[u] = pc[u] /\ local'[u] = local[u]
  BY <1>2, <1>4, <1>9, <1>10 DEF Inv, Types
<1>12. pc'[p] = "alloc" /\ Writing(p)'
  BY <1>4 DEF Writing
<1>13. ASSUME inode'[f].i_size = inode[f].i_size,
              \A j \in 0 .. Direct : j # w.idx \/ w.will > Direct
                                     => inode'[f].i_sectors[j] = inode[f].i_sectors[j],
              w.will <= Direct => inode'[f].i_sectors[w.idx] = b
       PROVE  WriteFits(p)' /\ w.out = <<>> /\ desc[p].writes
  <2>1. /\ f \in File /\ f = desc[p].file /\ pc[p] = "alloc" /\ w \in Locals /\ w = local[p]
        /\ w.idx < w.will /\ b \in Block /\ b # NoBlock
    BY ONLY <1>1, <1>2, <1>4, <1>5
  <2>2. /\ new.out = w.out /\ new.idx = w.idx + 1 /\ new.will = w.will
        /\ new.left = w.left /\ new.first = w.first
        /\ \A i \in Index : new.blocks[i] = IF i = w.idx THEN b ELSE w.blocks[i]
    BY ONLY <1>10
  <2>3. pc'[p] = "alloc" /\ local'[p] = new /\ desc' = desc
    BY ONLY <1>4, <1>11, <1>12
  <2> QED BY ONLY Inv, <1>13, <2>1, <2>2, <2>3, AddedFits, p \in Process
<1>14. CASE w.will <= Direct
  <2>1. w.idx \in 0 .. Direct /\ w.idx < Direct
    BY <1>4, <1>7, <1>14
  <2>2. inode[f].i_sectors[w.idx] = NoBlock
    BY <1>7, <1>14, <2>1 DEF Clear
  <2>3. Takes(f, w.idx)
    BY <1>3, <1>4, <1>14, <2>2 DEF Takes
  <2>4. /\ inode'[f].i_size = inode[f].i_size
        /\ \A j \in 0 .. Direct :
              inode'[f].i_sectors[j] = IF j = w.idx THEN b ELSE inode[f].i_sectors[j]
    BY <1>3, <2>1, <2>3, TakenEntries
  <2>5. WriteFits(p)' /\ w.out = <<>> /\ desc[p].writes
    BY <1>7, <1>13, <1>14, <2>1, <2>4
  <2>6. Types' /\ NoPanic'
    <3>1. inode \in [File -> [i_size : Nat, i_sectors : [0 .. Direct -> Block]]] /\ Types /\ ~panic
      BY DEF Inv, Types, NoPanic
    <3>2. inode' = [inode EXCEPT ![f].i_sectors[w.idx] = b] /\ ~panic'
      BY ONLY <1>4, <1>14, <2>2
    <3>3. inode' \in [File -> [i_size : Nat, i_sectors : [0 .. Direct -> Block]]]
      BY ONLY <1>5, <2>1, <3>1, <3>2
    <3>4. used' \subseteq DataBlock
      BY ONLY <1>5, <3>1 DEF Types
    <3> QED BY ONLY <1>4, <1>11, <3>1, <3>2, <3>3, <3>4 DEF Types, NoPanic
  <2>7. Fresh(p)' = {} /\ Reserved(p)' = w.idx + 1
    BY <1>7, <1>10, <1>11, <1>12, <1>14, <2>1 DEF Fresh, Reserved
  <2>8. Clear(f, Reserved(p))'
    <3>1. ASSUME NEW j \in w.idx + 1 .. Direct
          PROVE  inode'[f].i_sectors[j] = NoBlock
      <4>1. j \in 0 .. Direct /\ j # w.idx /\ j \in w.idx .. Direct
        BY <1>7
      <4> QED BY <1>7, <1>14, <2>4, <4>1 DEF Clear
    <3> QED BY <2>7, <3>1 DEF Clear
  <2>9. local'[p].out = <<>>
    BY <1>10, <1>11, <2>5
  <2> QED BY ONLY Inv, <1>1, <1>4, <1>11, <1>12, <2>1, <2>3, <2>5, <2>6, <2>7, <2>8, <2>9,
                  TakeInv, p \in Process
<1>15. CASE w.will > Direct
  <2>1. inode' = inode /\ ~panic'
    <3>1. ~(w.will <= Direct)
      BY ONLY <1>7, <1>15
    <3> QED BY ONLY <1>4, <3>1
  <2>2. WriteFits(p)' /\ w.out = <<>> /\ desc[p].writes
    BY <1>7, <1>13, <1>15, <2>1
  <2>3. Ownership' /\ Hands'
    <3>1. Direct <= w.idx
      BY <1>7, <1>15
    <3>2. /\ UNCHANGED <<inode, disk>> /\ used' = MarkUsed(FirstFree) /\ pc' = pc
          /\ ~DiskFull /\ pc[p] = "alloc"
      BY ONLY <1>3, <1>4, <2>1
    <3>3. /\ local[p].idx \in Nat /\ Direct <= local[p].idx /\ local[p].idx \in Index
          /\ local'[p].idx = local[p].idx + 1
      BY ONLY <1>2, <1>7, <1>8, <1>10, <1>11, <3>1
    <3>4. \A i \in Index : local'[p].blocks[i] = IF i = local[p].idx THEN FirstFree
                                                  ELSE local[p].blocks[i]
      BY ONLY <1>2, <1>3, <1>10, <1>11
    <3>5. \A u \in Process \ {p} : local'[u] = local[u]
      BY ONLY <1>11
    <3> QED BY ONLY Inv, <3>2, <3>3, <3>4, <3>5, HandTakes, p \in Process
  <2>4. Types' /\ NoPanic'
    BY <1>4, <1>5, <1>11, <2>1 DEF Inv, Types, NoPanic
  <2>5. \A g \in File : Untouched(g)
    BY <1>4, <2>1 DEF Untouched
  <2>6. OnlyMoves(p)
    BY <1>4, <1>11, <2>5 DEF OnlyMoves
  <2>7. Allocated(desc[p].file)' /\ BytesOf(desc[p].file)'
    <3>1. Allocated(f) /\ BytesOf(f)
      BY DEF Inv, FileHoldsItsBytes, BytesOf
    <3>2. Allocated(f)' /\ BytesOf(f)'
      BY <2>5, <3>1, UntouchedIs DEF Inv
    <3> QED BY <1>1, <1>4, <3>2 DEF Allocated, BytesOf
  <2>8. NothingAhead'
    <3>1. Reserved(p)' = w.will
      BY <1>7, <1>10, <1>11, <1>12, <1>15 DEF Reserved
    <3>2. Clear(f, w.will)
      BY <1>7, <1>15
    <3>3. DiskFull' \/ Clear(desc[p].file, Reserved(p))'
      BY <1>1, <1>4, <2>1, <3>1, <3>2 DEF Clear
    <3>4. used \subseteq used'
      BY <1>5
    <3> QED BY <1>4, <1>11, <1>12, <2>1, <2>2, <3>3, <3>4, AheadKept
  <2>9. Positioned(p)'
    <3>1. desc[p].fd_pos <= inode[f].i_size
      BY <1>1 DEF Inv, Openings, Size
    <3> QED BY <1>1, <1>4, <2>1, <2>2, <3>1 DEF Positioned, Size
  <2>10. ReadFits(p)' /\ ExactRead(p)'
    <3>1. local'[p].out = <<>>
      BY <1>10, <1>11, <2>2
    <3> QED BY <1>12, <3>1 DEF ReadFits, ExactRead
  <2> QED BY ONLY Inv, <2>2, <2>3, <2>4, <2>6, <2>7, <2>8, <2>9, <2>10, StepInv, p \in Process
<1> QED BY <1>7, <1>14, <1>15

(* The blocks that p has in its hands go into the table of its file.       *)
LEMMA TableTakes ==
    ASSUME Inv, NEW p \in Process, NEW f \in File, pc[p] = "alloc", pc'[p] # "alloc",
           NEW n \in Nat, n = local[p].idx, Direct < n, n <= AllBlocks,
           \A i \in n .. AllBlocks - 1 : local[p].blocks[i] = NoBlock,
           NEW t, t = inode[f].i_sectors[Direct], t # NoBlock,
           disk' = [disk EXCEPT ![t] = [o \in Offset |-> Entry(local[p].blocks[Direct + o])]],
           UNCHANGED <<inode, used, local>>,
           \A u \in Process \ {p} : pc'[u] = pc[u]
    PROVE  /\ Ownership' /\ Hands'
           /\ \A g \in File \ {f} : Untouched(g)
           /\ \A k \in Entries : k # Direct => disk'[Addr(f, k)] = disk[Addr(f, k)]
           /\ \A i \in Direct .. AllBlocks - 1 : BlockAt(f, i)' = local[p].blocks[i]
<1>1. Types /\ Ownership /\ Hands
  BY DEF Inv
<1>2. Direct \in Nat \ {0} /\ BLOCK_SIZE \in Nat \ {0} /\ AllBlocks \in Nat
      /\ Direct \in Entries
  BY FileBlocksAssumption DEF Entries
<1>3. t = Addr(f, Direct) /\ t \in used /\ t \in Block
  BY <1>1, <1>2, Addresses DEF Addr, Ownership
<1>4. disk \in [Block -> [Offset -> Word]] /\ inode' = inode
  BY <1>1 DEF Types
<1>5. ASSUME NEW b \in Block, b # t
      PROVE  disk'[b] = disk[b]
  BY <1>3, <1>4, <1>5
<1>6. \A o \in Offset : BlockOf(disk'[t][o]) = local[p].blocks[Direct + o]
  BY <1>3, <1>4 DEF BlockOf, Entry
<1>7. ASSUME NEW g \in File, NEW k \in Entries, g # f \/ k # Direct
      PROVE  disk'[Addr(g, k)] = disk[Addr(g, k)]
  <2>1. Addr(g, k) # t /\ Addr(g, k) \in Block
    BY <1>1, <1>2, <1>3, <1>7, Addresses DEF Ownership
  <2> QED BY <1>5, <2>1
<1>8. \A g \in File \ {f} : Untouched(g)
  BY <1>4, <1>7 DEF Untouched
<1>9. \A i \in Direct .. AllBlocks - 1 : BlockAt(f, i)' = local[p].blocks[i]
  <2> SUFFICES ASSUME NEW i \in Direct .. AllBlocks - 1
               PROVE  BlockAt(f, i)' = local[p].blocks[i]
    OBVIOUS
  <2>1. ~(i < Direct) /\ i - Direct \in Offset /\ Direct + (i - Direct) = i
    BY <1>2
  <2>2. BlockAt(f, i)' = BlockOf(disk'[t][i - Direct])
    BY <1>4, <2>1 DEF BlockAt, TableEntry
  <2> QED BY <1>6, <2>1, <2>2
<1>10. ASSUME NEW g \in File, NEW k \in Entries
       PROVE  \/ g # f /\ Addr(g, k)' = Addr(g, k)
              \/ g = f /\ k <= Direct /\ Addr(g, k)' = Addr(g, k)
              \/ /\ g = f /\ k > Direct /\ k - 1 \in Direct .. n - 1
                 /\ Addr(g, k)' = local[p].blocks[k - 1]
              \/ Addr(g, k)' = NoBlock
  <2>1. CASE g # f
    BY <1>1, <1>8, <2>1, UntouchedIs
  <2>2. CASE g = f /\ k <= Direct
    BY <1>4, <2>2 DEF Addr
  <2>3. CASE g = f /\ ~(k <= Direct)
    <3>1. k - 1 \in Direct .. AllBlocks - 1 /\ k - (Direct + 1) = (k - 1) - Direct
          /\ ~(k - 1 < Direct) /\ k > Direct
      BY <1>2, <2>3 DEF Entries
    <3>2. Addr(g, k)' = BlockAt(f, k - 1)'
      BY <2>3, <3>1 DEF Addr, BlockAt
    <3>3. Addr(g, k)' = local[p].blocks[k - 1]
      BY <1>9, <3>1, <3>2
    <3>4. CASE k - 1 \in Direct .. n - 1
      BY <2>3, <3>1, <3>3, <3>4
    <3>5. CASE ~(k - 1 \in Direct .. n - 1)
      <4>1. k - 1 \in n .. AllBlocks - 1
        BY <1>2, <3>1, <3>5
      <4> QED BY <3>3, <4>1
    <3> QED BY <3>4, <3>5
  <2> QED BY <2>1, <2>2, <2>3
<1>11. \A i \in Direct .. n - 1 : i \in Fresh(p)
  BY DEF Fresh
<1>12. ASSUME NEW i \in Direct .. n - 1
       PROVE  /\ local[p].blocks[i] \in used
              /\ \A g \in File, k \in Entries : Addr(g, k) # local[p].blocks[i]
              /\ \A j \in Direct .. n - 1 :
                    local[p].blocks[i] = local[p].blocks[j] => i = j
              /\ \A u \in Process \ {p} : \A j \in Fresh(u) :
                    local[p].blocks[i] # local[u].blocks[j]
  BY <1>1, <1>11 DEF Hands
<1>13. Ownership'
  <2>1. ASSUME NEW g \in File, NEW k \in Entries
        PROVE  Addr(g, k)' \in used \cup {NoBlock}
    BY <1>1, <1>10, <1>12 DEF Ownership
  <2>2. ASSUME NEW g \in File, NEW h \in File, NEW j \in Entries, NEW k \in Entries,
               Addr(g, j)' # NoBlock, Addr(g, j)' = Addr(h, k)'
        PROVE  g = h /\ j = k
    <3>1. CASE Addr(g, j)' = Addr(g, j) /\ Addr(h, k)' = Addr(h, k)
      <4>1. Addr(g, j) # NoBlock /\ Addr(g, j) = Addr(h, k)
        BY ONLY <2>2, <3>1
      <4>2. \A e, d \in File, l, m \in Entries :
               Addr(e, l) # NoBlock /\ Addr(e, l) = Addr(d, m) => e = d /\ l = m
        BY <1>1 DEF Ownership
      <4> HIDE DEF Addr
      <4> QED BY ONLY <4>1, <4>2, g \in File, h \in File, j \in Entries, k \in Entries
    <3>2. CASE /\ g = f /\ j - 1 \in Direct .. n - 1 /\ Addr(g, j)' = local[p].blocks[j - 1]
               /\ Addr(h, k)' = Addr(h, k)
      BY <1>12, <2>2, <3>2
    <3>3. CASE /\ h = f /\ k - 1 \in Direct .. n - 1 /\ Addr(h, k)' = local[p].blocks[k - 1]
               /\ Addr(g, j)' = Addr(g, j)
      BY <1>12, <2>2, <3>3
    <3>4. CASE /\ g = f /\ j - 1 \in Direct .. n - 1 /\ Addr(g, j)' = local[p].blocks[j - 1]
               /\ h = f /\ k - 1 \in Direct .. n - 1 /\ Addr(h, k)' = local[p].blocks[k - 1]
      <4>1. j - 1 = k - 1
        BY <1>12, <2>2, <3>4
      <4>2. j \in Nat /\ k \in Nat
        BY <1>2 DEF Entries
      <4> QED BY <3>4, <4>1, <4>2
    <3>5. \/ Addr(g, j)' = Addr(g, j)
          \/ g = f /\ j - 1 \in Direct .. n - 1 /\ Addr(g, j)' = local[p].blocks[j - 1]
      BY <1>10, <2>2
    <3>6. \/ Addr(h, k)' = Addr(h, k)
          \/ h = f /\ k - 1 \in Direct .. n - 1 /\ Addr(h, k)' = local[p].blocks[k - 1]
      <4>1. Addr(h, k)' # NoBlock
        BY <2>2
      <4> QED BY <1>10, <4>1
    <3> QED BY ONLY <3>1, <3>2, <3>3, <3>4, <3>5, <3>6
  <2>3. ASSUME NEW b \in Block, Free(b)'
        PROVE  disk'[b] = EmptyBlock
    <3>1. Free(b) /\ b # t
      BY <1>3, <2>3 DEF Free
    <3> QED BY <1>1, <1>5, <3>1 DEF Ownership
  <2>4. used' = used
    OBVIOUS
  <2> HIDE DEF Addr, Free
  <2> QED BY <2>1, <2>2, <2>3, <2>4 DEF Ownership
<1>14. Hands'
  <2>1. Fresh(p)' = {} /\ \A u \in Process \ {p} : Fresh(u)' = Fresh(u)
    BY DEF Fresh
  <2>2. ASSUME NEW u \in Process, NEW i \in Fresh(u)', NEW g \in File, NEW k \in Entries
        PROVE  Addr(g, k)' # local[u].blocks[i] /\ local[u].blocks[i] \in used
    <3>1. u # p /\ i \in Fresh(u)
      BY <2>1
    <3>2. /\ local[u].blocks[i] \in used /\ Addr(g, k) # local[u].blocks[i]
      BY <1>1, <3>1 DEF Hands
    <3>3. NoBlock \notin used
      BY <1>1, Addresses
    <3> QED BY <1>10, <1>12, <3>1, <3>2, <3>3
  <2>3. ASSUME NEW u \in Process, NEW i \in Fresh(u)'
        PROVE  local[u].blocks[i] \in used
    BY <1>1, <2>1 DEF Hands
  <2>4. \A u, v \in Process : \A i \in Fresh(u)', j \in Fresh(v)' :
           local[u].blocks[i] = local[v].blocks[j] => u = v /\ i = j
    BY <1>1, <2>1 DEF Hands
  <2>5. local' = local /\ used' = used
    OBVIOUS
  <2> HIDE DEF Fresh, Addr
  <2> QED BY <2>2, <2>3, <2>4, <2>5 DEF Hands
<1> QED BY <1>7, <1>8, <1>9, <1>13, <1>14

(* The blocks are allocated, the table is written.                         *)
LEMMA WriteTableInv ==
    ASSUME Inv, NEW p \in Process, WriteTable(p)
    PROVE  Inv'
<1>1. PICK f \in File : f = desc[p].file
  BY DEF Inv, Types
<1>2. PICK w \in Locals : w = local[p]
  BY DEF Inv, Types
<1>3. PICK t : t = inode[f].i_sectors[Direct]
  OBVIOUS
<1>4. /\ pc[p] = "alloc" /\ w.idx = w.will
      /\ pc' = [pc EXCEPT ![p] = "data"]
      /\ disk' = IF w.will <= Direct THEN disk
                 ELSE [disk EXCEPT ![t] = [o \in Offset |-> Entry(w.blocks[Direct + o])]]
      /\ inode' = inode /\ used' = used /\ desc' = desc /\ local' = local /\ panic' = panic
  BY <1>1, <1>2, <1>3 DEF WriteTable, At, Sectors
<1>5. pc'[p] = "data" /\ \A u \in Process \ {p} : pc'[u] = pc[u]
  BY <1>4 DEF Inv, Types
<1>6. PICK has : has = BlocksOf(inode[f].i_size)
  OBVIOUS
<1>7. /\ has \in Nat \ {0} /\ w.will \in Nat /\ Direct \in Nat \ {0} /\ BLOCK_SIZE \in Nat \ {0}
      /\ has <= Direct /\ has <= w.will /\ w.will <= AllBlocks
      /\ w.will > Direct => has = Direct /\ t # NoBlock
      /\ \A i \in has - 1 .. w.will - 1 :
            w.blocks[i] # NoBlock /\ (i < Direct => w.blocks[i] = inode[f].i_sectors[i])
      /\ \A i \in w.will .. AllBlocks - 1 : w.blocks[i] = NoBlock
  <2>1. /\ has \in Nat \ {0} /\ w.will \in Nat /\ Direct \in Nat \ {0} /\ BLOCK_SIZE \in Nat \ {0}
        /\ has <= Direct /\ has <= w.will /\ w.will <= AllBlocks
        /\ w.will > Direct => has = Direct /\ t # NoBlock
    BY ONLY Inv, <1>1, <1>2, <1>3, <1>4, <1>6, AllocIs, p \in Process
  <2>2. ASSUME NEW i \in has - 1 .. w.will - 1
        PROVE  w.blocks[i] # NoBlock /\ (i < Direct => w.blocks[i] = inode[f].i_sectors[i])
    BY ONLY Inv, <1>1, <1>2, <1>4, <1>6, AllocIs, p \in Process, i \in has - 1 .. w.will - 1
  <2>3. \A i \in w.will .. AllBlocks - 1 : w.blocks[i] = NoBlock
    BY ONLY Inv, <1>1, <1>2, <1>4, <1>6, AllocIs, p \in Process
  <2> QED BY ONLY <2>1, <2>2, <2>3
<1>8. /\ w.first /\ w.out = <<>> /\ Planned(p) /\ desc[p].writes
      /\ Size(p) = inode[f].i_size /\ Sectors(p) = inode[f].i_sectors
      /\ DiskFull \/ Clear(f, w.will)
  BY ONLY Inv, <1>1, <1>2, <1>4, <1>6, AllocIs, p \in Process
<1>9. Size(p)' = Size(p) /\ Sectors(p)' = Sectors(p) /\ BlocksOf(Size(p))' = has
  BY ONLY <1>1, <1>4, <1>6, <1>8 DEF Size, Sectors, BlocksOf
<1>10. ASSUME \A i \in Direct .. AllBlocks - 1 : w.will > Direct => BlockAt(f, i)' = w.blocks[i]
       PROVE  WriteFits(p)'
  <2>1. Planned(p)'
    BY ONLY <1>4, <1>8, <1>9 DEF Planned, BlocksOf
  <2>2. ASSUME NEW i \in has - 1 .. w.will - 1
        PROVE  w.blocks[i] # NoBlock /\ w.blocks[i] = BlockAt(f, i)'
    <3>1. CASE i < Direct
      BY ONLY <1>4, <1>7, <3>1, i \in has - 1 .. w.will - 1 DEF BlockAt
    <3>2. CASE ~(i < Direct)
      <4>1. i \in Direct .. AllBlocks - 1 /\ w.will > Direct
        BY ONLY <1>7, <3>2, i \in has - 1 .. w.will - 1 DEF AllBlocks
      <4> QED BY ONLY <1>7, <1>10, <4>1, i \in has - 1 .. w.will - 1
    <3> QED BY <3>1, <3>2
  <2>3. Ready(p)'
    <3>1. desc'[p].file = f /\ local'[p] = w
      BY <1>1, <1>2, <1>4
    <3> QED BY ONLY <1>9, <2>2, <3>1 DEF Ready
  <2>4. local'[p].first
    BY <1>2, <1>4, <1>8
  <2> QED BY ONLY <1>5, <2>1, <2>3, <2>4 DEF WriteFits
<1>11. Writing(p)' /\ Fresh(p)' = {} /\ Reserved(p)' = w.will
  BY <1>2, <1>4, <1>5 DEF Writing, Fresh, Reserved
<1>12. DiskFull' \/ Clear(f, Reserved(p))'
  BY <1>4, <1>8, <1>11 DEF DiskFull, Clear
<1>13. local'[p].out = <<>> /\ NoPanic'
  BY <1>2, <1>4, <1>8 DEF Inv, NoPanic
<1>14. pc' \in [Process -> {"run", "plan", "alloc", "data", "put", "grow", "fetch"}]
  BY <1>4 DEF Inv, Types
<1>15. CASE w.will <= Direct
  <2>1. disk' = disk
    BY <1>4, <1>15
  <2>2. Types'
    BY <1>4, <1>14, <2>1 DEF Inv, Types
  <2>3. WriteFits(p)'
    <3>1. ~(w.will > Direct)
      BY <1>7, <1>15
    <3> QED BY <1>10, <3>1
  <2>4. \A u \in Process \ {p} : pc'[u] = pc[u] /\ local'[u] = local[u]
    BY <1>4, <1>5
  <2> QED BY ONLY Inv, <1>1, <1>4, <1>8, <1>11, <1>12, <1>13, <2>1, <2>2, <2>3, <2>4,
                  WriterQuiet, p \in Process
<1>16. CASE w.will > Direct
  <2>1. disk' = [disk EXCEPT ![t] = [o \in Offset |-> Entry(w.blocks[Direct + o])]]
    <3>1. ~(w.will <= Direct)
      BY <1>7, <1>16
    <3> QED BY ONLY <1>4, <3>1
  <2>2. /\ Ownership' /\ Hands'
        /\ \A g \in File \ {f} : Untouched(g)
        /\ \A k \in Entries : k # Direct => disk'[Addr(f, k)] = disk[Addr(f, k)]
        /\ \A i \in Direct .. AllBlocks - 1 : BlockAt(f, i)' = w.blocks[i]
    <3>1. pc'[p] # "alloc"
      BY <1>5
    <3>2. local[p].idx = w.will /\ UNCHANGED <<inode, used, local>> /\ pc[p] = "alloc"
      BY <1>2, <1>4
    <3>3. \A i \in w.will .. AllBlocks - 1 : local[p].blocks[i] = NoBlock
      BY <1>2, <1>7
    <3>4. disk' = [disk EXCEPT ![t] = [o \in Offset |-> Entry(local[p].blocks[Direct + o])]]
      BY <1>2, <2>1
    <3>5. w.will \in Nat /\ Direct < w.will /\ w.will <= AllBlocks /\ t # NoBlock
      BY <1>7, <1>16
    <3>6. \A u \in Process \ {p} : pc'[u] = pc[u]
      BY <1>5
    <3> HIDE DEF AllBlocks
    <3>7. /\ Ownership' /\ Hands'
          /\ \A g \in File \ {f} : Untouched(g)
          /\ \A k \in Entries : k # Direct => disk'[Addr(f, k)] = disk[Addr(f, k)]
          /\ \A i \in Direct .. AllBlocks - 1 : BlockAt(f, i)' = local[p].blocks[i]
      BY ONLY Inv, <1>3, <3>1, <3>2, <3>3, <3>4, <3>5, <3>6, TableTakes, p \in Process, f \in File
    <3> QED BY ONLY <1>2, <3>7
  <2>3. Types'
    <3>1. \A o \in Offset : Entry(w.blocks[Direct + o]) \in Word
      <4>1. \A o \in Offset : Direct + o \in Index
        BY <1>7
      <4>2. \A i \in Index : w.blocks[i] \in Block
        BY DEF Locals
      <4> QED BY <4>1, <4>2 DEF Word
    <3>2. disk' \in [Block -> [Offset -> Word]]
      BY <2>1, <3>1 DEF Inv, Types
    <3> QED BY <1>4, <1>14, <3>2 DEF Inv, Types
  <2>4. WriteFits(p)'
    BY <1>10, <2>2
  <2>5. OnlyMoves(p) /\ BytesOf(f)' /\ Allocated(f)'
    <3>1. PICK s \in Nat : s = inode[f].i_size
      BY DEF Inv, Types
    <3>2. ASSUME NEW i \in 0 .. s \div BLOCK_SIZE
          PROVE  /\ BlockAt(f, i)' = BlockAt(f, i)
                 /\ disk'[BlockAt(f, i)] = disk[BlockAt(f, i)]
      <4>1. i \in Index /\ i < Direct /\ EntryOf(i) = i
        BY <1>6, <1>7, <3>1, Division DEF BlocksOf, EntryOf
      <4>2. BlockAt(f, i)' = BlockAt(f, i)
        BY <1>4, <4>1 DEF BlockAt
      <4> QED BY <2>2, <4>1, <4>2, EntryIs
    <3>3. ASSUME NEW k \in 0 .. s - 1
          PROVE  k \div BLOCK_SIZE \in 0 .. s \div BLOCK_SIZE
      BY <3>1, Monotone, Division
    <3>4. Kept(f)
      <4>1. inode[f].i_size <= inode'[f].i_size
        BY <1>4, <3>1
      <4>2. \A k \in 0 .. s - 1 :
               BlockAt(f, k \div BLOCK_SIZE)' = BlockAt(f, k \div BLOCK_SIZE)
        BY ONLY <3>2, <3>3
      <4> QED BY ONLY <3>1, <4>1, <4>2 DEF Kept
    <3>5. OnlyMoves(p)
      BY <1>1, <1>4, <1>5, <1>8, <2>2, <3>4 DEF OnlyMoves
    <3>6. BytesOf(f)'
      <4>1. BytesOf(f)
        BY DEF Inv, FileHoldsItsBytes, BytesOf
      <4> QED BY <1>4, <3>1, <3>2, <3>3, <4>1 DEF BytesOf
    <3>7. Allocated(f)'
      <4>1. Allocated(f)
        BY DEF Inv
      <4> QED BY <1>4, <3>1, <3>2, <4>1 DEF Allocated
    <3> QED BY <3>5, <3>6, <3>7
  <2>6. Allocated(desc[p].file)' /\ BytesOf(desc[p].file)'
    BY <1>1, <1>4, <2>5 DEF Allocated, BytesOf
  <2>7. NothingAhead'
    <3>1. DiskFull' \/ Clear(desc[p].file, Reserved(p))'
      BY <1>1, <1>4, <1>12 DEF Clear
    <3> QED BY <1>4, <1>5, <1>8, <1>11, <3>1, AheadKept
  <2>8. Positioned(p)'
    <3>1. desc[p].fd_pos <= inode[f].i_size
      BY <1>1 DEF Inv, Openings, Size
    <3> QED BY <1>1, <1>4, <1>8, <3>1 DEF Positioned, Size
  <2>9. ReadFits(p)' /\ ExactRead(p)'
    BY <1>5, <1>13 DEF ReadFits, ExactRead
  <2> QED BY ONLY Inv, <1>13, <2>2, <2>3, <2>4, <2>5, <2>6, <2>7, <2>8, <2>9, StepInv, p \in Process
<1> QED BY <1>7, <1>15, <1>16

(* The block that a write has come to.                                     *)
LEMMA DataIs ==
    ASSUME Inv, NEW p \in Process, pc[p] \in {"data", "put", "grow"},
           NEW f \in File, f = desc[p].file,
           NEW size, size = inode[f].i_size,
           NEW n, n = size \div BLOCK_SIZE
    PROVE  /\ Writing(p) /\ size \in Nat /\ n \in Nat /\ n \in Index
           /\ n <= local[p].will - 1 /\ Planned(p) /\ Ready(p)
           /\ local[p].blocks[n] = BlockAt(f, n) /\ local[p].blocks[n] \in Block
           /\ local[p].blocks[n] # NoBlock
           /\ Start(p) = size - (size % BLOCK_SIZE)
           /\ desc[p].writes /\ Size(p) = size
           /\ local[p].out = <<>> /\ Reserved(p) = local[p].will
           /\ BytesOf(f)
<1>1. Writing(p)
  BY DEF Writing
<1>2. /\ desc[p].writes /\ Size(p) = size /\ size \in Nat
      /\ local[p].will \in Nat /\ local[p].will <= AllBlocks
      /\ BlocksOf(size) <= local[p].will
      /\ \A i \in 0 .. BlocksOf(size) - 1 : i \in Index /\ BlockAt(f, i) # NoBlock
  BY ONLY Inv, <1>1, f \in File, f = desc[p].file, size = inode[f].i_size, WriterIs, p \in Process
<1>3. n \in Nat /\ BlocksOf(size) = n + 1
  BY <1>2, Division DEF BlocksOf
<1>4. n \in 0 .. BlocksOf(size) - 1 /\ n \in BlocksOf(size) - 1 .. local[p].will - 1
      /\ n <= local[p].will - 1
  BY ONLY <1>2, <1>3
<1>5. Planned(p) /\ Ready(p)
  BY <1>1 DEF Inv, WriteFits
<1>6. local[p].blocks[n] = BlockAt(f, n)
  BY ONLY <1>2, <1>4, <1>5, f = desc[p].file DEF Ready
<1>7. BlockAt(f, n) # NoBlock /\ n \in Index
  BY ONLY <1>2, <1>4
<1>8. BlockAt(f, n) \in Block
  BY <1>7, Addresses DEF Inv
<1>9. Start(p) = size - (size % BLOCK_SIZE)
  BY <1>2 DEF Start
<1>10. local[p].out = <<>>
  BY DEF Inv, ReadFits
<1>11. Reserved(p) = local[p].will
  BY DEF Reserved
<1>12. BytesOf(f)
  BY DEF Inv, FileHoldsItsBytes, BytesOf
<1> QED BY ONLY <1>1, <1>2, <1>3, <1>4, <1>5, <1>6, <1>7, <1>8, <1>9, <1>10, <1>11, <1>12

LEMMA ReadFirstInv ==
    ASSUME Inv, NEW p \in Process, ReadFirst(p)
    PROVE  Inv'
<1>1. PICK f \in File : f = desc[p].file
  BY DEF Inv, Types
<1>2. PICK w \in Locals : w = local[p]
  BY DEF Inv, Types
<1>3. PICK size : size = inode[f].i_size
  OBVIOUS
<1>4. PICK n : n = size \div BLOCK_SIZE
  OBVIOUS
<1>5. PICK io : io = IF w.first THEN disk[w.blocks[n]] ELSE EmptyBlock
  OBVIOUS
<1>6. pc[p] = "data" /\ pc' = [pc EXCEPT ![p] = "put"]
      /\ inode' = inode /\ used' = used /\ disk' = disk /\ desc' = desc /\ panic' = panic
  BY DEF ReadFirst, At
<1>7. /\ Writing(p) /\ size \in Nat /\ n \in Nat /\ n \in Index
      /\ Planned(p) /\ Ready(p)
      /\ w.blocks[n] = BlockAt(f, n) /\ w.blocks[n] \in Block
      /\ Start(p) = size - (size % BLOCK_SIZE)
      /\ desc[p].writes /\ Size(p) = size
      /\ w.out = <<>> /\ Reserved(p) = w.will /\ BytesOf(f)
  BY ONLY SMTT(100), Inv, <1>1, <1>2, <1>3, <1>4, <1>6, DataIs, p \in Process
<1>8. local' = [local EXCEPT ![p].io = io, ![p].first = FALSE]
  BY <1>1, <1>2, <1>3, <1>4, <1>5, <1>7 DEF ReadFirst
<1>9. io \in [Offset -> Word]
  <2>1. disk[w.blocks[n]] \in [Offset -> Word]
    BY <1>7 DEF Inv, Types
  <2>2. EmptyBlock \in [Offset -> Word]
    BY DEF EmptyBlock, Word, Block
  <2> QED BY <1>5, <2>1, <2>2
<1>10. PICK new : new = [w EXCEPT !.io = io, !.first = FALSE]
  OBVIOUS
<1>11. /\ new \in Locals /\ new.io = io /\ new.first = FALSE /\ new.out = w.out
       /\ new.left = w.left /\ new.will = w.will /\ new.blocks = w.blocks
  BY ONLY <1>9, <1>10, w \in Locals DEF Locals
<1>12. /\ local'[p] = new /\ local' \in [Process -> Locals] /\ pc'[p] = "put"
       /\ \A u \in Process \ {p} : pc'[u] = pc[u] /\ local'[u] = local[u]
  BY <1>2, <1>6, <1>8, <1>10, <1>11 DEF Inv, Types
<1>13. Types' /\ NoPanic'
  BY <1>6, <1>12 DEF Inv, Types, NoPanic
<1>14. Size(p)' = Size(p) /\ Sectors(p)' = Sectors(p) /\ Start(p)' = Start(p)
  BY <1>6 DEF Size, Sectors, Start
<1>15. \A o \in Offset : o < size % BLOCK_SIZE => io[o] = <<f, (size - (size % BLOCK_SIZE)) + o>>
  <2> SUFFICES ASSUME NEW o \in Offset, o < size % BLOCK_SIZE
               PROVE  io[o] = <<f, (size - (size % BLOCK_SIZE)) + o>>
    OBVIOUS
  <2>1. size % BLOCK_SIZE \in Nat /\ size % BLOCK_SIZE <= size /\ o \in Nat /\ o < BLOCK_SIZE
    BY <1>7, Division, FileBlocksAssumption
  <2>2. w.first
    <3>1. w.first \/ Size(p) % BLOCK_SIZE = 0
      BY <1>2, <1>6 DEF Inv, WriteFits
    <3> QED BY <1>7, <2>1, <3>1
  <2>3. PICK i \in Nat : i = (size - (size % BLOCK_SIZE)) + o
    BY <1>7, <2>1
  <2>4. i \in 0 .. size - 1
    BY <1>7, <2>1, <2>3
  <2>5. i \div BLOCK_SIZE = n /\ i % BLOCK_SIZE = o
    BY <1>4, <1>7, <2>1, <2>3, SameBlock
  <2>6. disk[BlockAt(f, i \div BLOCK_SIZE)][i % BLOCK_SIZE] = <<f, i>>
    BY <1>3, <1>7, <2>4 DEF BytesOf
  <2> QED BY ONLY <1>5, <1>7, <2>2, <2>3, <2>5, <2>6
<1>16. WriteFits(p)'
  <2>1. Planned(p)'
    BY ONLY <1>2, <1>7, <1>11, <1>12, <1>14 DEF Planned, BlocksOf
  <2>2. Ready(p)'
    <3>1. \A i : BlockAt(f, i)' = BlockAt(f, i)
      BY <1>6 DEF BlockAt, TableEntry
    <3>2. desc'[p] = desc[p]
      BY <1>6
    <3> QED BY ONLY <1>1, <1>2, <1>7, <1>11, <1>12, <1>14, <3>1, <3>2 DEF Ready, BlocksOf
  <2>3. Holds(p, local[p].io, Size(p) % BLOCK_SIZE)'
    BY <1>1, <1>6, <1>7, <1>11, <1>12, <1>14, <1>15 DEF Holds
  <2> QED BY ONLY <1>12, <2>1, <2>2, <2>3 DEF WriteFits
<1>17. Writing(p)' /\ Fresh(p)' = {} /\ Reserved(p)' = w.will
  BY <1>11, <1>12 DEF Writing, Fresh, Reserved
<1>18. DiskFull' \/ Clear(f, Reserved(p))'
  <2>1. DiskFull \/ Clear(f, Reserved(p))
    BY ONLY Inv, <1>1, <1>7, WriterIs, p \in Process
  <2> QED BY <1>6, <1>7, <1>17, <2>1 DEF DiskFull, Clear
<1>19. local'[p].out = <<>>
  BY <1>7, <1>11, <1>12
<1> QED BY ONLY Inv, <1>1, <1>6, <1>7, <1>12, <1>13, <1>16, <1>17, <1>18, <1>19,
                WriterQuiet, p \in Process

(* A block of f's bytes is written: no address on the disk changes.        *)
LEMMA OneBlockChanges ==
    ASSUME Inv, NEW f \in File, NEW n \in Index,
           NEW b, b = BlockAt(f, n), b # NoBlock,
           \A c \in Block : c # b => disk'[c] = disk[c], UNCHANGED <<inode, used>>
    PROVE  /\ Ownership'
           /\ \A g \in File \ {f} : Untouched(g)
           /\ \A g \in File, k \in Entries : Addr(g, k)' = Addr(g, k)
           /\ \A i \in Index : BlockAt(f, i)' = BlockAt(f, i)
           /\ \A i \in Index : i # n => disk'[BlockAt(f, i)] = disk[BlockAt(f, i)]
<1>1. Types /\ Ownership
  BY DEF Inv
<1>2. PICK e \in Entries : e = EntryOf(n)
  BY EntryIs
<1>3. e # Direct /\ b = Addr(f, e) /\ b \in used /\ b \in Block
  BY <1>1, <1>2, EntryIs, Addresses DEF Ownership
<1>4. \A c \in Block : c # b => disk'[c] = disk[c]
  OBVIOUS
<1>5. ASSUME NEW g \in File, NEW k \in Entries, g # f \/ k # e
      PROVE  disk'[Addr(g, k)] = disk[Addr(g, k)]
  <2>1. Addr(g, k) # b /\ Addr(g, k) \in Block
    BY <1>1, <1>3, <1>5, Addresses DEF Ownership
  <2> QED BY <1>4, <2>1
<1>6. inode' = inode
  OBVIOUS
<1>7. \A g \in File \ {f} : Untouched(g)
  BY <1>5, <1>6 DEF Untouched
<1>8. \A g \in File : disk'[inode[g].i_sectors[Direct]] = disk[inode[g].i_sectors[Direct]]
  <2>1. Direct \in Entries /\ Direct \in Nat
    BY FileBlocksAssumption DEF Entries
  <2> QED BY <1>3, <1>5, <2>1 DEF Addr
<1>9. \A g \in File, k \in Entries : Addr(g, k)' = Addr(g, k)
  BY <1>6, <1>8 DEF Addr, TableEntry
<1>10. \A i \in Index : BlockAt(f, i)' = BlockAt(f, i)
  BY <1>6, <1>8 DEF BlockAt, TableEntry
<1>11. ASSUME NEW i \in Index, i # n
       PROVE  disk'[BlockAt(f, i)] = disk[BlockAt(f, i)]
  <2>1. EntryOf(i) # e /\ EntryOf(i) \in Entries /\ BlockAt(f, i) = Addr(f, EntryOf(i))
    BY <1>2, <1>11, EntryIs
  <2> QED BY <1>5, <2>1
<1>12. Ownership'
  <2>1. ASSUME NEW c \in Block, Free(c)'
        PROVE  disk'[c] = EmptyBlock
    <3>1. Free(c) /\ c # b
      BY <1>3, <2>1 DEF Free
    <3> QED BY <1>1, <1>4, <3>1 DEF Ownership
  <2>2. used' = used
    OBVIOUS
  <2> HIDE DEF Addr, Free
  <2> QED BY <1>1, <1>9, <2>1, <2>2 DEF Ownership
<1> QED BY <1>7, <1>9, <1>10, <1>11, <1>12

LEMMA PutBlockInv ==
    ASSUME Inv, NEW p \in Process, PutBlock(p)
    PROVE  Inv'
<1>1. PICK f \in File : f = desc[p].file
  BY DEF Inv, Types
<1>2. PICK w \in Locals : w = local[p]
  BY DEF Inv, Types
<1>3. PICK size : size = inode[f].i_size
  OBVIOUS
<1>4. PICK n : n = size \div BLOCK_SIZE
  OBVIOUS
<1>5. PICK off : off = size % BLOCK_SIZE
  OBVIOUS
<1>6. PICK chunk : chunk = ChunkSize(w.left, size)
  OBVIOUS
<1>7. PICK b : b = w.blocks[n]
  OBVIOUS
<1>8. PICK block : block = [o \in Offset |-> IF off <= o /\ o < off + chunk
                                             THEN <<f, (size - off) + o>>
                                             ELSE w.io[o]]
  OBVIOUS
<1>9. pc[p] = "put" /\ pc' = [pc EXCEPT ![p] = "grow"]
      /\ inode' = inode /\ used' = used /\ desc' = desc /\ local' = local /\ panic' = panic
  BY DEF PutBlock, At
<1>10. disk' = [disk EXCEPT ![b] = block]
  BY <1>1, <1>2, <1>3, <1>4, <1>5, <1>6, <1>7, <1>8 DEF PutBlock, Size
<1>11. /\ Writing(p) /\ size \in Nat /\ n \in Nat /\ n \in Index
       /\ Planned(p) /\ Ready(p)
       /\ b = BlockAt(f, n) /\ b \in Block /\ b # NoBlock
       /\ Start(p) = size - off
       /\ desc[p].writes /\ Size(p) = size
       /\ w.out = <<>> /\ Reserved(p) = w.will /\ BytesOf(f)
  <2>1. /\ Writing(p) /\ size \in Nat /\ n \in Nat /\ n \in Index
        /\ Planned(p) /\ Ready(p)
        /\ w.blocks[n] = BlockAt(f, n) /\ w.blocks[n] \in Block /\ w.blocks[n] # NoBlock
        /\ Start(p) = size - (size % BLOCK_SIZE)
        /\ desc[p].writes /\ Size(p) = size
        /\ w.out = <<>> /\ Reserved(p) = w.will /\ BytesOf(f)
    BY ONLY Inv, <1>1, <1>2, <1>3, <1>4, <1>9, DataIs, p \in Process
  <2> QED BY ONLY <1>5, <1>7, <2>1
<1>12. /\ Ownership'
       /\ \A g \in File \ {f} : Untouched(g)
       /\ \A g \in File, k \in Entries : Addr(g, k)' = Addr(g, k)
       /\ \A i \in Index : BlockAt(f, i)' = BlockAt(f, i)
       /\ \A i \in Index : i # n => disk'[BlockAt(f, i)] = disk[BlockAt(f, i)]
       /\ disk'[b] = block
  <2>1. f \in File /\ n \in Index /\ b = BlockAt(f, n) /\ b # NoBlock
    BY ONLY <1>1, <1>11
  <2>2. UNCHANGED <<inode, used>>
    BY ONLY <1>9
  <2>3. disk'[b] = block /\ \A c \in Block : c # b => disk'[c] = disk[c]
    <3>1. disk \in [Block -> [Offset -> Word]]
      BY DEF Inv, Types
    <3> QED BY ONLY <1>10, <1>11, <3>1
  <2>4. /\ Ownership'
        /\ \A g \in File \ {f} : Untouched(g)
        /\ \A g \in File, k \in Entries : Addr(g, k)' = Addr(g, k)
        /\ \A i \in Index : BlockAt(f, i)' = BlockAt(f, i)
        /\ \A i \in Index : i # n => disk'[BlockAt(f, i)] = disk[BlockAt(f, i)]
    BY ONLY Inv, <2>1, <2>2, <2>3, OneBlockChanges
  <2> QED BY ONLY <2>3, <2>4
<1>13. /\ off \in Nat /\ off <= size /\ off < BLOCK_SIZE /\ BLOCK_SIZE \in Nat \ {0}
       /\ w.left \in Nat \ {0} /\ chunk \in Nat
  <2>1. off \in Nat /\ off <= size /\ off < BLOCK_SIZE /\ BLOCK_SIZE \in Nat \ {0}
    BY <1>5, <1>11, Division, FileBlocksAssumption
  <2>2. w.left \in Nat \ {0}
    BY <1>2, <1>11 DEF Planned, Locals
  <2> QED BY <1>6, <1>11, <2>1, <2>2, Chunk
<1>14. block \in [Offset -> Word]
  <2>1. w.io \in [Offset -> Word]
    BY DEF Locals
  <2>2. ASSUME NEW o \in Offset
        PROVE  <<f, (size - off) + o>> \in Word
    <3>1. (size - off) + o \in Nat
      BY <1>11, <1>13
    <3> QED BY <3>1 DEF Word, Byte
  <2> QED BY <1>8, <2>1, <2>2
<1>15. pc'[p] = "grow" /\ \A u \in Process \ {p} : pc'[u] = pc[u] /\ local'[u] = local[u]
  BY <1>9 DEF Inv, Types
<1>16. Types' /\ NoPanic'
  <2>1. disk' \in [Block -> [Offset -> Word]]
    BY <1>10, <1>14 DEF Inv, Types
  <2>2. pc' \in [Process -> {"run", "plan", "alloc", "data", "put", "grow", "fetch"}]
    BY <1>9 DEF Inv, Types
  <2> QED BY <1>9, <2>1, <2>2 DEF Inv, Types, NoPanic
<1>17. \A o \in Offset : o < off + chunk => block[o] = <<f, (size - off) + o>>
  <2>1. Holds(p, w.io, off)
    BY <1>2, <1>5, <1>9, <1>11 DEF Inv, WriteFits
  <2>2. ASSUME NEW o \in Offset, o < off + chunk
        PROVE  block[o] = <<f, (size - off) + o>>
    <3>1. CASE off <= o
      BY <1>8, <2>2, <3>1
    <3>2. CASE ~(off <= o)
      <4>1. o < off
        BY <1>13, <3>2
      <4> QED BY <1>1, <1>8, <1>11, <2>1, <3>2, <4>1 DEF Holds
    <3> QED BY <3>1, <3>2
  <2> QED BY <2>2
<1>18. BytesOf(f)' /\ Kept(f) /\ Allocated(f)'
  <2>1. Allocated(f)
    BY DEF Inv
  <2>2. ASSUME NEW k \in 0 .. size
        PROVE  k \div BLOCK_SIZE \in Index
    BY <1>3, <1>11, <2>1, ByteBlocks DEF Allocated
  <2>3. Kept(f)
    <3>1. inode[f].i_size <= inode'[f].i_size
      BY <1>3, <1>9, <1>11
    <3>2. \A k \in 0 .. size - 1 : k \in 0 .. size
      BY <1>11
    <3>3. \A k \in 0 .. size - 1 :
             BlockAt(f, k \div BLOCK_SIZE)' = BlockAt(f, k \div BLOCK_SIZE)
      BY ONLY <1>12, <2>2, <3>2
    <3> QED BY ONLY <1>3, <3>1, <3>3 DEF Kept
  <2>4. Allocated(f)'
    <3>1. \A i \in 0 .. n : i \in Index
      BY ONLY <1>11, <1>13, FileBlocksAssumption DEF Index, AllBlocks
    <3> QED BY <1>3, <1>4, <1>9, <1>12, <2>1, <3>1 DEF Allocated
  <2>5. ASSUME NEW k \in 0 .. size - 1
        PROVE  disk'[BlockAt(f, k \div BLOCK_SIZE)'][k % BLOCK_SIZE] = <<f, k>>
    <3>1. k \in 0 .. size /\ k \in Nat
      BY <1>11
    <3>2. k \div BLOCK_SIZE \in Index
      BY <2>2, <3>1
    <3>3. BlockAt(f, k \div BLOCK_SIZE)' = BlockAt(f, k \div BLOCK_SIZE)
      BY ONLY <1>12, <3>2
    <3>4. disk[BlockAt(f, k \div BLOCK_SIZE)][k % BLOCK_SIZE] = <<f, k>>
      BY <1>3, <1>11 DEF BytesOf
    <3>5. CASE k \div BLOCK_SIZE = n
      <4>1. PICK o \in Offset : o = k % BLOCK_SIZE
        BY <3>1, Division
      <4>2. k - o = size - off
        BY <1>4, <1>5, <1>11, <3>1, <3>5, <4>1, OffsetsDiffer
      <4>3. o < off + chunk /\ (size - off) + o = k
        BY <1>11, <1>13, <4>2
      <4>4. block[o] = <<f, k>>
        BY <1>17, <4>3
      <4> QED BY ONLY <1>11, <1>12, <3>3, <3>5, <4>1, <4>4
    <3>6. CASE k \div BLOCK_SIZE # n
      <4>1. disk'[BlockAt(f, k \div BLOCK_SIZE)] = disk[BlockAt(f, k \div BLOCK_SIZE)]
        BY ONLY <1>12, <3>2, <3>6
      <4> QED BY ONLY <3>3, <3>4, <4>1
    <3> QED BY <3>5, <3>6
  <2>6. inode'[f].i_size = size
    BY <1>3, <1>9
  <2> QED BY ONLY <2>3, <2>4, <2>5, <2>6 DEF BytesOf
<1>19. OnlyMoves(p)
  BY <1>1, <1>9, <1>11, <1>12, <1>15, <1>18 DEF OnlyMoves
<1>20. Writing(p)' /\ Fresh(p)' = {} /\ Reserved(p)' = w.will
  BY <1>2, <1>9, <1>15 DEF Writing, Fresh, Reserved
<1>21. Hands'
  BY <1>9, <1>12, <1>15, <1>20, HandsKept
<1>22. NothingAhead'
  <2>1. DiskFull \/ Clear(f, Reserved(p))
    BY ONLY Inv, <1>1, <1>11, WriterIs, p \in Process
  <2>2. DiskFull' \/ Clear(desc[p].file, Reserved(p))'
    BY <1>1, <1>9, <1>11, <1>20, <2>1 DEF DiskFull, Clear
  <2> QED BY <1>9, <1>11, <1>15, <1>20, <2>2, AheadKept
<1>23. Size(p)' = Size(p) /\ Sectors(p)' = Sectors(p) /\ Start(p)' = Start(p)
  BY <1>9 DEF Size, Sectors, Start
<1>24. WriteFits(p)'
  <2>1. Planned(p)'
    BY ONLY <1>2, <1>9, <1>11, <1>23 DEF Planned, BlocksOf
  <2>2. Ready(p)'
    <3>1. \A i \in n .. w.will - 1 : i \in Index
      <4>1. w.will \in Nat /\ w.will <= AllBlocks
        BY ONLY Inv, <1>1, <1>2, <1>11, WriterIs, p \in Process
      <4> QED BY ONLY <1>11, <1>13, <4>1, FileBlocksAssumption DEF Index, AllBlocks
    <3>2. BlocksOf(size) - 1 = n /\ BlocksOf(Size(p)) = BlocksOf(size)
      BY <1>4, <1>11 DEF BlocksOf
    <3>3. BlocksOf(Size(p))' = BlocksOf(Size(p))
      BY <1>23 DEF BlocksOf
    <3>4. desc'[p].file = f
      BY <1>1, <1>9
    <3> QED BY ONLY <1>1, <1>2, <1>9, <1>11, <1>12, <3>1, <3>2, <3>3, <3>4 DEF Ready
  <2>3. Holds(p, disk[local[p].blocks[Size(p) \div BLOCK_SIZE]],
                (Size(p) % BLOCK_SIZE) + ChunkSize(local[p].left, Size(p)))'
    <3>1. /\ Size(p)' = size /\ Start(p)' = size - off /\ desc'[p].file = f /\ local'[p] = w
      BY <1>1, <1>2, <1>9, <1>11, <1>23
    <3>2. /\ disk'[local'[p].blocks[Size(p)' \div BLOCK_SIZE]] = block
          /\ Size(p)' % BLOCK_SIZE = off
      BY <1>4, <1>5, <1>7, <1>12, <3>1
    <3>3. ChunkSize(local[p].left, Size(p))' = chunk
      BY <1>6, <3>1 DEF ChunkSize, Smaller
    <3> QED BY ONLY <1>17, <3>1, <3>2, <3>3 DEF Holds
  <2> QED BY ONLY <1>15, <2>1, <2>2, <2>3 DEF WriteFits
<1>25. Positioned(p)'
  <2>1. desc[p].fd_pos <= Size(p)
    BY DEF Inv, Openings
  <2> QED BY <1>9, <1>11, <1>23, <2>1 DEF Positioned
<1>26. ReadFits(p)' /\ ExactRead(p)'
  <2>1. local'[p].out = <<>>
    BY <1>2, <1>9, <1>11
  <2> QED BY <1>15, <2>1 DEF ReadFits, ExactRead
<1>27. Allocated(desc[p].file)' /\ BytesOf(desc[p].file)'
  BY <1>1, <1>9, <1>18 DEF Allocated, BytesOf
<1> QED BY ONLY Inv, <1>12, <1>16, <1>19, <1>21, <1>22, <1>24, <1>25, <1>26, <1>27, StepInv, p \in Process

(* The bytes that PutBlock wrote become part of the file.                  *)
LEMMA GrownBytes ==
    ASSUME Inv, NEW p \in Process, pc[p] = "grow", NEW f \in File, f = desc[p].file,
           NEW size, size = inode[f].i_size,
           NEW chunk, chunk = ChunkSize(local[p].left, size),
           UNCHANGED disk, inode'[f].i_size = size + chunk,
           inode'[f].i_sectors = inode[f].i_sectors
    PROVE  /\ size \in Nat /\ chunk \in Nat \ {0} /\ chunk <= local[p].left
           /\ BlocksOf(size + chunk) \in Nat /\ BlocksOf(size + chunk) <= local[p].will
           /\ BytesOf(f)' /\ Kept(f) /\ Allocated(f)'
<1>1. PICK n : n = size \div BLOCK_SIZE
  OBVIOUS
<1>2. PICK off : off = size % BLOCK_SIZE
  OBVIOUS
<1>3. PICK b : b = local[p].blocks[n]
  OBVIOUS
<1>4. /\ size \in Nat /\ n \in Nat /\ n \in Index /\ Planned(p) /\ Ready(p) /\ Writing(p)
      /\ b = BlockAt(f, n)
      /\ Start(p) = size - off /\ Size(p) = size /\ BytesOf(f)
  <2>1. /\ size \in Nat /\ n \in Nat /\ n \in Index /\ Planned(p) /\ Ready(p) /\ Writing(p)
        /\ local[p].blocks[n] = BlockAt(f, n)
        /\ Start(p) = size - (size % BLOCK_SIZE) /\ Size(p) = size /\ BytesOf(f)
    BY ONLY Inv, <1>1, pc[p] = "grow", f \in File, f = desc[p].file, size = inode[f].i_size,
            DataIs, p \in Process
  <2> QED BY ONLY <1>2, <1>3, <2>1
<1>5. /\ local[p].left \in Nat \ {0} /\ local[p].will \in Nat /\ local[p].will <= AllBlocks
      /\ local[p].will = BlocksOf(size + local[p].left)
      /\ \A i \in 0 .. BlocksOf(size) - 1 : i \in Index /\ BlockAt(f, i) # NoBlock
  BY ONLY Inv, <1>4, f \in File, f = desc[p].file, size = inode[f].i_size, WriterIs, p \in Process
<1>6. /\ off \in Nat /\ off <= size /\ off < BLOCK_SIZE /\ BLOCK_SIZE \in Nat \ {0}
      /\ chunk \in Nat \ {0} /\ chunk <= local[p].left /\ off + chunk <= BLOCK_SIZE
  <2>1. off \in Nat /\ off <= size /\ off < BLOCK_SIZE /\ BLOCK_SIZE \in Nat \ {0}
    BY <1>2, <1>4, Division, FileBlocksAssumption
  <2>2. chunk \in Nat \ {0} /\ chunk <= local[p].left /\ off + chunk <= BLOCK_SIZE
    BY ONLY <1>2, <1>4, <1>5, chunk = ChunkSize(local[p].left, size), Chunk
  <2> QED BY <2>1, <2>2
<1>7. /\ (size + chunk) \div BLOCK_SIZE \in Nat
      /\ (size + chunk) \div BLOCK_SIZE <= local[p].will - 1
  <2>1. size + chunk \in Nat /\ size + local[p].left \in Nat
        /\ size + chunk <= size + local[p].left
    BY <1>4, <1>5, <1>6
  <2>2. (size + chunk) \div BLOCK_SIZE <= (size + local[p].left) \div BLOCK_SIZE
    BY <2>1, Monotone
  <2>3. (size + chunk) \div BLOCK_SIZE \in Nat /\ (size + local[p].left) \div BLOCK_SIZE \in Nat
    BY <2>1, Division
  <2> QED BY SMTT(100), <1>5, <2>2, <2>3 DEF BlocksOf
<1>8. \A i : BlockAt(f, i)' = BlockAt(f, i)
  BY DEF BlockAt, TableEntry
<1>9. Kept(f)
  <2>1. inode[f].i_size <= inode'[f].i_size
    BY <1>4, <1>6
  <2> QED BY ONLY <1>8, <2>1 DEF Kept
<1>10. Allocated(f)'
  <2>1. ASSUME NEW i \in 0 .. (size + chunk) \div BLOCK_SIZE
        PROVE  BlockAt(f, i)' # NoBlock
    <3>1. CASE i <= n
      <4>1. i \in Nat /\ i \in 0 .. n
        BY ONLY <1>4, <1>7, <3>1, i \in 0 .. (size + chunk) \div BLOCK_SIZE
      <4>2. BlocksOf(size) - 1 = n
        BY ONLY <1>1, <1>4 DEF BlocksOf
      <4> QED BY <1>5, <1>8, <4>1, <4>2
    <3>2. CASE ~(i <= n)
      <4>1. i \in BlocksOf(Size(p)) - 1 .. local[p].will - 1
        <5>1. BlocksOf(Size(p)) - 1 = n
          BY ONLY <1>1, <1>4 DEF BlocksOf
        <5>2. i \in n .. local[p].will - 1
          BY ONLY <1>4, <1>5, <1>7, <3>2, i \in 0 .. (size + chunk) \div BLOCK_SIZE
        <5> QED BY ONLY <5>1, <5>2
      <4> QED BY ONLY <1>4, <1>8, <4>1, f = desc[p].file DEF Ready
    <3> QED BY <3>1, <3>2
  <2>2. BlocksOf(inode[f].i_size)' <= AllBlocks
    BY <1>5, <1>7, FileBlocksAssumption DEF BlocksOf
  <2> QED BY <2>1, <2>2 DEF Allocated
<1>11. BytesOf(f)'
  <2>1. ASSUME NEW k \in 0 .. (size + chunk) - 1
        PROVE  disk[BlockAt(f, k \div BLOCK_SIZE)][k % BLOCK_SIZE] = <<f, k>>
    <3>1. CASE k < size
      <4>1. k \in 0 .. size - 1
        BY <1>4, <1>6, <3>1
      <4> QED BY <1>4, <4>1 DEF BytesOf
    <3>2. CASE ~(k < size)
      <4>1. PICK o \in Nat : o = off + (k - size)
        BY <1>4, <1>6, <3>2
      <4>2. o \in Offset /\ o < off + chunk /\ (size - off) + o = k
        BY <1>4, <1>6, <3>2, <4>1
      <4>3. k \div BLOCK_SIZE = n /\ k % BLOCK_SIZE = o
        <5>1. o < BLOCK_SIZE /\ (size - (size % BLOCK_SIZE)) + o = k
          BY <1>2, <1>6, <4>2
        <5> QED BY <1>1, <1>4, <5>1, SameBlock
      <4>4. Holds(p, disk[b], off + chunk)
        BY <1>1, <1>2, <1>3, <1>4 DEF Inv, WriteFits
      <4> QED BY <1>4, <4>2, <4>3, <4>4 DEF Holds
    <3> QED BY <3>1, <3>2
  <2>2. inode'[f].i_size = size + chunk /\ disk' = disk
    OBVIOUS
  <2> QED BY ONLY <1>8, <2>1, <2>2 DEF BytesOf
<1>12. BlocksOf(size + chunk) \in Nat /\ BlocksOf(size + chunk) <= local[p].will
  BY SMTT(100), <1>5, <1>7 DEF BlocksOf
<1> QED BY ONLY <1>4, <1>6, <1>9, <1>10, <1>11, <1>12

LEMMA GrowInv ==
    ASSUME Inv, NEW p \in Process, Grow(p)
    PROVE  Inv'
<1>1. PICK f \in File : f = desc[p].file
  BY DEF Inv, Types
<1>2. PICK w \in Locals : w = local[p]
  BY DEF Inv, Types
<1>3. PICK size : size = inode[f].i_size
  OBVIOUS
<1>4. PICK chunk : chunk = ChunkSize(w.left, size)
  OBVIOUS
<1>5. pc[p] = "grow" /\ used' = used /\ disk' = disk /\ panic' = panic
  BY DEF Grow, At
<1>6. Size(p) = size
  BY <1>1, <1>3 DEF Size
<1>7. /\ inode' = [inode EXCEPT ![f].i_size = size + chunk]
      /\ \/ /\ chunk = w.left
            /\ desc' = [desc EXCEPT ![p].fd_pos = (size + chunk) - 1]
            /\ pc' = [pc EXCEPT ![p] = "run"]
            /\ local' = [local EXCEPT ![p] = NoLocals]
         \/ /\ chunk # w.left
            /\ desc' = desc
            /\ pc' = [pc EXCEPT ![p] = "data"]
            /\ local' = [local EXCEPT ![p].left = w.left - chunk]
  <2>1. chunk = ChunkSize(local[p].left, Size(p))
    BY ONLY <1>2, <1>4, <1>6
  <2>2. /\ inode' = [inode EXCEPT ![desc[p].file].i_size = inode[desc[p].file].i_size + chunk]
        /\ IF chunk = local[p].left
           THEN /\ desc' = [desc EXCEPT ![p].fd_pos = (Size(p) + chunk) - 1]
                /\ Return(p)
           ELSE /\ local' = [local EXCEPT ![p].left = local[p].left - chunk]
                /\ Goto(p, "data")
                /\ UNCHANGED desc
    BY ONLY Grow(p), <2>1 DEF Grow
  <2>3. inode' = [inode EXCEPT ![f].i_size = size + chunk]
    BY ONLY <1>1, <1>3, <2>2
  <2>4. CASE chunk = w.left
    <3>1. chunk = local[p].left
      BY ONLY <1>2, <2>4
    <3>2. desc' = [desc EXCEPT ![p].fd_pos = (Size(p) + chunk) - 1] /\ Return(p)
      BY ONLY <2>2, <3>1
    <3> QED BY ONLY <1>6, <2>3, <2>4, <3>2 DEF Return, Goto
  <2>5. CASE chunk # w.left
    <3>1. chunk # local[p].left
      BY ONLY <1>2, <2>5
    <3>2. /\ local' = [local EXCEPT ![p].left = local[p].left - chunk]
          /\ Goto(p, "data") /\ UNCHANGED desc
      BY ONLY <2>2, <3>1
    <3>3. local' = [local EXCEPT ![p].left = w.left - chunk]
      BY ONLY <1>2, <3>2
    <3> QED BY ONLY <2>3, <2>5, <3>2, <3>3 DEF Goto
  <2> QED BY ONLY <2>4, <2>5
<1>8. /\ inode'[f].i_size = size + chunk
      /\ inode'[f].i_sectors = inode[f].i_sectors
      /\ \A g \in File \ {f} : inode'[g] = inode[g]
  BY <1>1, <1>7 DEF Inv, Types
<1>9. /\ size \in Nat /\ chunk \in Nat \ {0} /\ chunk <= w.left
      /\ BlocksOf(size + chunk) \in Nat /\ BlocksOf(size + chunk) <= w.will
      /\ BytesOf(f)' /\ Kept(f) /\ Allocated(f)'
  <2> QED BY ONLY Inv, <1>1, <1>2, <1>3, <1>4, <1>5, <1>8, GrownBytes, p \in Process
<1>10. /\ Writing(p) /\ desc[p].writes /\ w.left \in Nat \ {0} /\ w.will \in Nat
       /\ w.will <= AllBlocks
       /\ DiskFull \/ Clear(f, Reserved(p))
       /\ w.will = BlocksOf(size + w.left)
  <2>1. Writing(p)
    BY <1>5 DEF Writing
  <2> QED BY ONLY Inv, <1>1, <1>2, <1>3, <2>1, WriterIs, p \in Process
<1>11. /\ Reserved(p) = w.will /\ w.out = <<>> /\ Planned(p) /\ Ready(p)
  BY ONLY Inv, <1>1, <1>2, <1>3, <1>5, DataIs, p \in Process
<1>12. \A g \in File : inode'[g].i_sectors = inode[g].i_sectors
  BY <1>8
<1>13. /\ \A g \in File, k \in Entries : Addr(g, k)' = Addr(g, k)
       /\ \A g \in File : \A i : BlockAt(g, i)' = BlockAt(g, i)
  BY <1>5, <1>12 DEF Addr, BlockAt, TableEntry
<1>14. \A g \in File \ {f} : Untouched(g)
  BY <1>5, <1>8 DEF Untouched
<1>15. /\ \A u \in Process \ {p} : /\ pc'[u] = pc[u] /\ local'[u] = local[u]
                                   /\ desc'[u] = desc[u]
       /\ desc'[p].file = f /\ desc'[p].writes = desc[p].writes
  BY <1>1, <1>7 DEF Inv, Types
<1>16. OnlyMoves(p)
  BY <1>1, <1>9, <1>10, <1>14, <1>15 DEF OnlyMoves
<1>17. Ownership'
  <2>1. \A b \in Block : Free(b)' = Free(b)
    BY <1>5 DEF Free
  <2>2. Ownership
    BY DEF Inv
  <2> HIDE DEF Addr, Free
  <2> QED BY <1>5, <1>13, <2>1, <2>2 DEF Ownership
<1>18. Allocated(desc[p].file)' /\ BytesOf(desc[p].file)'
  BY <1>9, <1>15 DEF Allocated, BytesOf
<1>19. inode' \in [File -> [i_size : Nat, i_sectors : [0 .. Direct -> Block]]]
  <2>1. inode \in [File -> [i_size : Nat, i_sectors : [0 .. Direct -> Block]]]
    BY DEF Inv, Types
  <2>2. inode' = [inode EXCEPT ![f].i_size = size + chunk] /\ size + chunk \in Nat
    BY ONLY <1>7, <1>9
  <2> QED BY ONLY <1>1, <2>1, <2>2
<1>20. NoPanic'
  BY <1>5 DEF Inv, NoPanic
<1>22. CASE chunk = w.left
  <2>1. /\ pc' = [pc EXCEPT ![p] = "run"] /\ local' = [local EXCEPT ![p] = NoLocals]
        /\ desc' = [desc EXCEPT ![p].fd_pos = (size + chunk) - 1]
    BY <1>7, <1>22
  <2>2. (size + chunk) - 1 \in Nat /\ (size + chunk) - 1 <= size + chunk
    BY <1>9
  <2>3. pc'[p] = "run" /\ local'[p] = NoLocals /\ desc'[p].fd_pos = (size + chunk) - 1
    BY <2>1 DEF Inv, Types
  <2>4. Types'
    <3>1. /\ pc' \in [Process -> {"run", "plan", "alloc", "data", "put", "grow", "fetch"}]
          /\ desc' \in [Process -> [file : File, writes : BOOLEAN, fd_pos : Nat]]
      BY <2>1, <2>2 DEF Inv, Types
    <3>2. local' \in [Process -> Locals]
      <4> QED BY <2>1, NoLocalsFit DEF Inv, Types
    <3> QED BY <1>5, <1>19, <3>1, <3>2 DEF Inv, Types
  <2>5. (desc[p].fd_pos <= Size(p))'
    BY <1>8, <1>15, <2>2, <2>3 DEF Size
  <2>6. WriteFits(p)' /\ ReadFits(p)' /\ ExactRead(p)' /\ Positioned(p)' /\ Fresh(p)' = {}
    BY <2>3, <2>4, <2>5, Idle
  <2>7. Hands'
    BY <1>5, <1>13, <1>15, <2>6, HandsKept
  <2>8. NothingAhead'
    <3>1. ~Writing(p)'
      BY <2>3 DEF Writing
    <3>2. BlocksOf(size + chunk) = w.will
      BY <1>10, <1>22
    <3>3. DiskFull' \/ Clear(desc[p].file, BlocksOf(inode[desc[p].file].i_size))'
      <4>1. DiskFull \/ Clear(f, w.will)
        BY <1>10, <1>11
      <4>2. DiskFull' = DiskFull
        BY <1>5 DEF DiskFull
      <4>3. BlocksOf(inode[desc[p].file].i_size)' = w.will
        BY <1>8, <1>15, <3>2 DEF BlocksOf
      <4>4. Clear(f, w.will) => Clear(desc[p].file, BlocksOf(inode[desc[p].file].i_size))'
        BY <1>8, <1>15, <4>3 DEF Clear
      <4> QED BY <4>1, <4>2, <4>4
    <3>4. used \subseteq used' /\ desc'[p].file = desc[p].file
          /\ \A g \in File \ {desc[p].file} : inode'[g] = inode[g]
      BY <1>1, <1>5, <1>8, <1>15
    <3> QED BY ONLY Inv, <1>10, <1>15, <3>1, <3>3, <3>4, AheadKept, p \in Process
  <2> QED BY ONLY Inv, <1>16, <1>17, <1>18, <1>20, <2>4, <2>6, <2>7, <2>8, StepInv, p \in Process
<1>23. CASE chunk # w.left
  <2>1. /\ pc' = [pc EXCEPT ![p] = "data"] /\ desc' = desc
        /\ local' = [local EXCEPT ![p].left = w.left - chunk]
    BY <1>7, <1>23
  <2>2. w.left - chunk \in Nat \ {0} /\ (size + chunk) + (w.left - chunk) = size + w.left
    BY <1>9, <1>10, <1>23
  <2>3. PICK new : new = [w EXCEPT !.left = w.left - chunk]
    OBVIOUS
  <2>4. /\ new \in Locals /\ new.left = w.left - chunk /\ new.will = w.will
        /\ new.blocks = w.blocks /\ new.out = w.out
    BY ONLY <2>2, <2>3, w \in Locals DEF Locals
  <2>5. pc'[p] = "data" /\ local'[p] = new
    BY <1>2, <2>1, <2>3 DEF Inv, Types
  <2>6. Types'
    <3>1. pc' \in [Process -> {"run", "plan", "alloc", "data", "put", "grow", "fetch"}]
      BY <2>1 DEF Inv, Types
    <3>2. local' \in [Process -> Locals]
      <4>1. local' = [local EXCEPT ![p] = new]
        BY <1>2, <2>1, <2>3
      <4> QED BY <2>4, <4>1 DEF Inv, Types
    <3> QED BY <1>5, <1>19, <2>1, <3>1, <3>2 DEF Inv, Types
  <2>7. Writing(p)' /\ Fresh(p)' = {} /\ Reserved(p)' = w.will
    BY <2>4, <2>5 DEF Writing, Fresh, Reserved
  <2>8. Hands'
    BY <1>5, <1>13, <1>15, <2>7, HandsKept
  <2>9. NothingAhead'
    <3>1. DiskFull' \/ Clear(desc[p].file, Reserved(p))'
      <4>1. DiskFull \/ Clear(f, w.will)
        BY <1>10, <1>11
      <4>2. DiskFull' = DiskFull
        BY <1>5 DEF DiskFull
      <4>3. Clear(f, w.will) => Clear(desc[p].file, Reserved(p))'
        BY <1>8, <1>15, <2>7 DEF Clear
      <4> QED BY <4>1, <4>2, <4>3
    <3>2. used \subseteq used' /\ desc'[p].file = desc[p].file
          /\ \A g \in File \ {desc[p].file} : inode'[g] = inode[g]
      BY <1>1, <1>5, <1>8, <1>15
    <3> QED BY ONLY Inv, <1>10, <1>15, <2>7, <3>1, <3>2, AheadKept, p \in Process
  <2>10. Size(p)' = size + chunk /\ Sectors(p)' = Sectors(p)
    BY <1>1, <1>8, <1>15 DEF Size, Sectors
  <2>11. WriteFits(p)'
    <3>1. Planned(p)'
      BY ONLY <1>2, <1>10, <1>11, <2>2, <2>4, <2>5, <2>10 DEF Planned, BlocksOf
    <3>2. Ready(p)'
      <4>1. BlocksOf(size) \in Nat /\ BlocksOf(size) <= BlocksOf(size + chunk)
        <5>1. size + chunk \in Nat /\ size <= size + chunk
          BY <1>9
        <5>2. size \div BLOCK_SIZE <= (size + chunk) \div BLOCK_SIZE
          BY <1>9, <5>1, Monotone
        <5>3. size \div BLOCK_SIZE \in Nat /\ (size + chunk) \div BLOCK_SIZE \in Nat
          BY <1>9, <5>1, Division
        <5> QED BY <5>2, <5>3 DEF BlocksOf
      <4>2. ASSUME NEW i \in BlocksOf(size + chunk) - 1 .. w.will - 1
            PROVE  i \in BlocksOf(size) - 1 .. w.will - 1
        BY <1>9, <1>10, <4>1
      <4>3. \A i \in BlocksOf(size) - 1 .. w.will - 1 :
               w.blocks[i] # NoBlock /\ w.blocks[i] = BlockAt(f, i)
        BY ONLY <1>1, <1>2, <1>6, <1>11 DEF Ready
      <4>4. BlocksOf(Size(p))' = BlocksOf(size + chunk)
        BY ONLY <2>10 DEF BlocksOf
      <4> QED BY ONLY <1>1, <1>13, <1>15, <2>4, <2>5, <4>2, <4>3, <4>4 DEF Ready
    <3>3. (size + chunk) % BLOCK_SIZE = 0
      <4>1. chunk = BLOCK_SIZE - (size % BLOCK_SIZE)
        BY ONLY <1>4, <1>9, <1>10, <1>23, Chunk
      <4> QED BY ONLY <1>9, <4>1, NextBlock
    <3> QED BY ONLY <2>5, <2>10, <3>1, <3>2, <3>3 DEF WriteFits
  <2>12. Positioned(p)'
    <3>1. desc[p].fd_pos <= size /\ desc[p].fd_pos \in Nat
      BY <1>6 DEF Inv, Openings, Types
    <3>2. desc'[p].fd_pos <= size + chunk
      BY <1>9, <2>1, <3>1
    <3> QED BY <1>10, <1>15, <2>10, <3>2 DEF Positioned
  <2>13. ReadFits(p)' /\ ExactRead(p)'
    <3>1. local'[p].out = <<>>
      BY <1>11, <2>4, <2>5
    <3> QED BY <2>5, <3>1 DEF ReadFits, ExactRead
  <2> QED BY ONLY Inv, <1>16, <1>17, <1>18, <1>20, <2>6, <2>8, <2>9, <2>11, <2>12, <2>13,
                  StepInv, p \in Process
<1> QED BY <1>22, <1>23

---------------------------------------------------------------------------
(* The invariant                                                           *)

LEMMA InitInv ==
    ASSUME Init
    PROVE  Inv
<1>1. Direct \in Nat \ {0} /\ BLOCK_SIZE \in Nat \ {0} /\ NoBlock \in Block
  BY FileBlocksAssumption DEF Block
<1>2. /\ \A f \in File : /\ inode[f].i_size = 0
                         /\ \A i \in 0 .. Direct : inode[f].i_sectors[i] = NoBlock
      /\ \A b \in Block : disk[b] = EmptyBlock
      /\ \A p \in Process : pc[p] = "run" /\ local[p] = NoLocals
      /\ used = {} /\ ~panic
  BY DEF Init
<1>3. Types
  <2>1. inode \in [File -> [i_size : Nat, i_sectors : [0 .. Direct -> Block]]]
    BY <1>1 DEF Init
  <2>2. disk \in [Block -> [Offset -> Word]]
    BY <1>1 DEF Init, EmptyBlock, Word
  <2>3. desc \in [Process -> [file : File, writes : BOOLEAN, fd_pos : Nat]]
    BY DEF Init
  <2>4. pc \in [Process -> {"run", "plan", "alloc", "data", "put", "grow", "fetch"}]
    BY DEF Init
  <2>5. local \in [Process -> Locals]
    <3> QED BY NoLocalsFit DEF Init
  <2> QED BY <1>2, <2>1, <2>2, <2>3, <2>4, <2>5 DEF Types
<1>4. \A p \in Process : ~Writing(p) /\ Fresh(p) = {}
  BY <1>2 DEF Writing, Fresh
<1>5. Openings
  <2>1. \A p \in Process : desc[p].fd_pos = 0 /\ Size(p) = 0
    BY <1>2, <1>3 DEF Init, Types, Size
  <2>2. \A p, q \in Process :
           desc[p].writes /\ desc[q].writes /\ desc[p].file = desc[q].file => p = q
    BY DEF Init
  <2> QED BY <1>4, <2>1, <2>2 DEF Openings
<1>6. \A f \in File, k \in Entries : Addr(f, k) = NoBlock
  <2> SUFFICES ASSUME NEW f \in File, NEW k \in Entries
               PROVE  Addr(f, k) = NoBlock
    OBVIOUS
  <2>1. CASE k <= Direct
    <3>1. k \in 0 .. Direct
      BY <1>1, <2>1 DEF Entries
    <3> QED BY <1>2, <2>1, <3>1 DEF Addr
  <2>2. CASE ~(k <= Direct)
    <3>1. PICK o \in Offset : o = k - (Direct + 1)
      BY <1>1, <2>2 DEF Entries
    <3>2. inode[f].i_sectors[Direct] = NoBlock
      BY <1>1, <1>2
    <3>3. EmptyBlock[o] = <<NoBlock>>
      BY DEF EmptyBlock, Entry
    <3> QED BY <1>1, <1>2, <2>2, <3>1, <3>2, <3>3 DEF Addr, TableEntry, BlockOf
  <2> QED BY <2>1, <2>2
<1>7. Ownership
  <2> HIDE DEF Addr
  <2> QED BY <1>2, <1>6 DEF Ownership
<1>8. Hands
  BY <1>4 DEF Hands
<1>9. \A f \in File : Allocated(f)
  <2>1. 0 \div BLOCK_SIZE = 0
    BY <1>1
  <2>2. BlocksOf(0) <= AllBlocks
    BY <1>1, <2>1 DEF BlocksOf
  <2> QED BY <1>1, <1>2, <2>2 DEF Allocated
<1>10. NothingAhead
  <2>1. \A f \in File : Clear(f, BlocksOf(inode[f].i_size))
    <3>1. BlocksOf(0) \in Nat
      BY Division DEF BlocksOf
    <3> QED BY <1>1, <1>2, <3>1 DEF Clear
  <2> QED BY <1>4, <2>1 DEF NothingAhead
<1>11. \A p \in Process : local[p].out = <<>>
  BY <1>2 DEF NoLocals
<1>12. \A p \in Process : WriteFits(p) /\ ReadFits(p)
  BY <1>2, <1>11 DEF WriteFits, ReadFits, Writing
<1>13. FileHoldsItsBytes
  BY <1>2 DEF FileHoldsItsBytes
<1>14. ReadsAreExact
  BY <1>11 DEF ReadsAreExact
<1> QED BY <1>2, <1>3, <1>5, <1>7, <1>8, <1>9, <1>10, <1>12, <1>13, <1>14 DEF Inv, NoPanic

LEMMA StutterInv ==
    ASSUME Inv, UNCHANGED vars
    PROVE  Inv'
<1>1. /\ Types' /\ NoPanic' /\ Openings'
  BY DEF Inv, Types, NoPanic, Openings, Size, Writing
<1>2. Ownership' /\ Hands'
  BY DEF Inv, Ownership, Hands, Addr, TableEntry, Free, Fresh
<1>3. (\A f \in File : Allocated(f))' /\ NothingAhead'
  BY DEF Inv, Allocated, BlockAt, TableEntry, BlocksOf, NothingAhead, DiskFull, Clear, Writing,
         Reserved, Size
<1>4. ASSUME NEW p \in Process
      PROVE  WriteFits(p)' /\ ReadFits(p)'
  <2>1. WriteFits(p) /\ ReadFits(p)
    BY DEF Inv
  <2>2. WriteFits(p)'
    BY <2>1 DEF WriteFits, Writing, Planned, RegularWrite, BlocksOf, Size, Sectors, NoLocals,
                Allocating, Ready, BlockAt, TableEntry, Holds, Start, ChunkSize, Smaller
  <2>3. ReadFits(p)'
    BY <2>1 DEF ReadFits, Size, BlockAt, TableEntry
  <2> QED BY <2>2, <2>3
<1>5. FileHoldsItsBytes' /\ ReadsAreExact'
  BY DEF Inv, FileHoldsItsBytes, ReadsAreExact, BlockAt, TableEntry
<1> QED BY <1>1, <1>2, <1>3, <1>4, <1>5 DEF Inv

LEMMA NextInv ==
    ASSUME Inv, ~AnyCall, [Next]_vars
    PROVE  Inv'
<1> USE Inv, ~AnyCall
<1>1. ASSUME NEW p \in Process, NEW count \in Count, file_write(p, count)
      PROVE  Inv'
  BY <1>1, FileWriteInv
<1>2. ASSUME NEW p \in Process, NEW count \in Count, file_read(p, count)
      PROVE  Inv'
  BY <1>2, FileReadInv
<1>3. ASSUME NEW p \in Process, NEW pos \in 0 .. MaxSize - 1, sys_lseek(p, pos)
      PROVE  Inv'
  BY <1>3, SeekInv
<1>4. ASSUME NEW p \in Process, PlanInPlace(p)
      PROVE  Inv'
  BY <1>4, PlanInPlaceInv
<1>5. ASSUME NEW p \in Process, PlanMore(p)
      PROVE  Inv'
  BY <1>5, PlanMoreInv
<1>6. ASSUME NEW p \in Process, AddBlock(p)
      PROVE  Inv'
  BY <1>6, AddBlockInv
<1>7. ASSUME NEW p \in Process, AllocFails(p)
      PROVE  Inv'
  BY <1>7, AllocFailsInv
<1>8. ASSUME NEW p \in Process, WriteTable(p)
      PROVE  Inv'
  BY <1>8, WriteTableInv
<1>9. ASSUME NEW p \in Process, ReadFirst(p)
      PROVE  Inv'
  BY <1>9, ReadFirstInv
<1>10. ASSUME NEW p \in Process, PutBlock(p)
       PROVE  Inv'
  BY <1>10, PutBlockInv
<1>11. ASSUME NEW p \in Process, Grow(p)
       PROVE  Inv'
  BY <1>11, GrowInv
<1>12. ASSUME NEW p \in Process, Fetch(p)
       PROVE  Inv'
  BY <1>12, FetchInv
<1>13. ASSUME NEW p \in Process, ReadReturns(p)
       PROVE  Inv'
  BY <1>13, ReadReturnsInv
<1>14. CASE UNCHANGED vars
  BY <1>14, StutterInv
<1> QED
  BY <1>1, <1>2, <1>3, <1>4, <1>5, <1>6, <1>7, <1>8, <1>9, <1>10, <1>11, <1>12, <1>13, <1>14
     DEF Next

(* The owners of blocks are the entries that Ownership is about, and the   *)
(* blocks in hand those of Hands.                                          *)
LEMMA OneOwner ==
    ASSUME Inv
    PROVE  BlocksHaveOneOwner
<1>1. Types /\ Ownership /\ Hands /\ Direct \in Nat \ {0} /\ BLOCK_SIZE \in Nat \ {0}
  BY FileBlocksAssumption DEF Inv
<1>2. ASSUME NEW f \in File, NEW o \in SectorOwners(f) \cup TableOwners(f)
      PROVE  \E k \in Entries : o = <<f, k>> /\ OwnedBy(o) = Addr(f, k) /\ Addr(f, k) # NoBlock
  <2>1. CASE o \in SectorOwners(f)
    <3>1. PICK k \in 0 .. Direct : o = <<f, k>> /\ inode[f].i_sectors[k] # NoBlock
      BY <2>1 DEF SectorOwners
    <3>2. k \in Entries /\ k <= Direct
      BY <1>1 DEF Entries
    <3> QED BY <3>1, <3>2 DEF OwnedBy, Addr
  <2>2. CASE o \in TableOwners(f)
    <3>1. PICK j \in Offset : o = <<f, Direct + 1 + j>> /\ TableEntry(f, j) # NoBlock
      BY <2>2 DEF TableOwners
    <3>2. PICK k \in Entries : k = Direct + 1 + j
      BY <1>1 DEF Entries
    <3>3. ~(k <= Direct) /\ k - (Direct + 1) = j
      BY <1>1, <3>2
    <3> QED BY <3>1, <3>2, <3>3 DEF OwnedBy, Addr
  <2> QED BY <2>1, <2>2
<1> DEFINE owners == UNION {SectorOwners(f) \cup TableOwners(f) : f \in File}
<1>3. \A o \in owners : \E f \in File, k \in Entries :
         o = <<f, k>> /\ OwnedBy(o) = Addr(f, k) /\ Addr(f, k) # NoBlock
  BY <1>2
<1>4. ASSUME NEW p \in Process, NEW b \in InHand(p)
      PROVE  \E i \in Fresh(p) : b = local[p].blocks[i]
  BY DEF InHand, Fresh
<1> HIDE DEF owners, Fresh, Addr
<1>5. \A o, q \in owners : OwnedBy(o) = OwnedBy(q) => o = q
  <2> SUFFICES ASSUME NEW o \in owners, NEW q \in owners, OwnedBy(o) = OwnedBy(q)
               PROVE  o = q
    OBVIOUS
  <2>1. PICK f \in File, k \in Entries :
           o = <<f, k>> /\ OwnedBy(o) = Addr(f, k) /\ Addr(f, k) # NoBlock
    BY <1>3
  <2>2. PICK g \in File, j \in Entries :
           q = <<g, j>> /\ OwnedBy(q) = Addr(g, j)
    BY <1>3
  <2>3. f = g /\ k = j
    BY <1>1, <2>1, <2>2 DEF Ownership
  <2> QED BY <2>1, <2>2, <2>3
<1>6. \A o \in owners : OwnedBy(o) \in used
  BY <1>1, <1>3 DEF Ownership
<1>7. ASSUME NEW p \in Process, NEW o \in owners
      PROVE  OwnedBy(o) \notin InHand(p)
  <2>1. PICK f \in File, k \in Entries : OwnedBy(o) = Addr(f, k)
    BY <1>3
  <2>2. \A i \in Fresh(p) : Addr(f, k) # local[p].blocks[i]
    BY <1>1 DEF Hands
  <2> QED BY <1>4, <2>1, <2>2
<1>8. ASSUME NEW p \in Process, NEW q \in Process, p # q
      PROVE  InHand(p) \cap InHand(q) \subseteq {NoBlock}
  <2>1. \A i \in Fresh(p), j \in Fresh(q) : local[p].blocks[i] # local[q].blocks[j]
    BY <1>1, <1>8 DEF Hands
  <2> QED BY <1>4, <2>1
<1> QED BY <1>5, <1>6, <1>7, <1>8 DEF BlocksHaveOneOwner, owners

---------------------------------------------------------------------------
(* While processes write and read at the same time, fail for want of       *)
(* blocks and continue, with calls that Regular admits, everything in Inv  *)
(* holds between two steps of file_write and file_read.                    *)
THEOREM Invariance == ~AnyCall /\ Spec => []Inv
<1>1. Init => Inv
  BY InitInv
<1>2. ~AnyCall /\ Inv /\ [Next]_vars => Inv'
  BY NextInv
<1>3. CASE ~AnyCall
  <2>1. Inv /\ [Next]_vars => Inv'
    BY <1>2, <1>3
  <2> QED BY <1>1, <2>1, PTL DEF Spec
<1>4. CASE AnyCall
  BY <1>4
<1> QED BY <1>3, <1>4

(* No ASSERT of file_write fails: not the one on an entry that is to be    *)
(* filled either, after writes that ran out of blocks (file.c).            *)
THEOREM NoPanicEver == ~AnyCall /\ Spec => []NoPanic
<1>1. Inv => NoPanic
  BY DEF Inv
<1> QED BY <1>1, Invariance, PTL

(* The bytes of all writes are in the file, in their order, also when      *)
(* other files take blocks between those of this one.                      *)
THEOREM FilesHoldTheirBytes == ~AnyCall /\ Spec => []FileHoldsItsBytes
<1>1. Inv => FileHoldsItsBytes
  BY DEF Inv
<1> QED BY <1>1, Invariance, PTL

(* What file_read has put into its buffer are the file's bytes from where  *)
(* the position was at the call, also while the file grows.                *)
THEOREM ReadsReturnTheBytes == ~AnyCall /\ Spec => []ReadsAreExact
<1>1. Inv => ReadsAreExact
  BY DEF Inv
<1> QED BY <1>1, Invariance, PTL

(* No block belongs to two entries, nor to an entry and to a write that    *)
(* has not put it into its table yet, and each is marked in the bitmap.    *)
THEOREM BlocksAreOwned == ~AnyCall /\ Spec => []BlocksHaveOneOwner
<1>1. Inv => BlocksHaveOneOwner
  BY OneOwner
<1> QED BY <1>1, Invariance, PTL
=============================================================================
