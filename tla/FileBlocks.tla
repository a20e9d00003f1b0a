----------------------------- MODULE FileBlocks -----------------------------
(***************************************************************************)
(* The blocks of regular files (fs/file.c): file_write, which appends and  *)
(* allocates blocks on the way, and file_read, for processes that read and *)
(* write at the same time.  A system call runs with interrupts off, so     *)
(* another process runs only while this one sleeps for the disk: each step *)
(* below ends where the code reads or writes a block or a bitmap's sector, *)
(* or a little earlier.                                                    *)
(*                                                                         *)
(* The bytes are numbered through a file: byte number i that is written to *)
(* file f is <<f, i>>, so that a byte in the wrong place shows.  A table   *)
(* of indirect blocks has as many entries as a block has bytes.            *)
(***************************************************************************)
EXTENDS Naturals, Sequences, FiniteSets, FiniteSetsExt

CONSTANTS
    Process,
    File,
    BLOCK_SIZE,  \* 512 bytes
    Direct,      \* 12 direct blocks to an inode
    DataBlock,   \* the blocks of the data area, without the root directory's
    Count,       \* the counts of bytes of a read or a write
    AnyCall      \* are all calls made, or only those that Regular admits?

ASSUME FileBlocksAssumption ==
    /\ BLOCK_SIZE \in Nat \ {0}
    /\ Direct \in Nat \ {0}
    /\ DataBlock \subseteq Nat \ {0}
    /\ IsFiniteSet(DataBlock)
    /\ Count \subseteq Nat \ {0}
    /\ AnyCall \in BOOLEAN

VARIABLES
    inode,   \* inode[f]: i_size and i_sectors, as held in memory
    used,    \* the blocks whose bit is set in the block bitmap
    disk,    \* disk[b]: the bytes of block b, or the entries of a table
    desc,    \* desc[p]: the one file that p has open, and its fd_pos
    pc,      \* where p stands in its system call
    local,   \* local[p]: the variables of p's file_write or file_read
    panic    \* has an ASSERT failed?

vars == <<inode, used, disk, desc, pc, local, panic>>

Offset == 0 .. BLOCK_SIZE - 1

(* all_blocks: 12 direct blocks and 128 entries of a table.                *)
AllBlocks == Direct + BLOCK_SIZE
Index == 0 .. AllBlocks - 1

(* What i_sectors holds where there is no block; it is also the number of  *)
(* the boot sector.                                                        *)
NoBlock == 0
Block == DataBlock \cup {NoBlock}

(* A word on the disk is a byte of a file or an entry of a table.          *)
MaxSize == AllBlocks * BLOCK_SIZE
Entry(b) == <<b>>
BlockOf(entry) == entry[1]

EmptyBlock == [o \in Offset |-> Entry(NoBlock)]

NoLocals ==
    [ blocks |-> [i \in Index |-> NoBlock],  \* all_blocks
      idx    |-> 0,                          \* block_idx
      will   |-> 0,                          \* file_will_use_blocks
      left   |-> 0,                          \* size_left
      first  |-> TRUE,                       \* first_write_block
      io     |-> EmptyBlock,                 \* io_buf
      size   |-> 0,                          \* size of file_read
      out    |-> <<>>,                       \* buf of file_read, bytes_read long
      start  |-> 0 ]                         \* fd_pos when file_read was called

Smaller(a, b) == IF a < b THEN a ELSE b

---------------------------------------------------------------------------
Init ==
    /\ inode = [f \in File |-> [i_size |-> 0, i_sectors |-> [i \in 0 .. Direct |-> NoBlock]]]
    /\ used = {}
    /\ disk = [b \in Block |-> EmptyBlock]
    /\ desc \in [Process -> [file : File, writes : BOOLEAN, fd_pos : {0}]]
    /\ \A p, q \in Process :
          desc[p].writes /\ desc[q].writes /\ desc[p].file = desc[q].file => p = q
    /\ \E p \in Process : desc[p].writes
    /\ pc = [p \in Process |-> "run"]
    /\ local = [p \in Process |-> NoLocals]
    /\ panic = FALSE

At(p, label) == ~panic /\ pc[p] = label

Goto(p, label) == pc' = [pc EXCEPT ![p] = label]

Return(p) == Goto(p, "run") /\ local' = [local EXCEPT ![p] = NoLocals]

Size(p) == inode[desc[p].file].i_size
Sectors(p) == inode[desc[p].file].i_sectors

(* Mutant: an allocated block is not marked.                               *)
AllocForgets(b) == used

(* bitmap_set of block_bitmap_alloc.                                       *)
MarkUsed(b) == used \cup {b}

(* block_bitmap_alloc takes the first free block.                          *)
DiskFull == DataBlock \subseteq used
FirstFree == Min(DataBlock \ used)

(* file_has_used_blocks; file_will_use_blocks of the larger size.  A block *)
(* is allocated ahead when the size is a multiple of BLOCK_SIZE.           *)
BlocksOf(size) == (size \div BLOCK_SIZE) + 1

(* The writes that file_write serves: inside of the direct blocks, from    *)
(* the last direct block into the table, and without a new block after     *)
(* that; and no more than its ASSERT on file_will_use_blocks admits.       *)
RegularWrite(size, count) ==
    /\ BlocksOf(size + count) <= AllBlocks
    /\ \/ BlocksOf(size + count) <= Direct
       \/ BlocksOf(size) = Direct
       \/ BlocksOf(size) = BlocksOf(size + count)

---------------------------------------------------------------------------
(* file_write                                                              *)

(* From the call to the allocation of a first block.                       *)
file_write(p, count) ==
    /\ At(p, "run")
    /\ desc[p].writes
    /\ AnyCall \/ RegularWrite(Size(p), count)
    /\ Size(p) + count <= MaxSize
    /\ \/ /\ Sectors(p)[0] # NoBlock
          /\ UNCHANGED <<inode, used>>
       \/ /\ Sectors(p)[0] = NoBlock
          /\ ~DiskFull
          /\ inode' = [inode EXCEPT ![desc[p].file].i_sectors[0] = FirstFree]
          /\ used' = MarkUsed(FirstFree)
    /\ local' = [local EXCEPT ![p] = [NoLocals EXCEPT !.left = count,
                                                      !.will = BlocksOf(Size(p) + count)]]
    /\ Goto(p, "plan")
    /\ UNCHANGED <<disk, desc, panic>>

(* A table that is needed now is allocated before the blocks behind it.    *)
NeedsTable(p) == local[p].will > Direct /\ BlocksOf(Size(p)) <= Direct

PlanAsserts(p) ==
    LET has == BlocksOf(Size(p))
    IN  /\ local[p].will <= AllBlocks
        /\ has < local[p].will /\ local[p].will <= Direct => Sectors(p)[has - 1] # NoBlock
        /\ NeedsTable(p) => Sectors(p)[Direct] = NoBlock
        /\ has > Direct => Sectors(p)[Direct] # NoBlock

TableOf(p) == disk[Sectors(p)[Direct]]

(* Nothing has to be allocated: note the address of the last block, or     *)
(* read the table.                                                         *)
PlanInPlace(p) ==
    LET last == BlocksOf(Size(p)) - 1
    IN  /\ At(p, "plan")
        /\ local[p].will = last + 1
        /\ local' = [local EXCEPT ![p].blocks =
              [i \in Index |->
                  IF last < Direct THEN IF i = last THEN Sectors(p)[i] ELSE NoBlock
                  ELSE IF i >= Direct THEN BlockOf(TableOf(p)[i - Direct]) ELSE NoBlock]]
        /\ panic' = ~PlanAsserts(p)
        /\ Goto(p, "data")
        /\ UNCHANGED <<inode, used, disk, desc>>

(* Blocks have to be added behind has blocks.                              *)
PlanMore(p) ==
    LET has == BlocksOf(Size(p))
    IN  /\ At(p, "plan")
        /\ local[p].will # has
        /\ \/ /\ NeedsTable(p)
              /\ ~DiskFull
              /\ inode' = [inode EXCEPT ![desc[p].file].i_sectors[Direct] = FirstFree]
              /\ used' = MarkUsed(FirstFree)
           \/ /\ ~NeedsTable(p)
              /\ UNCHANGED <<inode, used>>
        /\ local' = [local EXCEPT
                ![p].idx = has,
                ![p].blocks[has - 1] = IF has <= Direct THEN Sectors(p)[has - 1] ELSE NoBlock]
        /\ panic' = ~PlanAsserts(p)
        /\ Goto(p, "alloc")
        /\ UNCHANGED <<disk, desc>>

(* Mutant: the new block replaces the last one.                            *)
EntryTooLow(p) == local[p].idx - 1

(* The entry of i_sectors that gets the address of the new block.          *)
EntryToFill(p) == local[p].idx

(* One turn of the loop that adds blocks.  If all blocks are direct the    *)
(* address goes to i_sectors, after an ASSERT that the entry is empty.  A  *)
(* write that crosses into the table keeps direct blocks too in all_blocks *)
(* only: it puts their addresses to i_sectors[block_lba], which is outside *)
(* of the array, and goes on when it finds a 0 there.                      *)
AddBlock(p) ==
    LET i      == local[p].idx
        direct == local[p].will <= Direct
    IN  /\ At(p, "alloc")
        /\ i < local[p].will
        /\ ~DiskFull
        /\ used' = MarkUsed(FirstFree)
        /\ local' = [local EXCEPT ![p].blocks[i] = FirstFree, ![p].idx = i + 1]
        /\ inode' = IF direct
                    THEN [inode EXCEPT ![desc[p].file].i_sectors[EntryToFill(p)] = FirstFree]
                    ELSE inode
        /\ panic' = (direct /\ Sectors(p)[EntryToFill(p)] # NoBlock)
        /\ UNCHANGED <<disk, desc, pc>>

(* No free block: the call fails and keeps what it has allocated so far.   *)
AllocFails(p) ==
    /\ DiskFull
    /\ \/ At(p, "run") /\ desc[p].writes /\ Sectors(p)[0] = NoBlock
       \/ At(p, "plan") /\ NeedsTable(p)
       \/ At(p, "alloc") /\ local[p].idx < local[p].will
    /\ Return(p)
    /\ UNCHANGED <<inode, used, disk, desc, panic>>

(* All blocks are allocated; a table is written as it is in memory.        *)
WriteTable(p) ==
    /\ At(p, "alloc")
    /\ local[p].idx = local[p].will
    /\ disk' = IF local[p].will <= Direct THEN disk
               ELSE [disk EXCEPT ![Sectors(p)[Direct]] =
                        [o \in Offset |-> Entry(local[p].blocks[Direct + o])]]
    /\ Goto(p, "data")
    /\ UNCHANGED <<inode, used, desc, local, panic>>

(* Mutant: every block is written over.                                    *)
ReadNone(p) ==
    /\ At(p, "data")
    /\ local' = [local EXCEPT ![p].io = EmptyBlock]
    /\ Goto(p, "put")
    /\ UNCHANGED <<inode, used, disk, desc, panic>>

(* Prepare the next block: only the first one may hold earlier bytes.      *)
ReadFirst(p) ==
    /\ At(p, "data")
    /\ local' = [local EXCEPT
            ![p].io = IF local[p].first THEN disk[local[p].blocks[Size(p) \div BLOCK_SIZE]]
                      ELSE EmptyBlock,
            ![p].first = FALSE]
    /\ Goto(p, "put")
    /\ UNCHANGED <<inode, used, disk, desc, panic>>

ChunkSize(left, pos) == Smaller(left, BLOCK_SIZE - (pos % BLOCK_SIZE))

PutBlock(p) ==
    /\ At(p, "put")
    /\ LET size == Size(p)
           off  == size % BLOCK_SIZE
           end  == off + ChunkSize(local[p].left, size)
       IN  disk' = [disk EXCEPT ![local[p].blocks[size \div BLOCK_SIZE]] =
                      [o \in Offset |-> IF off <= o /\ o < end
                                        THEN <<desc[p].file, (size - off) + o>>
                                        ELSE local[p].io[o]]]
    /\ Goto(p, "grow")
    /\ UNCHANGED <<inode, used, desc, local, panic>>

(* i_size goes up with each block; at the end inode_sync and the return.   *)
(* fd_pos started at i_size - 1 and has gone up as far.                    *)
Grow(p) ==
    /\ At(p, "grow")
    /\ LET chunk == ChunkSize(local[p].left, Size(p))
       IN  /\ inode' = [inode EXCEPT ![desc[p].file].i_size = @ + chunk]
           /\ IF chunk = local[p].left
              THEN /\ desc' = [desc EXCEPT ![p].fd_pos = (Size(p) + chunk) - 1]
                   /\ Return(p)
              ELSE /\ local' = [local EXCEPT ![p].left = @ - chunk]
                   /\ Goto(p, "data")
                   /\ UNCHANGED desc
    /\ UNCHANGED <<used, disk, panic>>

---------------------------------------------------------------------------
(* file_read                                                               *)

(* Mutant: the read is not cut at the end of the file.                     *)
ReadPastEnd(size, pos, count) == count

(* size: as much as the file still holds.                                  *)
ReadSize(size, pos, count) == IF pos + count > size THEN size - pos ELSE count

(* The ASSERTs of file_read on the blocks it looks up: they are few enough, *)
(* and when all of them are in the table there is one.                     *)
ReadAsserts(p, from, to) ==
    to < AllBlocks - 1 /\ (from >= Direct => Sectors(p)[Direct] # NoBlock)

(* The last block that is looked up is computed from count, not from size. *)
file_read(p, count) ==
    LET pos  == desc[p].fd_pos
        from == pos \div BLOCK_SIZE
        to   == (pos + count) \div BLOCK_SIZE
    IN  /\ At(p, "run")
        /\ AnyCall \/ to < AllBlocks - 1
        /\ ReadSize(Size(p), pos, count) # 0
        /\ local' = [local EXCEPT ![p] =
              [NoLocals EXCEPT
                 !.left = ReadSize(Size(p), pos, count),
                 !.size = ReadSize(Size(p), pos, count),
                 !.start = pos,
                 !.blocks = [i \in Index |->
                    IF i < Direct
                    THEN IF i \in from .. to THEN Sectors(p)[i] ELSE NoBlock
                    ELSE IF to >= Direct THEN BlockOf(TableOf(p)[i - Direct]) ELSE NoBlock]]]
        /\ panic' = ~ReadAsserts(p, from, to)
        /\ Goto(p, "fetch")
        /\ UNCHANGED <<inode, used, disk, desc>>

(* One turn of the loop that reads.                                        *)
Fetch(p) ==
    /\ At(p, "fetch")
    /\ Len(local[p].out) < local[p].size
    /\ LET pos   == desc[p].fd_pos
           chunk == ChunkSize(local[p].left, pos)
           from  == disk[local[p].blocks[pos \div BLOCK_SIZE]]
       IN  /\ local' = [local EXCEPT
                    ![p].out = @ \o [k \in 1 .. chunk |-> from[((pos % BLOCK_SIZE) + k) - 1]],
                    ![p].left = @ - chunk]
           /\ desc' = [desc EXCEPT ![p].fd_pos = pos + chunk]
    /\ UNCHANGED <<inode, used, disk, pc, panic>>

ReadReturns(p) ==
    /\ At(p, "fetch")
    /\ Len(local[p].out) >= local[p].size
    /\ panic' = (local[p].left # 0)
    /\ Return(p)
    /\ UNCHANGED <<inode, used, disk, desc>>

(* The position may be set to any byte of the file.                        *)
sys_lseek(p, pos) ==
    /\ At(p, "run")
    /\ pos < Size(p)
    /\ desc' = [desc EXCEPT ![p].fd_pos = pos]
    /\ UNCHANGED <<inode, used, disk, pc, local, panic>>

Next ==
    \E p \in Process :
        \/ \E count \in Count : file_write(p, count) \/ file_read(p, count)
        \/ \E pos \in 0 .. MaxSize - 1 : sys_lseek(p, pos)
        \/ PlanInPlace(p) \/ PlanMore(p)
        \/ AddBlock(p)
        \/ AllocFails(p)
        \/ WriteTable(p)
        \/ ReadFirst(p) \/ PutBlock(p) \/ Grow(p)
        \/ Fetch(p) \/ ReadReturns(p)

Spec == Init /\ [][Next]_vars

---------------------------------------------------------------------------
(* No ASSERT of file_write or file_read fails, on the table included, also *)
(* after writes that failed half-way.                                      *)
NoPanic == ~panic

(* The block that holds block number i of a file.                          *)
TableEntry(f, o) == BlockOf(disk[inode[f].i_sectors[Direct]][o])

BlockAt(f, i) == IF i < Direct THEN inode[f].i_sectors[i] ELSE TableEntry(f, i - Direct)

(* file.c:238: the bytes of every write are in the file, in their order,   *)
(* while other files grow and writes fail.                                 *)
FileHoldsItsBytes ==
    \A f \in File : \A i \in 0 .. inode[f].i_size - 1 :
        disk[BlockAt(f, i \div BLOCK_SIZE)][i % BLOCK_SIZE] = <<f, i>>

(* A read returns the bytes from its position on, and none that were never *)
(* written, although the file may grow meanwhile.                          *)
ReadsAreExact ==
    \A p \in Process :
        local[p].out = [k \in 1 .. Len(local[p].out) |->
                            <<desc[p].file, (local[p].start + k) - 1>>]

(* A block has one owner: one entry of one inode or of one table, or the   *)
(* write that has allocated it and not yet written it into the table.      *)
SectorOwners(f) == {<<f, i>> : i \in {j \in 0 .. Direct : inode[f].i_sectors[j] # NoBlock}}

TableOwners(f) ==
    IF inode[f].i_sectors[Direct] = NoBlock THEN {}
    ELSE {<<f, Direct + 1 + o>> : o \in {j \in Offset : TableEntry(f, j) # NoBlock}}

OwnedBy(o) == IF o[2] <= Direct THEN inode[o[1]].i_sectors[o[2]]
              ELSE TableEntry(o[1], o[2] - (Direct + 1))

InHand(p) == IF pc[p] = "alloc" THEN {local[p].blocks[i] : i \in Direct .. local[p].idx - 1} ELSE {}

BlocksHaveOneOwner ==
    LET owners == UNION {SectorOwners(f) \cup TableOwners(f) : f \in File}
    IN  /\ \A o, q \in owners : OwnedBy(o) = OwnedBy(q) => o = q
        /\ \A o \in owners : OwnedBy(o) \in used
        /\ \A p \in Process : \A o \in owners : OwnedBy(o) \notin InHand(p)
        /\ \A p, q \in Process : p # q => InHand(p) \cap InHand(q) \subseteq {NoBlock}

---------------------------------------------------------------------------
(* What holds between any two steps while all calls are those that Regular *)
(* admits.                                                                 *)

Writing(p) == pc[p] \in {"plan", "alloc", "data", "put", "grow"}

Byte == File \X Nat

Word == {Entry(b) : b \in Block} \cup Byte

Locals ==
    [ blocks : [Index -> Block], idx : Nat, will : Nat, left : Nat, first : BOOLEAN,
      io : [Offset -> Word], size : Nat, out : Seq(Byte), start : Nat ]

Types ==
    /\ inode \in [File -> [i_size : Nat, i_sectors : [0 .. Direct -> Block]]]
    /\ used \subseteq DataBlock
    /\ disk \in [Block -> [Offset -> Word]]
    /\ desc \in [Process -> [file : File, writes : BOOLEAN, fd_pos : Nat]]
    /\ pc \in [Process -> {"run", "plan", "alloc", "data", "put", "grow", "fetch"}]
    /\ local \in [Process -> Locals]

(* A file has one writer, and no position is past the end of its file.     *)
Openings ==
    /\ \A p, q \in Process :
          desc[p].writes /\ desc[q].writes /\ desc[p].file = desc[q].file => p = q
    /\ \A p \in Process : desc[p].fd_pos <= Size(p)
    /\ \A p \in Process : Writing(p) => desc[p].writes

(* Entry number k of f: of its inode, and behind them those of its table.  *)
Entries == 0 .. AllBlocks

Addr(f, k) == IF k <= Direct THEN inode[f].i_sectors[k] ELSE TableEntry(f, k - (Direct + 1))

Free(b) == b \in Block \ used

Ownership ==
    /\ \A f \in File, k \in Entries : Addr(f, k) \in used \cup {NoBlock}
    /\ \A f, g \in File, j, k \in Entries :
          Addr(f, j) # NoBlock /\ Addr(f, j) = Addr(g, k) => f = g /\ j = k
    /\ \A b \in Block : Free(b) => disk[b] = EmptyBlock

(* The blocks that p has allocated and that are in no table yet.           *)
Fresh(p) == IF pc[p] = "alloc" THEN Direct .. local[p].idx - 1 ELSE {}

Hands ==
    /\ \A p \in Process : \A i \in Fresh(p) :
          /\ local[p].blocks[i] \in used
          /\ \A f \in File, k \in Entries : Addr(f, k) # local[p].blocks[i]
    /\ \A p, q \in Process : \A i \in Fresh(p), j \in Fresh(q) :
          local[p].blocks[i] = local[q].blocks[j] => p = q /\ i = j

(* A file has the blocks that its bytes lie in, and one ahead.             *)
Allocated(f) ==
    /\ BlocksOf(inode[f].i_size) <= AllBlocks
    /\ \/ inode[f].i_size = 0 /\ inode[f].i_sectors[0] = NoBlock
       \/ \A i \in 0 .. inode[f].i_size \div BLOCK_SIZE : BlockAt(f, i) # NoBlock

(* Behind them no entry of its inode is taken, unless the disk is full.    *)
Clear(f, n) == \A i \in n .. Direct : inode[f].i_sectors[i] = NoBlock

Reserved(p) ==
    IF pc[p] = "plan" THEN BlocksOf(Size(p))
    ELSE IF pc[p] = "alloc" /\ local[p].will <= Direct THEN local[p].idx
    ELSE local[p].will

NothingAhead ==
    \/ DiskFull
    \/ /\ \A f \in File : \/ \E p \in Process : Writing(p) /\ desc[p].file = f
                          \/ Clear(f, BlocksOf(inode[f].i_size))
       /\ \A p \in Process : Writing(p) => Clear(desc[p].file, Reserved(p))

(* What a write knows on its way.                                          *)
Start(p) == Size(p) - (Size(p) % BLOCK_SIZE)

Planned(p) ==
    /\ local[p].left > 0
    /\ local[p].will = BlocksOf(Size(p) + local[p].left)
    /\ local[p].will <= AllBlocks
    /\ Sectors(p)[0] # NoBlock

Allocating(p) ==
    LET has == BlocksOf(Size(p))
        w   == local[p]
    IN  /\ has <= Direct
        /\ w.idx \in has .. w.will
        /\ w.will > Direct => has = Direct /\ Sectors(p)[Direct] # NoBlock
        /\ \A i \in has - 1 .. w.idx - 1 :
              w.blocks[i] # NoBlock /\ (i < Direct => w.blocks[i] = Sectors(p)[i])
        /\ \A i \in w.idx .. AllBlocks - 1 : w.blocks[i] = NoBlock

Ready(p) ==
    \A i \in BlocksOf(Size(p)) - 1 .. local[p].will - 1 :
        local[p].blocks[i] # NoBlock /\ local[p].blocks[i] = BlockAt(desc[p].file, i)

Holds(p, block, n) ==
    \A o \in Offset : o < n => block[o] = <<desc[p].file, Start(p) + o>>

WriteFits(p) ==
    /\ Writing(p) => Planned(p)
    /\ pc[p] = "plan" => /\ RegularWrite(Size(p), local[p].left)
                         /\ local[p].blocks = NoLocals.blocks
    /\ pc[p] \in {"plan", "alloc"} => local[p].first
    /\ pc[p] = "alloc" => Allocating(p)
    /\ pc[p] \in {"data", "put", "grow"} => Ready(p)
    /\ pc[p] = "data" => local[p].first \/ Size(p) % BLOCK_SIZE = 0
    /\ pc[p] = "put" => Holds(p, local[p].io, Size(p) % BLOCK_SIZE)
    /\ pc[p] = "grow" =>
          Holds(p, disk[local[p].blocks[Size(p) \div BLOCK_SIZE]],
                (Size(p) % BLOCK_SIZE) + ChunkSize(local[p].left, Size(p)))

(* What a read knows on its way.                                           *)
ReadFits(p) ==
    LET pos == desc[p].fd_pos
        r   == local[p]
    IN  /\ pc[p] # "fetch" => r.out = <<>>
        /\ pc[p] = "fetch" =>
              /\ pos + r.left <= Size(p)
              /\ r.size = Len(r.out) + r.left
              /\ pos = r.start + Len(r.out)
              /\ \A i \in Index : \A k \in pos .. (pos + r.left) - 1 :
                    i = k \div BLOCK_SIZE => r.blocks[i] = BlockAt(desc[p].file, i)

Inv ==
    /\ Types
    /\ NoPanic
    /\ Openings
    /\ Ownership
    /\ Hands
    /\ \A f \in File : Allocated(f)
    /\ NothingAhead
    /\ \A p \in Process : WriteFits(p) /\ ReadFits(p)
    /\ FileHoldsItsBytes
    /\ ReadsAreExact
=============================================================================
