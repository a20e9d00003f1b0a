---------------------------- MODULE Directories ----------------------------
(***************************************************************************)
(* Directories and paths of the file system (src/fs/dir.c, the path half   *)
(* of src/fs/fs.c).  A system call runs to its end before the next one     *)
(* starts, so that each call is an operator from the file system's state   *)
(* fs to its result.  fs is a record:                                      *)
(*   ibits, bbits    the partition's inode and block bitmaps in memory     *)
(*   dibits, dbbits  the same bitmaps on the disk                          *)
(*   disk            the inode table on the disk                           *)
(*   core, cnt       open_inodes: inodes in memory, and how often opened   *)
(*   data            what each data block holds                            *)
(*   lost            blocks a failed mkdir marked and nobody owns          *)
(* A directory uses its Direct direct blocks only: the table of indirect   *)
(* blocks, for a directory of more than 12 * 21 entries, is left out.      *)
(***************************************************************************)
EXTENDS Integers, SequencesExt

CONSTANTS
    Name,       \* names of files and directories
    Inodes,     \* MAX_FILES_PER_PART, how many inodes the partition has
    SyncNumbers,\* the values of inode_sync's uint8_t inode_no
    Blocks,     \* how many data blocks the partition has
    Direct,     \* direct blocks of an inode
    PerSector   \* directory entries in a sector

ASSUME DirectoriesAssumption ==
    /\ Name \cap {".", "..", "", "bytes"} = {}
    /\ Inodes \in Nat \ {0} /\ SyncNumbers \in Nat \ {0} /\ Blocks \in Nat \ {0}
    /\ Direct \in Nat \ {0} /\ PerSector \in Nat /\ PerSector > 2

Inode == 0..Inodes - 1
Root == 0
(* partition_format marks the bits behind the last block but for one: it   *)
(* clears the bits 0 to block_bitmap_last_bit of the last byte, where only *)
(* those before block_bitmap_last_bit stand for blocks.                    *)
Block == 1..Blocks + 1

Entry(name, no, kind) == [name |-> name, no |-> no, kind |-> kind]
NoEntry == Entry("", 0, "unknown")
EmptySector == [i \in 1..PerSector |-> NoEntry]
FileBytes == [i \in 1..PerSector |-> Entry("bytes", 0, "unknown")]
(* Mutant of FirstSector: every directory's parent is the root.             *)
FirstSectorOfRoot(self, parent) ==
    [EmptySector EXCEPT ![1] = Entry(".", self, "dir"), ![2] = Entry("..", Root, "dir")]
FirstSector(self, parent) ==
    [EmptySector EXCEPT ![1] = Entry(".", self, "dir"), ![2] = Entry("..", parent, "dir")]

inode_init == [size |-> 0, sec |-> [k \in 0..Direct - 1 |-> 0]]
DirNode(b) == [inode_init EXCEPT !.size = 2, !.sec[0] = b]

(* What a call returns: ok, the new fs, and stops when an assertion of the *)
(* call fails or its loop never ends.                                      *)
Result(ok, fs) == [ok |-> ok, fs |-> fs, stops |-> FALSE]
Refuse(fs) == Result(FALSE, fs)
Stop(fs) == [ok |-> FALSE, fs |-> fs, stops |-> TRUE]

(* open_root_dir: after the mount only the root is open, and stays open.    *)
mount_partition(fs) ==
    [fs EXCEPT !.ibits = fs.dibits, !.bbits = fs.dbbits,
               !.core = [no \in Inode |-> IF no = Root THEN fs.disk[Root] ELSE inode_init],
               !.cnt = [no \in Inode |-> IF no = Root THEN 1 ELSE 0]]

partition_format ==
    mount_partition(
        [ibits |-> {}, bbits |-> {}, dibits |-> {Root}, dbbits |-> {1},
         disk |-> [no \in Inode |-> IF no = Root THEN DirNode(1) ELSE inode_init],
         core |-> <<>>, cnt |-> <<>>,
         data |-> [b \in Block |-> IF b = 1 THEN FirstSector(Root, Root) ELSE EmptySector],
         lost |-> {}])

-----------------------------------------------------------------------------
(* Inodes.  inode_open takes the inode from open_inodes when it is there,  *)
(* from the disk otherwise; an operation that opens and closes an inode    *)
(* leaves the counts as they were.                                         *)
inode_open(fs, no) == IF fs.cnt[no] > 0 THEN fs.core[no] ELSE fs.disk[no]

KeepOpen(fs, no) ==
    [fs EXCEPT !.core[no] = inode_open(fs, no), !.cnt[no] = @ + 1]

(* inode_sync finds the inode's place on the disk by eight bits of its     *)
(* number; all others find it by the number.                               *)
inode_locate(no) == no % SyncNumbers
inode_sync(fs, no, node) == [fs EXCEPT !.disk[inode_locate(no)] = node]

(* The inodes that inode_sync writes to their own place.                   *)
Located == {no \in Inode : inode_locate(no) = no}

(* A change to an open inode that is written back with inode_sync.         *)
Store(fs, no, node) ==
    [inode_sync(fs, no, node) EXCEPT !.core[no] = IF fs.cnt[no] > 0 THEN node ELSE @]

FreeInodes(fs) == Inode \ fs.ibits
FreeBlocks(fs) == Block \ fs.bbits

(* Mutants of FreeBlock: no bitmap_sync; the block stays marked.            *)
FreeUnsynced(fs, B) == [fs EXCEPT !.bbits = @ \ B]
FreeForgets(fs, B) == fs

(* block_bitmap_alloc followed by the bitmap_sync of its callers.           *)
TakeBlock(fs, b) == [fs EXCEPT !.bbits = @ \cup {b}, !.dbbits = @ \cup {b}]
FreeBlock(fs, B) == [fs EXCEPT !.bbits = @ \ B, !.dbbits = @ \ B]

NodeBlocks(node) == {node.sec[k] : k \in DOMAIN node.sec} \ {0}

inode_release(fs, no) ==
    [FreeBlock(fs, NodeBlocks(inode_open(fs, no)))
        EXCEPT !.ibits = @ \ {no}, !.dibits = @ \ {no}, !.disk[no] = inode_init]

-----------------------------------------------------------------------------
(* Directory entries, by their place <<block index, slot>>.                 *)
Places(fs, no) ==
    LET node == inode_open(fs, no)
    IN  {k \in DOMAIN node.sec : node.sec[k] # 0} \X (1..PerSector)

At(fs, no, place) == fs.data[inode_open(fs, no).sec[place[1]]][place[2]]

FirstPlace(S) ==
    CHOOSE s \in S : \A t \in S : s[1] < t[1] \/ (s[1] = t[1] /\ s[2] <= t[2])

Used(fs, no) == {s \in Places(fs, no) : At(fs, no, s).kind # "unknown"}

search_dir_entry(fs, no, name) ==
    LET found == {s \in Places(fs, no) : At(fs, no, s).name = name}
    IN  IF found = {} THEN NoEntry ELSE At(fs, no, FirstPlace(found))

(* The search goes from the root down.  It ends at the first name it does  *)
(* not find, and at the first regular file, whatever names are left.  dir  *)
(* is the directory the caller gets as parent_dir; depth counts the names  *)
(* of searched_path.                                                       *)
NotFound == -1
Start == [no |-> Root, kind |-> "dir", dir |-> Root, depth |-> 0]

Descend(fs, r, name) ==
    LET e == search_dir_entry(fs, r.no, name)
    IN  IF r.kind # "dir" THEN r
        ELSE [no |-> IF e = NoEntry THEN NotFound ELSE e.no,
              kind |-> e.kind, dir |-> r.no, depth |-> r.depth + 1]

search_file(fs, path) ==
    LET walk[n \in 0..Len(path)] ==
            IF n = 0 THEN Start ELSE Descend(fs, walk[n - 1], path[n])
    IN  IF path \in {<<>>, <<".">>, <<"..">>} THEN Start ELSE walk[Len(path)]

(* The place for a new entry: the first block that is missing or has a     *)
(* free slot, unless all are full.  A missing block is allocated.          *)
sync_dir_entry(fs, no, entry) ==
    LET node == inode_open(fs, no)
        slots(k) == {i \in 1..PerSector : fs.data[node.sec[k]][i].kind = "unknown"}
        open == {j \in DOMAIN node.sec : node.sec[j] = 0 \/ slots(j) # {}}
        k == Min(open)
        b == Min(FreeBlocks(fs))
        grown == [node EXCEPT !.size = @ + 1]
    IN  IF open = {} THEN Refuse(fs)
        ELSE IF node.sec[k] # 0
        THEN Result(TRUE, [Store(fs, no, grown) EXCEPT !.data[node.sec[k]][Min(slots(k))] = entry])
        ELSE IF FreeBlocks(fs) = {} THEN Refuse(fs)
        ELSE Result(TRUE, [Store(TakeBlock(fs, b), no, [grown EXCEPT !.sec[k] = b])
                              EXCEPT !.data[b] = [EmptySector EXCEPT ![1] = entry]])

(* Mutant of delete_dir_entry: i_size stays.                                *)
DeleteKeepsSize(fs, dir, no) ==
    LET node == inode_open(fs, dir)
        found == {s \in Used(fs, dir) : At(fs, dir, s).no = no /\ At(fs, dir, s).name \in Name}
        s == FirstPlace(found)
    IN  IF found = {} THEN fs ELSE [fs EXCEPT !.data[node.sec[s[1]]][s[2]] = NoEntry]

(* The assertion of delete_dir_entry: the block it finds names no once.    *)
NamedTwice(fs, dir, no) ==
    LET found == {s \in Used(fs, dir) : At(fs, dir, s).name \notin {".", ".."}
                                         /\ At(fs, dir, s).no = no}
        s == FirstPlace(found)
    IN  \E t \in found : t # s /\ t[1] = s[1]

(* The entry is cleared; a block that held nothing else, and is not the    *)
(* directory's first, is freed instead and keeps its bytes.                *)
delete_dir_entry(fs, dir, no) ==
    LET node == inode_open(fs, dir)
        own == {s \in Used(fs, dir) : At(fs, dir, s).name \notin {".", ".."}}
        found == {s \in own : At(fs, dir, s).no = no}
        s == FirstPlace(found)
        isFirst == \E i \in 1..PerSector : At(fs, dir, <<s[1], i>>).name = "."
        alone == Cardinality({t \in own : t[1] = s[1]}) = 1
        b == node.sec[s[1]]
        shrunk == [node EXCEPT !.size = @ - 1]
    IN  IF found = {} THEN fs
        ELSE IF alone /\ ~isFirst
        THEN Store(FreeBlock(fs, {b}), dir, [shrunk EXCEPT !.sec[s[1]] = 0])
        ELSE [Store(fs, dir, shrunk) EXCEPT !.data[b][s[2]] = NoEntry]

-----------------------------------------------------------------------------
(* System calls.                                                            *)

(* Mutant of IsNew: any name of the path may be missing.                    *)
IsNewAnywhere(r, path) == r.no = NotFound
IsNew(r, path) == r.no = NotFound /\ r.depth = Len(path)

sys_mkdir(fs, path) ==
    LET r == search_file(fs, path)
        no == Min(FreeInodes(fs))
        b == Min(FreeBlocks(fs))
        (* written before the parent gets its entry *)
        begun == [TakeBlock(fs, b) EXCEPT !.data[b] = FirstSector(no, r.dir)]
        entered == sync_dir_entry(begun, r.dir, Entry(Last(path), no, "dir"))
        (* case 2 of rollback returns the inode's bit, not the block's *)
        given_up == [begun EXCEPT !.lost = @ \cup {b}]
    IN  IF ~IsNew(r, path) \/ FreeInodes(fs) = {} \/ FreeBlocks(fs) = {} THEN Refuse(fs)
        ELSE IF ~entered.ok THEN Refuse(given_up)
        ELSE Result(TRUE, [inode_sync(entered.fs, no, DirNode(b))
                              EXCEPT !.ibits = @ \cup {no}, !.dibits = @ \cup {no}])

(* sys_open with O_CREAT, sys_write of one sector, sys_close.  A failed    *)
(* write leaves an empty file.                                             *)
create_file(fs, path) ==
    LET r == search_file(fs, path)
        no == Min(FreeInodes(fs))
        entered == sync_dir_entry(fs, r.dir, Entry(Last(path), no, "file"))
        made == [inode_sync(entered.fs, no, inode_init)
                    EXCEPT !.ibits = @ \cup {no}, !.dibits = @ \cup {no}]
        b == Min(FreeBlocks(made))
        written == [inode_init EXCEPT !.size = 1, !.sec[0] = b]
    IN  IF ~IsNew(r, path) \/ FreeInodes(fs) = {} \/ ~entered.ok THEN Refuse(fs)
        ELSE IF FreeBlocks(made) = {} THEN Result(TRUE, made)
        ELSE Result(TRUE, [inode_sync(TakeBlock(made, b), no, written)
                              EXCEPT !.data[b] = FileBytes])

sys_unlink(fs, path) ==
    LET r == search_file(fs, path)
    IN  IF r.no = Root THEN Stop(fs)
        ELSE IF r.kind # "file" THEN Refuse(fs)
        ELSE IF NamedTwice(fs, r.dir, r.no) THEN Stop(fs)
        ELSE Result(TRUE, inode_release(delete_dir_entry(fs, r.dir, r.no), r.no))

(* dir_open opens the directory that is to go, and nobody closes it.  The  *)
(* assertion of dir_remove: an empty directory has its first block only.   *)
sys_rmdir(fs, path) ==
    LET r == search_file(fs, path)
        opened == KeepOpen(fs, r.no)
        node == inode_open(fs, r.no)
        dir_is_empty == node.size = 2
    IN  IF r.no = Root THEN Stop(fs)
        ELSE IF r.kind # "dir" THEN Refuse(fs)
        ELSE IF ~dir_is_empty THEN Refuse(opened)
        ELSE IF \E k \in 1..Direct - 1 : node.sec[k] # 0 THEN Stop(opened)
        ELSE IF NamedTwice(opened, r.dir, r.no) THEN Stop(opened)
        ELSE Result(TRUE, inode_release(delete_dir_entry(opened, r.dir, r.no), r.no))

(* Mutant of sys_chdir: inode 0 is taken for none.                          *)
ChdirMissesRoot(fs, path) ==
    LET r == search_file(fs, path)
    IN  [ok |-> r.kind = "dir" /\ r.no # Root, no |-> r.no]

(* The current directory's inode number, or the reason why it stays.        *)
sys_chdir(fs, path) ==
    LET r == search_file(fs, path)
    IN  [ok |-> r.kind = "dir", no |-> r.no]

(* dir_read meets place s before place t.                                  *)
Before(s, t) == s[1] < t[1] \/ (s[1] = t[1] /\ s[2] < t[2])

(* The names readdir returns from the start of a directory to its end.     *)
(* The end is where dir_pos reaches i_size: with a size larger than the    *)
(* entries it has, dir_read leaves the array of blocks.                    *)
dir_read(fs, no) ==
    LET rank(s) == 1 + Cardinality({t \in Used(fs, no) : Before(t, s)})
    IN  [i \in 1..inode_open(fs, no).size |->
            At(fs, no, CHOOSE s \in Used(fs, no) : rank(s) = i)]

Readable(fs, no) == inode_open(fs, no).size <= Cardinality(Used(fs, no))

(* sys_getcwd climbs from the current directory to the root.               *)
(* get_parent_dir_inode_nr asserts that the second entry of the first      *)
(* block is a directory; get_child_dir_name stays for ever at a block      *)
(* number that is 0, and returns -1 when there is none.                    *)
NoAnswer == [ok |-> FALSE, stops |-> FALSE, path |-> <<>>]
Stuck == [ok |-> FALSE, stops |-> TRUE, path |-> <<>>]

get_child_dir_name(fs, dir, no) ==
    LET sec == inode_open(fs, dir).sec
        found == {s \in Places(fs, dir) : At(fs, dir, s).no = no}
        reached(k) == \A j \in 0..k - 1 : sec[j] # 0
    IN  IF found # {} /\ reached(FirstPlace(found)[1])
        THEN [NoAnswer EXCEPT !.ok = TRUE, !.path = <<At(fs, dir, FirstPlace(found)).name>>]
        ELSE IF reached(Direct) THEN NoAnswer ELSE Stuck

sys_getcwd(fs, cwd) ==
    LET climb[left \in 0..Inodes] == [no \in Inode |->
            LET first == inode_open(fs, no).sec[0]
                parent == fs.data[first][2]
                name == get_child_dir_name(fs, parent.no, no)
                above == climb[left - 1][parent.no]
            IN  IF no = Root THEN [NoAnswer EXCEPT !.ok = TRUE]
                ELSE IF left = 0 \/ first = 0 THEN Stuck
                ELSE IF parent.kind # "dir" THEN Stuck
                ELSE IF ~name.ok THEN name
                ELSE IF ~above.ok THEN above
                ELSE [NoAnswer EXCEPT !.ok = TRUE, !.path = above.path \o name.path]]
    IN  climb[Inodes][cwd]

-----------------------------------------------------------------------------
(* What every call keeps of a sound file system, in terms of the disk.     *)
(* Inside of a call an inode may be in use without a name (orphans), and   *)
(* marked blocks may belong to nobody (spare).  The inodes in use are some *)
(* that inode_sync finds.                                                  *)
Node == [size : Nat, sec : [0..Direct - 1 -> 0..Blocks + 1]]
DirEntry ==
    [name : Name \cup {".", "..", "", "bytes"}, no : Inode, kind : {"dir", "file", "unknown"}]
FileSystem ==
    [ibits : SUBSET Located, bbits : SUBSET Block, dibits : SUBSET Located, dbbits : SUBSET Block,
     disk : [Inode -> Node], core : [Inode -> Node], cnt : [Inode -> Nat],
     data : [Block -> [1..PerSector -> DirEntry]], lost : SUBSET Block]

CacheIsCurrent(fs) ==
    /\ fs.dibits = fs.ibits /\ fs.dbbits = fs.bbits
    /\ \A no \in fs.ibits : fs.cnt[no] > 0 => fs.core[no] = fs.disk[no]

BlockOf(fs, no, k) == fs.disk[no].sec[k]

(* Every marked block that is not spare stands at one place of one inode.  *)
BlocksAreOwned(fs, spare) ==
    /\ spare \subseteq fs.bbits
    /\ \A no \in fs.ibits, k \in 0..Direct - 1 :
          BlockOf(fs, no, k) # 0 => BlockOf(fs, no, k) \in fs.bbits \ spare
    /\ \A no, other \in fs.ibits, k, j \in 0..Direct - 1 :
          BlockOf(fs, no, k) = BlockOf(fs, other, j) /\ BlockOf(fs, no, k) # 0
             => no = other /\ k = j
    /\ \A b \in fs.bbits \ spare :
          \E no \in fs.ibits, k \in 0..Direct - 1 : BlockOf(fs, no, k) = b

Slots == (0..Direct - 1) \X (1..PerSector)
Slot(fs, no, s) == fs.data[BlockOf(fs, no, s[1])][s[2]]
Live(fs, no) == {s \in Slots : BlockOf(fs, no, s[1]) # 0}
Namings(fs, d) == {s \in Live(fs, d) : Slot(fs, d, s).name \in Name}

HoldsDir(fs, no) == BlockOf(fs, no, 0) # 0 /\ Slot(fs, no, <<0, 1>>).name = "."
DirsOnDisk(fs) == {no \in fs.ibits : HoldsDir(fs, no)}
Up(fs, d) == Slot(fs, d, <<0, 2>>).no

(* An entry of d names an inode in use and its kind; what it names, when it *)
(* is a directory, has d as its parent.                                     *)
NamesChild(fs, d, e) ==
    /\ e.no \in fs.ibits \ {Root}
    /\ e.kind = IF HoldsDir(fs, e.no) THEN "dir" ELSE "file"
    /\ HoldsDir(fs, e.no) => Up(fs, e.no) = d

EntriesFit(fs, d) ==
    /\ Slot(fs, d, <<0, 1>>) = Entry(".", d, "dir")
    /\ Slot(fs, d, <<0, 2>>).name = ".." /\ Slot(fs, d, <<0, 2>>).kind = "dir"
    /\ \A s \in Live(fs, d) \ {<<0, 1>>, <<0, 2>>} :
          \/ Slot(fs, d, s) = NoEntry
          \/ s \in Namings(fs, d) /\ NamesChild(fs, d, Slot(fs, d, s))
    /\ \A s, t \in Namings(fs, d) : Slot(fs, d, s).name = Slot(fs, d, t).name => s = t
    /\ fs.disk[d].size = 2 + Cardinality(Namings(fs, d))

NamedIn(fs, no, d) == \E s \in Namings(fs, d) : Slot(fs, d, s).no = no

DirsFormTree(fs, orphans) ==
    /\ Root \in DirsOnDisk(fs) /\ Up(fs, Root) = Root
    /\ \A d \in DirsOnDisk(fs) : EntriesFit(fs, d)
    /\ \A d, e \in DirsOnDisk(fs) : \A s \in Namings(fs, d), t \in Namings(fs, e) :
          Slot(fs, d, s).no = Slot(fs, e, t).no => d = e /\ s = t
    /\ orphans \subseteq fs.ibits \ {Root}
    /\ \A no \in fs.ibits \ {Root} :
          no \in orphans <=> \A d \in DirsOnDisk(fs) : ~NamedIn(fs, no, d)

(* A directory's blocks, but for its first, hold entries with names.        *)
BlocksAreUsed(fs) ==
    \A d \in DirsOnDisk(fs), k \in 1..Direct - 1 :
        BlockOf(fs, d, k) # 0 => \E s \in Namings(fs, d) : s[1] = k

(* No block of a directory is missing before the last.                      *)
NoHoles(fs) ==
    \A d \in DirsOnDisk(fs), k \in 1..Direct - 1 :
        BlockOf(fs, d, k) # 0 => BlockOf(fs, d, k - 1) # 0

Sound(fs, orphans, spare) ==
    /\ fs \in FileSystem
    /\ CacheIsCurrent(fs)
    /\ BlocksAreOwned(fs, spare)
    /\ DirsFormTree(fs, orphans)

=============================================================================
