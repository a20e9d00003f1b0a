---------------------------- MODULE ShellProofs ----------------------------
(***************************************************************************)
(* The file system under the shell's commands, for any disk, any names and *)
(* any paths: Inv of module Shell is inductive when no inode number is     *)
(* given out that is open or that a byte does not hold, and the tree of    *)
(* directories, the owners of blocks and the disk's copies are as the      *)
(* properties of Shell say.                                                *)
(*                                                                         *)
(* A system call is a composition of a few changes: a block is taken, an   *)
(* inode is born without a name, an entry is put, an entry is taken away,  *)
(* an inode is released.  Each has its lemma on Sound.                     *)
(*                                                                         *)
(* The second half is about paths: Leads(f, p, no, kind) says that p leads *)
(* from the root to no, the tree is the set of paths that lead somewhere,  *)
(* and a command that succeeds makes or takes away one link (Makes,        *)
(* Removes).                                                               *)
(***************************************************************************)
EXTENDS Shell, FiniteSetTheorems, SequenceTheorems, TLAPS

---------------------------------------------------------------------------
(* Small numbers and the parts of a disk                                   *)

LEMMA Sizes ==
    /\ Inodes \in Nat /\ Inodes > 0 /\ Blocks \in Nat /\ Blocks > 0
    /\ Direct \in Nat /\ Direct > 0 /\ PerSector \in Nat /\ PerSector > 2
<1>1. Inodes \in Nat \ {0} /\ Blocks \in Nat \ {0} /\ Direct \in Nat \ {0}
  BY DirectoriesAssumption
<1>2. PerSector \in Nat /\ PerSector > 2
  BY DirectoriesAssumption
<1> QED BY <1>1, <1>2

LEMMA Words == "." \notin Name /\ ".." \notin Name /\ "" \notin Name /\ "bytes" \notin Name
BY DirectoriesAssumption

(* A set of naturals that is not empty has a least element, and Min is it.  *)
LEMMA MinIsLeast ==
    ASSUME NEW S, S \subseteq Nat, S # {}
    PROVE  Min(S) \in S /\ \A n \in S : Min(S) <= n
<1>1. \E n \in S : \A m \in S : n <= m
  <2>1. IsWellFoundedOn(OpToRel(<, Nat), Nat)
    BY NatLessThanWellFounded
  <2>2. PICK n \in S : \A m \in S : ~ <<m, n>> \in OpToRel(<, Nat)
    BY ONLY <2>1, WFMin, S \subseteq Nat, S # {}
  <2>3. \A m \in S : ~ m < n
    <3> TAKE m \in S
  <3>1. <<m, n>> \notin OpToRel(<, Nat) /\ m \in Nat /\ n \in Nat
    BY <2>2
  <3> QED BY <3>1 DEF OpToRel
  <2>4. \A m \in S : n <= m
    BY <2>3
  <2> QED BY <2>4
<1> QED BY <1>1, Zenon DEF Min

LEMMA RangesAreFinite ==
    /\ IsFiniteSet(Slots)
    /\ Slots \subseteq Nat \X Nat
    /\ <<0, 1>> \in Slots /\ <<0, 2>> \in Slots
    /\ 0 \notin Block
    /\ Root \in Inode /\ Inode \subseteq Nat /\ Block \subseteq Nat
<1>1. IsFiniteSet(0..Direct - 1) /\ IsFiniteSet(1..PerSector)
  BY FS_Interval, Sizes
<1>2. IsFiniteSet(Slots)
  BY <1>1, FS_Product DEF Slots
<1>3. 0..Direct - 1 \subseteq Nat /\ 1..PerSector \subseteq Nat /\ 0 \in 0..Direct - 1
      /\ 1 \in 1..PerSector /\ 2 \in 1..PerSector
  BY Sizes
<1>4. Slots \subseteq Nat \X Nat /\ <<0, 1>> \in Slots /\ <<0, 2>> \in Slots
  BY <1>3 DEF Slots
<1>5. /\ 0 \notin Block
      /\ Root \in Inode /\ Inode \subseteq Nat /\ Block \subseteq Nat
  BY Sizes DEF Block, Root, Inode
<1> QED BY <1>2, <1>4, <1>5

(* The inodes that inode_sync finds; the root is one.                      *)
LEMMA LocatedOnes ==
    /\ Located \subseteq Inode /\ Root \in Located
    /\ \A no \in Located : inode_locate(no) = no
<1>1. SyncNumbers \in Nat \ {0}
  BY DirectoriesAssumption
<1>2. \A n \in Nat \ {0} : 0 % n = 0
  OBVIOUS
<1>3. inode_locate(Root) = Root
  BY <1>1, <1>2 DEF inode_locate, Root
<1> QED BY <1>3, RangesAreFinite DEF Located

LEMMA EntryIs ==
    ASSUME NEW name, NEW no, NEW kind
    PROVE  /\ Entry(name, no, kind).name = name
           /\ Entry(name, no, kind).no = no
           /\ Entry(name, no, kind).kind = kind
BY DEF Entry

LEMMA EntriesAreTyped ==
    ASSUME NEW name \in Name \cup {".", "..", "", "bytes"}, NEW no \in Inode,
           NEW kind \in {"dir", "file", "unknown"}
    PROVE  Entry(name, no, kind) \in DirEntry
BY DEF Entry, DirEntry

LEMMA NoEntryIs ==
    NoEntry \in DirEntry /\ NoEntry.name = "" /\ NoEntry.kind = "unknown" /\ NoEntry.name \notin Name
<1>1. NoEntry = Entry("", Root, "unknown")
  BY DEF NoEntry, Root
<1>2. NoEntry \in DirEntry
  BY <1>1, EntriesAreTyped, RangesAreFinite
<1>3. NoEntry.name = "" /\ NoEntry.kind = "unknown"
  BY <1>1 DEF Entry
<1> QED BY <1>2, <1>3, Words

LEMMA EmptySectorIs ==
    /\ EmptySector \in [1..PerSector -> DirEntry]
    /\ \A i \in 1..PerSector : EmptySector[i] = NoEntry
BY NoEntryIs DEF EmptySector

LEMMA FileBytesIs ==
    FileBytes \in [1..PerSector -> DirEntry] /\ FileBytes[1].name = "bytes"
<1>1. FileBytes = [i \in 1..PerSector |-> Entry("bytes", Root, "unknown")]
  BY DEF FileBytes, Root
<1>2. Entry("bytes", Root, "unknown") \in DirEntry
  BY EntriesAreTyped, RangesAreFinite
<1>3. Entry("bytes", Root, "unknown").name = "bytes"
  BY EntryIs
<1>4. 1 \in 1..PerSector
  BY Sizes
<1> QED BY <1>1, <1>2, <1>3, <1>4

LEMMA FirstSectorIs ==
    ASSUME NEW no \in Inode, NEW parent \in Inode
    PROVE  /\ FirstSector(no, parent) \in [1..PerSector -> DirEntry]
           /\ FirstSector(no, parent)[1] = Entry(".", no, "dir")
           /\ FirstSector(no, parent)[2] = Entry("..", parent, "dir")
           /\ \A i \in 3..PerSector : FirstSector(no, parent)[i] = NoEntry
<1>1. Entry(".", no, "dir") \in DirEntry /\ Entry("..", parent, "dir") \in DirEntry
  BY EntriesAreTyped
<1>2. FirstSector(no, parent) =
          [EmptySector EXCEPT ![1] = Entry(".", no, "dir"), ![2] = Entry("..", parent, "dir")]
  BY DEF FirstSector
<1>3. 1 \in 1..PerSector /\ 2 \in 1..PerSector /\ 3..PerSector \subseteq (1..PerSector) \ {1, 2}
  BY Sizes
<1>4. FirstSector(no, parent) \in [1..PerSector -> DirEntry]
  BY <1>1, <1>2, EmptySectorIs
<1>5. FirstSector(no, parent)[1] = Entry(".", no, "dir")
  BY <1>2, <1>3, EmptySectorIs
<1>6. FirstSector(no, parent)[2] = Entry("..", parent, "dir")
  BY <1>2, <1>3, EmptySectorIs
<1>7. \A i \in 3..PerSector : FirstSector(no, parent)[i] = NoEntry
  BY <1>2, <1>3, EmptySectorIs
<1> QED BY <1>4, <1>5, <1>6, <1>7

LEMMA NodesAreTyped ==
    /\ inode_init \in Node /\ \A k \in 0..Direct - 1 : inode_init.sec[k] = 0
    /\ \A b \in Block : /\ DirNode(b) \in Node /\ DirNode(b).size = 2
                        /\ \A k \in 0..Direct - 1 : DirNode(b).sec[k] = IF k = 0 THEN b ELSE 0
<1>1. inode_init = [size |-> 0, sec |-> [k \in 0..Direct - 1 |-> 0]]
  BY DEF inode_init
<1>2. inode_init \in Node /\ \A k \in 0..Direct - 1 : inode_init.sec[k] = 0
  BY <1>1, Sizes DEF Node
<1>3. ASSUME NEW b \in Block
      PROVE  DirNode(b) = [size |-> 2, sec |-> [k \in 0..Direct - 1 |-> IF k = 0 THEN b ELSE 0]]
  <2> DEFINE none == [k \in 0..Direct - 1 |-> 0]
  <2> DEFINE r == [inode_init EXCEPT !.size = 2]
  <2>3. DirNode(b) = [r EXCEPT !.sec[0] = b]
    BY DEF DirNode
  <2>5. inode_init = [size |-> 0, sec |-> none]
    BY <1>1
  <2>4. r = [size |-> 2, sec |-> none]
    <3> HIDE DEF none
    <3> QED BY <2>5
  <2>1. DirNode(b) = [size |-> 2, sec |-> [none EXCEPT ![0] = b]]
    <3> HIDE DEF none, r
    <3> QED BY <2>3, <2>4
  <2>2. [none EXCEPT ![0] = b] = [k \in 0..Direct - 1 |-> IF k = 0 THEN b ELSE 0]
    BY Sizes
  <2> QED BY <2>1, <2>2
<1>4. ASSUME NEW b \in Block
      PROVE  [size |-> 2, sec |-> [k \in 0..Direct - 1 |-> IF k = 0 THEN b ELSE 0]] \in Node
  <2>1. [k \in 0..Direct - 1 |-> IF k = 0 THEN b ELSE 0] \in [0..Direct - 1 -> 0..Blocks + 1]
    BY Sizes DEF Block
  <2> QED BY <2>1 DEF Node
<1>5. ASSUME NEW b \in Block
      PROVE  /\ DirNode(b) \in Node /\ DirNode(b).size = 2
             /\ \A k \in 0..Direct - 1 : DirNode(b).sec[k] = IF k = 0 THEN b ELSE 0
  <2>1. DirNode(b) \in Node
    BY <1>3, <1>4
  <2> DEFINE first == [k \in 0..Direct - 1 |-> IF k = 0 THEN b ELSE 0]
  <2>3. DirNode(b) = [size |-> 2, sec |-> first]
    BY <1>3
  <2>2. DirNode(b).size = 2 /\ DirNode(b).sec = first
    <3> HIDE DEF first
    <3> QED BY <2>3
  <2> QED BY <2>1, <2>2
<1> QED BY <1>2, <1>5
---------------------------------------------------------------------------
(* What is left alone                                                      *)

(* The types of a file system's parts.                                     *)
LEMMA Parts ==
    ASSUME NEW f \in FileSystem
    PROVE  /\ f.ibits \in SUBSET Inode /\ f.bbits \in SUBSET Block
           /\ f.dibits \in SUBSET Inode /\ f.dbbits \in SUBSET Block
           /\ f.disk \in [Inode -> Node] /\ f.core \in [Inode -> Node]
           /\ f.cnt \in [Inode -> Nat]
           /\ f.data \in [Block -> [1..PerSector -> DirEntry]]
           /\ f.lost \in SUBSET Block
BY LocatedOnes DEF FileSystem

LEMMA UsedAreLocated ==
    ASSUME NEW f \in FileSystem
    PROVE  /\ f.ibits \subseteq Located /\ f.dibits \subseteq Located
           /\ \A no \in f.ibits : no \in Located
BY DEF FileSystem

LEMMA BlocksAreTyped ==
    ASSUME NEW f \in FileSystem, NEW no \in Inode, NEW k \in 0..Direct - 1
    PROVE  /\ BlockOf(f, no, k) = f.disk[no].sec[k]
           /\ BlockOf(f, no, k) \in 0..Blocks + 1
           /\ BlockOf(f, no, k) # 0 => BlockOf(f, no, k) \in Block
<1>1. f.disk[no] \in Node
  BY Parts
<1>2. BlockOf(f, no, k) \in 0..Blocks + 1
  BY <1>1 DEF BlockOf, Node
<1> QED BY <1>2, Sizes DEF BlockOf, Block

LEMMA SlotsAreTyped ==
    ASSUME NEW f \in FileSystem, NEW no \in Inode, NEW s \in Live(f, no)
    PROVE  /\ s \in Slots /\ s[1] \in 0..Direct - 1 /\ s[2] \in 1..PerSector
           /\ s = <<s[1], s[2]>>
           /\ BlockOf(f, no, s[1]) \in Block
           /\ Slot(f, no, s) = f.data[BlockOf(f, no, s[1])][s[2]]
           /\ Slot(f, no, s) \in DirEntry
<1>1. s \in Slots /\ BlockOf(f, no, s[1]) # 0
  BY DEF Live
<1>2. s[1] \in 0..Direct - 1 /\ s[2] \in 1..PerSector /\ s = <<s[1], s[2]>>
  BY <1>1 DEF Slots
<1>3. BlockOf(f, no, s[1]) \in Block
  BY <1>1, <1>2, BlocksAreTyped
<1>4. f.data[BlockOf(f, no, s[1])] \in [1..PerSector -> DirEntry]
  BY <1>3, Parts
<1>5. Slot(f, no, s) = f.data[BlockOf(f, no, s[1])][s[2]]
  BY DEF Slot
<1>6. Slot(f, no, s) \in DirEntry
  BY <1>2, <1>4, <1>5
<1> QED BY <1>1, <1>2, <1>3, <1>5, <1>6

(* From f to g the inode no and its blocks stay as they are.               *)
Untouched(f, g, no) ==
    /\ g.disk[no] = f.disk[no]
    /\ \A k \in 0..Direct - 1 : BlockOf(f, no, k) # 0 =>
          g.data[BlockOf(f, no, k)] = f.data[BlockOf(f, no, k)]

LEMMA UntouchedLooks ==
    ASSUME NEW f, NEW g, NEW no, Untouched(f, g, no)
    PROVE  /\ \A k : BlockOf(g, no, k) = BlockOf(f, no, k)
           /\ Live(g, no) = Live(f, no)
           /\ \A s \in Live(f, no) : Slot(g, no, s) = Slot(f, no, s)
           /\ Namings(g, no) = Namings(f, no)
           /\ HoldsDir(g, no) <=> HoldsDir(f, no)
           /\ HoldsDir(f, no) => Up(g, no) = Up(f, no)
<1>1. \A k : BlockOf(g, no, k) = BlockOf(f, no, k)
  BY DEF Untouched, BlockOf
<1>2. Live(g, no) = Live(f, no)
  BY <1>1 DEF Live
<1>3. ASSUME NEW s \in Live(f, no) PROVE Slot(g, no, s) = Slot(f, no, s)
  <2>1. s[1] \in 0..Direct - 1 /\ BlockOf(f, no, s[1]) # 0
    BY DEF Live, Slots
  <2>2. g.data[BlockOf(f, no, s[1])] = f.data[BlockOf(f, no, s[1])]
    BY <2>1 DEF Untouched
  <2> QED BY <1>1, <2>2 DEF Slot
<1>4. Namings(g, no) = Namings(f, no)
  BY <1>2, <1>3 DEF Namings
<1>5. BlockOf(f, no, 0) # 0 => <<0, 1>> \in Live(f, no) /\ <<0, 2>> \in Live(f, no)
  <2>1. <<0, 1>>[1] = 0 /\ <<0, 2>>[1] = 0
    OBVIOUS
  <2> QED BY <2>1, RangesAreFinite DEF Live
<1>6. HoldsDir(g, no) <=> HoldsDir(f, no)
  BY <1>1, <1>3, <1>5 DEF HoldsDir
<1>7. HoldsDir(f, no) => Up(g, no) = Up(f, no)
  BY <1>3, <1>5 DEF HoldsDir, Up
<1> QED BY <1>1, <1>2, <1>3, <1>4, <1>6, <1>7

(* Whether no is a directory, and of which parent.                         *)
SameHead(f, g, no) ==
    /\ HoldsDir(g, no) <=> HoldsDir(f, no)
    /\ HoldsDir(f, no) => Up(g, no) = Up(f, no)

(* Where the places of a directory's first two entries are.                *)
LEMMA FirstPlaces ==
    ASSUME NEW f \in FileSystem, NEW d \in Inode, HoldsDir(f, d)
    PROVE  /\ <<0, 1>> \in Live(f, d) /\ <<0, 2>> \in Live(f, d)
           /\ BlockOf(f, d, 0) \in Block
<1>1. BlockOf(f, d, 0) # 0 /\ 0 \in 0..Direct - 1
  BY Sizes DEF HoldsDir
<1>2. <<0, 1>>[1] = 0 /\ <<0, 2>>[1] = 0
  OBVIOUS
<1>3. <<0, 1>> \in Live(f, d) /\ <<0, 2>> \in Live(f, d)
  BY <1>1, <1>2, RangesAreFinite DEF Live
<1> QED BY <1>1, <1>3, BlocksAreTyped

(* "." and ".." are no names of children.                                  *)
LEMMA NamingsAreChildren ==
    ASSUME NEW f \in FileSystem, NEW d \in Inode, EntriesFit(f, d), NEW s \in Namings(f, d)
    PROVE  /\ s \in Live(f, d) /\ s # <<0, 1>> /\ s # <<0, 2>>
           /\ Slot(f, d, s).name \in Name
           /\ Slot(f, d, s) # NoEntry
           /\ NamesChild(f, d, Slot(f, d, s))
<1>1. s \in Live(f, d) /\ Slot(f, d, s).name \in Name
  BY DEF Namings
<1>2. Slot(f, d, <<0, 1>>).name = "."
  BY DEF EntriesFit, Entry
<1>3. Slot(f, d, <<0, 2>>).name = ".."
  BY DEF EntriesFit
<1>4. s # <<0, 1>> /\ s # <<0, 2>>
  BY <1>1, <1>2, <1>3, Words
<1>5. Slot(f, d, s) # NoEntry
  BY <1>1, NoEntryIs
<1>6. NamesChild(f, d, Slot(f, d, s))
  BY <1>1, <1>4, <1>5 DEF EntriesFit
<1> QED BY <1>1, <1>4, <1>5, <1>6

LEMMA ChildStays ==
    ASSUME NEW f, NEW g, NEW d, NEW e, NamesChild(f, d, e),
           e.no \in g.ibits, SameHead(f, g, e.no)
    PROVE  NamesChild(g, d, e)
BY DEF NamesChild, SameHead

(* A directory nothing is changed of still fits when all it names does.    *)
LEMMA EntriesStay ==
    ASSUME NEW f \in FileSystem, NEW g \in FileSystem, NEW d \in Inode,
           HoldsDir(f, d), EntriesFit(f, d), Untouched(f, g, d),
           \A s \in Namings(f, d) : /\ Slot(f, d, s).no \in g.ibits
                                    /\ SameHead(f, g, Slot(f, d, s).no)
    PROVE  EntriesFit(g, d)
<1>1. /\ Live(g, d) = Live(f, d) /\ Namings(g, d) = Namings(f, d)
      /\ \A s \in Live(f, d) : Slot(g, d, s) = Slot(f, d, s)
      /\ g.disk[d] = f.disk[d]
  BY UntouchedLooks DEF Untouched
<1>2. /\ Slot(g, d, <<0, 1>>) = Slot(f, d, <<0, 1>>)
      /\ Slot(g, d, <<0, 2>>) = Slot(f, d, <<0, 2>>)
  BY <1>1, FirstPlaces
<1>3. ASSUME NEW s \in Live(g, d) \ {<<0, 1>>, <<0, 2>>}
      PROVE  \/ Slot(g, d, s) = NoEntry
             \/ s \in Namings(g, d) /\ NamesChild(g, d, Slot(g, d, s))
  <2>1. \/ Slot(f, d, s) = NoEntry
        \/ s \in Namings(f, d) /\ NamesChild(f, d, Slot(f, d, s))
    BY <1>1 DEF EntriesFit
  <2>2. CASE s \in Namings(f, d) /\ NamesChild(f, d, Slot(f, d, s))
    <3>1. NamesChild(g, d, Slot(f, d, s))
      BY <2>2, ChildStays
    <3> QED BY <1>1, <2>2, <3>1
  <2> QED BY <1>1, <2>1, <2>2
<1>4. \A s, t \in Namings(g, d) : Slot(g, d, s).name = Slot(g, d, t).name => s = t
  <2>1. \A s \in Namings(f, d) : s \in Live(f, d)
    BY DEF Namings
  <2> QED BY <1>1, <2>1 DEF EntriesFit
<1> QED BY <1>1, <1>2, <1>3, <1>4 DEF EntriesFit

(* Nothing that belongs to a directory changes, and no file becomes one.   *)
LEMMA TreeStays ==
    ASSUME NEW f \in FileSystem, NEW g \in FileSystem, NEW orphans,
           DirsFormTree(f, orphans), g.ibits = f.ibits,
           \A no \in f.ibits : Untouched(f, g, no) \/ (~HoldsDir(f, no) /\ ~HoldsDir(g, no))
    PROVE  DirsFormTree(g, orphans)
<1>1. f.ibits \subseteq Inode
  BY Parts
<1>2. \A no \in f.ibits : SameHead(f, g, no)
  BY UntouchedLooks DEF SameHead
<1>3. DirsOnDisk(g) = DirsOnDisk(f)
  BY <1>2 DEF DirsOnDisk, SameHead
<1>4. ASSUME NEW d \in DirsOnDisk(f)
      PROVE  /\ d \in f.ibits /\ d \in Inode /\ HoldsDir(f, d) /\ EntriesFit(f, d)
             /\ Namings(g, d) = Namings(f, d)
             /\ \A s \in Namings(f, d) : Slot(g, d, s) = Slot(f, d, s)
             /\ \A no : NamedIn(g, no, d) <=> NamedIn(f, no, d)
  <2>1. d \in f.ibits /\ d \in Inode /\ HoldsDir(f, d) /\ EntriesFit(f, d)
    BY <1>1 DEF DirsOnDisk, DirsFormTree
  <2>2. Untouched(f, g, d)
    BY <2>1
  <2>3. /\ Namings(g, d) = Namings(f, d)
        /\ \A s \in Live(f, d) : Slot(g, d, s) = Slot(f, d, s)
    BY <2>2, UntouchedLooks
  <2>4. \A s \in Namings(f, d) : s \in Live(f, d)
    BY DEF Namings
  <2> QED BY <2>1, <2>3, <2>4 DEF NamedIn
<1>5. ASSUME NEW d \in DirsOnDisk(f) PROVE EntriesFit(g, d)
  <2>1. \A s \in Namings(f, d) : Slot(f, d, s).no \in f.ibits
    BY <1>4, NamingsAreChildren DEF NamesChild
  <2> QED BY <1>2, <1>4, <2>1, EntriesStay
<1>6. Up(g, Root) = Up(f, Root)
  BY <1>2 DEF DirsFormTree, DirsOnDisk, SameHead
<1>7. ASSUME NEW d \in DirsOnDisk(f), NEW e \in DirsOnDisk(f),
             NEW s \in Namings(g, d), NEW t \in Namings(g, e),
             Slot(g, d, s).no = Slot(g, e, t).no
      PROVE  d = e /\ s = t
  BY <1>4, <1>7 DEF DirsFormTree
<1>8. \A no \in f.ibits \ {Root} : no \in orphans <=> \A d \in DirsOnDisk(f) : ~NamedIn(g, no, d)
  BY <1>4 DEF DirsFormTree
<1> QED BY <1>3, <1>5, <1>6, <1>7, <1>8 DEF DirsFormTree

(* The inode in open_inodes is the one on the disk.                        *)
LEMMA OpenIsDisk ==
    ASSUME NEW f \in FileSystem, CacheIsCurrent(f), NEW no \in f.ibits
    PROVE  inode_open(f, no) = f.disk[no]
BY DEF CacheIsCurrent, inode_open

---------------------------------------------------------------------------
(* The changes that calls are made of                                      *)

(* A free block is marked and written, and belongs to nobody yet.          *)
LEMMA TakeSpare ==
    ASSUME NEW f, NEW orphans, NEW spare, Sound(f, orphans, spare),
           NEW b \in Block \ f.bbits, NEW g \in FileSystem, NEW sector,
           g.ibits = f.ibits, g.dibits = f.dibits,
           g.bbits = f.bbits \cup {b}, g.dbbits = f.dbbits \cup {b},
           g.disk = f.disk, g.core = f.core, g.cnt = f.cnt,
           g.data = [f.data EXCEPT ![b] = sector]
    PROVE  Sound(g, orphans, spare \cup {b})
<1>1. f \in FileSystem /\ CacheIsCurrent(f) /\ BlocksAreOwned(f, spare) /\ DirsFormTree(f, orphans)
  BY DEF Sound
<1>2. f.ibits \subseteq Inode /\ f.data \in [Block -> [1..PerSector -> DirEntry]]
  BY <1>1, Parts
<1>3. CacheIsCurrent(g)
  BY <1>1 DEF CacheIsCurrent
<1>4. \A no, k : BlockOf(g, no, k) = BlockOf(f, no, k)
  BY DEF BlockOf
<1>5. ASSUME NEW no \in f.ibits, NEW k \in 0..Direct - 1, BlockOf(f, no, k) # 0
      PROVE  BlockOf(f, no, k) \in f.bbits \ spare /\ BlockOf(f, no, k) # b
  BY <1>1, <1>5 DEF BlocksAreOwned
<1>6. ASSUME NEW no \in f.ibits PROVE Untouched(f, g, no)
  <2>1. ASSUME NEW k \in 0..Direct - 1, BlockOf(f, no, k) # 0
        PROVE  g.data[BlockOf(f, no, k)] = f.data[BlockOf(f, no, k)]
    BY <1>1, <1>2, <1>5, <2>1, BlocksAreTyped
  <2> QED BY <2>1 DEF Untouched
<1>7. DirsFormTree(g, orphans)
  BY <1>1, <1>6, TreeStays
<1>8. BlocksAreOwned(g, spare \cup {b})
  <2>1. spare \cup {b} \subseteq g.bbits
    BY <1>1 DEF BlocksAreOwned
  <2>2. \A no \in g.ibits, k \in 0..Direct - 1 :
          BlockOf(g, no, k) # 0 => BlockOf(g, no, k) \in g.bbits \ (spare \cup {b})
    BY <1>4, <1>5
  <2>3. \A no, other \in g.ibits, k, j \in 0..Direct - 1 :
          BlockOf(g, no, k) = BlockOf(g, other, j) /\ BlockOf(g, no, k) # 0
             => no = other /\ k = j
    BY <1>1, <1>4 DEF BlocksAreOwned
  <2>4. \A c \in g.bbits \ (spare \cup {b}) :
          \E no \in g.ibits, k \in 0..Direct - 1 : BlockOf(g, no, k) = c
    BY <1>1, <1>4 DEF BlocksAreOwned
  <2> QED BY <2>1, <2>2, <2>3, <2>4 DEF BlocksAreOwned
<1> QED BY <1>3, <1>7, <1>8 DEF Sound

(* Only what is in memory changes, and stays current.                      *)
LEMMA CacheChanges ==
    ASSUME NEW f, NEW orphans, NEW spare, Sound(f, orphans, spare), NEW g \in FileSystem,
           g.ibits = f.ibits, g.dibits = f.dibits, g.bbits = f.bbits, g.dbbits = f.dbbits,
           g.disk = f.disk, g.data = f.data,
           \A no \in f.ibits : g.cnt[no] > 0 => g.core[no] = f.disk[no]
    PROVE  Sound(g, orphans, spare)
<1>1. f \in FileSystem /\ CacheIsCurrent(f) /\ BlocksAreOwned(f, spare) /\ DirsFormTree(f, orphans)
  BY DEF Sound
<1>2. CacheIsCurrent(g)
  BY <1>1 DEF CacheIsCurrent
<1>3. BlocksAreOwned(g, spare)
  BY <1>1 DEF BlocksAreOwned, BlockOf
<1>4. DirsFormTree(g, orphans)
  BY <1>1, TreeStays DEF Untouched
<1> QED BY <1>2, <1>3, <1>4 DEF Sound

(* inode_open that nobody closes.                                          *)
LEMMA KeptOpen ==
    ASSUME NEW f, NEW orphans, NEW spare, Sound(f, orphans, spare), NEW no \in f.ibits
    PROVE  /\ Sound(KeepOpen(f, no), orphans, spare)
           /\ KeepOpen(f, no).ibits = f.ibits
           /\ KeepOpen(f, no).disk = f.disk
           /\ KeepOpen(f, no).data = f.data
           /\ KeepOpen(f, no).lost = f.lost
<1>1. f \in FileSystem /\ CacheIsCurrent(f)
  BY DEF Sound
<1>2. no \in Inode /\ inode_open(f, no) = f.disk[no]
  BY <1>1, Parts, OpenIsDisk
<1> DEFINE g == KeepOpen(f, no)
<1>3. g = [f EXCEPT !.core[no] = f.disk[no], !.cnt[no] = f.cnt[no] + 1]
  BY <1>2 DEF KeepOpen
<1>4. f.disk[no] \in Node /\ f.cnt[no] + 1 \in Nat
  BY <1>1, <1>2, Parts
<1> HIDE DEF g
<1>5. g \in FileSystem
  BY <1>1, <1>2, <1>3, <1>4 DEF FileSystem
<1>6. /\ g.ibits = f.ibits /\ g.dibits = f.dibits /\ g.bbits = f.bbits /\ g.dbbits = f.dbbits
      /\ g.disk = f.disk /\ g.data = f.data /\ g.lost = f.lost
  BY <1>1, <1>3 DEF FileSystem
<1>7. g.core = [f.core EXCEPT ![no] = f.disk[no]] /\ g.cnt = [f.cnt EXCEPT ![no] = f.cnt[no] + 1]
  BY <1>1, <1>3 DEF FileSystem
<1>8. \A m \in f.ibits : g.cnt[m] > 0 => g.core[m] = f.disk[m]
  BY <1>1, <1>2, <1>7, Parts DEF CacheIsCurrent
<1>9. Sound(g, orphans, spare)
  BY <1>5, <1>6, <1>8, CacheChanges
<1> QED BY <1>6, <1>9 DEF g

(* A reboot reads what is on the disk.                                     *)
LEMMA Mounted ==
    ASSUME NEW f, NEW spare, Sound(f, {}, spare)
    PROVE  Sound(mount_partition(f), {}, spare) /\ mount_partition(f).lost = f.lost
<1>1. f \in FileSystem /\ CacheIsCurrent(f)
  BY DEF Sound
<1> DEFINE core == [no \in Inode |-> IF no = Root THEN f.disk[Root] ELSE inode_init]
           cnt == [no \in Inode |-> IF no = Root THEN 1 ELSE 0]
           g == mount_partition(f)
<1>2. g = [f EXCEPT !.ibits = f.dibits, !.bbits = f.dbbits, !.core = core, !.cnt = cnt]
  BY DEF mount_partition
<1>3. core \in [Inode -> Node] /\ cnt \in [Inode -> Nat]
  BY <1>1, Parts, NodesAreTyped, RangesAreFinite
<1>4. \A no \in Inode : cnt[no] > 0 => core[no] = f.disk[no]
  OBVIOUS
<1> HIDE DEF core, cnt, g
<1>5. /\ g \in FileSystem
      /\ g.ibits = f.dibits /\ g.dibits = f.dibits /\ g.bbits = f.dbbits /\ g.dbbits = f.dbbits
      /\ g.disk = f.disk /\ g.data = f.data /\ g.lost = f.lost /\ g.core = core /\ g.cnt = cnt
  BY <1>1, <1>2, <1>3 DEF FileSystem
<1>6. \A no \in f.ibits : g.cnt[no] > 0 => g.core[no] = f.disk[no]
  BY <1>1, <1>4, <1>5, Parts
<1>7. g.ibits = f.ibits /\ g.bbits = f.bbits /\ f.dibits = f.ibits /\ f.dbbits = f.bbits
  BY <1>1, <1>5 DEF CacheIsCurrent
<1>8. Sound(g, {}, spare)
  BY <1>5, <1>6, <1>7, CacheChanges
<1> QED BY <1>5, <1>8 DEF g

(* The tree with one more inode that has no name, and names nothing.       *)
LEMMA TreeGrows ==
    ASSUME NEW f \in FileSystem, NEW g \in FileSystem, DirsFormTree(f, {}),
           NEW no \in Inode \ f.ibits, g.ibits = f.ibits \cup {no},
           \A m \in f.ibits : Untouched(f, g, m),
           HoldsDir(g, no) => EntriesFit(g, no) /\ Namings(g, no) = {}
    PROVE  DirsFormTree(g, {no})
<1>1. f.ibits \subseteq Inode
  BY Parts
<1>2. \A m \in f.ibits : SameHead(f, g, m)
  BY UntouchedLooks DEF SameHead
<1>3. /\ DirsOnDisk(f) \subseteq DirsOnDisk(g)
      /\ \A d \in DirsOnDisk(g) : d \in DirsOnDisk(f) \/ (d = no /\ HoldsDir(g, no))
  BY <1>2 DEF DirsOnDisk, SameHead
<1>4. ASSUME NEW d \in DirsOnDisk(f)
      PROVE  /\ d \in f.ibits /\ d \in Inode /\ HoldsDir(f, d) /\ EntriesFit(f, d)
             /\ Namings(g, d) = Namings(f, d)
             /\ \A s \in Namings(f, d) : /\ Slot(g, d, s) = Slot(f, d, s)
                                         /\ Slot(f, d, s).no \in f.ibits
             /\ \A m : NamedIn(g, m, d) <=> NamedIn(f, m, d)
  <2>1. d \in f.ibits /\ d \in Inode /\ HoldsDir(f, d) /\ EntriesFit(f, d)
    BY <1>1 DEF DirsOnDisk, DirsFormTree
  <2>2. Untouched(f, g, d)
    BY <2>1
  <2>3. /\ Namings(g, d) = Namings(f, d)
        /\ \A s \in Live(f, d) : Slot(g, d, s) = Slot(f, d, s)
    BY <2>2, UntouchedLooks
  <2>4. \A s \in Namings(f, d) : s \in Live(f, d)
    BY DEF Namings
  <2>5. \A s \in Namings(f, d) : Slot(f, d, s).no \in f.ibits
    BY <2>1, NamingsAreChildren DEF NamesChild
  <2> QED BY <2>1, <2>3, <2>4, <2>5 DEF NamedIn
<1>5. ASSUME NEW d \in DirsOnDisk(g) PROVE EntriesFit(g, d)
  <2>1. CASE d \in DirsOnDisk(f)
    <3>1. \A s \in Namings(f, d) : /\ Slot(f, d, s).no \in g.ibits
                                   /\ SameHead(f, g, Slot(f, d, s).no)
      BY <1>2, <1>4, <2>1
    <3>2. Untouched(f, g, d)
      BY <1>4, <2>1
    <3> QED BY <1>4, <2>1, <3>1, <3>2, EntriesStay
  <2>2. CASE d = no /\ HoldsDir(g, no)
    BY <2>2
  <2> QED BY <1>3, <2>1, <2>2
<1>6. Root \in DirsOnDisk(g) /\ Up(g, Root) = Root /\ Root \in f.ibits
  BY <1>2, <1>3 DEF DirsFormTree, DirsOnDisk, SameHead
<1>7. ASSUME NEW d \in DirsOnDisk(g), NEW s \in Namings(g, d)
      PROVE  d \in DirsOnDisk(f) /\ s \in Namings(f, d)
  <2>1. d # no
    BY <1>3, <1>4, <1>7
  <2> QED BY <1>3, <1>4, <2>1
<1>8. ASSUME NEW d \in DirsOnDisk(g), NEW e \in DirsOnDisk(g),
             NEW s \in Namings(g, d), NEW t \in Namings(g, e),
             Slot(g, d, s).no = Slot(g, e, t).no
      PROVE  d = e /\ s = t
  <2>1. d \in DirsOnDisk(f) /\ s \in Namings(f, d) /\ e \in DirsOnDisk(f) /\ t \in Namings(f, e)
    BY <1>7
  <2> QED BY <1>4, <1>8, <2>1 DEF DirsFormTree
<1>9. ASSUME NEW m \in g.ibits \ {Root}
      PROVE  m \in {no} <=> \A d \in DirsOnDisk(g) : ~NamedIn(g, m, d)
  <2>1. CASE m = no
    <3>1. ASSUME NEW d \in DirsOnDisk(g), NEW s \in Namings(g, d)
          PROVE  Slot(g, d, s).no # no
      BY <1>4, <1>7
    <3> QED BY <2>1, <3>1 DEF NamedIn
  <2>2. CASE m # no
    <3>1. m \in f.ibits \ {Root}
      BY <2>2
    <3>2. PICK d \in DirsOnDisk(f) : NamedIn(f, m, d)
      BY <3>1 DEF DirsFormTree
    <3> QED BY <1>3, <1>4, <2>2, <3>2
  <2> QED BY <2>1, <2>2
<1>10. {no} \subseteq g.ibits \ {Root}
  BY <1>6
<1> QED BY <1>5, <1>6, <1>8, <1>9, <1>10 DEF DirsFormTree

(* A new inode, with the block b that it brings or with none.              *)
LEMMA BirthOwners ==
    ASSUME NEW f \in FileSystem, NEW g, NEW spare, NEW mine, BlocksAreOwned(f, spare),
           NEW no \in Inode \ f.ibits, g.ibits = f.ibits \cup {no}, g.bbits = f.bbits,
           \A m \in f.ibits, k \in 0..Direct - 1 : BlockOf(g, m, k) = BlockOf(f, m, k),
           mine \subseteq spare,
           \A k \in 0..Direct - 1 : BlockOf(g, no, k) # 0 => BlockOf(g, no, k) \in mine,
           \A k, j \in 0..Direct - 1 :
              BlockOf(g, no, k) = BlockOf(g, no, j) /\ BlockOf(g, no, k) # 0 => k = j,
           \A b \in mine : \E k \in 0..Direct - 1 : BlockOf(g, no, k) = b
    PROVE  BlocksAreOwned(g, spare \ mine)
<1>1. spare \subseteq f.bbits
  BY DEF BlocksAreOwned
<1>2. ASSUME NEW m \in g.ibits, NEW k \in 0..Direct - 1, BlockOf(g, m, k) # 0
      PROVE  /\ BlockOf(g, m, k) \in g.bbits \ (spare \ mine)
             /\ m # no => BlockOf(g, m, k) \notin mine
  <2>1. CASE m = no
    BY <1>1, <1>2, <2>1
  <2>2. CASE m # no
    BY <1>2, <2>2 DEF BlocksAreOwned
  <2> QED BY <2>1, <2>2
<1>3. ASSUME NEW m \in g.ibits, NEW other \in g.ibits, NEW k \in 0..Direct - 1, NEW j \in 0..Direct - 1,
             BlockOf(g, m, k) = BlockOf(g, other, j), BlockOf(g, m, k) # 0
      PROVE  m = other /\ k = j
  <2>1. CASE m = no /\ other = no
    BY <1>3, <2>1
  <2>2. CASE m # no /\ other # no
    BY <1>3, <2>2 DEF BlocksAreOwned
  <2>3. CASE m = no /\ other # no
    BY <1>2, <1>3, <2>3
  <2>4. CASE m # no /\ other = no
    BY <1>2, <1>3, <2>4
  <2> QED BY <2>1, <2>2, <2>3, <2>4
<1>4. ASSUME NEW b \in g.bbits \ (spare \ mine)
      PROVE  \E m \in g.ibits, k \in 0..Direct - 1 : BlockOf(g, m, k) = b
  <2>1. CASE b \in mine
    BY <2>1
  <2>2. CASE b \notin mine
    <3>1. b \in f.bbits \ spare
      BY <2>2
    <3>2. PICK m \in f.ibits, k \in 0..Direct - 1 : BlockOf(f, m, k) = b
      BY <3>1 DEF BlocksAreOwned
    <3> QED BY <3>2
  <2> QED BY <2>1, <2>2
<1>5. spare \ mine \subseteq g.bbits
  BY <1>1
<1> QED BY <1>2, <1>3, <1>4, <1>5 DEF BlocksAreOwned

(* What inode_init, and ialloc with what follows it, do: no is in use with *)
(* the given node.                                                         *)
Birth(f, g, no, node) ==
    /\ g.ibits = f.ibits \cup {no} /\ g.dibits = f.dibits \cup {no}
    /\ g.bbits = f.bbits /\ g.dbbits = f.dbbits
    /\ g.disk = [f.disk EXCEPT ![no] = node]
    /\ g.core = f.core /\ g.cnt = f.cnt /\ g.data = f.data

LEMMA BirthIsAlone ==
    ASSUME NEW f \in FileSystem, NEW g, NEW no \in Inode \ f.ibits, NEW node \in Node,
           Birth(f, g, no, node)
    PROVE  /\ \A m \in f.ibits : Untouched(f, g, m)
           /\ \A k : BlockOf(g, no, k) = node.sec[k]
           /\ g.disk[no] = node
           /\ \A m \in f.ibits, k \in 0..Direct - 1 : BlockOf(g, m, k) = BlockOf(f, m, k)
<1>1. f.disk \in [Inode -> Node] /\ f.ibits \subseteq Inode
  BY Parts
<1>2. g.disk[no] = node /\ \A m \in f.ibits : g.disk[m] = f.disk[m]
  BY <1>1 DEF Birth
<1>3. \A m \in f.ibits : Untouched(f, g, m)
  BY <1>2 DEF Untouched, Birth
<1> QED BY <1>2, <1>3 DEF BlockOf

LEMMA BornCache ==
    ASSUME NEW f \in FileSystem, CacheIsCurrent(f), NEW g, NEW no \in Inode \ f.ibits, NEW node \in Node,
           f.cnt[no] = 0, Birth(f, g, no, node)
    PROVE  CacheIsCurrent(g)
<1>1. f.disk \in [Inode -> Node] /\ f.ibits \subseteq Inode
  BY Parts
<1>2. ASSUME NEW m \in g.ibits, g.cnt[m] > 0 PROVE g.core[m] = g.disk[m]
  <2>1. m # no
    BY <1>2 DEF Birth
  <2>2. m \in f.ibits
    BY <2>1 DEF Birth
  <2>3. f.core[m] = f.disk[m]
    BY <1>2, <2>2 DEF CacheIsCurrent, Birth
  <2> QED BY <1>1, <2>1, <2>2, <2>3 DEF Birth
<1> QED BY <1>2 DEF CacheIsCurrent, Birth

(* A new file is empty.                                                    *)
LEMMA FileIsBorn ==
    ASSUME NEW f, NEW spare, Sound(f, {}, spare), NEW g \in FileSystem,
           NEW no \in Inode \ f.ibits, f.cnt[no] = 0, Birth(f, g, no, inode_init)
    PROVE  Sound(g, {no}, spare) /\ ~HoldsDir(g, no)
<1>1. f \in FileSystem /\ CacheIsCurrent(f) /\ BlocksAreOwned(f, spare) /\ DirsFormTree(f, {})
  BY DEF Sound
<1>2. /\ \A m \in f.ibits : Untouched(f, g, m)
      /\ \A k \in 0..Direct - 1 : BlockOf(g, no, k) = 0
      /\ \A m \in f.ibits, k \in 0..Direct - 1 : BlockOf(g, m, k) = BlockOf(f, m, k)
  <2>1. inode_init \in Node /\ \A k \in 0..Direct - 1 : inode_init.sec[k] = 0
    BY NodesAreTyped
  <2>2. /\ \A m \in f.ibits : Untouched(f, g, m)
        /\ \A k : BlockOf(g, no, k) = inode_init.sec[k]
        /\ \A m \in f.ibits, k \in 0..Direct - 1 : BlockOf(g, m, k) = BlockOf(f, m, k)
    BY ONLY <1>1, <2>1, no \in Inode \ f.ibits, Birth(f, g, no, inode_init), BirthIsAlone
  <2> QED BY <2>1, <2>2
<1>3. ~HoldsDir(g, no)
  BY <1>2, Sizes DEF HoldsDir
<1>4. DirsFormTree(g, {no})
  BY <1>1, <1>2, <1>3, TreeGrows DEF Birth
<1>5. BlocksAreOwned(g, spare \ {})
  BY <1>1, <1>2, BirthOwners DEF Birth
<1>6. CacheIsCurrent(g)
  BY <1>1, BornCache, NodesAreTyped
<1>7. spare \ {} = spare
  OBVIOUS
<1> QED BY <1>3, <1>4, <1>5, <1>6, <1>7 DEF Sound

(* A directory of one block with "." and ".." and nothing else.            *)
LEMMA FreshDirectory ==
    ASSUME NEW g, NEW no \in Inode, NEW parent \in Inode, NEW b \in Block,
           \A k \in 0..Direct - 1 : BlockOf(g, no, k) = IF k = 0 THEN b ELSE 0,
           g.disk[no].size = 2, g.data[b] = FirstSector(no, parent)
    PROVE  /\ HoldsDir(g, no) /\ Up(g, no) = parent
           /\ Namings(g, no) = {} /\ EntriesFit(g, no)
<1>1. b # 0
  BY RangesAreFinite
<1>2. 0 \in 0..Direct - 1
  BY Sizes
<1>3. /\ Slot(g, no, <<0, 1>>) = Entry(".", no, "dir")
      /\ Slot(g, no, <<0, 2>>) = Entry("..", parent, "dir")
      /\ \A s \in Live(g, no) \ {<<0, 1>>, <<0, 2>>} : Slot(g, no, s) = NoEntry
  <2>1. g.data[BlockOf(g, no, 0)] = FirstSector(no, parent)
    BY <1>2
  <2>2. Slot(g, no, <<0, 1>>) = Entry(".", no, "dir") /\ Slot(g, no, <<0, 2>>) = Entry("..", parent, "dir")
    BY <2>1, FirstSectorIs DEF Slot
  <2>3. ASSUME NEW s \in Live(g, no) \ {<<0, 1>>, <<0, 2>>} PROVE Slot(g, no, s) = NoEntry
    <3>1. /\ s[1] \in 0..Direct - 1 /\ s[2] \in 1..PerSector /\ s = <<s[1], s[2]>>
          /\ BlockOf(g, no, s[1]) # 0
      BY DEF Live, Slots
    <3>2. s[1] = 0
      BY <3>1
    <3>3. s[2] \in 3..PerSector
      <4>1. s[2] # 1 /\ s[2] # 2
        BY <3>1, <3>2
      <4> QED BY <3>1, <4>1, Sizes
    <3>4. FirstSector(no, parent)[s[2]] = NoEntry
      BY <3>3, FirstSectorIs
    <3> QED BY <2>1, <3>2, <3>4 DEF Slot
  <2> QED BY <2>2, <2>3
<1>4. HoldsDir(g, no) /\ Up(g, no) = parent
  BY <1>1, <1>2, <1>3 DEF HoldsDir, Up, Entry
<1>5. Namings(g, no) = {}
  <2>1. ASSUME NEW s \in Live(g, no) PROVE Slot(g, no, s).name \notin Name
    <3>1. CASE s = <<0, 1>>
      <4>1. Slot(g, no, s).name = "."
        BY <1>3, <3>1, EntryIs
      <4> QED BY <4>1, Words
    <3>2. CASE s = <<0, 2>>
      <4>1. Slot(g, no, s).name = ".."
        BY <1>3, <3>2, EntryIs
      <4> QED BY <4>1, Words
    <3>3. CASE s \notin {<<0, 1>>, <<0, 2>>}
      <4>1. Slot(g, no, s) = NoEntry
        BY <1>3, <3>3
      <4> QED BY <4>1, NoEntryIs
    <3> QED BY <3>1, <3>2, <3>3
  <2> QED BY <2>1 DEF Namings
<1>6. EntriesFit(g, no)
  <2>1. g.disk[no].size = 2 + Cardinality(Namings(g, no))
    BY <1>5, FS_EmptySet
  <2>2. Slot(g, no, <<0, 2>>).name = ".." /\ Slot(g, no, <<0, 2>>).kind = "dir"
    BY <1>3 DEF Entry
  <2> QED BY <1>3, <1>5, <2>1, <2>2 DEF EntriesFit
<1> QED BY <1>4, <1>5, <1>6

(* A new directory has one block with "." and "..".                        *)
LEMMA DirIsBorn ==
    ASSUME NEW f, NEW spare, Sound(f, {}, spare), NEW g \in FileSystem,
           NEW no \in Inode \ f.ibits, f.cnt[no] = 0,
           NEW b \in spare, NEW parent \in Inode, f.data[b] = FirstSector(no, parent),
           Birth(f, g, no, DirNode(b))
    PROVE  Sound(g, {no}, spare \ {b}) /\ HoldsDir(g, no) /\ Up(g, no) = parent
<1>1. f \in FileSystem /\ CacheIsCurrent(f) /\ BlocksAreOwned(f, spare) /\ DirsFormTree(f, {})
  BY DEF Sound
<1>2. b \in Block /\ b # 0 /\ DirNode(b) \in Node
  BY ZenonT(120), <1>1, Parts, RangesAreFinite, NodesAreTyped DEF BlocksAreOwned
<1>3. /\ \A m \in f.ibits : Untouched(f, g, m)
      /\ \A k \in 0..Direct - 1 : BlockOf(g, no, k) = IF k = 0 THEN b ELSE 0
      /\ \A m \in f.ibits, k \in 0..Direct - 1 : BlockOf(g, m, k) = BlockOf(f, m, k)
      /\ g.disk[no].size = 2
  <2>1. /\ DirNode(b).size = 2
        /\ \A k \in 0..Direct - 1 : DirNode(b).sec[k] = IF k = 0 THEN b ELSE 0
    BY <1>2, NodesAreTyped
  <2>2. /\ \A m \in f.ibits : Untouched(f, g, m)
        /\ \A k : BlockOf(g, no, k) = DirNode(b).sec[k]
        /\ g.disk[no] = DirNode(b)
        /\ \A m \in f.ibits, k \in 0..Direct - 1 : BlockOf(g, m, k) = BlockOf(f, m, k)
    <3>1. DirNode(b) \in Node /\ f \in FileSystem
      BY <1>1, <1>2
    <3> QED BY ONLY SMTT(100), <3>1, no \in Inode \ f.ibits, Birth(f, g, no, DirNode(b)), BirthIsAlone
  <2> QED BY <2>1, <2>2
<1>4. HoldsDir(g, no) /\ Up(g, no) = parent /\ Namings(g, no) = {} /\ EntriesFit(g, no)
  <2>1. g.data[b] = FirstSector(no, parent) /\ no \in Inode
    BY DEF Birth
  <2> QED BY ONLY <1>2, <1>3, <2>1, parent \in Inode, FreshDirectory
<1>5. DirsFormTree(g, {no})
  BY <1>1, <1>3, <1>4, TreeGrows DEF Birth
<1>6. BlocksAreOwned(g, spare \ {b})
  <2>1. /\ \A k \in 0..Direct - 1 : BlockOf(g, no, k) # 0 => BlockOf(g, no, k) \in {b}
        /\ \A k, j \in 0..Direct - 1 :
              BlockOf(g, no, k) = BlockOf(g, no, j) /\ BlockOf(g, no, k) # 0 => k = j
        /\ \A c \in {b} : \E k \in 0..Direct - 1 : BlockOf(g, no, k) = c
    BY <1>3, Sizes
  <2>2. g.ibits = f.ibits \cup {no} /\ g.bbits = f.bbits /\ {b} \subseteq spare
    BY DEF Birth
  <2> HIDE DEF Birth
  <2> QED BY ONLY <1>1, <1>3, <2>1, <2>2, no \in Inode \ f.ibits, BirthOwners
<1>7. CacheIsCurrent(g)
  BY <1>1, <1>2, BornCache
<1> QED BY <1>4, <1>5, <1>6, <1>7 DEF Sound

(* From f to g the entry e comes to slot s of directory d, in a block b     *)
(* that d has or is given.                                                 *)
Put(f, g, d, s, b, e) ==
    /\ g.ibits = f.ibits /\ g.dibits = f.dibits
    /\ g.disk[d].size = f.disk[d].size + 1
    /\ g.disk[d].sec = [f.disk[d].sec EXCEPT ![s[1]] = b]
    /\ g.disk = [f.disk EXCEPT ![d] = g.disk[d]]
    /\ g.core = [f.core EXCEPT ![d] = IF f.cnt[d] > 0 THEN g.disk[d] ELSE f.core[d]]
    /\ g.cnt = f.cnt /\ g.lost = f.lost
    /\ \A c \in Block : c # b => g.data[c] = f.data[c]
    /\ g.data[b][s[2]] = e
    /\ \/ /\ BlockOf(f, d, s[1]) = b /\ f.data[b][s[2]].kind = "unknown"
          /\ g.bbits = f.bbits /\ g.dbbits = f.dbbits
          /\ \A i \in 1..PerSector : i # s[2] => g.data[b][i] = f.data[b][i]
       \/ /\ BlockOf(f, d, s[1]) = 0 /\ b \notin f.bbits
          /\ g.bbits = f.bbits \cup {b} /\ g.dbbits = f.dbbits \cup {b}
          /\ \A i \in 1..PerSector : i # s[2] => g.data[b][i] = NoEntry
          /\ \A j \in 0..s[1] - 1 : BlockOf(f, d, j) # 0

(* A node's part in memory and on the disk is written at once.             *)
LEMMA StoredCache ==
    ASSUME NEW f \in FileSystem, CacheIsCurrent(f), NEW g, NEW d \in f.ibits,
           g.ibits = f.ibits, g.dibits = f.dibits, g.dbbits = g.bbits,
           g.disk = [f.disk EXCEPT ![d] = g.disk[d]],
           g.core = [f.core EXCEPT ![d] = IF f.cnt[d] > 0 THEN g.disk[d] ELSE f.core[d]],
           g.cnt = f.cnt
    PROVE  CacheIsCurrent(g)
<1>1. /\ f.disk \in [Inode -> Node] /\ f.core \in [Inode -> Node] /\ f.ibits \subseteq Inode
      /\ f.cnt \in [Inode -> Nat]
  BY Parts
<1>2. ASSUME NEW m \in g.ibits, g.cnt[m] > 0 PROVE g.core[m] = g.disk[m]
  <2>1. CASE m = d
    BY <1>1, <1>2, <2>1
  <2>2. CASE m # d
    <3>1. f.core[m] = f.disk[m]
      BY <1>2 DEF CacheIsCurrent
    <3> QED BY <1>1, <2>2, <3>1
  <2> QED BY <2>1, <2>2
<1> QED BY <1>2 DEF CacheIsCurrent

LEMMA PutBlocks ==
    ASSUME NEW f \in FileSystem, NEW spare, BlocksAreOwned(f, spare), NEW g \in FileSystem,
           NEW d \in f.ibits, NEW s \in Slots, NEW b \in Block, NEW e, Put(f, g, d, s, b, e)
    PROVE  /\ s[1] \in 0..Direct - 1 /\ s[2] \in 1..PerSector /\ b # 0
           /\ \A k \in 0..Direct - 1 : BlockOf(g, d, k) = IF k = s[1] THEN b ELSE BlockOf(f, d, k)
           /\ \A m \in f.ibits : m # d => \A k : BlockOf(g, m, k) = BlockOf(f, m, k)
           /\ \A m \in f.ibits, k \in 0..Direct - 1 :
                 BlockOf(f, m, k) = b => m = d /\ k = s[1]
<1>1. s[1] \in 0..Direct - 1 /\ s[2] \in 1..PerSector
  BY DEF Slots
<1>2. f.disk \in [Inode -> Node] /\ f.ibits \subseteq Inode /\ b # 0
  BY Parts, RangesAreFinite
<1>3. \A m \in f.ibits : m # d => g.disk[m] = f.disk[m]
  BY <1>2 DEF Put
<1>4. \A m \in f.ibits : m # d => \A k : BlockOf(g, m, k) = BlockOf(f, m, k)
  BY <1>3 DEF BlockOf
<1>5. \A k \in 0..Direct - 1 : BlockOf(g, d, k) = IF k = s[1] THEN b ELSE BlockOf(f, d, k)
  <2>1. f.disk[d].sec \in [0..Direct - 1 -> 0..Blocks + 1]
    BY <1>2 DEF Node
  <2>2. g.disk[d].sec = [f.disk[d].sec EXCEPT ![s[1]] = b]
    BY DEF Put
  <2> QED BY <1>1, <2>1, <2>2 DEF BlockOf
<1>6. ASSUME NEW m \in f.ibits, NEW k \in 0..Direct - 1, BlockOf(f, m, k) = b
      PROVE  m = d /\ k = s[1]
  <2>1. b \in f.bbits
    BY <1>2, <1>6 DEF BlocksAreOwned
  <2>2. BlockOf(f, d, s[1]) = b
    BY <2>1 DEF Put
  <2> QED BY <1>1, <1>2, <1>6, <2>2 DEF BlocksAreOwned
<1> QED BY <1>1, <1>2, <1>4, <1>5, <1>6

LEMMA PutOwners ==
    ASSUME NEW f \in FileSystem, NEW spare, BlocksAreOwned(f, spare), NEW g \in FileSystem,
           NEW d \in f.ibits, NEW s \in Slots, NEW b \in Block, NEW e, Put(f, g, d, s, b, e)
    PROVE  /\ BlocksAreOwned(g, spare)
           /\ \A m \in f.ibits : m # d => Untouched(f, g, m)
<1>1. /\ s[1] \in 0..Direct - 1 /\ b # 0
      /\ \A k \in 0..Direct - 1 : BlockOf(g, d, k) = IF k = s[1] THEN b ELSE BlockOf(f, d, k)
      /\ \A m \in f.ibits : m # d => \A k : BlockOf(g, m, k) = BlockOf(f, m, k)
      /\ \A m \in f.ibits, k \in 0..Direct - 1 : BlockOf(f, m, k) = b => m = d /\ k = s[1]
  BY PutBlocks
<1>2. /\ g.ibits = f.ibits /\ g.bbits = f.bbits \cup {b}
      /\ BlockOf(f, d, s[1]) \in {0, b}
      /\ f.ibits \subseteq Inode
      /\ b \notin spare
  <2>1. BlockOf(f, d, s[1]) = b => b \in f.bbits \ spare
    BY <1>1 DEF BlocksAreOwned
  <2>2. g.ibits = f.ibits
    BY DEF Put
  <2>3. CASE BlockOf(f, d, s[1]) = b
    BY <1>1, <2>1, <2>2, <2>3, Parts DEF Put
  <2>4. CASE BlockOf(f, d, s[1]) # b
    BY <2>2, <2>4, Parts DEF Put, BlocksAreOwned
  <2> QED BY <2>3, <2>4
<1>3. ASSUME NEW m \in f.ibits, m # d PROVE Untouched(f, g, m)
  <2>1. g.disk[m] = f.disk[m]
    BY <1>2, <1>3, Parts DEF Put
  <2>2. ASSUME NEW k \in 0..Direct - 1, BlockOf(f, m, k) # 0
        PROVE  g.data[BlockOf(f, m, k)] = f.data[BlockOf(f, m, k)]
    <3>1. BlockOf(f, m, k) \in Block /\ BlockOf(f, m, k) # b
      BY <1>1, <1>2, <1>3, <2>2, BlocksAreTyped
    <3> QED BY <3>1 DEF Put
  <2> QED BY <2>1, <2>2 DEF Untouched
<1>4. ASSUME NEW m \in f.ibits, NEW k \in 0..Direct - 1, BlockOf(g, m, k) # 0
      PROVE  /\ BlockOf(g, m, k) \in g.bbits \ spare
             /\ BlockOf(g, m, k) = b => m = d /\ k = s[1]
             /\ BlockOf(g, m, k) # b => BlockOf(f, m, k) = BlockOf(g, m, k)
  <2>1. CASE m = d /\ k = s[1]
    BY <1>1, <1>2, <2>1
  <2>2. CASE m # d \/ k # s[1]
    <3>1. BlockOf(g, m, k) = BlockOf(f, m, k)
      BY <1>1, <2>2
    <3> QED BY <1>1, <1>2, <1>4, <2>2, <3>1 DEF BlocksAreOwned
  <2> QED BY <2>1, <2>2
<1>5. ASSUME NEW m \in f.ibits, NEW other \in f.ibits, NEW k \in 0..Direct - 1, NEW j \in 0..Direct - 1,
             BlockOf(g, m, k) = BlockOf(g, other, j), BlockOf(g, m, k) # 0
      PROVE  m = other /\ k = j
  <2>1. CASE BlockOf(g, m, k) = b
    BY <1>4, <1>5, <2>1
  <2>2. CASE BlockOf(g, m, k) # b
    <3>1. BlockOf(f, m, k) = BlockOf(g, m, k) /\ BlockOf(f, other, j) = BlockOf(g, other, j)
      BY <1>4, <1>5, <2>2
    <3> QED BY <1>5, <3>1 DEF BlocksAreOwned
  <2> QED BY <2>1, <2>2
<1>6. ASSUME NEW c \in g.bbits \ spare
      PROVE  \E m \in f.ibits, k \in 0..Direct - 1 : BlockOf(g, m, k) = c
  <2>1. CASE c = b
    BY <1>1, <2>1
  <2>2. CASE c # b
    <3>1. PICK m \in f.ibits, k \in 0..Direct - 1 : BlockOf(f, m, k) = c
      BY <1>2, <2>2 DEF BlocksAreOwned
    <3>2. c # 0
      BY <1>2, RangesAreFinite, Parts
    <3>3. m # d \/ k # s[1]
      BY <1>2, <2>2, <3>1, <3>2
    <3> QED BY <1>1, <3>1, <3>3
  <2> QED BY <2>1, <2>2
<1>7. spare \subseteq g.bbits
  BY <1>2 DEF BlocksAreOwned
<1> QED BY <1>2, <1>3, <1>4, <1>5, <1>6, <1>7 DEF BlocksAreOwned

LEMMA PutSlots ==
    ASSUME NEW f \in FileSystem, NEW spare, BlocksAreOwned(f, spare), NEW g \in FileSystem,
           NEW d \in f.ibits, HoldsDir(f, d), EntriesFit(f, d),
           NEW s \in Slots, NEW b \in Block, NEW e, e.name \in Name, Put(f, g, d, s, b, e)
    PROVE  /\ s \in Live(g, d) /\ Slot(g, d, s) = e
           /\ s \notin {<<0, 1>>, <<0, 2>>} /\ s \notin Namings(f, d)
           /\ \A t \in Live(f, d) : t # s => t \in Live(g, d) /\ Slot(g, d, t) = Slot(f, d, t)
           /\ \A t \in Live(g, d) : t = s \/ t \in Live(f, d) \/ Slot(g, d, t) = NoEntry
           /\ Namings(g, d) = Namings(f, d) \cup {s}
           /\ HoldsDir(g, d) /\ Up(g, d) = Up(f, d)
<1>1. /\ s[1] \in 0..Direct - 1 /\ s[2] \in 1..PerSector /\ b # 0 /\ s = <<s[1], s[2]>>
      /\ \A k \in 0..Direct - 1 : BlockOf(g, d, k) = IF k = s[1] THEN b ELSE BlockOf(f, d, k)
      /\ \A k \in 0..Direct - 1 : BlockOf(f, d, k) = b => k = s[1]
  BY PutBlocks DEF Slots
<1>2. d \in Inode /\ <<0, 1>> \in Live(f, d) /\ <<0, 2>> \in Live(f, d)
  BY Parts, FirstPlaces
<1>3. s \in Live(g, d) /\ Slot(g, d, s) = e
  BY <1>1 DEF Live, Slot, Put
<1>4. ASSUME NEW t \in Live(f, d), t # s
      PROVE  t \in Live(g, d) /\ Slot(g, d, t) = Slot(f, d, t)
  <2>1. /\ t \in Slots /\ t[1] \in 0..Direct - 1 /\ t[2] \in 1..PerSector /\ t = <<t[1], t[2]>>
        /\ BlockOf(f, d, t[1]) \in Block /\ BlockOf(f, d, t[1]) # 0
    BY <1>2, SlotsAreTyped, RangesAreFinite
  <2>2. CASE t[1] = s[1]
    <3>1. t[2] # s[2]
      BY <1>1, <1>4, <2>1, <2>2
    <3>2. BlockOf(f, d, s[1]) = b /\ \A i \in 1..PerSector : i # s[2] => g.data[b][i] = f.data[b][i]
      BY <2>1, <2>2 DEF Put
    <3>3. BlockOf(g, d, t[1]) = b
      BY <1>1, <2>2
    <3> QED BY <1>1, <2>1, <2>2, <3>1, <3>2, <3>3 DEF Live, Slot
  <2>3. CASE t[1] # s[1]
    <3>1. BlockOf(f, d, t[1]) # b /\ BlockOf(g, d, t[1]) = BlockOf(f, d, t[1])
      BY <1>1, <2>1, <2>3
    <3>2. g.data[BlockOf(f, d, t[1])] = f.data[BlockOf(f, d, t[1])]
      BY <2>1, <3>1 DEF Put
    <3> QED BY <2>1, <3>1, <3>2 DEF Live, Slot
  <2> QED BY <2>2, <2>3
<1>5. ASSUME NEW t \in Live(g, d), t # s, t \notin Live(f, d)
      PROVE  Slot(g, d, t) = NoEntry
  <2>1. /\ t \in Slots /\ t[1] \in 0..Direct - 1 /\ t[2] \in 1..PerSector /\ t = <<t[1], t[2]>>
        /\ BlockOf(g, d, t[1]) # 0
    BY DEF Live, Slots
  <2>2. BlockOf(f, d, t[1]) = 0
    BY <1>5, <2>1 DEF Live
  <2>3. t[1] = s[1] /\ t[2] # s[2] /\ BlockOf(g, d, t[1]) = b
    BY <1>1, <1>5, <2>1, <2>2
  <2>4. \A i \in 1..PerSector : i # s[2] => g.data[b][i] = NoEntry
    BY <1>1, <2>2, <2>3 DEF Put
  <2> QED BY <2>1, <2>3, <2>4 DEF Slot
<1>6. s \in Live(f, d) => Slot(f, d, s).kind = "unknown"
  BY <1>1 DEF Live, Slot, Put
<1>7. s \notin {<<0, 1>>, <<0, 2>>}
  <2>1. Slot(f, d, <<0, 1>>).kind = "dir"
    BY EntryIs DEF EntriesFit
  <2>2. Slot(f, d, <<0, 2>>).kind = "dir"
    BY DEF EntriesFit
  <2> QED BY <1>2, <1>6, <2>1, <2>2
<1>8. s \notin Namings(f, d)
  <2>1. ASSUME s \in Namings(f, d) PROVE FALSE
    <3>1. s \in Live(f, d) /\ NamesChild(f, d, Slot(f, d, s))
      BY <1>2, <2>1, NamingsAreChildren
    <3>2. Slot(f, d, s).kind \in {"dir", "file"}
      BY <3>1 DEF NamesChild
    <3> QED BY <1>6, <3>1, <3>2
  <2> QED BY <2>1
<1>9. Namings(g, d) = Namings(f, d) \cup {s}
  <2>1. ASSUME NEW t \in Namings(g, d), t # s PROVE t \in Namings(f, d)
    <3>1. t \in Live(g, d) /\ Slot(g, d, t).name \in Name
      BY DEF Namings
    <3>2. t \in Live(f, d)
      BY <1>5, <2>1, <3>1, NoEntryIs
    <3> QED BY <1>4, <2>1, <3>1, <3>2 DEF Namings
  <2>2. ASSUME NEW t \in Namings(f, d) PROVE t \in Namings(g, d)
    BY <1>4, <1>8 DEF Namings
  <2>3. s \in Namings(g, d)
    BY <1>3 DEF Namings
  <2> QED BY <2>1, <2>2, <2>3
<1>10. HoldsDir(g, d) /\ Up(g, d) = Up(f, d)
  <2>1. Slot(g, d, <<0, 1>>) = Slot(f, d, <<0, 1>>) /\ Slot(g, d, <<0, 2>>) = Slot(f, d, <<0, 2>>)
    BY <1>2, <1>4, <1>7
  <2>2. BlockOf(g, d, 0) # 0
    <3>1. 0 \in 0..Direct - 1 /\ BlockOf(f, d, 0) # 0
      BY Sizes DEF HoldsDir
    <3> QED BY <1>1, <3>1
  <2> QED BY <2>1, <2>2 DEF HoldsDir, Up
<1> QED BY <1>3, <1>4, <1>5, <1>7, <1>8, <1>9, <1>10

LEMMA NamingsAreFinite ==
    ASSUME NEW f, NEW d
    PROVE  IsFiniteSet(Namings(f, d)) /\ Cardinality(Namings(f, d)) \in Nat
<1>1. Namings(f, d) \subseteq Slots
  BY DEF Namings, Live
<1> QED BY <1>1, RangesAreFinite, FS_Subset, FS_CardinalityType

(* The directory still fits when the new entry does.                       *)
LEMMA PutFits ==
    ASSUME NEW f \in FileSystem, NEW spare, BlocksAreOwned(f, spare), NEW g \in FileSystem,
           NEW d \in f.ibits, HoldsDir(f, d), EntriesFit(f, d),
           NEW s \in Slots, NEW b \in Block, NEW e, e.name \in Name, Put(f, g, d, s, b, e),
           NamesChild(g, d, e),
           \A t \in Namings(f, d) : Slot(f, d, t).name # e.name,
           \A t \in Namings(f, d) : SameHead(f, g, Slot(f, d, t).no)
    PROVE  EntriesFit(g, d)
<1>1. /\ s \in Live(g, d) /\ Slot(g, d, s) = e
      /\ s \notin {<<0, 1>>, <<0, 2>>} /\ s \notin Namings(f, d)
      /\ \A t \in Live(f, d) : t # s => t \in Live(g, d) /\ Slot(g, d, t) = Slot(f, d, t)
      /\ \A t \in Live(g, d) : t = s \/ t \in Live(f, d) \/ Slot(g, d, t) = NoEntry
      /\ Namings(g, d) = Namings(f, d) \cup {s}
  BY PutSlots
<1>2. d \in Inode /\ <<0, 1>> \in Live(f, d) /\ <<0, 2>> \in Live(f, d) /\ g.ibits = f.ibits
  BY Parts, FirstPlaces DEF Put
<1>3. /\ Slot(g, d, <<0, 1>>) = Slot(f, d, <<0, 1>>)
      /\ Slot(g, d, <<0, 2>>) = Slot(f, d, <<0, 2>>)
  BY <1>1, <1>2
<1>4. ASSUME NEW t \in Live(g, d) \ {<<0, 1>>, <<0, 2>>}
      PROVE  \/ Slot(g, d, t) = NoEntry
             \/ t \in Namings(g, d) /\ NamesChild(g, d, Slot(g, d, t))
  <2>1. CASE t = s
    BY <1>1, <2>1
  <2>2. CASE t # s /\ t \in Live(f, d)
    <3>1. \/ Slot(f, d, t) = NoEntry
          \/ t \in Namings(f, d) /\ NamesChild(f, d, Slot(f, d, t))
      BY <2>2 DEF EntriesFit
    <3>2. Slot(g, d, t) = Slot(f, d, t)
      BY <1>1, <2>2
    <3>3. CASE t \in Namings(f, d) /\ NamesChild(f, d, Slot(f, d, t))
      <4>1. Slot(f, d, t).no \in g.ibits
        BY <1>2, <3>3 DEF NamesChild
      <4>2. NamesChild(g, d, Slot(f, d, t))
        BY <3>3, <4>1, ChildStays
      <4> QED BY <1>1, <3>2, <3>3, <4>2
    <3> QED BY <3>1, <3>2, <3>3
  <2> QED BY <1>1, <2>1, <2>2
<1>5. ASSUME NEW t \in Namings(g, d), NEW u \in Namings(g, d), Slot(g, d, t).name = Slot(g, d, u).name
      PROVE  t = u
  <2>1. \A v \in Namings(f, d) : v # s /\ Slot(g, d, v) = Slot(f, d, v)
    BY <1>1 DEF Namings
  <2> QED BY <1>1, <1>5, <2>1 DEF EntriesFit
<1>6. g.disk[d].size = 2 + Cardinality(Namings(g, d))
  <2>1. Cardinality(Namings(g, d)) = Cardinality(Namings(f, d)) + 1
    BY <1>1, NamingsAreFinite, FS_AddElement
  <2>2. g.disk[d].size = f.disk[d].size + 1 /\ f.disk[d].size = 2 + Cardinality(Namings(f, d))
    BY DEF Put, EntriesFit
  <2> QED BY <2>1, <2>2, NamingsAreFinite
<1> QED BY <1>3, <1>4, <1>5, <1>6 DEF EntriesFit

(* The orphan gets its name, and every inode in use has one.               *)
LEMMA PutTree ==
    ASSUME NEW f, NEW spare, NEW o, Sound(f, {o}, spare), NEW g \in FileSystem,
           NEW d \in DirsOnDisk(f), o # d,
           NEW s \in Slots, NEW b \in Block, NEW e, Put(f, g, d, s, b, e),
           e.name \in Name, e.no = o, e.kind = IF HoldsDir(f, o) THEN "dir" ELSE "file",
           HoldsDir(f, o) => Up(f, o) = d,
           \A t \in Namings(f, d) : Slot(f, d, t).name # e.name
    PROVE  Sound(g, {}, spare)
<1>1. f \in FileSystem /\ CacheIsCurrent(f) /\ BlocksAreOwned(f, spare) /\ DirsFormTree(f, {o})
  BY DEF Sound
<1>2. d \in f.ibits /\ HoldsDir(f, d) /\ EntriesFit(f, d) /\ g.ibits = f.ibits
      /\ f.ibits \subseteq Inode /\ o \in f.ibits \ {Root}
  BY <1>1, Parts DEF DirsOnDisk, DirsFormTree, Put
<1>3. BlocksAreOwned(g, spare) /\ \A m \in f.ibits : m # d => Untouched(f, g, m)
  BY <1>1, <1>2, PutOwners
<1>4. /\ Slot(g, d, s) = e /\ s \notin Namings(f, d)
      /\ \A t \in Live(f, d) : t # s => Slot(g, d, t) = Slot(f, d, t)
      /\ Namings(g, d) = Namings(f, d) \cup {s}
      /\ HoldsDir(g, d) /\ Up(g, d) = Up(f, d)
  BY <1>1, <1>2, PutSlots
<1>5. \A m \in f.ibits : SameHead(f, g, m)
  <2> TAKE m \in f.ibits
  <2>1. CASE m = d
    BY <1>2, <1>4, <2>1 DEF SameHead
  <2>2. CASE m # d
    BY <1>3, <2>2, UntouchedLooks DEF SameHead
  <2> QED BY <2>1, <2>2
<1>6. DirsOnDisk(g) = DirsOnDisk(f)
  BY <1>2, <1>5 DEF DirsOnDisk, SameHead
<1>7. CacheIsCurrent(g)
  <2>1. g.dbbits = g.bbits
    BY <1>1 DEF Put, CacheIsCurrent
  <2>2. /\ g.ibits = f.ibits /\ g.dibits = f.dibits
        /\ g.disk = [f.disk EXCEPT ![d] = g.disk[d]]
        /\ g.core = [f.core EXCEPT ![d] = IF f.cnt[d] > 0 THEN g.disk[d] ELSE f.core[d]]
        /\ g.cnt = f.cnt
    BY DEF Put
  <2> QED BY ONLY <1>1, <1>2, <2>1, <2>2, StoredCache
<1>8. ASSUME NEW m \in DirsOnDisk(f), m # d
      PROVE  /\ m \in f.ibits /\ HoldsDir(f, m) /\ EntriesFit(f, m) /\ Untouched(f, g, m)
             /\ Namings(g, m) = Namings(f, m)
             /\ \A t \in Namings(f, m) : Slot(g, m, t) = Slot(f, m, t)
  <2>1. m \in f.ibits /\ HoldsDir(f, m) /\ EntriesFit(f, m) /\ Untouched(f, g, m)
    BY <1>1, <1>3, <1>8 DEF DirsOnDisk, DirsFormTree
  <2>2. \A t \in Namings(f, m) : t \in Live(f, m)
    BY DEF Namings
  <2> QED BY <2>1, <2>2, UntouchedLooks
<1>9. \A m \in DirsOnDisk(f) : \A t \in Namings(f, m) :
         Slot(f, m, t).no \in f.ibits /\ Slot(f, m, t).no # o
  <2> TAKE m \in DirsOnDisk(f)
  <2>1. m \in Inode /\ EntriesFit(f, m)
    BY <1>1, <1>2 DEF DirsOnDisk, DirsFormTree
  <2>2. ~NamedIn(f, o, m)
    BY <1>1, <1>2 DEF DirsFormTree
  <2> QED BY <1>1, <2>1, <2>2, NamingsAreChildren DEF NamesChild, NamedIn
<1>10. ASSUME NEW m \in DirsOnDisk(f) PROVE EntriesFit(g, m)
  <2>1. CASE m = d
    <3>1. NamesChild(g, d, e)
      BY <1>2, <1>5 DEF NamesChild, SameHead
    <3>2. \A t \in Namings(f, d) : SameHead(f, g, Slot(f, d, t).no)
      BY <1>5, <1>9
    <3> QED BY <1>1, <1>2, <2>1, <3>1, <3>2, PutFits
  <2>2. CASE m # d
    <3>1. \A t \in Namings(f, m) : /\ Slot(f, m, t).no \in g.ibits
                                   /\ SameHead(f, g, Slot(f, m, t).no)
      BY <1>2, <1>5, <1>9
    <3> QED BY <1>1, <1>2, <1>8, <2>2, <3>1, EntriesStay
  <2> QED BY <2>1, <2>2
(* What d named before, and the orphan at s.                               *)
<1>11. ASSUME NEW t \in Namings(g, d)
       PROVE  \/ t = s /\ Slot(g, d, t).no = o
              \/ t \in Namings(f, d) /\ Slot(g, d, t) = Slot(f, d, t) /\ Slot(g, d, t).no # o
  <2>1. \A u \in Namings(f, d) : u \in Live(f, d)
    BY DEF Namings
  <2> QED BY <1>4, <1>9, <2>1
<1>12. ASSUME NEW m \in DirsOnDisk(f), NEW n \in DirsOnDisk(f),
              NEW t \in Namings(g, m), NEW u \in Namings(g, n),
              Slot(g, m, t).no = Slot(g, n, u).no
       PROVE  m = n /\ t = u
  <2>1. CASE m = d /\ t = s
    <3>1. Slot(g, n, u).no = o
      BY <1>4, <1>12, <2>1
    <3>2. n = d
      BY <1>8, <1>9, <3>1
    <3> QED BY <1>4, <1>9, <1>11, <2>1, <3>1, <3>2
  <2>2. CASE n = d /\ u = s
    <3>1. Slot(g, m, t).no = o
      BY <1>4, <1>12, <2>2
    <3>2. m = d
      BY <1>8, <1>9, <3>1
    <3> QED BY <1>4, <1>9, <1>11, <2>2, <3>1, <3>2
  <2>3. CASE ~(m = d /\ t = s) /\ ~(n = d /\ u = s)
    <3>1. t \in Namings(f, m) /\ Slot(g, m, t) = Slot(f, m, t)
      BY <1>8, <1>11, <2>3
    <3>2. u \in Namings(f, n) /\ Slot(g, n, u) = Slot(f, n, u)
      BY <1>8, <1>11, <2>3
    <3> QED BY <1>1, <1>12, <3>1, <3>2 DEF DirsFormTree
  <2> QED BY <2>1, <2>2, <2>3
<1>13. ASSUME NEW m \in f.ibits \ {Root} PROVE \E n \in DirsOnDisk(f) : NamedIn(g, m, n)
  <2>1. CASE m = o
    BY <1>4, <2>1 DEF NamedIn
  <2>2. CASE m # o
    <3>1. PICK n \in DirsOnDisk(f) : NamedIn(f, m, n)
      BY <1>1, <2>2 DEF DirsFormTree
    <3>2. PICK t \in Namings(f, n) : Slot(f, n, t).no = m
      BY <3>1 DEF NamedIn
    <3>3. t \in Namings(g, n) /\ Slot(g, n, t) = Slot(f, n, t)
      <4>1. CASE n = d
        BY <1>4, <3>2, <4>1 DEF Namings
      <4>2. CASE n # d
        BY <1>8, <3>2, <4>2
      <4> QED BY <4>1, <4>2
    <3> QED BY <3>2, <3>3 DEF NamedIn
  <2> QED BY <2>1, <2>2
<1>14. Root \in DirsOnDisk(g) /\ Up(g, Root) = Root
  BY <1>1, <1>2, <1>5, <1>6 DEF DirsFormTree, DirsOnDisk, SameHead
<1>15. DirsFormTree(g, {})
  BY <1>2, <1>6, <1>10, <1>12, <1>13, <1>14 DEF DirsFormTree
<1> QED BY <1>3, <1>7, <1>15 DEF Sound

---------------------------------------------------------------------------
(* What the operations write                                               *)

LEMMA Stored ==
    ASSUME NEW f \in FileSystem, NEW no \in Located, NEW node \in Node
    PROVE  /\ Store(f, no, node) \in FileSystem
           /\ Store(f, no, node).disk = [f.disk EXCEPT ![no] = node]
           /\ Store(f, no, node).core =
                 [f.core EXCEPT ![no] = IF f.cnt[no] > 0 THEN node ELSE f.core[no]]
           /\ Store(f, no, node).ibits = f.ibits /\ Store(f, no, node).dibits = f.dibits
           /\ Store(f, no, node).bbits = f.bbits /\ Store(f, no, node).dbbits = f.dbbits
           /\ Store(f, no, node).cnt = f.cnt /\ Store(f, no, node).data = f.data
           /\ Store(f, no, node).lost = f.lost
<1> DEFINE kept == IF f.cnt[no] > 0 THEN node ELSE f.core[no]
           g == Store(f, no, node)
<1>1. kept \in Node /\ no \in Inode
  BY Parts, LocatedOnes
<1>2. g = [f EXCEPT !.disk[no] = node, !.core[no] = kept]
  <2>1. inode_sync(f, no, node) = [f EXCEPT !.disk[no] = node]
    BY LocatedOnes DEF inode_sync
  <2>2. inode_sync(f, no, node).core = f.core
    BY <2>1 DEF FileSystem
  <2> QED BY <2>1, <2>2 DEF Store
<1> HIDE DEF kept, g
<1>3. g \in FileSystem
  BY <1>1, <1>2 DEF FileSystem
<1>4. /\ g.disk = [f.disk EXCEPT ![no] = node] /\ g.core = [f.core EXCEPT ![no] = kept]
      /\ g.ibits = f.ibits /\ g.dibits = f.dibits /\ g.bbits = f.bbits /\ g.dbbits = f.dbbits
      /\ g.cnt = f.cnt /\ g.data = f.data /\ g.lost = f.lost
  BY <1>2 DEF FileSystem
<1> QED BY <1>3, <1>4 DEF g, kept

LEMMA Taken ==
    ASSUME NEW f \in FileSystem, NEW b \in Block
    PROVE  /\ TakeBlock(f, b) \in FileSystem
           /\ TakeBlock(f, b).bbits = f.bbits \cup {b} /\ TakeBlock(f, b).dbbits = f.dbbits \cup {b}
           /\ TakeBlock(f, b).ibits = f.ibits /\ TakeBlock(f, b).dibits = f.dibits
           /\ TakeBlock(f, b).disk = f.disk /\ TakeBlock(f, b).core = f.core
           /\ TakeBlock(f, b).cnt = f.cnt /\ TakeBlock(f, b).data = f.data
           /\ TakeBlock(f, b).lost = f.lost
<1> DEFINE g == TakeBlock(f, b)
<1>1. g = [f EXCEPT !.bbits = f.bbits \cup {b}, !.dbbits = f.dbbits \cup {b}]
  BY DEF TakeBlock
<1> HIDE DEF g
<1>2. g \in FileSystem
  BY <1>1 DEF FileSystem
<1>3. /\ g.bbits = f.bbits \cup {b} /\ g.dbbits = f.dbbits \cup {b}
      /\ g.ibits = f.ibits /\ g.dibits = f.dibits /\ g.disk = f.disk /\ g.core = f.core
      /\ g.cnt = f.cnt /\ g.data = f.data /\ g.lost = f.lost
  BY <1>1 DEF FileSystem
<1> QED BY <1>2, <1>3 DEF g

(* One sector, one entry, one block number changed.                        *)
WriteSector(f, b, sector) == [f EXCEPT !.data[b] = sector]
WriteEntry(f, b, i, e) == [f EXCEPT !.data[b][i] = e]
Resize(node, n) == [node EXCEPT !.size = n]
Repoint(node, k, b) == [node EXCEPT !.sec[k] = b]

LEMMA Written ==
    ASSUME NEW f \in FileSystem, NEW b \in Block, NEW sector \in [1..PerSector -> DirEntry]
    PROVE  /\ WriteSector(f, b, sector) \in FileSystem
           /\ WriteSector(f, b, sector).data = [f.data EXCEPT ![b] = sector]
           /\ WriteSector(f, b, sector).ibits = f.ibits /\ WriteSector(f, b, sector).dibits = f.dibits
           /\ WriteSector(f, b, sector).bbits = f.bbits /\ WriteSector(f, b, sector).dbbits = f.dbbits
           /\ WriteSector(f, b, sector).disk = f.disk /\ WriteSector(f, b, sector).core = f.core
           /\ WriteSector(f, b, sector).cnt = f.cnt /\ WriteSector(f, b, sector).lost = f.lost
<1> DEFINE g == WriteSector(f, b, sector)
<1>1. g = [f EXCEPT !.data[b] = sector]
  BY DEF WriteSector
<1> HIDE DEF g
<1>2. g \in FileSystem
  BY <1>1 DEF FileSystem
<1>3. /\ g.data = [f.data EXCEPT ![b] = sector]
      /\ g.ibits = f.ibits /\ g.dibits = f.dibits /\ g.bbits = f.bbits /\ g.dbbits = f.dbbits
      /\ g.disk = f.disk /\ g.core = f.core /\ g.cnt = f.cnt /\ g.lost = f.lost
  BY <1>1 DEF FileSystem
<1> QED BY <1>2, <1>3 DEF g

LEMMA EntryWritten ==
    ASSUME NEW f \in FileSystem, NEW b \in Block, NEW i \in 1..PerSector, NEW e \in DirEntry
    PROVE  /\ WriteEntry(f, b, i, e) \in FileSystem
           /\ \A c \in Block : c # b => WriteEntry(f, b, i, e).data[c] = f.data[c]
           /\ WriteEntry(f, b, i, e).data[b][i] = e
           /\ \A j \in 1..PerSector : j # i => WriteEntry(f, b, i, e).data[b][j] = f.data[b][j]
           /\ WriteEntry(f, b, i, e).ibits = f.ibits /\ WriteEntry(f, b, i, e).dibits = f.dibits
           /\ WriteEntry(f, b, i, e).bbits = f.bbits /\ WriteEntry(f, b, i, e).dbbits = f.dbbits
           /\ WriteEntry(f, b, i, e).disk = f.disk /\ WriteEntry(f, b, i, e).core = f.core
           /\ WriteEntry(f, b, i, e).cnt = f.cnt /\ WriteEntry(f, b, i, e).lost = f.lost
<1> DEFINE g == WriteEntry(f, b, i, e)
           sector == [f.data[b] EXCEPT ![i] = e]
<1>1. f.data \in [Block -> [1..PerSector -> DirEntry]]
  BY Parts
<1>2. sector \in [1..PerSector -> DirEntry] /\ sector[i] = e
      /\ \A j \in 1..PerSector : j # i => sector[j] = f.data[b][j]
  BY <1>1
<1>3. g = [f EXCEPT !.data[b] = sector]
  BY DEF WriteEntry
<1> HIDE DEF g, sector
<1>4. g = WriteSector(f, b, sector)
  BY <1>3 DEF WriteSector
<1>5. /\ g \in FileSystem
      /\ g.data = [f.data EXCEPT ![b] = sector]
      /\ g.ibits = f.ibits /\ g.dibits = f.dibits /\ g.bbits = f.bbits /\ g.dbbits = f.dbbits
      /\ g.disk = f.disk /\ g.core = f.core /\ g.cnt = f.cnt /\ g.lost = f.lost
  BY <1>2, <1>4, Written
<1>6. g.data[b] = sector /\ \A c \in Block : c # b => g.data[c] = f.data[c]
  BY <1>1, <1>5
<1> QED BY <1>2, <1>5, <1>6 DEF g

LEMMA NodeChanges ==
    ASSUME NEW node \in Node
    PROVE  /\ \A n \in Nat : /\ Resize(node, n) \in Node
                              /\ Resize(node, n).size = n /\ Resize(node, n).sec = node.sec
           /\ \A k \in 0..Direct - 1, b \in 0..Blocks + 1 :
                 /\ Repoint(node, k, b) \in Node
                 /\ Repoint(node, k, b).size = node.size
                 /\ Repoint(node, k, b).sec = [node.sec EXCEPT ![k] = b]
<1>1. ASSUME NEW n \in Nat
      PROVE  Resize(node, n) \in Node /\ Resize(node, n).size = n /\ Resize(node, n).sec = node.sec
  BY DEF Node, Resize
<1>2. ASSUME NEW k \in 0..Direct - 1, NEW b \in 0..Blocks + 1
      PROVE  /\ Repoint(node, k, b) \in Node
             /\ Repoint(node, k, b).size = node.size
             /\ Repoint(node, k, b).sec = [node.sec EXCEPT ![k] = b]
  <2>1. Repoint(node, k, b) = [node EXCEPT !.sec = [node.sec EXCEPT ![k] = b]]
    BY DEF Repoint
  <2>2. [node.sec EXCEPT ![k] = b] \in [0..Direct - 1 -> 0..Blocks + 1]
    BY DEF Node
  <2>3. Repoint(node, k, b) \in Node
    BY <2>1, <2>2 DEF Node
  <2>4. /\ Repoint(node, k, b).size = node.size
        /\ Repoint(node, k, b).sec = [node.sec EXCEPT ![k] = b]
    BY <2>1 DEF Node
  <2> QED BY <2>3, <2>4
<1> QED BY <1>1, <1>2

(* sync_dir_entry puts the entry, or refuses and leaves all as it was.     *)
LEMMA EntryIsPut ==
    ASSUME NEW f \in FileSystem, CacheIsCurrent(f), NEW d \in f.ibits, NEW e \in DirEntry
    PROVE  /\ sync_dir_entry(f, d, e).ok \in BOOLEAN
           /\ sync_dir_entry(f, d, e).stops = FALSE
           /\ ~sync_dir_entry(f, d, e).ok => sync_dir_entry(f, d, e).fs = f
           /\ sync_dir_entry(f, d, e).ok =>
                 /\ sync_dir_entry(f, d, e).fs \in FileSystem
                 /\ \E s \in Slots, b \in Block : Put(f, sync_dir_entry(f, d, e).fs, d, s, b, e)
<1> DEFINE node == inode_open(f, d)
           slots(x) == {i \in 1..PerSector : f.data[node.sec[x]][i].kind = "unknown"}
           open == {j \in DOMAIN node.sec : node.sec[j] = 0 \/ slots(j) # {}}
           k == Min(open)
           b == Min(FreeBlocks(f))
           grown == [node EXCEPT !.size = @ + 1]
           here == [Store(f, d, grown) EXCEPT !.data[node.sec[k]][Min(slots(k))] = e]
           there == [Store(TakeBlock(f, b), d, [grown EXCEPT !.sec[k] = b])
                        EXCEPT !.data[b] = [EmptySector EXCEPT ![1] = e]]
<1>1. sync_dir_entry(f, d, e) =
         IF open = {} THEN Refuse(f)
         ELSE IF node.sec[k] # 0 THEN Result(TRUE, here)
         ELSE IF FreeBlocks(f) = {} THEN Refuse(f)
         ELSE Result(TRUE, there)
  BY DEF sync_dir_entry
<1>2. d \in Inode /\ node = f.disk[d] /\ node \in Node /\ DOMAIN node.sec = 0..Direct - 1
      /\ node.sec \in [0..Direct - 1 -> 0..Blocks + 1] /\ d \in Located
  BY Parts, OpenIsDisk, UsedAreLocated DEF Node
<1>3. grown \in Node /\ grown.size = node.size + 1 /\ grown.sec = node.sec
  <2>1. node.size + 1 \in Nat
    BY <1>2 DEF Node
  <2>2. grown = Resize(node, node.size + 1)
    BY DEF Resize
  <2> HIDE DEF grown, node
  <2> QED BY <1>2, <2>1, <2>2, NodeChanges
<1>4. open # {} => /\ k \in 0..Direct - 1 /\ (node.sec[k] = 0 \/ slots(k) # {})
                   /\ \A j \in 0..k - 1 : node.sec[j] # 0
  <2>1. open \subseteq Nat
    BY <1>2
  <2>2. ASSUME open # {} PROVE k \in open /\ \A j \in open : k <= j
    <3> HIDE DEF open
    <3> QED BY <2>1, <2>2, MinIsLeast
  <2>3. ASSUME open # {}, NEW j \in 0..k - 1, node.sec[j] = 0 PROVE FALSE
    <3>1. k \in 0..Direct - 1
      BY <1>2, <2>2, <2>3
    <3> HIDE DEF k
    <3>2. j \in 0..Direct - 1 /\ ~(k <= j)
      BY <2>3, <3>1, Sizes
    <3>3. j \in open
      BY <1>2, <2>3, <3>2
    <3> QED BY <2>2, <2>3, <3>2, <3>3 DEF k
  <2> QED BY <1>2, <2>2, <2>3
<1>5. \A j \in 0..Direct - 1 : BlockOf(f, d, j) = node.sec[j]
  BY <1>2 DEF BlockOf
<1>6. ASSUME open # {}, node.sec[k] # 0
      PROVE  here \in FileSystem /\ \E s \in Slots, c \in Block : Put(f, here, d, s, c, e)
  <2> DEFINE i == Min(slots(k))
             c == node.sec[k]
             mid == Store(f, d, grown)
  <2>1. k \in 0..Direct - 1 /\ c \in Block /\ slots(k) # {}
    BY <1>2, <1>4, <1>5, <1>6, BlocksAreTyped
  <2>2. i \in 1..PerSector /\ f.data[c][i].kind = "unknown"
    <3>1. slots(k) \subseteq Nat
      <4>1. slots(k) \subseteq 1..PerSector
        OBVIOUS
      <4> HIDE DEF slots, k
      <4> QED BY <4>1
    <3>2. i \in slots(k)
      <4> HIDE DEF slots
      <4> QED BY <2>1, <3>1, MinIsLeast
    <3> QED BY <3>2
  <2>3. /\ mid \in FileSystem
        /\ mid.disk = [f.disk EXCEPT ![d] = grown]
        /\ mid.core = [f.core EXCEPT ![d] = IF f.cnt[d] > 0 THEN grown ELSE f.core[d]]
        /\ mid.ibits = f.ibits /\ mid.dibits = f.dibits
        /\ mid.bbits = f.bbits /\ mid.dbbits = f.dbbits
        /\ mid.cnt = f.cnt /\ mid.data = f.data /\ mid.lost = f.lost
    BY ONLY <1>2, <1>3, f \in FileSystem, Stored
  <2>4. here = WriteEntry(mid, c, i, e)
    BY DEF WriteEntry
  <2> HIDE DEF mid, here, there, open, b, k, i, c, node, slots
  <2>5. /\ here \in FileSystem
        /\ \A a \in Block : a # c => here.data[a] = mid.data[a]
        /\ here.data[c][i] = e
        /\ \A j \in 1..PerSector : j # i => here.data[c][j] = mid.data[c][j]
        /\ here.ibits = mid.ibits /\ here.dibits = mid.dibits
        /\ here.bbits = mid.bbits /\ here.dbbits = mid.dbbits
        /\ here.disk = mid.disk /\ here.core = mid.core
        /\ here.cnt = mid.cnt /\ here.lost = mid.lost
    BY ONLY <2>1, <2>2, <2>3, <2>4, e \in DirEntry, EntryWritten
  <2>6. f.disk \in [Inode -> Node]
    BY Parts
  <2>7. /\ \A a \in Block : a # c => here.data[a] = f.data[a]
        /\ here.data[c][i] = e
        /\ \A j \in 1..PerSector : j # i => here.data[c][j] = f.data[c][j]
        /\ here.disk = [f.disk EXCEPT ![d] = grown]
        /\ here.core = [f.core EXCEPT ![d] = IF f.cnt[d] > 0 THEN grown ELSE f.core[d]]
        /\ here.ibits = f.ibits /\ here.dibits = f.dibits
        /\ here.bbits = f.bbits /\ here.dbbits = f.dbbits
        /\ here.cnt = f.cnt /\ here.lost = f.lost
    BY <2>3, <2>5
  <2> HIDE DEF grown
  <2>8. here.disk[d] = grown /\ grown.sec = [f.disk[d].sec EXCEPT ![k] = c]
    <3>1. [node.sec EXCEPT ![k] = node.sec[k]] = node.sec
      BY <1>2, <2>1
    <3> QED BY <1>2, <1>3, <2>6, <2>7, <3>1 DEF c
  <2>9. grown.size = f.disk[d].size + 1 /\ BlockOf(f, d, k) = c
    BY <1>2, <1>3, <1>5, <2>1 DEF c
  <2>10. <<k, i>> \in Slots /\ <<k, i>>[1] = k /\ <<k, i>>[2] = i
    BY <2>1, <2>2 DEF Slots
  <2>11. Put(f, here, d, <<k, i>>, c, e)
    BY <2>2, <2>7, <2>8, <2>9, <2>10 DEF Put
  <2> QED BY <2>1, <2>5, <2>10, <2>11
<1>7. ASSUME open # {}, node.sec[k] = 0, FreeBlocks(f) # {}
      PROVE  there \in FileSystem /\ \E s \in Slots, c \in Block : Put(f, there, d, s, c, e)
  <2> DEFINE mid == TakeBlock(f, b)
             longer == [grown EXCEPT !.sec[k] = b]
             late == Store(mid, d, longer)
             sector == [EmptySector EXCEPT ![1] = e]
  <2>1. k \in 0..Direct - 1
    BY <1>4, <1>7
  <2>2. b \in Block /\ b \notin f.bbits /\ b \in 0..Blocks + 1
    <3>1. FreeBlocks(f) \subseteq Nat
      BY RangesAreFinite DEF FreeBlocks
    <3>2. b \in FreeBlocks(f)
      BY <1>7, <3>1, MinIsLeast
    <3> QED BY <3>2, Sizes DEF FreeBlocks, Block
  <2>3. sector \in [1..PerSector -> DirEntry] /\ sector[1] = e
        /\ \A j \in 1..PerSector : j # 1 => sector[j] = NoEntry
    BY EmptySectorIs, Sizes
  <2> HIDE DEF b, k, sector, grown
  <2>4. longer \in Node /\ longer.size = node.size + 1 /\ longer.sec = [node.sec EXCEPT ![k] = b]
    <3>1. longer = Repoint(grown, k, b)
      BY DEF Repoint
    <3> HIDE DEF longer
    <3> QED BY ONLY SMTT(100), <1>3, <2>1, <2>2, <3>1, NodeChanges
  <2>5. there = WriteSector(late, b, sector)
    BY DEF WriteSector, sector, b, k, grown
  <2> HIDE DEF longer, here, there, open, slots, node
  <2>6. /\ mid \in FileSystem
        /\ mid.bbits = f.bbits \cup {b} /\ mid.dbbits = f.dbbits \cup {b}
        /\ mid.ibits = f.ibits /\ mid.dibits = f.dibits /\ mid.disk = f.disk /\ mid.core = f.core
        /\ mid.cnt = f.cnt /\ mid.data = f.data /\ mid.lost = f.lost
    BY <2>2, Taken
  <2> HIDE DEF mid
  <2>7. /\ late \in FileSystem
        /\ late.disk = [f.disk EXCEPT ![d] = longer]
        /\ late.core = [f.core EXCEPT ![d] = IF f.cnt[d] > 0 THEN longer ELSE f.core[d]]
        /\ late.bbits = f.bbits \cup {b} /\ late.dbbits = f.dbbits \cup {b}
        /\ late.ibits = f.ibits /\ late.dibits = f.dibits
        /\ late.cnt = f.cnt /\ late.data = f.data /\ late.lost = f.lost
    <3>1. /\ Store(mid, d, longer) \in FileSystem
          /\ Store(mid, d, longer).disk = [mid.disk EXCEPT ![d] = longer]
          /\ Store(mid, d, longer).core =
                [mid.core EXCEPT ![d] = IF mid.cnt[d] > 0 THEN longer ELSE mid.core[d]]
          /\ Store(mid, d, longer).ibits = mid.ibits /\ Store(mid, d, longer).dibits = mid.dibits
          /\ Store(mid, d, longer).bbits = mid.bbits /\ Store(mid, d, longer).dbbits = mid.dbbits
          /\ Store(mid, d, longer).cnt = mid.cnt /\ Store(mid, d, longer).data = mid.data
          /\ Store(mid, d, longer).lost = mid.lost
      BY ONLY <1>2, <2>4, <2>6, Stored
    <3> QED BY <2>6, <3>1
  <2> HIDE DEF late
  <2>8. /\ there \in FileSystem
        /\ there.data = [f.data EXCEPT ![b] = sector]
        /\ there.disk = [f.disk EXCEPT ![d] = longer]
        /\ there.core = [f.core EXCEPT ![d] = IF f.cnt[d] > 0 THEN longer ELSE f.core[d]]
        /\ there.bbits = f.bbits \cup {b} /\ there.dbbits = f.dbbits \cup {b}
        /\ there.ibits = f.ibits /\ there.dibits = f.dibits
        /\ there.cnt = f.cnt /\ there.lost = f.lost
    <3>1. /\ there \in FileSystem
          /\ there.data = [late.data EXCEPT ![b] = sector]
          /\ there.disk = late.disk /\ there.core = late.core
          /\ there.bbits = late.bbits /\ there.dbbits = late.dbbits
          /\ there.ibits = late.ibits /\ there.dibits = late.dibits
          /\ there.cnt = late.cnt /\ there.lost = late.lost
      BY ONLY <2>2, <2>3, <2>5, <2>7, Written
    <3> QED BY <2>7, <3>1
  <2>9. f.data \in [Block -> [1..PerSector -> DirEntry]] /\ f.disk \in [Inode -> Node]
    BY Parts
  <2>10. (\A a \in Block : a # b => there.data[a] = f.data[a]) /\ there.data[b] = sector
    BY <2>2, <2>8, <2>9
  <2>11. there.disk[d] = longer /\ BlockOf(f, d, k) = 0
    BY <1>2, <1>5, <1>7, <2>1, <2>8, <2>9
  <2>15. \A j \in 0..k - 1 : BlockOf(f, d, j) # 0
    <3>1. \A j \in 0..k - 1 : node.sec[j] # 0 /\ j \in 0..Direct - 1
      BY <1>4, <1>7, <2>1, Sizes
    <3> QED BY <1>5, <3>1
  <2>12. longer.size = f.disk[d].size + 1 /\ longer.sec = [f.disk[d].sec EXCEPT ![k] = b]
    BY <1>2, <2>4
  <2>13. <<k, 1>> \in Slots /\ <<k, 1>>[1] = k /\ <<k, 1>>[2] = 1
    BY <2>1, Sizes DEF Slots
  <2>14. Put(f, there, d, <<k, 1>>, b, e)
    BY <2>2, <2>3, <2>8, <2>10, <2>11, <2>12, <2>13, <2>15 DEF Put
  <2> QED BY <2>2, <2>8, <2>13, <2>14
<1> HIDE DEF here, there, open, node, k
<1> QED BY <1>1, <1>6, <1>7 DEF Refuse, Result

LEMMA SyncIs ==
    ASSUME NEW f, NEW no \in Located, NEW node
    PROVE  inode_sync(f, no, node) = [f EXCEPT !.disk[no] = node]
BY LocatedOnes DEF inode_sync

(* An inode is in use, on the disk and in the bitmap.                      *)
Enroll(f, no, node) ==
    [inode_sync(f, no, node) EXCEPT !.ibits = @ \cup {no}, !.dibits = @ \cup {no}]

LEMMA Enrolled ==
    ASSUME NEW f \in FileSystem, NEW no \in Located, NEW node \in Node
    PROVE  /\ Enroll(f, no, node) \in FileSystem
           /\ Birth(f, Enroll(f, no, node), no, node)
           /\ Enroll(f, no, node).lost = f.lost
<1> DEFINE g == Enroll(f, no, node)
<1> DEFINE h == inode_sync(f, no, node)
<1>0. h = [f EXCEPT !.disk[no] = node]
  BY SyncIs
<1>1. g = [h EXCEPT !.ibits = h.ibits \cup {no}, !.dibits = h.dibits \cup {no}]
  BY DEF Enroll
<1> HIDE DEF g, h
<1>5. h \in FileSystem
  BY <1>0, LocatedOnes DEF FileSystem
<1>2. g \in FileSystem
  BY <1>1, <1>5 DEF FileSystem
<1>3. /\ g.ibits = f.ibits \cup {no} /\ g.dibits = f.dibits \cup {no}
      /\ g.bbits = f.bbits /\ g.dbbits = f.dbbits /\ g.disk = [f.disk EXCEPT ![no] = node]
      /\ g.core = f.core /\ g.cnt = f.cnt /\ g.data = f.data /\ g.lost = f.lost
  BY <1>0, <1>1, <1>5 DEF FileSystem
<1>4. Birth(f, g, no, node)
  BY <1>3 DEF Birth
<1> QED BY <1>2, <1>3, <1>4 DEF g

(* The calls put the entry first; the inode could as well come before it.  *)
LEMMA EntryThenInode ==
    ASSUME NEW f \in FileSystem, NEW h \in FileSystem, NEW d \in Inode, NEW no \in Located, no # d,
           NEW node \in Node, NEW s \in Slots, NEW b \in Block, NEW e, Put(f, h, d, s, b, e)
    PROVE  Put(Enroll(f, no, node), Enroll(h, no, node), d, s, b, e)
<1> DEFINE born == Enroll(f, no, node)
           g == Enroll(h, no, node)
<1>1. /\ born.ibits = f.ibits \cup {no} /\ born.dibits = f.dibits \cup {no}
      /\ born.bbits = f.bbits /\ born.dbbits = f.dbbits /\ born.disk = [f.disk EXCEPT ![no] = node]
      /\ born.core = f.core /\ born.cnt = f.cnt /\ born.data = f.data /\ born.lost = f.lost
  BY Enrolled DEF Birth
<1>2. /\ g.ibits = h.ibits \cup {no} /\ g.dibits = h.dibits \cup {no}
      /\ g.bbits = h.bbits /\ g.dbbits = h.dbbits /\ g.disk = [h.disk EXCEPT ![no] = node]
      /\ g.core = h.core /\ g.cnt = h.cnt /\ g.data = h.data /\ g.lost = h.lost
  BY Enrolled DEF Birth
<1>3. /\ f.disk \in [Inode -> Node] /\ h.disk \in [Inode -> Node] /\ f.core \in [Inode -> Node]
      /\ no \in Inode
  BY Parts, LocatedOnes
<1> HIDE DEF born, g
<1>4. born.disk[d] = f.disk[d] /\ g.disk[d] = h.disk[d]
  BY <1>1, <1>2, <1>3
<1>5. h.disk = [f.disk EXCEPT ![d] = h.disk[d]]
  BY DEF Put
<1>6. g.disk = [born.disk EXCEPT ![d] = g.disk[d]]
  BY <1>1, <1>2, <1>3, <1>4, <1>5
<1>7. \A k : BlockOf(born, d, k) = BlockOf(f, d, k)
  BY <1>4 DEF BlockOf
<1>8. Put(born, g, d, s, b, e)
  <2>1. /\ g.ibits = born.ibits /\ g.dibits = born.dibits
        /\ g.disk[d].size = born.disk[d].size + 1
        /\ g.disk[d].sec = [born.disk[d].sec EXCEPT ![s[1]] = b]
    BY <1>1, <1>2, <1>4 DEF Put
  <2>2. g.core = [born.core EXCEPT ![d] = IF born.cnt[d] > 0 THEN g.disk[d] ELSE born.core[d]]
    BY <1>1, <1>2, <1>4 DEF Put
  <2>3. /\ g.cnt = born.cnt /\ g.lost = born.lost
        /\ \A c \in Block : c # b => g.data[c] = born.data[c]
        /\ g.data[b][s[2]] = e
    BY <1>1, <1>2 DEF Put
  <2>4. \/ /\ BlockOf(born, d, s[1]) = b /\ born.data[b][s[2]].kind = "unknown"
           /\ g.bbits = born.bbits /\ g.dbbits = born.dbbits
           /\ \A i \in 1..PerSector : i # s[2] => g.data[b][i] = born.data[b][i]
        \/ /\ BlockOf(born, d, s[1]) = 0 /\ b \notin born.bbits
           /\ g.bbits = born.bbits \cup {b} /\ g.dbbits = born.dbbits \cup {b}
           /\ \A i \in 1..PerSector : i # s[2] => g.data[b][i] = NoEntry
           /\ \A j \in 0..s[1] - 1 : BlockOf(born, d, j) # 0
    BY <1>1, <1>2, <1>7 DEF Put
  <2> QED BY <1>6, <2>1, <2>2, <2>3, <2>4 DEF Put
<1> QED BY <1>8 DEF born, g

LEMMA NewEntry ==
    ASSUME NEW f, NEW spare, Sound(f, {}, spare),
           NEW no \in Located \ f.ibits, NEW node \in Node, NEW left, Sound(Enroll(f, no, node), {no}, left),
           NEW d \in DirsOnDisk(f), NEW h \in FileSystem,
           NEW s \in Slots, NEW b \in Block, NEW e, Put(f, h, d, s, b, e),
           e.name \in Name, e.no = no,
           \A t \in Namings(f, d) : Slot(f, d, t).name # e.name,
           e.kind = IF HoldsDir(Enroll(f, no, node), no) THEN "dir" ELSE "file",
           HoldsDir(Enroll(f, no, node), no) => Up(Enroll(f, no, node), no) = d
    PROVE  /\ Sound(Enroll(h, no, node), {}, left)
           /\ Enroll(h, no, node).lost = f.lost
<1>0. no \in Inode \ f.ibits
  BY LocatedOnes
<1>1. f \in FileSystem
  BY DEF Sound
<1>2. d \in f.ibits /\ d \in Inode /\ no # d /\ HoldsDir(f, d)
  BY <1>1, Parts DEF DirsOnDisk
<1> DEFINE born == Enroll(f, no, node)
           g == Enroll(h, no, node)
<1>3. /\ Birth(f, born, no, node) /\ born \in FileSystem
      /\ g \in FileSystem /\ g.lost = h.lost
  BY <1>1, Enrolled
<1>4. Put(born, g, d, s, b, e)
  BY <1>1, <1>2, EntryThenInode
<1> HIDE DEF born, g
<1>5. Untouched(f, born, d)
  BY <1>0, <1>1, <1>2, <1>3, BirthIsAlone
<1>6. /\ d \in DirsOnDisk(born) /\ Namings(born, d) = Namings(f, d)
      /\ \A t \in Namings(f, d) : Slot(born, d, t) = Slot(f, d, t)
  <2>1. /\ HoldsDir(born, d) /\ Namings(born, d) = Namings(f, d)
        /\ \A t \in Live(f, d) : Slot(born, d, t) = Slot(f, d, t)
    BY <1>2, <1>5, UntouchedLooks
  <2>2. d \in born.ibits
    BY <1>2, <1>3 DEF Birth
  <2> QED BY <2>1, <2>2 DEF DirsOnDisk, Namings
<1>7. Sound(g, {}, left)
  <2>1. Sound(born, {no}, left)
    BY DEF born
  <2>2. e.kind = IF HoldsDir(born, no) THEN "dir" ELSE "file"
    BY DEF born
  <2>3. HoldsDir(born, no) => Up(born, no) = d
    BY DEF born
  <2>4. \A t \in Namings(born, d) : Slot(born, d, t).name # e.name
    BY <1>6
  <2> QED BY <1>2, <1>3, <1>4, <1>6, <2>1, <2>2, <2>3, <2>4, PutTree
<1>8. g.lost = f.lost
  BY <1>3 DEF Put
<1> QED BY <1>7, <1>8 DEF g

(* A regular file with one block.                                          *)
LEMMA FileNodeIs ==
    ASSUME NEW b \in Block
    PROVE  /\ [inode_init EXCEPT !.size = 1, !.sec[0] = b] \in Node
           /\ \A k \in 0..Direct - 1 :
                 [inode_init EXCEPT !.size = 1, !.sec[0] = b].sec[k] = IF k = 0 THEN b ELSE 0
<1>1. 0 \in 0..Direct - 1 /\ b \in 0..Blocks + 1 /\ 1 \in Nat
  BY Sizes DEF Block
<1> DEFINE empty == Resize(inode_init, 1)
<1>2. empty \in Node /\ empty.sec = inode_init.sec
  BY <1>1, NodesAreTyped, NodeChanges
<1>3. [inode_init EXCEPT !.size = 1, !.sec[0] = b] = Repoint(empty, 0, b)
  BY DEF Resize, Repoint
<1> HIDE DEF empty
<1>4. Repoint(empty, 0, b) \in Node /\ Repoint(empty, 0, b).sec = [empty.sec EXCEPT ![0] = b]
  BY <1>1, <1>2, NodeChanges
<1>5. \A k \in 0..Direct - 1 : Repoint(empty, 0, b).sec[k] = IF k = 0 THEN b ELSE 0
  <2>1. inode_init.sec \in [0..Direct - 1 -> 0..Blocks + 1] /\ \A k \in 0..Direct - 1 : inode_init.sec[k] = 0
    BY NodesAreTyped DEF Node
  <2> QED BY <1>1, <1>2, <1>4, <2>1
<1> QED BY <1>3, <1>4, <1>5

(* An empty file gets its block.                                           *)
LEMMA FileIsFilled ==
    ASSUME NEW f, NEW spare, Sound(f, {}, spare), NEW no \in f.ibits,
           f.disk[no] = inode_init, f.cnt[no] = 0,
           NEW b \in Block \ f.bbits, NEW node \in Node,
           \A k \in 0..Direct - 1 : node.sec[k] = IF k = 0 THEN b ELSE 0,
           NEW g \in FileSystem,
           g.ibits = f.ibits, g.dibits = f.dibits,
           g.bbits = f.bbits \cup {b}, g.dbbits = f.dbbits \cup {b},
           g.disk = [f.disk EXCEPT ![no] = node], g.core = f.core, g.cnt = f.cnt,
           g.data = [f.data EXCEPT ![b] = FileBytes]
    PROVE  Sound(g, {}, spare)
<1>1. f \in FileSystem /\ CacheIsCurrent(f) /\ BlocksAreOwned(f, spare) /\ DirsFormTree(f, {})
  BY DEF Sound
<1>2. /\ f.ibits \subseteq Inode /\ f.data \in [Block -> [1..PerSector -> DirEntry]]
      /\ f.disk \in [Inode -> Node] /\ 0 \in 0..Direct - 1 /\ b # 0
  BY <1>1, Parts, Sizes, RangesAreFinite
<1>3. /\ \A k \in 0..Direct - 1 : BlockOf(f, no, k) = 0
      /\ \A k \in 0..Direct - 1 : BlockOf(g, no, k) = IF k = 0 THEN b ELSE 0
      /\ \A m \in f.ibits : m # no => \A k : BlockOf(g, m, k) = BlockOf(f, m, k)
      /\ \A m \in f.ibits : m # no => g.disk[m] = f.disk[m]
  <2>1. g.disk[no] = node /\ \A m \in f.ibits : m # no => g.disk[m] = f.disk[m]
    BY <1>2
  <2>2. \A k \in 0..Direct - 1 : BlockOf(f, no, k) = 0
    BY NodesAreTyped DEF BlockOf
  <2> QED BY <2>1, <2>2 DEF BlockOf
<1>4. ~HoldsDir(f, no) /\ ~HoldsDir(g, no)
  <2>1. ~HoldsDir(f, no)
    BY <1>2, <1>3 DEF HoldsDir
  <2>2. Slot(g, no, <<0, 1>>).name = "bytes"
    <3>1. g.data[b] = FileBytes /\ BlockOf(g, no, 0) = b
      BY <1>2, <1>3
    <3> QED BY <3>1, FileBytesIs DEF Slot
  <2> QED BY <2>1, <2>2 DEF HoldsDir
<1>5. ASSUME NEW m \in f.ibits, NEW k \in 0..Direct - 1, BlockOf(f, m, k) # 0
      PROVE  BlockOf(f, m, k) \in f.bbits \ spare /\ BlockOf(f, m, k) # b
  BY <1>1, <1>5 DEF BlocksAreOwned
<1>6. ASSUME NEW m \in f.ibits, m # no PROVE Untouched(f, g, m)
  <2>1. ASSUME NEW k \in 0..Direct - 1, BlockOf(f, m, k) # 0
        PROVE  g.data[BlockOf(f, m, k)] = f.data[BlockOf(f, m, k)]
    BY <1>1, <1>2, <1>5, <2>1, BlocksAreTyped
  <2> QED BY <1>3, <1>6, <2>1 DEF Untouched
<1>7. DirsFormTree(g, {})
  BY <1>1, <1>4, <1>6, TreeStays
<1>8. CacheIsCurrent(g)
  BY <1>1, <1>3 DEF CacheIsCurrent
<1>9. BlocksAreOwned(g, spare)
  <2>1. spare \subseteq g.bbits
    BY <1>1 DEF BlocksAreOwned
  <2>2. ASSUME NEW m \in g.ibits, NEW k \in 0..Direct - 1, BlockOf(g, m, k) # 0
        PROVE  /\ BlockOf(g, m, k) \in g.bbits \ spare
               /\ BlockOf(g, m, k) = b => m = no /\ k = 0
               /\ BlockOf(g, m, k) # b => BlockOf(g, m, k) = BlockOf(f, m, k)
    <3>1. CASE m = no
      BY <1>1, <1>3, <2>2, <3>1 DEF BlocksAreOwned
    <3>2. CASE m # no
      BY <1>3, <1>5, <2>2, <3>2
    <3> QED BY <3>1, <3>2
  <2>3. ASSUME NEW m \in g.ibits, NEW other \in g.ibits, NEW k \in 0..Direct - 1, NEW j \in 0..Direct - 1,
               BlockOf(g, m, k) = BlockOf(g, other, j), BlockOf(g, m, k) # 0
        PROVE  m = other /\ k = j
    <3>1. CASE BlockOf(g, m, k) = b
      BY ZenonT(120), <2>2, <2>3, <3>1
    <3>2. CASE BlockOf(g, m, k) # b
      <4>1. BlockOf(f, m, k) = BlockOf(g, m, k) /\ BlockOf(f, other, j) = BlockOf(g, other, j)
        BY <2>2, <2>3, <3>2
      <4> QED BY <1>1, <2>3, <4>1 DEF BlocksAreOwned
    <3> QED BY <3>1, <3>2
  <2>4. ASSUME NEW c \in g.bbits \ spare
        PROVE  \E m \in g.ibits, k \in 0..Direct - 1 : BlockOf(g, m, k) = c
    <3>1. CASE c = b
      BY <1>2, <1>3, <3>1
    <3>2. CASE c # b
      <4>1. PICK m \in f.ibits, k \in 0..Direct - 1 : BlockOf(f, m, k) = c
        BY <1>1, <3>2 DEF BlocksAreOwned
      <4>2. c # 0
        BY <1>1, RangesAreFinite, Parts
      <4>3. m # no
        BY <1>3, <4>1, <4>2
      <4> QED BY <1>3, <4>1, <4>3
    <3> QED BY <3>1, <3>2
  <2> QED BY <2>1, <2>2, <2>3, <2>4 DEF BlocksAreOwned
<1> QED BY <1>7, <1>8, <1>9 DEF Sound

---------------------------------------------------------------------------
(* The system calls                                                        *)

(* The block of a new directory, before anything else is written.          *)
Begun(f, no, b, d) == [TakeBlock(f, b) EXCEPT !.data[b] = FirstSector(no, d)]

LEMMA BegunIs ==
    ASSUME NEW f, Sound(f, {}, f.lost), NEW no \in Inode, NEW b \in Block \ f.bbits,
           NEW d \in DirsOnDisk(f)
    PROVE  /\ Begun(f, no, b, d) \in FileSystem
           /\ Sound(Begun(f, no, b, d), {}, f.lost \cup {b})
           /\ Begun(f, no, b, d).lost = f.lost
           /\ Begun(f, no, b, d).ibits = f.ibits /\ Begun(f, no, b, d).cnt = f.cnt
           /\ Begun(f, no, b, d).data[b] = FirstSector(no, d)
           /\ Untouched(f, Begun(f, no, b, d), d)
<1> DEFINE g == Begun(f, no, b, d)
           sector == FirstSector(no, d)
           mid == TakeBlock(f, b)
<1>1. f \in FileSystem /\ CacheIsCurrent(f) /\ BlocksAreOwned(f, f.lost)
  BY DEF Sound
<1>2. d \in f.ibits /\ d \in Inode /\ HoldsDir(f, d)
  BY <1>1, Parts DEF DirsOnDisk
<1>3. sector \in [1..PerSector -> DirEntry] /\ b \in Block
  BY <1>2, FirstSectorIs
<1>4. g = WriteSector(mid, b, sector)
  BY DEF Begun, WriteSector
<1>5. /\ mid \in FileSystem
      /\ mid.bbits = f.bbits \cup {b} /\ mid.dbbits = f.dbbits \cup {b}
      /\ mid.ibits = f.ibits /\ mid.dibits = f.dibits /\ mid.disk = f.disk /\ mid.core = f.core
      /\ mid.cnt = f.cnt /\ mid.data = f.data /\ mid.lost = f.lost
  BY ONLY <1>1, <1>3, Taken
<1> HIDE DEF g, sector, mid
<1>6. /\ g \in FileSystem
      /\ g.bbits = f.bbits \cup {b} /\ g.dbbits = f.dbbits \cup {b}
      /\ g.ibits = f.ibits /\ g.dibits = f.dibits /\ g.disk = f.disk /\ g.core = f.core
      /\ g.cnt = f.cnt /\ g.lost = f.lost
      /\ g.data = [f.data EXCEPT ![b] = sector]
  <2>1. /\ g \in FileSystem
        /\ g.data = [mid.data EXCEPT ![b] = sector]
        /\ g.ibits = mid.ibits /\ g.dibits = mid.dibits /\ g.bbits = mid.bbits /\ g.dbbits = mid.dbbits
        /\ g.disk = mid.disk /\ g.core = mid.core /\ g.cnt = mid.cnt /\ g.lost = mid.lost
    BY ONLY <1>3, <1>4, <1>5, Written
  <2> QED BY <1>5, <2>1
<1>7. Sound(g, {}, f.lost \cup {b})
  BY <1>6, TakeSpare
<1>8. f.data \in [Block -> [1..PerSector -> DirEntry]]
  BY <1>1, Parts
<1>9. g.data[b] = sector
  BY <1>3, <1>6, <1>8
<1>10. Untouched(f, g, d)
  <2>1. ASSUME NEW k \in 0..Direct - 1, BlockOf(f, d, k) # 0
        PROVE  g.data[BlockOf(f, d, k)] = f.data[BlockOf(f, d, k)]
    <3>1. BlockOf(f, d, k) \in Block /\ BlockOf(f, d, k) # b
      BY <1>1, <1>2, <2>1, BlocksAreTyped DEF BlocksAreOwned
    <3> QED BY <1>6, <1>8, <3>1
  <2> QED BY <1>6, <2>1 DEF Untouched
<1> QED BY <1>6, <1>7, <1>9, <1>10 DEF g, sector

(* sys_mkdir once the path is known to be new.                             *)
LEMMA MkdirKeeps ==
    ASSUME NEW f, Sound(f, {}, f.lost), NEW no \in Located \ f.ibits, f.cnt[no] = 0,
           NEW b \in Block \ f.bbits, NEW d \in DirsOnDisk(f), NEW name \in Name,
           \A t \in Namings(f, d) : Slot(f, d, t).name # name,
           NEW entered, entered = sync_dir_entry(Begun(f, no, b, d), d, Entry(name, no, "dir"))
    PROVE  /\ entered.ok =>
                 /\ Sound(Enroll(entered.fs, no, DirNode(b)), {}, f.lost)
                 /\ Enroll(entered.fs, no, DirNode(b)).lost = f.lost
           /\ ~entered.ok =>
                 /\ Sound([Begun(f, no, b, d) EXCEPT !.lost = @ \cup {b}], {}, f.lost \cup {b})
                 /\ [Begun(f, no, b, d) EXCEPT !.lost = @ \cup {b}].lost = f.lost \cup {b}
<1> DEFINE begun == Begun(f, no, b, d)
           e == Entry(name, no, "dir")
<1>1. f \in FileSystem /\ CacheIsCurrent(f) /\ BlocksAreOwned(f, f.lost)
  BY DEF Sound
<1>2. d \in f.ibits /\ d \in Inode /\ HoldsDir(f, d)
  BY <1>1, Parts DEF DirsOnDisk
<1>3. /\ begun \in FileSystem /\ Sound(begun, {}, f.lost \cup {b})
      /\ begun.lost = f.lost /\ begun.ibits = f.ibits /\ begun.cnt = f.cnt
      /\ begun.data[b] = FirstSector(no, d) /\ Untouched(f, begun, d)
  BY BegunIs, LocatedOnes
<1>4. e \in DirEntry /\ e.name = name /\ e.no = no /\ e.kind = "dir"
  <2>1. name \in Name \cup {".", "..", "", "bytes"} /\ no \in Inode /\ "dir" \in {"dir", "file", "unknown"}
    BY LocatedOnes
  <2>2. e \in DirEntry
    BY <2>1, EntriesAreTyped
  <2> QED BY <2>2, EntryIs
<1>5. CacheIsCurrent(begun)
  BY <1>3 DEF Sound
<1> HIDE DEF begun, e
<1>6. ASSUME entered.ok
      PROVE  /\ Sound(Enroll(entered.fs, no, DirNode(b)), {}, f.lost)
             /\ Enroll(entered.fs, no, DirNode(b)).lost = f.lost
  <2>1. entered = sync_dir_entry(begun, d, e)
    BY DEF begun, e
  <2>2. d \in begun.ibits
    BY <1>2, <1>3
  <2>3. /\ entered.fs \in FileSystem
        /\ \E s \in Slots, c \in Block : Put(begun, entered.fs, d, s, c, e)
    <3>1. sync_dir_entry(begun, d, e).ok
      BY <1>6, <2>1
    <3>2. /\ sync_dir_entry(begun, d, e).fs \in FileSystem
          /\ \E s \in Slots, c \in Block : Put(begun, sync_dir_entry(begun, d, e).fs, d, s, c, e)
      BY ONLY <1>3, <1>4, <1>5, <2>2, <3>1, EntryIsPut
    <3> QED BY <2>1, <3>2
  <2>4. PICK s \in Slots, c \in Block : Put(begun, entered.fs, d, s, c, e)
    BY <2>3
  <2>5. b \in f.lost \cup {b} /\ no \in Located \ begun.ibits /\ no \in Inode \ begun.ibits
        /\ begun.cnt[no] = 0
    BY <1>3, LocatedOnes
  <2>6. DirNode(b) \in Node
    BY NodesAreTyped
  <2>7. /\ Enroll(begun, no, DirNode(b)) \in FileSystem
        /\ Birth(begun, Enroll(begun, no, DirNode(b)), no, DirNode(b))
    BY <1>3, <2>6, Enrolled
  <2>8. /\ Sound(Enroll(begun, no, DirNode(b)), {no}, (f.lost \cup {b}) \ {b})
        /\ HoldsDir(Enroll(begun, no, DirNode(b)), no) /\ Up(Enroll(begun, no, DirNode(b)), no) = d
    BY <1>2, <1>3, <2>5, <2>7, DirIsBorn
  <2>9. (f.lost \cup {b}) \ {b} = f.lost
    BY <1>1 DEF BlocksAreOwned
  <2>10. /\ HoldsDir(begun, d) /\ Namings(begun, d) = Namings(f, d)
         /\ \A t \in Live(f, d) : Slot(begun, d, t) = Slot(f, d, t)
    BY <1>2, <1>3, UntouchedLooks
  <2>11. d \in DirsOnDisk(begun)
    BY <2>2, <2>10 DEF DirsOnDisk
  <2>12. \A t \in Namings(begun, d) : Slot(begun, d, t).name # e.name
    BY <1>4, <2>10 DEF Namings
  <2>13. e.name \in Name
    BY <1>4
  <2>14. /\ e.kind = IF HoldsDir(Enroll(begun, no, DirNode(b)), no) THEN "dir" ELSE "file"
         /\ HoldsDir(Enroll(begun, no, DirNode(b)), no) => Up(Enroll(begun, no, DirNode(b)), no) = d
    BY <1>4, <2>8
  <2>15. Sound(Enroll(begun, no, DirNode(b)), {no}, f.lost)
    BY <2>8, <2>9
  <2>16. /\ Sound(Enroll(entered.fs, no, DirNode(b)), {}, f.lost)
         /\ Enroll(entered.fs, no, DirNode(b)).lost = begun.lost
    BY ONLY <1>3, <1>4, <2>3, <2>4, <2>5, <2>6, <2>11, <2>12, <2>13, <2>14, <2>15, NewEntry
  <2> QED BY <1>3, <2>16
<1>7. ASSUME ~entered.ok
      PROVE  /\ Sound([begun EXCEPT !.lost = @ \cup {b}], {}, f.lost \cup {b})
             /\ [begun EXCEPT !.lost = @ \cup {b}].lost = f.lost \cup {b}
  <2> DEFINE g == [begun EXCEPT !.lost = @ \cup {b}]
  <2>1. /\ g \in FileSystem
        /\ g.ibits = begun.ibits /\ g.dibits = begun.dibits /\ g.bbits = begun.bbits
        /\ g.dbbits = begun.dbbits /\ g.disk = begun.disk /\ g.data = begun.data
        /\ g.core = begun.core /\ g.cnt = begun.cnt /\ g.lost = f.lost \cup {b}
    BY <1>3 DEF FileSystem
  <2> HIDE DEF g
  <2>2. \A m \in begun.ibits : g.cnt[m] > 0 => g.core[m] = begun.disk[m]
    BY <1>5, <2>1 DEF CacheIsCurrent
  <2>3. Sound(g, {}, f.lost \cup {b})
    BY <1>3, <2>1, <2>2, CacheChanges
  <2> QED BY <2>1, <2>3 DEF g
<1> QED BY <1>6, <1>7 DEF begun

(* create_file once the path is known to be new.                           *)
LEMMA CreateKeeps ==
    ASSUME NEW f, Sound(f, {}, f.lost), NEW no \in Located \ f.ibits, f.cnt[no] = 0,
           NEW d \in DirsOnDisk(f), NEW name \in Name,
           \A t \in Namings(f, d) : Slot(f, d, t).name # name,
           NEW entered, entered = sync_dir_entry(f, d, Entry(name, no, "file")), entered.ok
    PROVE  /\ Sound(Enroll(entered.fs, no, inode_init), {}, f.lost)
           /\ Enroll(entered.fs, no, inode_init).lost = f.lost
           /\ Enroll(entered.fs, no, inode_init).disk[no] = inode_init
           /\ Enroll(entered.fs, no, inode_init).cnt[no] = 0
           /\ no \in Enroll(entered.fs, no, inode_init).ibits
<1> DEFINE e == Entry(name, no, "file")
           born == Enroll(f, no, inode_init)
<1>0. no \in Inode \ f.ibits
  BY LocatedOnes
<1>1. f \in FileSystem /\ CacheIsCurrent(f) /\ inode_init \in Node
  BY NodesAreTyped DEF Sound
<1>2. d \in f.ibits /\ d \in Inode
  BY <1>1, Parts DEF DirsOnDisk
<1>3. e \in DirEntry /\ e.name = name /\ e.no = no /\ e.kind = "file"
  <2>1. name \in Name \cup {".", "..", "", "bytes"} /\ no \in Inode /\ "file" \in {"dir", "file", "unknown"}
    BY LocatedOnes
  <2>2. e \in DirEntry
    BY <2>1, EntriesAreTyped
  <2> QED BY <2>2, EntryIs
<1>4. entered = sync_dir_entry(f, d, e)
  OBVIOUS
<1> HIDE DEF e
<1>5. /\ entered.fs \in FileSystem
      /\ \E s \in Slots, c \in Block : Put(f, entered.fs, d, s, c, e)
  <2>1. sync_dir_entry(f, d, e).ok
    BY <1>4
  <2>2. /\ sync_dir_entry(f, d, e).fs \in FileSystem
        /\ \E s \in Slots, c \in Block : Put(f, sync_dir_entry(f, d, e).fs, d, s, c, e)
    BY ONLY <1>1, <1>2, <1>3, <2>1, EntryIsPut
  <2> QED BY <1>4, <2>2
<1>6. PICK s \in Slots, c \in Block : Put(f, entered.fs, d, s, c, e)
  BY <1>5
<1>7. born \in FileSystem /\ Birth(f, born, no, inode_init)
  BY <1>1, Enrolled
<1> HIDE DEF born
<1>8. Sound(born, {no}, f.lost) /\ ~HoldsDir(born, no)
  BY <1>0, <1>7, FileIsBorn
<1>9. Sound(Enroll(f, no, inode_init), {no}, f.lost) /\ ~HoldsDir(Enroll(f, no, inode_init), no)
  BY <1>8 DEF born
<1>10. e.name \in Name /\ \A t \in Namings(f, d) : Slot(f, d, t).name # e.name
  BY <1>3
<1>11. /\ Sound(Enroll(entered.fs, no, inode_init), {}, f.lost)
       /\ Enroll(entered.fs, no, inode_init).lost = f.lost
  BY <1>1, <1>3, <1>5, <1>6, <1>9, <1>10, NewEntry
<1>12. Birth(entered.fs, Enroll(entered.fs, no, inode_init), no, inode_init)
  BY <1>1, <1>5, Enrolled
<1>13. entered.fs.cnt = f.cnt /\ entered.fs.disk \in [Inode -> Node]
  BY <1>5, <1>6, Parts DEF Put
<1> QED BY <1>0, <1>11, <1>12, <1>13 DEF Birth

---------------------------------------------------------------------------
(* What is taken away                                                      *)

LEMMA Freed ==
    ASSUME NEW f \in FileSystem, NEW B
    PROVE  /\ FreeBlock(f, B) \in FileSystem
           /\ FreeBlock(f, B).bbits = f.bbits \ B /\ FreeBlock(f, B).dbbits = f.dbbits \ B
           /\ FreeBlock(f, B).ibits = f.ibits /\ FreeBlock(f, B).dibits = f.dibits
           /\ FreeBlock(f, B).disk = f.disk /\ FreeBlock(f, B).core = f.core
           /\ FreeBlock(f, B).cnt = f.cnt /\ FreeBlock(f, B).data = f.data
           /\ FreeBlock(f, B).lost = f.lost
<1> DEFINE g == FreeBlock(f, B)
<1>1. g = [f EXCEPT !.bbits = f.bbits \ B, !.dbbits = f.dbbits \ B]
  BY DEF FreeBlock
<1> HIDE DEF g
<1>2. g \in FileSystem
  BY <1>1 DEF FileSystem
<1>3. /\ g.bbits = f.bbits \ B /\ g.dbbits = f.dbbits \ B
      /\ g.ibits = f.ibits /\ g.dibits = f.dibits /\ g.disk = f.disk /\ g.core = f.core
      /\ g.cnt = f.cnt /\ g.data = f.data /\ g.lost = f.lost
  BY <1>1 DEF FileSystem
<1> QED BY <1>2, <1>3 DEF g

(* The places of a directory's entries, in memory and on the disk.         *)
LEMMA PlacesAreLive ==
    ASSUME NEW f \in FileSystem, CacheIsCurrent(f), NEW d \in f.ibits
    PROVE  /\ Places(f, d) = Live(f, d)
           /\ \A s : At(f, d, s) = Slot(f, d, s)
<1>1. inode_open(f, d) = f.disk[d] /\ f.disk[d] \in Node
  BY OpenIsDisk, Parts
<1>2. DOMAIN f.disk[d].sec = 0..Direct - 1
  BY <1>1 DEF Node
<1>3. \A s : At(f, d, s) = Slot(f, d, s)
  BY <1>1 DEF At, Slot, BlockOf
<1>4. Places(f, d) = {k \in 0..Direct - 1 : BlockOf(f, d, k) # 0} \X (1..PerSector)
  BY <1>1, <1>2 DEF Places, BlockOf
<1>5. Places(f, d) = Live(f, d)
  BY <1>4 DEF Live, Slots
<1> QED BY <1>3, <1>5

(* A directory's entries but for "." and "..".                             *)
LEMMA OwnEntries ==
    ASSUME NEW f \in FileSystem, CacheIsCurrent(f), NEW d \in f.ibits, HoldsDir(f, d), EntriesFit(f, d)
    PROVE  /\ Used(f, d) = Namings(f, d) \cup {<<0, 1>>, <<0, 2>>}
           /\ {s \in Used(f, d) : At(f, d, s).name \notin {".", ".."}} = Namings(f, d)
<1>1. d \in Inode /\ <<0, 1>> \in Live(f, d) /\ <<0, 2>> \in Live(f, d)
  BY Parts, FirstPlaces
<1>2. /\ Slot(f, d, <<0, 1>>).name = "." /\ Slot(f, d, <<0, 1>>).kind = "dir"
      /\ Slot(f, d, <<0, 2>>).name = ".." /\ Slot(f, d, <<0, 2>>).kind = "dir"
  BY EntryIs DEF EntriesFit
<1>3. Used(f, d) = {s \in Live(f, d) : Slot(f, d, s).kind # "unknown"}
  BY PlacesAreLive DEF Used
<1>4. ASSUME NEW s \in Namings(f, d)
      PROVE  /\ s \in Live(f, d) /\ Slot(f, d, s).kind # "unknown"
             /\ Slot(f, d, s).name \notin {".", ".."}
  <2>1. s \in Live(f, d) /\ Slot(f, d, s).name \in Name /\ NamesChild(f, d, Slot(f, d, s))
    BY <1>1, NamingsAreChildren
  <2>2. Slot(f, d, s).kind \in {"dir", "file"}
    BY <2>1 DEF NamesChild
  <2>3. Slot(f, d, s).kind # "unknown"
    BY <2>2
  <2> QED BY <2>1, <2>3, Words
<1>5. ASSUME NEW s \in Live(f, d), Slot(f, d, s).kind # "unknown", s \notin {<<0, 1>>, <<0, 2>>}
      PROVE  s \in Namings(f, d)
  BY <1>5, NoEntryIs DEF EntriesFit
<1>6. <<0, 1>> \in Used(f, d) /\ <<0, 2>> \in Used(f, d)
  <2>1. Slot(f, d, <<0, 1>>).kind # "unknown" /\ Slot(f, d, <<0, 2>>).kind # "unknown"
    BY <1>2
  <2> QED BY <1>1, <1>3, <2>1
<1>7. Used(f, d) = Namings(f, d) \cup {<<0, 1>>, <<0, 2>>}
  BY <1>3, <1>4, <1>5, <1>6
<1>8. \A s : At(f, d, s) = Slot(f, d, s)
  BY PlacesAreLive
<1>9. {s \in Used(f, d) : Slot(f, d, s).name \notin {".", ".."}} = Namings(f, d)
  BY <1>2, <1>4, <1>7
<1> QED BY <1>7, <1>8, <1>9

(* From f to g the entry at s goes from d, and d's block with it when it   *)
(* held nothing else.                                                      *)
Drop(f, g, d, s) ==
    /\ g.ibits = f.ibits /\ g.dibits = f.dibits
    /\ g.disk[d].size = f.disk[d].size - 1
    /\ g.disk = [f.disk EXCEPT ![d] = g.disk[d]]
    /\ g.core = [f.core EXCEPT ![d] = IF f.cnt[d] > 0 THEN g.disk[d] ELSE f.core[d]]
    /\ g.cnt = f.cnt /\ g.lost = f.lost
    /\ \/ /\ g.disk[d].sec = f.disk[d].sec
          /\ g.bbits = f.bbits /\ g.dbbits = f.dbbits
          /\ \A c \in Block : c # BlockOf(f, d, s[1]) => g.data[c] = f.data[c]
          /\ g.data[BlockOf(f, d, s[1])][s[2]] = NoEntry
          /\ \A i \in 1..PerSector : i # s[2] =>
                g.data[BlockOf(f, d, s[1])][i] = f.data[BlockOf(f, d, s[1])][i]
          /\ s[1] = 0 \/ \E t \in Namings(f, d) : t # s /\ t[1] = s[1]
       \/ /\ g.disk[d].sec = [f.disk[d].sec EXCEPT ![s[1]] = 0]
          /\ g.bbits = f.bbits \ {BlockOf(f, d, s[1])} /\ g.dbbits = f.dbbits \ {BlockOf(f, d, s[1])}
          /\ g.data = f.data
          /\ s[1] # 0
          /\ \A t \in Namings(f, d) : t[1] = s[1] => t = s

LEMMA EntryIsDropped ==
    ASSUME NEW f, NEW orphans, NEW spare, Sound(f, orphans, spare),
           NEW d \in DirsOnDisk(f), NEW s \in Namings(f, d), NEW no, Slot(f, d, s).no = no
    PROVE  delete_dir_entry(f, d, no) \in FileSystem /\ Drop(f, delete_dir_entry(f, d, no), d, s)
<1>1. f \in FileSystem /\ CacheIsCurrent(f) /\ DirsFormTree(f, orphans)
  BY DEF Sound
<1>2. d \in f.ibits /\ d \in Inode /\ HoldsDir(f, d) /\ EntriesFit(f, d)
  BY <1>1, Parts DEF DirsOnDisk, DirsFormTree
<1>3. /\ s[1] \in 0..Direct - 1 /\ s[2] \in 1..PerSector /\ s = <<s[1], s[2]>>
      /\ BlockOf(f, d, s[1]) \in Block /\ s \in Live(f, d)
  BY <1>1, <1>2, SlotsAreTyped DEF Namings
<1> DEFINE node == inode_open(f, d)
           own == {t \in Used(f, d) : At(f, d, t).name \notin {".", ".."}}
           found == {t \in own : At(f, d, t).no = no}
           p == FirstPlace(found)
           isFirst == \E i \in 1..PerSector : At(f, d, <<p[1], i>>).name = "."
           alone == Cardinality({t \in own : t[1] = p[1]}) = 1
           b == node.sec[p[1]]
           shrunk == [node EXCEPT !.size = @ - 1]
           without == Store(FreeBlock(f, {b}), d, [shrunk EXCEPT !.sec[p[1]] = 0])
           cleared == [Store(f, d, shrunk) EXCEPT !.data[b][p[2]] = NoEntry]
           g == delete_dir_entry(f, d, no)
<1>4. g = IF found = {} THEN f ELSE IF alone /\ ~isFirst THEN without ELSE cleared
  BY DEF delete_dir_entry
<1>5. own = Namings(f, d)
  BY <1>1, <1>2, OwnEntries
<1>6. found = {s}
  <2>1. \A t : At(f, d, t) = Slot(f, d, t)
    BY <1>1, <1>2, PlacesAreLive
  <2>2. found = {t \in Namings(f, d) : Slot(f, d, t).no = no}
    <3> HIDE DEF own
    <3> QED BY <1>5, <2>1
  <2>3. \A t \in Namings(f, d) : Slot(f, d, t).no = no => t = s
    BY <1>1 DEF DirsFormTree
  <2> HIDE DEF found
  <2> QED BY <2>2, <2>3
<1>7. p = s
  <2>1. p = CHOOSE x \in {s} : \A t \in {s} : x[1] < t[1] \/ (x[1] = t[1] /\ x[2] <= t[2])
    <3> HIDE DEF found
    <3> QED BY <1>6 DEF FirstPlace
  <2>2. \A t \in {s} : s[1] < t[1] \/ (s[1] = t[1] /\ s[2] <= t[2])
    BY <1>3
  <2> QED BY <2>1, <2>2
<1>8. node = f.disk[d] /\ node \in Node /\ b = BlockOf(f, d, s[1])
  <2>1. node = f.disk[d] /\ node \in Node
    BY <1>1, <1>2, OpenIsDisk, Parts
  <2> QED BY <1>7, <2>1 DEF BlockOf
<1>9. node.size - 1 \in Nat
  <2>1. f.disk[d].size = 2 + Cardinality(Namings(f, d)) /\ Cardinality(Namings(f, d)) \in Nat
    BY <1>2, NamingsAreFinite DEF EntriesFit
  <2> QED BY <1>8, <2>1
<1>10. shrunk \in Node /\ shrunk.size = node.size - 1 /\ shrunk.sec = node.sec
  <2>1. shrunk = Resize(node, node.size - 1)
    BY DEF Resize
  <2> HIDE DEF shrunk, node
  <2> QED BY <1>8, <1>9, <2>1, NodeChanges
<1>11. ASSUME alone, ~isFirst
       PROVE  s[1] # 0 /\ \A t \in Namings(f, d) : t[1] = s[1] => t = s
  <2>1. s[1] # 0
    <3>1. Slot(f, d, <<0, 1>>).name = "." /\ 1 \in 1..PerSector
      BY <1>2, Sizes DEF HoldsDir
    <3>2. \A t : At(f, d, t) = Slot(f, d, t)
      BY <1>1, <1>2, PlacesAreLive
    <3> HIDE DEF p
    <3> QED BY <1>7, <1>11, <3>1, <3>2
  <2>2. Cardinality({t \in Namings(f, d) : t[1] = s[1]}) = 1
    <3> HIDE DEF own, p
    <3> QED BY <1>5, <1>7, <1>11
  <2>3. IsFiniteSet({t \in Namings(f, d) : t[1] = s[1]})
    BY NamingsAreFinite, FS_Subset
  <2>4. PICK x : {t \in Namings(f, d) : t[1] = s[1]} = {x}
    BY <2>2, <2>3, FS_Singleton
  <2>5. \A t \in Namings(f, d) : t[1] = s[1] => t = x
    BY <2>4
  <2>6. s = x
    BY <2>5
  <2> QED BY <2>1, <2>5, <2>6
<1>14. ASSUME ~(alone /\ ~isFirst), s[1] # 0
       PROVE  \E t \in Namings(f, d) : t # s /\ t[1] = s[1]
  <2>1. ASSUME NEW i \in 1..PerSector, At(f, d, <<s[1], i>>).name = "." PROVE FALSE
    <3>1. <<s[1], i>> \in Live(f, d) \ {<<0, 1>>, <<0, 2>>}
      BY <1>3, <1>14 DEF Live, Slots
    <3>2. Slot(f, d, <<s[1], i>>).name = "."
      BY <1>1, <1>2, <2>1, PlacesAreLive
    <3>3. Slot(f, d, <<s[1], i>>) = NoEntry \/ Slot(f, d, <<s[1], i>>).name \in Name
      BY <1>2, <3>1 DEF EntriesFit, Namings
    <3> QED BY <3>2, <3>3, NoEntryIs, Words
  <2>2. ~isFirst
    <3> HIDE DEF p
    <3> QED BY <1>7, <2>1
  <2>3. Cardinality({t \in Namings(f, d) : t[1] = s[1]}) # 1
    <3> HIDE DEF own, p, isFirst
    <3> QED BY <1>5, <1>7, <1>14, <2>2
  <2>4. SUFFICES ASSUME \A t \in Namings(f, d) : t[1] = s[1] => t = s PROVE FALSE
    OBVIOUS
  <2>5. {t \in Namings(f, d) : t[1] = s[1]} = {s}
    BY <2>4
  <2> QED BY <2>3, <2>5, FS_Singleton
<1> HIDE DEF own, found, p, isFirst, alone, b, shrunk, node
<1>12. CASE alone /\ ~isFirst
  <2> DEFINE mid == FreeBlock(f, {b})
             shorter == [shrunk EXCEPT !.sec[p[1]] = 0]
  <2>1. g = Store(mid, d, shorter)
    BY <1>4, <1>6, <1>12
  <2>2. shorter = Repoint(shrunk, s[1], 0)
    BY <1>7 DEF Repoint
  <2> HIDE DEF shorter, mid, g
  <2>3. shorter \in Node /\ shorter.size = node.size - 1 /\ shorter.sec = [node.sec EXCEPT ![s[1]] = 0]
    <3>1. 0 \in 0..Blocks + 1
      BY Sizes
    <3>2. /\ Repoint(shrunk, s[1], 0) \in Node
          /\ Repoint(shrunk, s[1], 0).size = shrunk.size
          /\ Repoint(shrunk, s[1], 0).sec = [shrunk.sec EXCEPT ![s[1]] = 0]
      <4>1. \A k \in 0..Direct - 1, c \in 0..Blocks + 1 :
               /\ Repoint(shrunk, k, c) \in Node
               /\ Repoint(shrunk, k, c).size = shrunk.size
               /\ Repoint(shrunk, k, c).sec = [shrunk.sec EXCEPT ![k] = c]
        BY ONLY <1>10, NodeChanges
      <4> QED BY <1>3, <3>1, <4>1
    <3> QED BY <1>10, <2>2, <3>2
  <2>4. /\ mid \in FileSystem
        /\ mid.bbits = f.bbits \ {b} /\ mid.dbbits = f.dbbits \ {b}
        /\ mid.ibits = f.ibits /\ mid.dibits = f.dibits /\ mid.disk = f.disk /\ mid.core = f.core
        /\ mid.cnt = f.cnt /\ mid.data = f.data /\ mid.lost = f.lost
    BY <1>1, Freed DEF mid
  <2>5. /\ g \in FileSystem
        /\ g.disk = [mid.disk EXCEPT ![d] = shorter]
        /\ g.core = [mid.core EXCEPT ![d] = IF mid.cnt[d] > 0 THEN shorter ELSE mid.core[d]]
        /\ g.ibits = mid.ibits /\ g.dibits = mid.dibits
        /\ g.bbits = mid.bbits /\ g.dbbits = mid.dbbits
        /\ g.cnt = mid.cnt /\ g.data = mid.data /\ g.lost = mid.lost
    BY ONLY <1>2, <2>1, <2>3, <2>4, UsedAreLocated, <1>1, Stored
  <2>6. f.disk \in [Inode -> Node]
    BY <1>1, Parts
  <2>7. g.disk[d] = shorter
    BY <1>2, <2>4, <2>5, <2>6
  <2>8. Drop(f, g, d, s)
    BY <1>8, <1>11, <1>12, <2>3, <2>4, <2>5, <2>7 DEF Drop
  <2> QED BY <2>5, <2>8 DEF g
<1>13. CASE ~(alone /\ ~isFirst)
  <2> DEFINE mid == Store(f, d, shrunk)
  <2>1. g = WriteEntry(mid, b, s[2], NoEntry)
    BY <1>4, <1>6, <1>7, <1>13 DEF WriteEntry
  <2> HIDE DEF mid, g
  <2>2. /\ mid \in FileSystem
        /\ mid.disk = [f.disk EXCEPT ![d] = shrunk]
        /\ mid.core = [f.core EXCEPT ![d] = IF f.cnt[d] > 0 THEN shrunk ELSE f.core[d]]
        /\ mid.ibits = f.ibits /\ mid.dibits = f.dibits
        /\ mid.bbits = f.bbits /\ mid.dbbits = f.dbbits
        /\ mid.cnt = f.cnt /\ mid.data = f.data /\ mid.lost = f.lost
    BY <1>1, <1>2, <1>10, UsedAreLocated, Stored DEF mid
  <2>3. b \in Block /\ NoEntry \in DirEntry
    BY <1>3, <1>8, NoEntryIs
  <2>4. /\ g \in FileSystem
        /\ \A c \in Block : c # b => g.data[c] = mid.data[c]
        /\ g.data[b][s[2]] = NoEntry
        /\ \A j \in 1..PerSector : j # s[2] => g.data[b][j] = mid.data[b][j]
        /\ g.ibits = mid.ibits /\ g.dibits = mid.dibits
        /\ g.bbits = mid.bbits /\ g.dbbits = mid.dbbits
        /\ g.disk = mid.disk /\ g.core = mid.core
        /\ g.cnt = mid.cnt /\ g.lost = mid.lost
    BY ONLY <1>3, <2>1, <2>2, <2>3, EntryWritten
  <2>5. f.disk \in [Inode -> Node]
    BY <1>1, Parts
  <2>6. g.disk[d] = shrunk
    BY <1>2, <2>2, <2>4, <2>5
  <2>7. Drop(f, g, d, s)
    BY <1>8, <1>10, <1>13, <1>14, <2>2, <2>4, <2>6 DEF Drop
  <2> QED BY <2>4, <2>7 DEF g
<1> QED BY <1>12, <1>13

(* What stays when an entry goes.                                          *)
LEMMA DropLooks ==
    ASSUME NEW f, NEW orphans, NEW spare, Sound(f, orphans, spare), NEW g \in FileSystem,
           NEW d \in DirsOnDisk(f), NEW s \in Namings(f, d), Drop(f, g, d, s)
    PROVE  /\ BlocksAreOwned(g, spare)
           /\ \A m \in f.ibits : m # d => Untouched(f, g, m)
           /\ <<0, 1>> \in Live(g, d) /\ <<0, 2>> \in Live(g, d)
           /\ Slot(g, d, <<0, 1>>) = Slot(f, d, <<0, 1>>)
           /\ Slot(g, d, <<0, 2>>) = Slot(f, d, <<0, 2>>)
           /\ \A t \in Live(g, d) : t \in Live(f, d) /\ (t # s => Slot(g, d, t) = Slot(f, d, t))
           /\ s \in Live(g, d) => Slot(g, d, s) = NoEntry
           /\ Namings(g, d) = Namings(f, d) \ {s}
<1> DEFINE b == BlockOf(f, d, s[1])
<1>1. f \in FileSystem /\ CacheIsCurrent(f) /\ BlocksAreOwned(f, spare) /\ DirsFormTree(f, orphans)
  BY DEF Sound
<1>2. d \in f.ibits /\ d \in Inode /\ HoldsDir(f, d) /\ EntriesFit(f, d) /\ f.ibits \subseteq Inode
  BY <1>1, Parts DEF DirsOnDisk, DirsFormTree
<1>3. /\ s[1] \in 0..Direct - 1 /\ s[2] \in 1..PerSector /\ s = <<s[1], s[2]>>
      /\ b \in Block /\ b # 0 /\ s \in Live(f, d) /\ s # <<0, 1>> /\ s # <<0, 2>>
  BY <1>1, <1>2, SlotsAreTyped, NamingsAreChildren, RangesAreFinite
<1>4. g.ibits = f.ibits /\ f.disk \in [Inode -> Node] /\ f.disk[d].sec \in [0..Direct - 1 -> 0..Blocks + 1]
  BY <1>1, <1>2, Parts DEF Drop, Node
<1>5. /\ <<0, 1>> \in Live(f, d) /\ <<0, 2>> \in Live(f, d) /\ 0 \in 0..Direct - 1
  BY <1>1, <1>2, FirstPlaces, Sizes
<1>6. \A m \in f.ibits : m # d => g.disk[m] = f.disk[m] /\ \A k : BlockOf(g, m, k) = BlockOf(f, m, k)
  BY <1>2, <1>4 DEF Drop, BlockOf
<1>7. \A m \in f.ibits, k \in 0..Direct - 1 : BlockOf(f, m, k) = b => m = d /\ k = s[1]
  BY <1>1, <1>2, <1>3 DEF BlocksAreOwned
<1> HIDE DEF b
<1>8. ASSUME NEW m \in f.ibits, m # d PROVE Untouched(f, g, m)
  <2>1. ASSUME NEW k \in 0..Direct - 1, BlockOf(f, m, k) # 0
        PROVE  g.data[BlockOf(f, m, k)] = f.data[BlockOf(f, m, k)]
    <3>1. BlockOf(f, m, k) \in Block /\ BlockOf(f, m, k) # b
      BY <1>1, <1>2, <1>7, <1>8, <2>1, BlocksAreTyped
    <3> QED BY <3>1 DEF Drop, b
  <2> QED BY <1>6, <1>8, <2>1 DEF Untouched
<1>9. CASE /\ g.disk[d].sec = f.disk[d].sec
           /\ g.bbits = f.bbits /\ g.dbbits = f.dbbits
           /\ \A c \in Block : c # b => g.data[c] = f.data[c]
           /\ g.data[b][s[2]] = NoEntry
           /\ \A i \in 1..PerSector : i # s[2] => g.data[b][i] = f.data[b][i]
  <2>1. \A m \in f.ibits, k \in 0..Direct - 1 : BlockOf(g, m, k) = BlockOf(f, m, k)
    BY <1>6, <1>9 DEF BlockOf
  <2>2. BlocksAreOwned(g, spare)
    BY <1>1, <1>4, <1>9, <2>1 DEF BlocksAreOwned
  <2>3. Live(g, d) = Live(f, d)
    BY <1>2, <2>1 DEF Live, Slots
  <2>4. Slot(g, d, s) = NoEntry
    BY <1>2, <1>3, <1>9, <2>1 DEF Slot, b
  <2>5. ASSUME NEW t \in Live(f, d), t # s PROVE Slot(g, d, t) = Slot(f, d, t)
    <3>1. /\ t[1] \in 0..Direct - 1 /\ t[2] \in 1..PerSector /\ t = <<t[1], t[2]>>
          /\ BlockOf(f, d, t[1]) \in Block
      BY <1>1, <1>2, SlotsAreTyped
    <3>2. BlockOf(g, d, t[1]) = BlockOf(f, d, t[1])
      BY <1>2, <2>1, <3>1
    <3>3. CASE t[1] = s[1]
      <4>1. t[2] # s[2]
        BY <1>3, <2>5, <3>1, <3>3
      <4>2. BlockOf(f, d, t[1]) = b
        BY <3>3 DEF b
      <4> QED BY <1>9, <3>1, <3>2, <4>1, <4>2 DEF Slot
    <3>4. CASE t[1] # s[1]
      <4>1. BlockOf(f, d, t[1]) # b
        BY <1>2, <1>7, <3>1, <3>4
      <4> QED BY <1>9, <3>1, <3>2, <4>1 DEF Slot
    <3> QED BY <3>3, <3>4
  <2>6. Namings(g, d) = Namings(f, d) \ {s}
    BY <2>3, <2>4, <2>5, NoEntryIs DEF Namings
  <2> QED BY <1>3, <1>5, <1>8, <2>2, <2>3, <2>4, <2>5, <2>6
<1>10. CASE /\ g.disk[d].sec = [f.disk[d].sec EXCEPT ![s[1]] = 0]
            /\ g.bbits = f.bbits \ {b} /\ g.dbbits = f.dbbits \ {b}
            /\ g.data = f.data
            /\ s[1] # 0
            /\ \A t \in Namings(f, d) : t[1] = s[1] => t = s
  <2>1. \A k \in 0..Direct - 1 : BlockOf(g, d, k) = IF k = s[1] THEN 0 ELSE BlockOf(f, d, k)
    BY <1>3, <1>4, <1>10 DEF BlockOf
  <2>2. ASSUME NEW m \in f.ibits, NEW k \in 0..Direct - 1, BlockOf(g, m, k) # 0
        PROVE  /\ BlockOf(g, m, k) = BlockOf(f, m, k)
               /\ BlockOf(g, m, k) \in g.bbits \ spare
    <3>1. BlockOf(g, m, k) = BlockOf(f, m, k) /\ (m # d \/ k # s[1])
      BY <1>6, <2>1, <2>2
    <3>2. BlockOf(f, m, k) # b
      BY <1>7, <3>1
    <3> QED BY <1>1, <1>10, <2>2, <3>1, <3>2 DEF BlocksAreOwned
  <2>3. ASSUME NEW m \in f.ibits, NEW other \in f.ibits, NEW k \in 0..Direct - 1, NEW j \in 0..Direct - 1,
               BlockOf(g, m, k) = BlockOf(g, other, j), BlockOf(g, m, k) # 0
        PROVE  m = other /\ k = j
    <3>1. BlockOf(f, m, k) = BlockOf(g, m, k) /\ BlockOf(f, other, j) = BlockOf(g, other, j)
      BY <2>2, <2>3
    <3> QED BY <1>1, <2>3, <3>1 DEF BlocksAreOwned
  <2>4. ASSUME NEW c \in g.bbits \ spare
        PROVE  \E m \in f.ibits, k \in 0..Direct - 1 : BlockOf(g, m, k) = c
    <3>1. PICK m \in f.ibits, k \in 0..Direct - 1 : BlockOf(f, m, k) = c
      BY <1>1, <1>10 DEF BlocksAreOwned
    <3>2. m # d \/ k # s[1]
      BY <1>10, <3>1 DEF b
    <3> QED BY <1>6, <2>1, <3>1, <3>2
  <2>5. spare \subseteq g.bbits
    <3>1. b \notin spare
      BY <1>1, <1>2, <1>3 DEF BlocksAreOwned, b
    <3> QED BY <1>1, <1>10, <3>1 DEF BlocksAreOwned
  <2>6. BlocksAreOwned(g, spare)
    BY <1>4, <2>2, <2>3, <2>4, <2>5 DEF BlocksAreOwned
  <2>7. ASSUME NEW t \in Live(g, d)
        PROVE  t \in Live(f, d) /\ Slot(g, d, t) = Slot(f, d, t) /\ t[1] # s[1]
    <3>1. t \in Slots /\ t[1] \in 0..Direct - 1 /\ BlockOf(g, d, t[1]) # 0
      BY DEF Live, Slots
    <3>2. t[1] # s[1] /\ BlockOf(g, d, t[1]) = BlockOf(f, d, t[1])
      BY <2>1, <3>1
    <3> QED BY <1>10, <3>1, <3>2 DEF Live, Slot
  <2>8. ASSUME NEW t \in Live(f, d), t[1] # s[1] PROVE t \in Live(g, d)
    <3>1. t \in Slots /\ t[1] \in 0..Direct - 1 /\ BlockOf(f, d, t[1]) # 0
      BY DEF Live, Slots
    <3> QED BY <2>1, <2>8, <3>1 DEF Live
  <2>9. <<0, 1>>[1] = 0 /\ <<0, 2>>[1] = 0
    OBVIOUS
  <2>10. <<0, 1>> \in Live(g, d) /\ <<0, 2>> \in Live(g, d)
    BY <1>5, <1>10, <2>8, <2>9
  <2>11. Namings(g, d) = Namings(f, d) \ {s}
    <3>1. ASSUME NEW t \in Namings(f, d), t # s PROVE t \in Namings(g, d)
      <4>1. t \in Live(g, d)
        BY <1>10, <2>8, <3>1 DEF Namings
      <4> QED BY <2>7, <4>1 DEF Namings
    <3>2. ASSUME NEW t \in Namings(g, d) PROVE t \in Namings(f, d) /\ t # s
      BY <2>7 DEF Namings
    <3> QED BY <3>1, <3>2
  <2>12. s \notin Live(g, d)
    BY <2>7
  <2> QED BY <1>8, <2>6, <2>7, <2>10, <2>11, <2>12
<1> QED BY <1>9, <1>10 DEF Drop, b

(* What the entry named is in use without a name.                          *)
LEMMA DropTree ==
    ASSUME NEW f, NEW spare, Sound(f, {}, spare), NEW g \in FileSystem,
           NEW d \in DirsOnDisk(f), NEW s \in Namings(f, d), Drop(f, g, d, s)
    PROVE  /\ Sound(g, {Slot(f, d, s).no}, spare)
           /\ Slot(f, d, s).no \in f.ibits \ {Root}
           /\ \A m \in f.ibits : m # d => Untouched(f, g, m)
           /\ \A m \in f.ibits : SameHead(f, g, m)
<1> DEFINE no == Slot(f, d, s).no
<1>1. f \in FileSystem /\ CacheIsCurrent(f) /\ BlocksAreOwned(f, spare) /\ DirsFormTree(f, {})
  BY DEF Sound
<1>2. d \in f.ibits /\ d \in Inode /\ HoldsDir(f, d) /\ EntriesFit(f, d) /\ f.ibits \subseteq Inode
      /\ g.ibits = f.ibits
  BY <1>1, Parts DEF DirsOnDisk, DirsFormTree, Drop
<1>3. /\ BlocksAreOwned(g, spare)
      /\ \A m \in f.ibits : m # d => Untouched(f, g, m)
      /\ <<0, 1>> \in Live(g, d) /\ <<0, 2>> \in Live(g, d)
      /\ Slot(g, d, <<0, 1>>) = Slot(f, d, <<0, 1>>)
      /\ Slot(g, d, <<0, 2>>) = Slot(f, d, <<0, 2>>)
      /\ \A t \in Live(g, d) : t \in Live(f, d) /\ (t # s => Slot(g, d, t) = Slot(f, d, t))
      /\ s \in Live(g, d) => Slot(g, d, s) = NoEntry
      /\ Namings(g, d) = Namings(f, d) \ {s}
  BY DropLooks
<1>4. HoldsDir(g, d) /\ Up(g, d) = Up(f, d)
  <2>1. BlockOf(g, d, 0) # 0
    <3>1. <<0, 1>>[1] = 0
      OBVIOUS
    <3> QED BY <1>3, <3>1 DEF Live
  <2> QED BY <1>2, <1>3, <2>1 DEF HoldsDir, Up
<1>5. \A m \in f.ibits : SameHead(f, g, m)
  <2> TAKE m \in f.ibits
  <2>1. CASE m = d
    BY <1>2, <1>4, <2>1 DEF SameHead
  <2>2. CASE m # d
    BY <1>3, <2>2, UntouchedLooks DEF SameHead
  <2> QED BY <2>1, <2>2
<1>6. DirsOnDisk(g) = DirsOnDisk(f)
  BY <1>2, <1>5 DEF DirsOnDisk, SameHead
<1>7. ASSUME NEW m \in DirsOnDisk(f)
      PROVE  /\ m \in f.ibits /\ m \in Inode /\ HoldsDir(f, m) /\ EntriesFit(f, m)
             /\ \A t \in Namings(g, m) : t \in Namings(f, m) /\ Slot(g, m, t) = Slot(f, m, t)
             /\ \A t \in Namings(f, m) : t \in Namings(g, m) \/ (m = d /\ t = s)
             /\ \A t \in Namings(f, m) : Slot(f, m, t).no \in f.ibits \ {Root}
  <2>1. m \in f.ibits /\ m \in Inode /\ HoldsDir(f, m) /\ EntriesFit(f, m)
    BY <1>1, <1>2 DEF DirsOnDisk, DirsFormTree
  <2>2. \A t \in Namings(f, m) : Slot(f, m, t).no \in f.ibits \ {Root}
    BY <1>1, <2>1, NamingsAreChildren DEF NamesChild
  <2>3. CASE m = d
    BY <1>3, <2>1, <2>2, <2>3 DEF Namings
  <2>4. CASE m # d
    <3>1. Namings(g, m) = Namings(f, m) /\ \A t \in Live(f, m) : Slot(g, m, t) = Slot(f, m, t)
      BY <1>3, <2>1, <2>4, UntouchedLooks
    <3> QED BY <2>1, <2>2, <3>1 DEF Namings
  <2> QED BY <2>3, <2>4
<1>8. CacheIsCurrent(g)
  <2>1. g.dbbits = g.bbits
    BY <1>1 DEF Drop, CacheIsCurrent
  <2>2. /\ g.ibits = f.ibits /\ g.dibits = f.dibits
        /\ g.disk = [f.disk EXCEPT ![d] = g.disk[d]]
        /\ g.core = [f.core EXCEPT ![d] = IF f.cnt[d] > 0 THEN g.disk[d] ELSE f.core[d]]
        /\ g.cnt = f.cnt
    BY DEF Drop
  <2> QED BY ONLY <1>1, <1>2, <2>1, <2>2, StoredCache
<1>9. EntriesFit(g, d)
  <2>1. ASSUME NEW t \in Live(g, d) \ {<<0, 1>>, <<0, 2>>}
        PROVE  \/ Slot(g, d, t) = NoEntry
               \/ t \in Namings(g, d) /\ NamesChild(g, d, Slot(g, d, t))
    <3>1. CASE t = s
      BY <1>3, <3>1
    <3>2. CASE t # s
      <4>1. t \in Live(f, d) /\ Slot(g, d, t) = Slot(f, d, t)
        BY <1>3, <3>2
      <4>2. \/ Slot(f, d, t) = NoEntry
            \/ t \in Namings(f, d) /\ NamesChild(f, d, Slot(f, d, t))
        BY <1>2, <4>1 DEF EntriesFit
      <4>3. CASE t \in Namings(f, d) /\ NamesChild(f, d, Slot(f, d, t))
        <5>1. Slot(f, d, t).no \in f.ibits
          BY <4>3 DEF NamesChild
        <5>2. NamesChild(g, d, Slot(f, d, t))
          BY <1>2, <1>5, <4>3, <5>1, ChildStays
        <5> QED BY <1>3, <3>2, <4>1, <4>3, <5>2
      <4> QED BY <4>1, <4>2, <4>3
    <3> QED BY <3>1, <3>2
  <2>2. \A t, u \in Namings(g, d) : Slot(g, d, t).name = Slot(g, d, u).name => t = u
    BY <1>2, <1>7 DEF EntriesFit
  <2>3. g.disk[d].size = 2 + Cardinality(Namings(g, d))
    <3>1. Cardinality(Namings(g, d)) = Cardinality(Namings(f, d)) - 1
      BY ZenonT(120), <1>3, NamingsAreFinite, FS_RemoveElement
    <3>2. g.disk[d].size = f.disk[d].size - 1 /\ f.disk[d].size = 2 + Cardinality(Namings(f, d))
      BY <1>2 DEF Drop, EntriesFit
    <3> QED BY <3>1, <3>2, NamingsAreFinite
  <2>4. /\ Slot(g, d, <<0, 1>>) = Entry(".", d, "dir")
        /\ Slot(g, d, <<0, 2>>).name = ".." /\ Slot(g, d, <<0, 2>>).kind = "dir"
    BY <1>2, <1>3 DEF EntriesFit
  <2> QED BY <2>1, <2>2, <2>3, <2>4 DEF EntriesFit
<1>10. ASSUME NEW m \in DirsOnDisk(f) PROVE EntriesFit(g, m)
  <2>1. CASE m = d
    BY <1>9, <2>1
  <2>2. CASE m # d
    <3>1. Untouched(f, g, m)
      BY <1>3, <1>7, <2>2
    <3>2. \A t \in Namings(f, m) : Slot(f, m, t).no \in g.ibits /\ SameHead(f, g, Slot(f, m, t).no)
      BY <1>2, <1>5, <1>7
    <3> QED BY <1>1, <1>7, <3>1, <3>2, EntriesStay
  <2> QED BY <2>1, <2>2
<1>11. no \in f.ibits \ {Root}
  BY <1>7
<1> HIDE DEF no
<1>12. ASSUME NEW m \in DirsOnDisk(f), NEW n \in DirsOnDisk(f),
              NEW t \in Namings(g, m), NEW u \in Namings(g, n),
              Slot(g, m, t).no = Slot(g, n, u).no
       PROVE  m = n /\ t = u
  BY <1>1, <1>7, <1>12 DEF DirsFormTree
<1>13. ASSUME NEW m \in f.ibits \ {Root}
       PROVE  m \in {no} <=> \A n \in DirsOnDisk(f) : ~NamedIn(g, m, n)
  <2>1. CASE m = no
    <3>1. ASSUME NEW n \in DirsOnDisk(f), NEW t \in Namings(g, n) PROVE Slot(g, n, t).no # no
      <4>1. t \in Namings(f, n) /\ Slot(g, n, t) = Slot(f, n, t) /\ ~(n = d /\ t = s)
        BY <1>3, <1>7, <3>1
      <4> QED BY <1>1, <4>1 DEF DirsFormTree, no
    <3> QED BY <2>1, <3>1 DEF NamedIn
  <2>2. CASE m # no
    <3>1. PICK n \in DirsOnDisk(f) : NamedIn(f, m, n)
      BY <1>1 DEF DirsFormTree
    <3>2. PICK t \in Namings(f, n) : Slot(f, n, t).no = m
      BY <3>1 DEF NamedIn
    <3>3. ~(n = d /\ t = s)
      BY <2>2, <3>2 DEF no
    <3>4. t \in Namings(g, n) /\ Slot(g, n, t) = Slot(f, n, t)
      BY <1>7, <3>3
    <3> QED BY <2>2, <3>2, <3>4 DEF NamedIn
  <2> QED BY <2>1, <2>2
<1>14. Root \in DirsOnDisk(g) /\ Up(g, Root) = Root
  BY <1>1, <1>2, <1>5, <1>6 DEF DirsFormTree, DirsOnDisk, SameHead
<1>15. DirsFormTree(g, {no})
  BY <1>2, <1>6, <1>10, <1>11, <1>12, <1>13, <1>14 DEF DirsFormTree
<1>16. Sound(g, {no}, spare)
  BY <1>3, <1>8, <1>15 DEF Sound
<1> QED BY <1>3, <1>5, <1>11, <1>16 DEF no

LEMMA ReleasedIs ==
    ASSUME NEW f \in FileSystem, CacheIsCurrent(f), NEW no \in f.ibits
    PROVE  /\ inode_release(f, no) \in FileSystem
           /\ inode_release(f, no).ibits = f.ibits \ {no} /\ inode_release(f, no).dibits = f.dibits \ {no}
           /\ inode_release(f, no).bbits = f.bbits \ NodeBlocks(f.disk[no])
           /\ inode_release(f, no).dbbits = f.dbbits \ NodeBlocks(f.disk[no])
           /\ inode_release(f, no).disk = [f.disk EXCEPT ![no] = inode_init]
           /\ inode_release(f, no).core = f.core /\ inode_release(f, no).cnt = f.cnt
           /\ inode_release(f, no).data = f.data /\ inode_release(f, no).lost = f.lost
<1> DEFINE B == NodeBlocks(f.disk[no])
           mid == FreeBlock(f, B)
           g == inode_release(f, no)
<1>1. no \in Inode /\ inode_init \in Node /\ inode_open(f, no) = f.disk[no]
  BY Parts, NodesAreTyped, OpenIsDisk
<1>2. g = [mid EXCEPT !.ibits = mid.ibits \ {no}, !.dibits = mid.dibits \ {no}, !.disk[no] = inode_init]
  BY <1>1 DEF inode_release
<1>3. /\ mid \in FileSystem
      /\ mid.bbits = f.bbits \ B /\ mid.dbbits = f.dbbits \ B
      /\ mid.ibits = f.ibits /\ mid.dibits = f.dibits /\ mid.disk = f.disk /\ mid.core = f.core
      /\ mid.cnt = f.cnt /\ mid.data = f.data /\ mid.lost = f.lost
  <2> HIDE DEF B
  <2> QED BY Freed
<1> HIDE DEF g, mid, B
<1>4. g \in FileSystem
  BY <1>1, <1>2, <1>3 DEF FileSystem
<1>5. /\ g.ibits = mid.ibits \ {no} /\ g.dibits = mid.dibits \ {no}
      /\ g.bbits = mid.bbits /\ g.dbbits = mid.dbbits
      /\ g.disk = [mid.disk EXCEPT ![no] = inode_init] /\ g.core = mid.core
      /\ g.cnt = mid.cnt /\ g.data = mid.data /\ g.lost = mid.lost
  BY <1>2, <1>3 DEF FileSystem
<1> QED BY <1>3, <1>4, <1>5 DEF g, B

(* An inode that nothing names, and that names nothing, goes.              *)
LEMMA OrphanGoes ==
    ASSUME NEW f, NEW spare, NEW no, Sound(f, {no}, spare), HoldsDir(f, no) => Namings(f, no) = {}
    PROVE  /\ Sound(inode_release(f, no), {}, spare)
           /\ inode_release(f, no).lost = f.lost
<1> DEFINE g == inode_release(f, no)
           B == NodeBlocks(f.disk[no])
<1>1. f \in FileSystem /\ CacheIsCurrent(f) /\ BlocksAreOwned(f, spare) /\ DirsFormTree(f, {no})
  BY DEF Sound
<1>2. f.ibits \subseteq Inode /\ no \in f.ibits \ {Root} /\ f.disk \in [Inode -> Node]
  BY <1>1, Parts DEF DirsFormTree
<1>3. /\ g \in FileSystem /\ g.ibits = f.ibits \ {no} /\ g.dibits = f.dibits \ {no}
      /\ g.bbits = f.bbits \ B /\ g.dbbits = f.dbbits \ B
      /\ g.disk = [f.disk EXCEPT ![no] = inode_init]
      /\ g.core = f.core /\ g.cnt = f.cnt /\ g.data = f.data /\ g.lost = f.lost
  BY <1>1, <1>2, ReleasedIs
<1>4. B = {BlockOf(f, no, k) : k \in 0..Direct - 1} \ {0}
  <2>1. DOMAIN f.disk[no].sec = 0..Direct - 1
    BY <1>2 DEF Node
  <2> QED BY <2>1 DEF NodeBlocks, BlockOf
<1> HIDE DEF g, B
<1>5. \A m \in g.ibits : m \in f.ibits /\ m # no /\ m \in Inode
                          /\ g.disk[m] = f.disk[m] /\ \A k : BlockOf(g, m, k) = BlockOf(f, m, k)
  BY <1>2, <1>3 DEF BlockOf
<1>6. \A m \in g.ibits : Untouched(f, g, m)
  BY <1>3, <1>5 DEF Untouched
<1>7. \A m \in g.ibits : SameHead(f, g, m)
  BY <1>6, UntouchedLooks DEF SameHead
<1>8. CacheIsCurrent(g)
  BY <1>1, <1>3, <1>5 DEF CacheIsCurrent
<1>9. BlocksAreOwned(g, spare)
  <2>1. \A m \in f.ibits, k \in 0..Direct - 1 : BlockOf(f, m, k) \in B => m = no
    BY <1>1, <1>2, <1>4 DEF BlocksAreOwned
  <2>2. \A b \in B : b \notin spare
    BY <1>1, <1>2, <1>4 DEF BlocksAreOwned
  <2>3. \A m \in g.ibits, k \in 0..Direct - 1 :
           BlockOf(g, m, k) # 0 => BlockOf(g, m, k) \in g.bbits \ spare
    BY <1>1, <1>3, <1>5, <2>1 DEF BlocksAreOwned
  <2>4. \A m, other \in g.ibits, k, j \in 0..Direct - 1 :
           BlockOf(g, m, k) = BlockOf(g, other, j) /\ BlockOf(g, m, k) # 0
              => m = other /\ k = j
    BY <1>1, <1>5 DEF BlocksAreOwned
  <2>5. ASSUME NEW b \in g.bbits \ spare
        PROVE  \E m \in g.ibits, k \in 0..Direct - 1 : BlockOf(g, m, k) = b
    <3>1. PICK m \in f.ibits, k \in 0..Direct - 1 : BlockOf(f, m, k) = b
      BY <1>1, <1>3 DEF BlocksAreOwned
    <3>2. b # 0
      BY <1>1, <1>3, RangesAreFinite, Parts
    <3>3. m # no
      BY <1>3, <1>4, <3>1, <3>2
    <3> QED BY <1>3, <1>5, <3>1, <3>3
  <2>6. spare \subseteq g.bbits
    BY <1>1, <1>3, <2>2 DEF BlocksAreOwned
  <2> QED BY <2>3, <2>4, <2>5, <2>6 DEF BlocksAreOwned
<1>10. /\ DirsOnDisk(g) \subseteq DirsOnDisk(f)
       /\ \A d \in DirsOnDisk(f) : d = no \/ d \in DirsOnDisk(g)
  BY <1>3, <1>5, <1>7 DEF DirsOnDisk, SameHead
<1>11. ASSUME NEW d \in DirsOnDisk(g)
       PROVE  /\ d \in g.ibits /\ d \in Inode /\ HoldsDir(f, d) /\ EntriesFit(f, d) /\ Untouched(f, g, d)
              /\ Namings(g, d) = Namings(f, d)
              /\ \A s \in Namings(f, d) : Slot(g, d, s) = Slot(f, d, s) /\ Slot(f, d, s).no \in g.ibits
  <2>1. /\ d \in g.ibits /\ d \in Inode /\ HoldsDir(f, d) /\ EntriesFit(f, d) /\ Untouched(f, g, d)
    BY <1>1, <1>5, <1>6, <1>10 DEF DirsOnDisk, DirsFormTree
  <2>2. /\ Namings(g, d) = Namings(f, d)
        /\ \A s \in Live(f, d) : Slot(g, d, s) = Slot(f, d, s)
    BY <2>1, UntouchedLooks
  <2>3. ~NamedIn(f, no, d)
    BY <1>1, <1>2, <1>10 DEF DirsFormTree
  <2>4. \A s \in Namings(f, d) : s \in Live(f, d) /\ Slot(f, d, s).no \in f.ibits
    BY <1>1, <2>1, NamingsAreChildren DEF NamesChild
  <2> QED BY <1>3, <2>1, <2>2, <2>3, <2>4 DEF NamedIn
<1>12. \A d \in DirsOnDisk(g) : EntriesFit(g, d)
  BY <1>1, <1>3, <1>7, <1>11, EntriesStay
<1>13. ASSUME NEW d \in DirsOnDisk(g), NEW e \in DirsOnDisk(g),
              NEW s \in Namings(g, d), NEW t \in Namings(g, e),
              Slot(g, d, s).no = Slot(g, e, t).no
       PROVE  d = e /\ s = t
  BY <1>1, <1>10, <1>11, <1>13 DEF DirsFormTree
<1>14. ASSUME NEW m \in g.ibits \ {Root} PROVE \E d \in DirsOnDisk(g) : NamedIn(g, m, d)
  <2>1. PICK d \in DirsOnDisk(f) : NamedIn(f, m, d)
    BY <1>1, <1>5 DEF DirsFormTree
  <2>2. d # no
    BY <2>1 DEF NamedIn, DirsOnDisk
  <2>3. d \in DirsOnDisk(g)
    BY <1>10, <2>2
  <2> QED BY <1>11, <2>1, <2>3 DEF NamedIn
<1>15. Root \in DirsOnDisk(g) /\ Up(g, Root) = Root
  <2>1. Root \in DirsOnDisk(f) /\ Up(f, Root) = Root /\ Root # no
    BY <1>1, <1>2 DEF DirsFormTree
  <2>2. Root \in DirsOnDisk(g) /\ Root \in g.ibits /\ HoldsDir(f, Root)
    BY <1>10, <2>1 DEF DirsOnDisk
  <2> QED BY <1>7, <2>1, <2>2 DEF SameHead
<1>16. DirsFormTree(g, {})
  BY <1>12, <1>13, <1>14, <1>15 DEF DirsFormTree
<1>17. Sound(g, {}, spare)
  BY <1>3, <1>8, <1>9, <1>16 DEF Sound
<1> QED BY <1>3, <1>17 DEF g

(* No directory has two entries of one inode.                              *)
LEMMA NotNamedTwice ==
    ASSUME NEW f, NEW spare, Sound(f, {}, spare),
           NEW d \in DirsOnDisk(f), NEW no
    PROVE  ~NamedTwice(f, d, no)
<1> DEFINE own == {t \in Used(f, d) : At(f, d, t).name \notin {".", ".."}}
           found == {s \in Used(f, d) : At(f, d, s).name \notin {".", ".."} /\ At(f, d, s).no = no}
<1>1. /\ f \in FileSystem /\ CacheIsCurrent(f) /\ d \in f.ibits /\ d \in Inode
      /\ HoldsDir(f, d) /\ EntriesFit(f, d)
  BY Parts DEF Sound, DirsFormTree, DirsOnDisk
<1>2. own = Namings(f, d)
  BY <1>1, OwnEntries
<1>3. \A t : At(f, d, t) = Slot(f, d, t)
  BY <1>1, PlacesAreLive
<1>4. \A s, t \in found : s = t
  <2>1. \A t \in found : t \in own /\ At(f, d, t).no = no
    OBVIOUS
  <2> HIDE DEF own, found
  <2>2. \A t \in found : t \in Namings(f, d) /\ Slot(f, d, t).no = no
    BY <1>2, <1>3, <2>1
  <2> QED BY <2>2 DEF Sound, DirsFormTree
<1>5. \A t \in found : t = FirstPlace(found)
  <2> SUFFICES ASSUME NEW t \in found PROVE t = FirstPlace(found)
    OBVIOUS
  <2>1. found = {t}
    BY <1>4
  <2>2. t \in Slots
    <3>1. t \in own
      OBVIOUS
    <3> QED BY <1>2, <3>1 DEF Namings, Live
  <2>3. t[1] \in Nat /\ t[2] \in Nat
    BY <2>2 DEF Slots
  <2> HIDE DEF found
  <2> QED BY ONLY <2>1, <2>3 DEF FirstPlace
<1> HIDE DEF own
<1> QED BY <1>5 DEF NamedTwice

(* sys_unlink and sys_rmdir once they have found what they remove.         *)
LEMMA RemoveKeeps ==
    ASSUME NEW f, NEW spare, Sound(f, {}, spare),
           NEW d \in DirsOnDisk(f), NEW no, NamedIn(f, no, d),
           HoldsDir(f, no) => Namings(f, no) = {}
    PROVE  /\ Sound(inode_release(delete_dir_entry(f, d, no), no), {}, spare)
           /\ inode_release(delete_dir_entry(f, d, no), no).lost = f.lost
<1> DEFINE g == delete_dir_entry(f, d, no)
<1>1. PICK s \in Namings(f, d) : Slot(f, d, s).no = no
  BY DEF NamedIn
<1>2. g \in FileSystem /\ Drop(f, g, d, s)
  BY <1>1, EntryIsDropped
<1> HIDE DEF g
<1>3. /\ Sound(g, {no}, spare) /\ no \in f.ibits
      /\ \A m \in f.ibits : m # d => Untouched(f, g, m)
      /\ \A m \in f.ibits : SameHead(f, g, m)
  <2>1. /\ Sound(g, {Slot(f, d, s).no}, spare)
        /\ Slot(f, d, s).no \in f.ibits \ {Root}
        /\ \A m \in f.ibits : m # d => Untouched(f, g, m)
        /\ \A m \in f.ibits : SameHead(f, g, m)
    BY <1>2, DropTree
  <2> QED BY <1>1, <2>1
<1>4. HoldsDir(g, no) => Namings(g, no) = {}
  <2> SUFFICES ASSUME HoldsDir(g, no) PROVE Namings(g, no) = {}
    OBVIOUS
  <2>1. HoldsDir(f, no)
    BY <1>3 DEF SameHead
  <2>2. Namings(f, no) = {} /\ no # d
    BY <1>1, <2>1
  <2> QED BY <1>3, <2>2, UntouchedLooks
<1>5. Sound(inode_release(g, no), {}, spare) /\ inode_release(g, no).lost = g.lost
  BY <1>3, <1>4, OrphanGoes
<1>6. g.lost = f.lost
  BY <1>2 DEF Drop
<1> QED BY <1>5, <1>6 DEF g

---------------------------------------------------------------------------
(* The search for a path                                                   *)

LEMMA PathsAreSequences ==
    ASSUME NEW path \in Path
    PROVE  /\ Len(path) \in Nat /\ path \in [1..Len(path) -> Name]
           /\ path \in Seq(Name)
           /\ \A n \in 1..Len(path) : path[n] \in Name
<1>1. PICK n \in 0..MaxDepth : path \in [1..n -> Name]
  BY DEF Path
<1>2. MaxDepth \in Nat
  BY ShellAssumption
<1>3. path \in Seq(Name)
  BY <1>1, <1>2
<1> QED BY <1>3, LenProperties

(* A name leads to the one entry that has it, or to none.                  *)
LEMMA SearchInDir ==
    ASSUME NEW f, NEW spare, Sound(f, {}, spare), NEW d \in DirsOnDisk(f), NEW name \in Name
    PROVE  \/ /\ search_dir_entry(f, d, name) = NoEntry
              /\ \A t \in Namings(f, d) : Slot(f, d, t).name # name
           \/ /\ search_dir_entry(f, d, name) # NoEntry
              /\ \E s \in Namings(f, d) : search_dir_entry(f, d, name) = Slot(f, d, s)
<1>1. f \in FileSystem /\ CacheIsCurrent(f) /\ DirsFormTree(f, {})
  BY DEF Sound
<1>2. d \in f.ibits /\ d \in Inode /\ EntriesFit(f, d)
  BY <1>1, Parts DEF DirsOnDisk, DirsFormTree
<1> DEFINE found == {s \in Places(f, d) : At(f, d, s).name = name}
<1>3. search_dir_entry(f, d, name) = IF found = {} THEN NoEntry ELSE At(f, d, FirstPlace(found))
  BY DEF search_dir_entry
<1>4. found = {s \in Namings(f, d) : Slot(f, d, s).name = name}
  <2>1. Places(f, d) = Live(f, d) /\ \A s : At(f, d, s) = Slot(f, d, s)
    BY <1>1, <1>2, PlacesAreLive
  <2> QED BY <2>1 DEF Namings
<1> HIDE DEF found
<1>5. CASE found = {}
  BY <1>3, <1>4, <1>5
<1>6. CASE found # {}
  <2>1. PICK s \in Namings(f, d) : Slot(f, d, s).name = name
    BY <1>4, <1>6
  <2>2. found = {s}
    BY <1>2, <1>4, <2>1 DEF EntriesFit
  <2>3. s[1] \in Nat /\ s[2] \in Nat
    BY <1>1, <1>2, SlotsAreTyped DEF Namings
  <2>4. FirstPlace({s}) = s
    <3>1. \A t \in {s} : s[1] < t[1] \/ (s[1] = t[1] /\ s[2] <= t[2])
      BY <2>3
    <3> QED BY <3>1 DEF FirstPlace
  <2>5. At(f, d, s) = Slot(f, d, s)
    BY <1>1, <1>2, PlacesAreLive
  <2>6. search_dir_entry(f, d, name) = Slot(f, d, s)
    BY <1>3, <1>6, <2>2, <2>4, <2>5
  <2>7. Slot(f, d, s) # NoEntry
    BY <1>1, <1>2, NamingsAreChildren
  <2> QED BY <2>6, <2>7
<1> QED BY <1>5, <1>6

(* What the search has found after some names of the path.                 *)
Reached(f, path, r) ==
    /\ r.dir \in DirsOnDisk(f) /\ r.depth \in Nat
    /\ \/ r.kind = "dir" /\ r.no \in DirsOnDisk(f) /\ (r.no = Root \/ NamedIn(f, r.no, r.dir))
       \/ /\ r.kind = "file" /\ r.no \in f.ibits \ DirsOnDisk(f)
          /\ NamedIn(f, r.no, r.dir)
       \/ /\ r.kind = "unknown" /\ r.no = NotFound /\ r.depth > 0
          /\ \A t \in Namings(f, r.dir) : Slot(f, r.dir, t).name # path[r.depth]

(* A search that is still in directories has come as deep as it could.     *)
ReachedAt(f, path, r, n) ==
    Reached(f, path, r) /\ r.depth <= n /\ (r.kind = "dir" => r.depth = n)

LEMMA Descends ==
    ASSUME NEW f, NEW spare, Sound(f, {}, spare), NEW path \in Path, NEW n \in 1..Len(path),
           NEW r, ReachedAt(f, path, r, n - 1)
    PROVE  ReachedAt(f, path, Descend(f, r, path[n]), n)
<1>1. f \in FileSystem /\ DirsFormTree(f, {}) /\ n \in Nat /\ path[n] \in Name
  BY PathsAreSequences DEF Sound
<1>2. CASE r.kind # "dir"
  <2>1. Descend(f, r, path[n]) = r
    BY <1>2 DEF Descend
  <2>2. Reached(f, path, r) /\ r.depth <= n - 1 /\ r.depth \in Nat
    BY DEF ReachedAt, Reached
  <2>3. r.depth <= n
    BY <1>1, <2>2
  <2> QED BY <1>2, <2>1, <2>2, <2>3 DEF ReachedAt
<1>3. CASE r.kind = "dir"
  <2> DEFINE e == search_dir_entry(f, r.no, path[n])
             q == [no |-> IF e = NoEntry THEN NotFound ELSE e.no,
                   kind |-> e.kind, dir |-> r.no, depth |-> r.depth + 1]
  <2>1. Descend(f, r, path[n]) = q
    BY <1>3 DEF Descend
  <2>2. r.no \in DirsOnDisk(f) /\ r.depth = n - 1
    BY <1>3 DEF ReachedAt, Reached
  <2>3. /\ q.no = IF e = NoEntry THEN NotFound ELSE e.no
        /\ q.kind = e.kind /\ q.dir = r.no /\ q.depth = n
    <3> HIDE DEF e
    <3> QED BY <1>1, <2>2
  <2> HIDE DEF q
  <2>4. CASE e = NoEntry
    <3>1. \A t \in Namings(f, r.no) : Slot(f, r.no, t).name # path[n]
      BY <1>1, <2>2, <2>4, SearchInDir
    <3>2. q.kind = "unknown" /\ q.no = NotFound
      BY <2>3, <2>4, NoEntryIs
    <3>3. n > 0
      OBVIOUS
    <3> QED BY <1>1, <2>1, <2>2, <2>3, <3>1, <3>2, <3>3 DEF ReachedAt, Reached
  <2>5. CASE e # NoEntry
    <3>1. PICK s \in Namings(f, r.no) : e = Slot(f, r.no, s)
      BY <1>1, <2>2, <2>5, SearchInDir
    <3>2. r.no \in Inode /\ EntriesFit(f, r.no)
      BY <1>1, <2>2, Parts DEF DirsOnDisk, DirsFormTree
    <3>3. NamesChild(f, r.no, e)
      BY <1>1, <3>1, <3>2, NamingsAreChildren
    <3>4. e.no \in f.ibits /\ e.kind = IF e.no \in DirsOnDisk(f) THEN "dir" ELSE "file"
      BY <3>3 DEF NamesChild, DirsOnDisk
    <3>5. NamedIn(f, e.no, r.no)
      BY <3>1 DEF NamedIn
    <3>6. q.no = e.no
      BY <2>3, <2>5
    <3> HIDE DEF e
    <3>7. Reached(f, path, q)
      BY <1>1, <2>2, <2>3, <3>4, <3>5, <3>6 DEF Reached
    <3>8. q.depth <= n
      BY <1>1, <2>3
    <3> QED BY <2>1, <2>3, <3>7, <3>8 DEF ReachedAt
  <2> QED BY <2>4, <2>5
<1> QED BY <1>2, <1>3

(* The search's function is there: each value is got from the one before.  *)
IsWalk(f, path, L, walk) ==
    walk = [n \in 0..L |-> IF n = 0 THEN Start ELSE Descend(f, walk[n - 1], path[n])]

LEMMA WalkExists ==
    ASSUME NEW f, NEW path, NEW L \in Nat
    PROVE  \E walk : IsWalk(f, path, L, walk)
<1> DEFINE upTo(m) ==
        \E walk : walk = [n \in 0..m |-> IF n = 0 THEN Start ELSE Descend(f, walk[n - 1], path[n])]
           none == {m \in Nat : ~upTo(m)}
<1>1. SUFFICES none = {}
  <2>1. upTo(L)
    BY <1>1
  <2> QED BY <2>1 DEF IsWalk
<1>2. SUFFICES ASSUME none # {} PROVE FALSE
  OBVIOUS
<1>3. PICK m \in none : \A k \in none : m <= k
  <2>1. none \subseteq Nat
    OBVIOUS
  <2> HIDE DEF none
  <2>2. Min(none) \in none /\ \A k \in none : Min(none) <= k
    BY <1>2, <2>1, MinIsLeast
  <2> QED BY <2>2
<1>4. m \in Nat /\ ~upTo(m)
  OBVIOUS
<1>5. m # 0
  <2>1. SUFFICES ASSUME m = 0 PROVE FALSE
    OBVIOUS
  <2> DEFINE w == [n \in 0..0 |-> Start]
  <2>2. w = [n \in 0..0 |-> IF n = 0 THEN Start ELSE Descend(f, w[n - 1], path[n])]
    <3>1. \A n \in 0..0 : Start = IF n = 0 THEN Start ELSE Descend(f, w[n - 1], path[n])
      OBVIOUS
    <3> QED BY <3>1
  <2>3. upTo(0)
    BY <2>2
  <2> QED BY <1>4, <2>1, <2>3
<1>6. m - 1 \in Nat /\ upTo(m - 1)
  <2>1. m - 1 \in Nat /\ ~(m <= m - 1)
    BY <1>4, <1>5
  <2>2. m - 1 \notin none
    BY <1>3, <2>1
  <2> QED BY <2>1, <2>2
<1>7. PICK w : w = [n \in 0..m - 1 |-> IF n = 0 THEN Start ELSE Descend(f, w[n - 1], path[n])]
  BY <1>6
<1> DEFINE v == [n \in 0..m |-> IF n = m THEN Descend(f, w[m - 1], path[m]) ELSE w[n]]
<1>8. \A n \in 0..m : v[n] = IF n = 0 THEN Start ELSE Descend(f, v[n - 1], path[n])
  <2> TAKE n \in 0..m
  <2>1. CASE n = m
    <3>1. v[n] = Descend(f, w[m - 1], path[m]) /\ v[m - 1] = w[m - 1]
      BY <1>4, <1>5, <1>6, <2>1
    <3> HIDE DEF v
    <3> QED BY <1>5, <2>1, <3>1
  <2>2. CASE n # m /\ n = 0
    <3>1. v[n] = w[n] /\ 0 \in 0..m - 1
      BY <1>4, <1>6, <2>2
    <3>2. w[0] = Start
      BY <1>7, <3>1
    <3> HIDE DEF v
    <3> QED BY <2>2, <3>1, <3>2
  <2>3. CASE n # m /\ n # 0
    <3>1. v[n] = w[n] /\ v[n - 1] = w[n - 1] /\ n \in 0..m - 1
      BY <1>4, <2>3
    <3>2. w[n] = Descend(f, w[n - 1], path[n])
      BY <1>7, <2>3, <3>1
    <3> HIDE DEF v
    <3> QED BY <2>3, <3>1, <3>2
  <2> QED BY <2>1, <2>2, <2>3
<1>9. v = [n \in 0..m |-> IF n = 0 THEN Start ELSE Descend(f, v[n - 1], path[n])]
  <2>1. v = [n \in 0..m |-> v[n]]
    OBVIOUS
  <2> HIDE DEF v
  <2> QED BY <1>8, <2>1
<1>10. upTo(m)
  <2> HIDE DEF v
  <2> QED BY <1>9
<1> QED BY <1>4, <1>10

LEMMA SearchFinds ==
    ASSUME NEW f, NEW spare, Sound(f, {}, spare), NEW path \in Path
    PROVE  Reached(f, path, search_file(f, path))
<1> DEFINE L == Len(path)
           walk == CHOOSE walk :
              walk = [n \in 0..L |-> IF n = 0 THEN Start ELSE Descend(f, walk[n - 1], path[n])]
<1>1. search_file(f, path) = IF path \in {<<>>, <<".">>, <<"..">>} THEN Start ELSE walk[L]
  BY DEF search_file
<1>2. L \in Nat
  BY PathsAreSequences
<1>3. walk = [n \in 0..L |-> IF n = 0 THEN Start ELSE Descend(f, walk[n - 1], path[n])]
  <2>1. \E w : w = [n \in 0..L |-> IF n = 0 THEN Start ELSE Descend(f, w[n - 1], path[n])]
    <3>1. \E w : IsWalk(f, path, L, w)
      <4> HIDE DEF L
      <4> QED BY <1>2, WalkExists
    <3> QED BY <3>1 DEF IsWalk
  <2> QED BY <2>1
<1> HIDE DEF walk
<1>4. ReachedAt(f, path, Start, 0)
  <2>1. Root \in DirsOnDisk(f)
    BY DEF Sound, DirsFormTree
  <2>2. Start.no = Root /\ Start.kind = "dir" /\ Start.dir = Root /\ Start.depth = 0
    BY DEF Start
  <2> QED BY <2>1, <2>2 DEF ReachedAt, Reached
<1> DEFINE wrong == {n \in 0..L : ~ReachedAt(f, path, walk[n], n)}
<1>5. wrong = {}
  <2> SUFFICES ASSUME wrong # {} PROVE FALSE
    OBVIOUS
  <2>1. PICK m \in wrong : \A k \in wrong : m <= k
    <3>1. wrong \subseteq Nat
      BY <1>2
    <3> HIDE DEF wrong
    <3>2. Min(wrong) \in wrong /\ \A k \in wrong : Min(wrong) <= k
      BY <3>1, MinIsLeast
    <3> QED BY <3>2
  <2>2. m \in 0..L /\ ~ReachedAt(f, path, walk[m], m)
    OBVIOUS
  <2>3. CASE m = 0
    <3>1. walk[0] = Start
      BY <1>2, <1>3
    <3> QED BY <1>4, <2>2, <2>3, <3>1
  <2>4. CASE m # 0
    <3>1. m \in 1..L /\ m - 1 \in 0..L /\ ~(m <= m - 1)
      BY <1>2, <2>2, <2>4
    <3>2. ReachedAt(f, path, walk[m - 1], m - 1)
      BY <2>1, <3>1
    <3>3. walk[m] = Descend(f, walk[m - 1], path[m])
      BY <1>2, <1>3, <2>2, <2>4
    <3>4. ReachedAt(f, path, Descend(f, walk[m - 1], path[m]), m)
      BY <3>1, <3>2, Descends
    <3> QED BY <2>2, <3>3, <3>4
  <2> QED BY <2>3, <2>4
<1>6. ReachedAt(f, path, walk[L], L)
  BY <1>2, <1>5
<1> QED BY <1>1, <1>4, <1>6 DEF ReachedAt

(* A path that is new ends in a name its directory does not have.          *)
LEMMA NewNames ==
    ASSUME NEW f, NEW spare, Sound(f, {}, spare), NEW path \in Path,
           NEW r, r = search_file(f, path), IsNew(r, path)
    PROVE  /\ r.dir \in DirsOnDisk(f) /\ Last(path) \in Name
           /\ \A t \in Namings(f, r.dir) : Slot(f, r.dir, t).name # Last(path)
<1>1. Reached(f, path, r) /\ r.no = NotFound /\ r.depth = Len(path)
  BY SearchFinds DEF IsNew
<1>2. \A d \in DirsOnDisk(f) : d # NotFound
  <2>1. f.ibits \subseteq Inode /\ NotFound \notin Inode
    BY Parts DEF Sound, Inode, NotFound
  <2> QED BY <2>1 DEF DirsOnDisk
<1>3. \A m \in f.ibits : m # NotFound
  <2>1. f.ibits \subseteq Inode /\ NotFound \notin Inode
    BY Parts DEF Sound, Inode, NotFound
  <2> QED BY <2>1
<1>4. r.depth > 0 /\ \A t \in Namings(f, r.dir) : Slot(f, r.dir, t).name # path[r.depth]
  BY <1>1, <1>2, <1>3 DEF Reached
<1>5. Len(path) \in 1..Len(path)
  BY <1>1, <1>4, PathsAreSequences
<1>6. Last(path) = path[Len(path)] /\ path[Len(path)] \in Name
  BY <1>5, PathsAreSequences DEF Last
<1> QED BY <1>1, <1>4, <1>6 DEF Reached

---------------------------------------------------------------------------
(* Each call keeps the file system sound                                   *)

(* The number a new inode gets is no open inode's, and a byte holds it.    *)
FreshNumber(f) ==
    FreeInodes(f) # {} => f.cnt[Min(FreeInodes(f))] = 0 /\ Min(FreeInodes(f)) \in Located

LEMMA FreeOnes ==
    ASSUME NEW f
    PROVE  /\ FreeInodes(f) # {} => Min(FreeInodes(f)) \in Inode \ f.ibits
           /\ FreeBlocks(f) # {} => Min(FreeBlocks(f)) \in Block \ f.bbits
<1>1. FreeInodes(f) \subseteq Nat /\ FreeBlocks(f) \subseteq Nat
  BY RangesAreFinite DEF FreeInodes, FreeBlocks
<1>2. /\ FreeInodes(f) # {} => Min(FreeInodes(f)) \in FreeInodes(f)
      /\ FreeBlocks(f) # {} => Min(FreeBlocks(f)) \in FreeBlocks(f)
  BY <1>1, MinIsLeast
<1> QED BY <1>2 DEF FreeInodes, FreeBlocks

LEMMA MkdirIsSound ==
    ASSUME NEW f, Sound(f, {}, f.lost), NEW path \in Path,
           FreshNumber(f)
    PROVE  Sound(sys_mkdir(f, path).fs, {}, sys_mkdir(f, path).fs.lost)
<1> DEFINE r == search_file(f, path)
           no == Min(FreeInodes(f))
           b == Min(FreeBlocks(f))
           begun == [TakeBlock(f, b) EXCEPT !.data[b] = FirstSector(no, r.dir)]
           entered == sync_dir_entry(begun, r.dir, Entry(Last(path), no, "dir"))
           given_up == [begun EXCEPT !.lost = @ \cup {b}]
           made == [inode_sync(entered.fs, no, DirNode(b))
                       EXCEPT !.ibits = @ \cup {no}, !.dibits = @ \cup {no}]
<1>1. sys_mkdir(f, path) =
         IF ~IsNew(r, path) \/ FreeInodes(f) = {} \/ FreeBlocks(f) = {} THEN Refuse(f)
         ELSE IF ~entered.ok THEN Refuse(given_up)
         ELSE Result(TRUE, made)
  BY DEF sys_mkdir
<1>2. /\ begun = Begun(f, no, b, r.dir)
      /\ made = Enroll(entered.fs, no, DirNode(b))
  <2> HIDE DEF entered
  <2> QED BY DEF Begun, Enroll
<1>3. \A h : Refuse(h).fs = h /\ Result(TRUE, h).fs = h
  BY DEF Refuse, Result
<1> HIDE DEF r, no, b, made
<1>4. CASE ~IsNew(r, path) \/ FreeInodes(f) = {} \/ FreeBlocks(f) = {}
  <2> HIDE DEF entered, given_up
  <2> QED BY <1>1, <1>3, <1>4
<1>5. CASE ~(~IsNew(r, path) \/ FreeInodes(f) = {} \/ FreeBlocks(f) = {})
  <2>1. /\ r.dir \in DirsOnDisk(f) /\ Last(path) \in Name
        /\ \A t \in Namings(f, r.dir) : Slot(f, r.dir, t).name # Last(path)
    BY <1>5, NewNames DEF r
  <2>2. no \in Located \ f.ibits /\ b \in Block \ f.bbits /\ f.cnt[no] = 0
    BY <1>5, FreeOnes DEF no, b, FreshNumber
  <2>3. entered = sync_dir_entry(Begun(f, no, b, r.dir), r.dir, Entry(Last(path), no, "dir"))
    BY <1>2
  <2>4. given_up = [Begun(f, no, b, r.dir) EXCEPT !.lost = @ \cup {b}]
    BY <1>2
  <2> HIDE DEF entered, begun, given_up
  <2>5. /\ entered.ok =>
              /\ Sound(Enroll(entered.fs, no, DirNode(b)), {}, f.lost)
              /\ Enroll(entered.fs, no, DirNode(b)).lost = f.lost
        /\ ~entered.ok =>
              /\ Sound([Begun(f, no, b, r.dir) EXCEPT !.lost = @ \cup {b}], {}, f.lost \cup {b})
              /\ [Begun(f, no, b, r.dir) EXCEPT !.lost = @ \cup {b}].lost = f.lost \cup {b}
    BY <2>1, <2>2, <2>3, MkdirKeeps
  <2>6. /\ entered.ok => Sound(made, {}, f.lost) /\ made.lost = f.lost
        /\ ~entered.ok => Sound(given_up, {}, f.lost \cup {b}) /\ given_up.lost = f.lost \cup {b}
    BY <1>2, <2>2, <2>4, <2>5
  <2>7. sys_mkdir(f, path).fs = IF ~entered.ok THEN given_up ELSE made
    BY <1>1, <1>3, <1>5
  <2> QED BY <2>6, <2>7
<1> QED BY <1>4, <1>5

LEMMA CreateIsSound ==
    ASSUME NEW f, Sound(f, {}, f.lost), NEW path \in Path,
           FreshNumber(f)
    PROVE  Sound(create_file(f, path).fs, {}, create_file(f, path).fs.lost)
<1> DEFINE r == search_file(f, path)
           no == Min(FreeInodes(f))
           entered == sync_dir_entry(f, r.dir, Entry(Last(path), no, "file"))
           made == [inode_sync(entered.fs, no, inode_init)
                       EXCEPT !.ibits = @ \cup {no}, !.dibits = @ \cup {no}]
           b == Min(FreeBlocks(made))
           node == [inode_init EXCEPT !.size = 1, !.sec[0] = b]
           full == [inode_sync(TakeBlock(made, b), no, node) EXCEPT !.data[b] = FileBytes]
<1>1. create_file(f, path) =
         IF ~IsNew(r, path) \/ FreeInodes(f) = {} \/ ~entered.ok THEN Refuse(f)
         ELSE IF FreeBlocks(made) = {} THEN Result(TRUE, made)
         ELSE Result(TRUE, full)
  BY DEF create_file
<1>2. made = Enroll(entered.fs, no, inode_init)
  <2> HIDE DEF entered, no
  <2> QED BY DEF Enroll
<1>3. \A h : Refuse(h).fs = h /\ Result(TRUE, h).fs = h
  BY DEF Refuse, Result
<1> HIDE DEF r, no, made
<1>4. CASE ~IsNew(r, path) \/ FreeInodes(f) = {} \/ ~entered.ok
  <2> HIDE DEF entered, full
  <2> QED BY <1>1, <1>3, <1>4
<1>5. CASE ~(~IsNew(r, path) \/ FreeInodes(f) = {} \/ ~entered.ok)
  <2>1. /\ r.dir \in DirsOnDisk(f) /\ Last(path) \in Name
        /\ \A t \in Namings(f, r.dir) : Slot(f, r.dir, t).name # Last(path)
    BY <1>5, NewNames DEF r
  <2>2. no \in Located \ f.ibits /\ f.cnt[no] = 0
    BY <1>5, FreeOnes DEF no, FreshNumber
  <2>3. /\ Sound(made, {}, f.lost) /\ made.lost = f.lost
        /\ made.disk[no] = inode_init /\ made.cnt[no] = 0 /\ no \in made.ibits
    BY <1>2, <1>5, <2>1, <2>2, CreateKeeps
  <2>4. made \in FileSystem
    BY <2>3 DEF Sound
  <2> HIDE DEF entered
  <2>5. CASE FreeBlocks(made) = {}
    <3> HIDE DEF full
    <3>1. create_file(f, path).fs = made
      BY <1>1, <1>3, <1>5, <2>5
    <3> QED BY <2>3, <3>1
  <2>6. CASE FreeBlocks(made) # {}
    <3>1. b \in Block \ made.bbits
      BY <2>6, FreeOnes
    <3> HIDE DEF b
    <3>2. node \in Node /\ \A k \in 0..Direct - 1 : node.sec[k] = IF k = 0 THEN b ELSE 0
      BY <3>1, FileNodeIs
    <3> DEFINE mid == TakeBlock(made, b)
    <3>3. /\ mid \in FileSystem
          /\ mid.bbits = made.bbits \cup {b} /\ mid.dbbits = made.dbbits \cup {b}
          /\ mid.ibits = made.ibits /\ mid.dibits = made.dibits
          /\ mid.disk = made.disk /\ mid.core = made.core
          /\ mid.cnt = made.cnt /\ mid.data = made.data /\ mid.lost = made.lost
      BY <2>4, <3>1, Taken
    <3>4. full = [mid EXCEPT !.data[b] = FileBytes, !.disk[no] = node]
      <4>1. full = [inode_sync(mid, no, node) EXCEPT !.data[b] = FileBytes]
        OBVIOUS
      <4> HIDE DEF full, mid, node
      <4>2. inode_sync(mid, no, node) = [mid EXCEPT !.disk[no] = node]
        BY <2>2, SyncIs
      <4>3. inode_sync(mid, no, node).data = mid.data
        BY <3>3, <4>2 DEF FileSystem
      <4> QED BY <3>3, <4>1, <4>2, <4>3 DEF FileSystem
    <3> HIDE DEF mid, full, node
    <3>5. FileBytes \in [1..PerSector -> DirEntry]
      BY FileBytesIs
    <3>6. full \in FileSystem
      BY <2>2, <3>1, <3>2, <3>3, <3>4, <3>5 DEF FileSystem
    <3>7. /\ full.data = [mid.data EXCEPT ![b] = FileBytes]
          /\ full.disk = [mid.disk EXCEPT ![no] = node]
          /\ full.ibits = mid.ibits /\ full.dibits = mid.dibits
          /\ full.bbits = mid.bbits /\ full.dbbits = mid.dbbits
          /\ full.core = mid.core /\ full.cnt = mid.cnt /\ full.lost = mid.lost
      BY <3>3, <3>4 DEF FileSystem
    <3>8. Sound(full, {}, f.lost)
      BY <2>3, <3>1, <3>2, <3>3, <3>6, <3>7, FileIsFilled
    <3>9. create_file(f, path).fs = full
      BY <1>1, <1>3, <1>5, <2>6
    <3> QED BY <2>3, <3>3, <3>7, <3>8, <3>9
  <2> QED BY <2>5, <2>6
<1> QED BY <1>4, <1>5

LEMMA UnlinkIsSound ==
    ASSUME NEW f, Sound(f, {}, f.lost), NEW path \in Path
    PROVE  Sound(sys_unlink(f, path).fs, {}, sys_unlink(f, path).fs.lost)
<1> DEFINE r == search_file(f, path)
           g == inode_release(delete_dir_entry(f, r.dir, r.no), r.no)
<1>1. sys_unlink(f, path) = IF r.no = Root THEN Stop(f)
                            ELSE IF r.kind # "file" THEN Refuse(f)
                            ELSE IF NamedTwice(f, r.dir, r.no) THEN Stop(f)
                            ELSE Result(TRUE, g)
  BY DEF sys_unlink
<1>2. \A h : Refuse(h).fs = h /\ Result(TRUE, h).fs = h /\ Stop(h).fs = h
  BY DEF Refuse, Result, Stop
<1>3. Reached(f, path, r)
  BY SearchFinds
<1> HIDE DEF r, g
<1>4. CASE r.no = Root \/ r.kind # "file"
  BY <1>1, <1>2, <1>4
<1>5. CASE r.no # Root /\ r.kind = "file"
  <2>1. /\ r.dir \in DirsOnDisk(f) /\ r.no \in f.ibits \ DirsOnDisk(f) /\ NamedIn(f, r.no, r.dir)
    BY <1>3, <1>5 DEF Reached
  <2>2. ~HoldsDir(f, r.no)
    BY <2>1 DEF DirsOnDisk
  <2>3. Sound(g, {}, f.lost) /\ g.lost = f.lost
    BY <2>1, <2>2, RemoveKeeps DEF g
  <2>4. sys_unlink(f, path).fs = g
    <3>1. ~NamedTwice(f, r.dir, r.no)
      BY <2>1, NotNamedTwice
    <3>2. sys_unlink(f, path) = Result(TRUE, g)
      BY <1>1, <1>5, <3>1
    <3> QED BY <1>2, <3>2
  <2> QED BY <2>3, <2>4
<1> QED BY <1>4, <1>5

LEMMA RmdirIsSound ==
    ASSUME NEW f, Sound(f, {}, f.lost), NEW path \in Path
    PROVE  Sound(sys_rmdir(f, path).fs, {}, sys_rmdir(f, path).fs.lost)
<1> DEFINE r == search_file(f, path)
           opened == KeepOpen(f, r.no)
           node == inode_open(f, r.no)
           g == inode_release(delete_dir_entry(opened, r.dir, r.no), r.no)
<1>1. sys_rmdir(f, path) = IF r.no = Root THEN Stop(f)
                           ELSE IF r.kind # "dir" THEN Refuse(f)
                           ELSE IF ~(node.size = 2) THEN Refuse(opened)
                           ELSE IF \E k \in 1..Direct - 1 : node.sec[k] # 0 THEN Stop(opened)
                           ELSE IF NamedTwice(opened, r.dir, r.no) THEN Stop(opened)
                           ELSE Result(TRUE, g)
  BY DEF sys_rmdir
<1>2. \A h : Refuse(h).fs = h /\ Result(TRUE, h).fs = h /\ Stop(h).fs = h
  BY DEF Refuse, Result, Stop
<1>3. Reached(f, path, r)
  BY SearchFinds
<1> HIDE DEF r
<1>4. CASE r.no = Root \/ r.kind # "dir"
  <2> HIDE DEF g, opened, node
  <2> QED BY <1>1, <1>2, <1>4
<1>5. CASE r.no # Root /\ r.kind = "dir"
  <2>1. r.dir \in DirsOnDisk(f) /\ r.no \in DirsOnDisk(f) /\ NamedIn(f, r.no, r.dir)
    BY <1>3, <1>5 DEF Reached
  <2>2. r.no \in f.ibits /\ HoldsDir(f, r.no)
    BY <2>1 DEF DirsOnDisk
  <2>3. /\ Sound(opened, {}, f.lost) /\ opened.ibits = f.ibits
        /\ opened.disk = f.disk /\ opened.data = f.data /\ opened.lost = f.lost
    BY <2>2, KeptOpen
  <2>4. CASE node.size = 2
    <3>1. node = f.disk[r.no] /\ EntriesFit(f, r.no)
      BY <2>1, <2>2, OpenIsDisk DEF Sound, DirsFormTree
    <3>2. f.disk[r.no].size = 2 + Cardinality(Namings(f, r.no))
      BY <3>1 DEF EntriesFit
    <3>3. Cardinality(Namings(f, r.no)) = 0
      BY <2>4, <3>1, <3>2, NamingsAreFinite
    <3>4. Namings(f, r.no) = {}
      BY <3>3, NamingsAreFinite, FS_EmptySet
    <3> HIDE DEF opened
    <3>5. \A m : Untouched(f, opened, m)
      BY <2>3 DEF Untouched
    <3>6. HoldsDir(opened, r.dir) /\ Namings(opened, r.no) = {} /\ NamedIn(opened, r.no, r.dir)
      <4>1. HoldsDir(f, r.dir)
        BY <2>1 DEF DirsOnDisk
      <4>2. HoldsDir(opened, r.dir) /\ Namings(opened, r.no) = {}
        BY <3>4, <3>5, <4>1, UntouchedLooks
      <4>3. /\ Namings(opened, r.dir) = Namings(f, r.dir)
            /\ \A s \in Live(f, r.dir) : Slot(opened, r.dir, s) = Slot(f, r.dir, s)
        BY <3>5, UntouchedLooks
      <4> QED BY <2>1, <4>2, <4>3 DEF NamedIn, Namings
    <3>7. r.dir \in DirsOnDisk(opened)
      BY <2>1, <2>3, <3>6 DEF DirsOnDisk
    <3>8. Sound(g, {}, f.lost) /\ g.lost = opened.lost
      BY <2>3, <3>6, <3>7, RemoveKeeps
    <3> HIDE DEF g, node
    <3>9. sys_rmdir(f, path).fs = opened \/ sys_rmdir(f, path).fs = g
      BY <1>1, <1>2, <1>5, <2>4
    <3> QED BY <2>3, <3>8, <3>9
  <2>5. CASE ~(node.size = 2)
    <3> HIDE DEF opened, g, node
    <3>1. sys_rmdir(f, path).fs = opened
      BY <1>1, <1>2, <1>5, <2>5
    <3> QED BY <2>3, <3>1
  <2> QED BY <2>4, <2>5
<1> QED BY <1>4, <1>5

(* A partition that was just formatted.                                    *)
LEMMA FormattedIsSound ==
    /\ Sound(partition_format, {}, partition_format.lost)
    /\ DirsOnDisk(partition_format) = {Root} /\ Namings(partition_format, Root) = {}
    /\ \A k \in 1..Direct - 1 : BlockOf(partition_format, Root, k) = 0
<1> DEFINE f == partition_format
           disk == [no \in Inode |-> IF no = Root THEN DirNode(1) ELSE inode_init]
           core == [no \in Inode |-> IF no = Root THEN disk[Root] ELSE inode_init]
           cnt == [no \in Inode |-> IF no = Root THEN 1 ELSE 0]
           data == [b \in Block |-> IF b = 1 THEN FirstSector(Root, Root) ELSE EmptySector]
           raw == [ibits |-> {}, bbits |-> {}, dibits |-> {Root}, dbbits |-> {1},
                   disk |-> disk, core |-> <<>>, cnt |-> <<>>, data |-> data, lost |-> {}]
<1>1. f = [raw EXCEPT !.ibits = raw.dibits, !.bbits = raw.dbbits,
                      !.core = [no \in Inode |-> IF no = Root THEN raw.disk[Root] ELSE inode_init],
                      !.cnt = cnt]
  BY DEF partition_format, mount_partition
<1>2. 1 \in Block /\ Root \in Inode
  BY Sizes, RangesAreFinite DEF Block
<1>3. disk \in [Inode -> Node] /\ disk[Root] = DirNode(1)
  BY <1>2, NodesAreTyped
<1>4. core \in [Inode -> Node] /\ \A no \in Inode : cnt[no] > 0 => core[no] = disk[no]
  <2> HIDE DEF disk
  <2> QED BY <1>2, <1>3, NodesAreTyped
<1>5. cnt \in [Inode -> Nat]
  OBVIOUS
<1>6. data \in [Block -> [1..PerSector -> DirEntry]] /\ data[1] = FirstSector(Root, Root)
  BY <1>2, FirstSectorIs, EmptySectorIs
<1> HIDE DEF disk, cnt, data
<1>7. f = [ibits |-> {Root}, bbits |-> {1}, dibits |-> {Root}, dbbits |-> {1},
           disk |-> disk, core |-> core, cnt |-> cnt, data |-> data, lost |-> {}]
  <2>1. raw.disk = disk /\ raw.dibits = {Root} /\ raw.dbbits = {1}
    OBVIOUS
  <2>2. f = [raw EXCEPT !.ibits = {Root}, !.bbits = {1}, !.core = core, !.cnt = cnt]
    <3> HIDE DEF raw, f
    <3> QED BY <1>1, <2>1
  <2> HIDE DEF core, f
  <2> QED BY <2>2
<1> HIDE DEF f, core
<1>8. f \in FileSystem
  BY <1>2, <1>3, <1>4, <1>5, <1>6, <1>7, LocatedOnes DEF FileSystem
<1>9. CacheIsCurrent(f)
  BY <1>2, <1>4, <1>7 DEF CacheIsCurrent
<1>10. /\ \A k \in 0..Direct - 1 : BlockOf(f, Root, k) = IF k = 0 THEN 1 ELSE 0
       /\ f.disk[Root].size = 2
       /\ f.ibits = {Root} /\ f.bbits = {1} /\ f.lost = {} /\ 0 \in 0..Direct - 1
  BY <1>2, <1>3, <1>7, NodesAreTyped, Sizes DEF BlockOf
<1>11. BlocksAreOwned(f, {})
  BY <1>10 DEF BlocksAreOwned
<1>12. HoldsDir(f, Root) /\ Up(f, Root) = Root /\ Namings(f, Root) = {} /\ EntriesFit(f, Root)
  <2>1. f.data[1] = FirstSector(Root, Root)
    BY <1>6, <1>7
  <2> QED BY <1>2, <1>10, <2>1, FreshDirectory
<1>13. DirsOnDisk(f) = {Root}
  BY <1>10, <1>12 DEF DirsOnDisk
<1>14. DirsFormTree(f, {})
  BY <1>10, <1>12, <1>13 DEF DirsFormTree
<1>15. Sound(f, {}, f.lost)
  BY <1>8, <1>9, <1>10, <1>11, <1>14 DEF Sound
<1>16. \A k \in 1..Direct - 1 : BlockOf(f, Root, k) = 0
  BY <1>10, Sizes
<1> QED BY <1>12, <1>13, <1>15, <1>16 DEF f

---------------------------------------------------------------------------
(* The invariant, and the properties of Shell that follow from it          *)

(* The habits that keep inode numbers apart.                               *)
FreshNumbers == {"no open number twice", "no number past a byte"} \subseteq Habits

LEMMA FreshIsFresh ==
    ASSUME FreshNumbers, FreshInode
    PROVE  FreshNumber(fs)
<1>1. "no open number twice" \in Habits /\ "no number past a byte" \in Habits
  BY DEF FreshNumbers
<1> QED BY <1>1 DEF FreshInode, FreshNumber

LEMMA StepKeepsInv ==
    ASSUME FreshNumbers, Inv, [Next]_vars
    PROVE  Inv'
<1>1. Sound(fs, {}, fs.lost)
  BY DEF Inv
<1>2. Refuse(fs).fs = fs
  BY DEF Refuse, Result
<1>3. ASSUME FreshInode PROVE FreshNumber(fs)
  BY <1>3, FreshIsFresh
<1>4. ASSUME NEW arg \in Argument, buildin_mkdir(arg) PROVE Inv'
  <2>1. UNCHANGED fs \/ \E path \in Path : FreshInode /\ fs' \in {fs, sys_mkdir(fs, path).fs}
    BY <1>2, <1>4 DEF buildin_mkdir, Command, Call
  <2> QED BY <1>1, <1>3, <2>1, MkdirIsSound DEF Inv
<1>5. ASSUME NEW arg \in Argument, buildin_rmdir(arg) PROVE Inv'
  <2>1. UNCHANGED fs \/ \E path \in Path : fs' \in {fs, sys_rmdir(fs, path).fs}
    BY <1>2, <1>5 DEF buildin_rmdir, Command, Call
  <2> QED BY <1>1, <2>1, RmdirIsSound DEF Inv
<1>6. ASSUME NEW arg \in Argument, buildin_rm(arg) PROVE Inv'
  <2>1. UNCHANGED fs \/ \E path \in Path : fs' \in {fs, sys_unlink(fs, path).fs}
    BY <1>2, <1>6 DEF buildin_rm, Command, Call
  <2> QED BY <1>1, <2>1, UnlinkIsSound DEF Inv
<1>7. ASSUME NEW arg \in Argument, buildin_cd(arg) \/ buildin_ls(arg) PROVE UNCHANGED fs
  BY <1>7 DEF buildin_cd, buildin_ls, Command, ChangeTo, ListPath
<1>8. ASSUME CdWithoutArgument \/ buildin_pwd \/ ExternalCommand \/ print_prompt PROVE UNCHANGED fs
  BY <1>8 DEF CdWithoutArgument, ChangeTo, buildin_pwd, ExternalCommand, print_prompt
<1>9. ASSUME NEW path \in Path, ProgramCreates(path) PROVE Inv'
  <2>1. FreshInode /\ fs' = create_file(fs, path).fs
    BY <1>9 DEF ProgramCreates, Call
  <2> QED BY <1>1, <1>3, <2>1, CreateIsSound DEF Inv
<1>10. ASSUME Reboot PROVE Inv'
  <2>1. fs' = mount_partition(fs)
    BY <1>10 DEF Reboot
  <2> QED BY <1>1, <2>1, Mounted DEF Inv
<1>11. ASSUME UNCHANGED fs PROVE Inv'
  BY <1>1, <1>11 DEF Inv
<1>12. ASSUME UNCHANGED vars PROVE UNCHANGED fs
  BY <1>12 DEF vars
<1> QED BY <1>4, <1>5, <1>6, <1>7, <1>8, <1>9, <1>10, <1>11, <1>12 DEF Next

(* Inv holds forever when no inode number is given out that is open or     *)
(* that a byte does not hold.                                              *)
THEOREM Invariance == FreshNumbers => (Spec => []Inv)
<1> SUFFICES ASSUME FreshNumbers PROVE Spec => []Inv
  OBVIOUS
<1>1. Init => Inv
  BY FormattedIsSound DEF Init, Inv
<1>2. Inv /\ [Next]_vars => Inv'
  BY StepKeepsInv
<1> QED BY <1>1, <1>2, PTL DEF Spec

(* The bitmaps on the disk and every inode in open_inodes agree with what  *)
(* the calls work on, after each call: inode_sync and bitmap_sync are      *)
(* never forgotten on any path through src/fs.                             *)
THEOREM DiskIsAlwaysCurrent == FreshNumbers => (Spec => []DiskIsCurrent)
<1> SUFFICES ASSUME FreshNumbers PROVE Spec => []DiskIsCurrent
  OBVIOUS
<1>1. Inv => DiskIsCurrent
  BY DEF Inv, Sound, CacheIsCurrent, DiskIsCurrent
<1>2. Spec => []Inv
  BY Invariance
<1> QED BY <1>1, <1>2, PTL

LEMMA OwnersFromInv ==
    ASSUME Inv
    PROVE  BlocksHaveOneOwner
<1>1. fs \in FileSystem /\ CacheIsCurrent(fs) /\ BlocksAreOwned(fs, fs.lost) /\ fs.bbits \subseteq Block
  BY Parts DEF Inv, Sound
<1> DEFINE owners(b) == {no \in fs.ibits : b \in NodeBlocks(inode_open(fs, no))}
<1>2. ASSUME NEW no \in fs.ibits
      PROVE  NodeBlocks(inode_open(fs, no)) = {BlockOf(fs, no, k) : k \in 0..Direct - 1} \ {0}
  <2>1. inode_open(fs, no) = fs.disk[no] /\ DOMAIN fs.disk[no].sec = 0..Direct - 1
    BY <1>1, OpenIsDisk, Parts DEF Node
  <2> QED BY <2>1 DEF NodeBlocks, BlockOf
<1>3. ASSUME NEW b
      PROVE  owners(b) = {no \in fs.ibits : b # 0 /\ \E k \in 0..Direct - 1 : BlockOf(fs, no, k) = b}
  BY <1>2
<1> HIDE DEF owners
<1>4. ASSUME NEW b \in fs.bbits PROVE Cardinality(owners(b)) = IF b \in fs.lost THEN 0 ELSE 1
  <2>1. CASE b \in fs.lost
    <3>1. owners(b) = {}
      BY <1>1, <1>3, <2>1 DEF BlocksAreOwned
    <3> QED BY <2>1, <3>1, FS_EmptySet
  <2>2. CASE b \notin fs.lost
    <3>1. PICK no \in fs.ibits, k \in 0..Direct - 1 : BlockOf(fs, no, k) = b
      BY <1>1, <2>2 DEF BlocksAreOwned
    <3>2. b # 0
      BY <1>1, RangesAreFinite
    <3>3. owners(b) = {no}
      BY <1>1, <1>3, <3>1, <3>2 DEF BlocksAreOwned
    <3> QED BY <2>2, <3>3, FS_Singleton
  <2> QED BY <2>1, <2>2
<1>5. \A b \in Block \ fs.bbits : owners(b) = {}
  BY <1>1, <1>3 DEF BlocksAreOwned
<1> QED BY <1>4, <1>5 DEF BlocksHaveOneOwner, owners

(* Each marked block belongs to one inode in use, but for those a mkdir    *)
(* lost when it could not enter the new directory (fs.c:705).              *)
THEOREM BlocksAlwaysHaveOneOwner ==
    FreshNumbers => (Spec => []BlocksHaveOneOwner)
<1> SUFFICES ASSUME FreshNumbers PROVE Spec => []BlocksHaveOneOwner
  OBVIOUS
<1>1. Inv => BlocksHaveOneOwner
  BY OwnersFromInv
<1>2. Spec => []Inv
  BY Invariance
<1> QED BY <1>1, <1>2, PTL

(* Every directory but the root is an entry of the one its ".." names.     *)
LEMMA ParentsName ==
    ASSUME NEW f, NEW spare, Sound(f, {}, spare), NEW d \in DirsOnDisk(f)
    PROVE  /\ Up(f, d) \in DirsOnDisk(f)
           /\ d # Root => NamedIn(f, d, Up(f, d))
<1>1. f \in FileSystem /\ DirsFormTree(f, {}) /\ d \in f.ibits /\ HoldsDir(f, d)
  BY DEF Sound, DirsOnDisk
<1>2. CASE d = Root
  BY <1>1, <1>2 DEF DirsFormTree
<1>3. CASE d # Root
  <2>1. PICK e \in DirsOnDisk(f) : NamedIn(f, d, e)
    BY <1>1, <1>3 DEF DirsFormTree
  <2>2. PICK s \in Namings(f, e) : Slot(f, e, s).no = d
    BY <2>1 DEF NamedIn
  <2>3. e \in Inode /\ EntriesFit(f, e)
    BY <1>1, Parts DEF DirsFormTree, DirsOnDisk
  <2>4. NamesChild(f, e, Slot(f, e, s))
    BY <1>1, <2>3, NamingsAreChildren
  <2>5. Up(f, d) = e
    BY <1>1, <2>2, <2>4 DEF NamesChild
  <2> QED BY <2>1, <2>5
<1> QED BY <1>2, <1>3

(* A directory's entries have each a name of its own, and i_size is their  *)
(* number.                                                                 *)
LEMMA EntriesAreCounted ==
    ASSUME NEW f, NEW spare, Sound(f, {}, spare), NEW d \in DirsOnDisk(f)
    PROVE  /\ inode_open(f, d).size = Cardinality(Used(f, d))
           /\ \A s, t \in Used(f, d) : At(f, d, s).name = At(f, d, t).name => s = t
           /\ Cardinality({At(f, d, s).name : s \in Used(f, d)}) = Cardinality(Used(f, d))
<1>1. /\ f \in FileSystem /\ CacheIsCurrent(f) /\ d \in f.ibits /\ d \in Inode
      /\ HoldsDir(f, d) /\ EntriesFit(f, d)
  BY Parts DEF Sound, DirsOnDisk, DirsFormTree
<1>2. Used(f, d) = Namings(f, d) \cup {<<0, 1>>, <<0, 2>>}
  BY <1>1, OwnEntries
<1>3. <<0, 1>> \notin Namings(f, d) /\ <<0, 2>> \notin Namings(f, d)
  BY <1>1, NamingsAreChildren
<1>4. IsFiniteSet(Used(f, d)) /\ Cardinality(Used(f, d)) = 2 + Cardinality(Namings(f, d))
  <2> DEFINE one == Namings(f, d) \cup {<<0, 1>>}
  <2>1. IsFiniteSet(Namings(f, d)) /\ Cardinality(Namings(f, d)) \in Nat
    BY NamingsAreFinite
  <2>2. IsFiniteSet(one) /\ Cardinality(one) = Cardinality(Namings(f, d)) + 1
    BY <1>3, <2>1, FS_AddElement
  <2>3. <<0, 2>> \notin one
    <3>1. <<0, 2>> # <<0, 1>>
      OBVIOUS
    <3> QED BY <1>3, <3>1
  <2>4. Used(f, d) = one \cup {<<0, 2>>}
    BY <1>2
  <2> HIDE DEF one
  <2>5. IsFiniteSet(one \cup {<<0, 2>>})
        /\ Cardinality(one \cup {<<0, 2>>}) = Cardinality(one) + 1
    BY <2>2, <2>3, FS_AddElement
  <2> QED BY <2>1, <2>2, <2>4, <2>5
<1>5. inode_open(f, d).size = Cardinality(Used(f, d))
  <2>1. inode_open(f, d) = f.disk[d]
    BY <1>1, OpenIsDisk
  <2>2. f.disk[d].size = 2 + Cardinality(Namings(f, d))
    BY <1>1 DEF EntriesFit
  <2> QED BY <1>4, <2>1, <2>2
<1>6. \A s : At(f, d, s) = Slot(f, d, s)
  BY <1>1, PlacesAreLive
<1>7. Slot(f, d, <<0, 1>>).name = "." /\ Slot(f, d, <<0, 2>>).name = ".."
  BY <1>1, EntryIs DEF EntriesFit
<1>8. ASSUME NEW s \in Used(f, d), NEW t \in Used(f, d),
             At(f, d, s).name = At(f, d, t).name
      PROVE  s = t
  <2>1. Slot(f, d, s).name = Slot(f, d, t).name
    BY <1>6, <1>8
  <2>2. CASE s \in Namings(f, d) /\ t \in Namings(f, d)
    BY <1>1, <2>1, <2>2 DEF EntriesFit
  <2>3. ASSUME NEW x \in Namings(f, d) PROVE Slot(f, d, x).name \notin {".", ".."}
    BY <1>1, NamingsAreChildren, Words
  <2>4. CASE ~(s \in Namings(f, d) /\ t \in Namings(f, d))
    BY ONLY <1>2, <1>7, <2>1, <2>3, <2>4, s \in Used(f, d), t \in Used(f, d)
  <2> QED BY <2>2, <2>4
<1>9. Cardinality({At(f, d, s).name : s \in Used(f, d)}) = Cardinality(Used(f, d))
  <2> DEFINE N == {At(f, d, s).name : s \in Used(f, d)}
             name == [s \in Used(f, d) |-> At(f, d, s).name]
  <2>1. name \in [Used(f, d) -> N]
    OBVIOUS
  <2>2. \A s, t \in Used(f, d) : name[s] = name[t] => s = t
    BY <1>8
  <2>3. \A n \in N : \E s \in Used(f, d) : name[s] = n
    OBVIOUS
  <2> HIDE DEF N, name
  <2>4. name \in Bijection(Used(f, d), N)
    BY <2>1, <2>2, <2>3 DEF Bijection, Injection, Surjection, IsInjective
  <2>5. ExistsBijection(Used(f, d), N)
    BY <2>4 DEF ExistsBijection
  <2>6. Cardinality(N) = Cardinality(Used(f, d))
    BY <1>4, <2>5, FS_Bijection
  <2> QED BY <2>6 DEF N
<1> QED BY <1>5, <1>8, <1>9

(* What a directory's entries name: itself, its parent, or a child.        *)
LEMMA EntriesName ==
    ASSUME NEW f, NEW spare, Sound(f, {}, spare), NEW d \in DirsOnDisk(f), NEW s \in Used(f, d)
    PROVE  /\ At(f, d, s).no \in f.ibits
           /\ At(f, d, s).kind = "dir" <=> At(f, d, s).no \in DirsOnDisk(f)
<1>1. /\ f \in FileSystem /\ CacheIsCurrent(f) /\ d \in f.ibits /\ d \in Inode
      /\ HoldsDir(f, d) /\ EntriesFit(f, d)
  BY Parts DEF Sound, DirsOnDisk, DirsFormTree
<1>2. s \in Namings(f, d) \cup {<<0, 1>>, <<0, 2>>} /\ At(f, d, s) = Slot(f, d, s)
  BY <1>1, OwnEntries, PlacesAreLive
<1>3. CASE s \in Namings(f, d)
  <2>1. NamesChild(f, d, Slot(f, d, s))
    BY <1>1, <1>3, NamingsAreChildren
  <2>2. Slot(f, d, s).no \in f.ibits
    BY <2>1 DEF NamesChild
  <2>3. Slot(f, d, s).kind = IF HoldsDir(f, Slot(f, d, s).no) THEN "dir" ELSE "file"
    BY <2>1 DEF NamesChild
  <2>4. Slot(f, d, s).kind = "dir" <=> HoldsDir(f, Slot(f, d, s).no)
    BY <2>3
  <2> QED BY <1>2, <2>2, <2>4 DEF DirsOnDisk
<1>4. CASE s = <<0, 1>>
  <2>1. Slot(f, d, s).no = d /\ Slot(f, d, s).kind = "dir"
    BY <1>1, <1>4, EntryIs DEF EntriesFit
  <2> QED BY <1>1, <1>2, <2>1
<1>5. CASE s = <<0, 2>>
  <2>1. Slot(f, d, s).kind = "dir" /\ Slot(f, d, s).no = Up(f, d)
    BY <1>1, <1>5 DEF EntriesFit, Up
  <2>2. Up(f, d) \in DirsOnDisk(f)
    BY ParentsName
  <2> QED BY <1>2, <2>1, <2>2 DEF DirsOnDisk
<1> QED BY <1>2, <1>3, <1>4, <1>5

LEMMA DirsAreOnDisk ==
    ASSUME Inv
    PROVE  Dirs = DirsOnDisk(fs)
<1>1. fs \in FileSystem /\ CacheIsCurrent(fs)
  BY DEF Inv, Sound
<1>2. ASSUME NEW no \in fs.ibits
      PROVE  (LET b == inode_open(fs, no).sec[0] IN b # 0 /\ fs.data[b][1].name = ".")
                <=> HoldsDir(fs, no)
  <2>1. inode_open(fs, no).sec[0] = BlockOf(fs, no, 0)
    BY <1>1, OpenIsDisk DEF BlockOf
  <2>2. Slot(fs, no, <<0, 1>>) = fs.data[BlockOf(fs, no, 0)][1]
    BY DEF Slot
  <2> QED BY <2>1, <2>2 DEF HoldsDir
<1> QED BY <1>2 DEF Dirs, DirsOnDisk

LEMMA TreeFromInv ==
    ASSUME Inv
    PROVE  TreeIsSound
<1> DEFINE namings == UNION {{<<d, At(fs, d, s)>> : s \in Used(fs, d)} : d \in Dirs}
           named(no) == {x \in namings : x[2].no = no /\ x[2].name \in Name}
           entries(d) == {x[2] : x \in {y \in namings : y[1] = d}}
           up(d) == (CHOOSE e \in entries(d) : e.name = "..").no
<1>1. /\ Sound(fs, {}, fs.lost) /\ fs \in FileSystem /\ CacheIsCurrent(fs) /\ DirsFormTree(fs, {})
      /\ Dirs = DirsOnDisk(fs)
  BY DirsAreOnDisk DEF Inv, Sound
<1>2. ASSUME NEW d \in Dirs
      PROVE  /\ d \in fs.ibits /\ d \in Inode /\ HoldsDir(fs, d) /\ EntriesFit(fs, d)
             /\ Used(fs, d) = Namings(fs, d) \cup {<<0, 1>>, <<0, 2>>}
             /\ \A s : At(fs, d, s) = Slot(fs, d, s)
             /\ Slot(fs, d, <<0, 1>>) = Entry(".", d, "dir")
             /\ Slot(fs, d, <<0, 2>>).name = ".." /\ Slot(fs, d, <<0, 2>>).no = Up(fs, d)
  <2>1. d \in fs.ibits /\ d \in Inode /\ HoldsDir(fs, d) /\ EntriesFit(fs, d)
    BY <1>1, Parts DEF DirsOnDisk, DirsFormTree
  <2>2. Used(fs, d) = Namings(fs, d) \cup {<<0, 1>>, <<0, 2>>}
    BY <1>1, <2>1, OwnEntries
  <2>3. \A s : At(fs, d, s) = Slot(fs, d, s)
    BY <1>1, <2>1, PlacesAreLive
  <2> QED BY <2>1, <2>2, <2>3 DEF EntriesFit, Up
<1>3. \A x : x \in namings <=> \E d \in Dirs : \E s \in Used(fs, d) : x = <<d, At(fs, d, s)>>
  OBVIOUS
<1>4. \A no, x : x \in named(no) <=> x \in namings /\ x[2].no = no /\ x[2].name \in Name
  OBVIOUS
<1>5. ASSUME NEW d \in Dirs
      PROVE  entries(d) = {At(fs, d, s) : s \in Used(fs, d)}
  <2> HIDE DEF namings
  <2>1. ASSUME NEW s \in Used(fs, d) PROVE At(fs, d, s) \in entries(d)
    <3>1. <<d, At(fs, d, s)>> \in namings
      BY <1>3
    <3>2. <<d, At(fs, d, s)>> \in {y \in namings : y[1] = d}
      BY <3>1
    <3> QED BY <3>2
  <2>2. ASSUME NEW e \in entries(d) PROVE \E s \in Used(fs, d) : e = At(fs, d, s)
    <3>1. PICK y \in namings : y[1] = d /\ e = y[2]
      OBVIOUS
    <3>2. PICK c \in Dirs : \E s \in Used(fs, c) : y = <<c, At(fs, c, s)>>
      BY <1>3
    <3>3. PICK s \in Used(fs, c) : y = <<c, At(fs, c, s)>>
      BY <3>2
    <3> QED BY <3>1, <3>3
  <2> HIDE DEF entries
  <2> QED BY <2>1, <2>2
<1> HIDE DEF namings, named, entries
<1>6. ASSUME NEW no, NEW x
      PROVE  x \in named(no) <=>
                \E d \in Dirs : \E s \in Namings(fs, d) :
                    x = <<d, Slot(fs, d, s)>> /\ Slot(fs, d, s).no = no
  <2>1. ASSUME x \in named(no)
        PROVE  \E d \in Dirs : \E s \in Namings(fs, d) :
                  x = <<d, Slot(fs, d, s)>> /\ Slot(fs, d, s).no = no
    <3>1. x \in namings /\ x[2].no = no /\ x[2].name \in Name
      BY <1>4, <2>1
    <3>2. PICK d \in Dirs : \E s \in Used(fs, d) : x = <<d, At(fs, d, s)>>
      BY <1>3, <3>1
    <3>3. PICK s \in Used(fs, d) : x = <<d, At(fs, d, s)>>
      BY <3>2
    <3>4. x = <<d, Slot(fs, d, s)>> /\ x[2] = Slot(fs, d, s)
      BY <1>2, <3>3
    <3>5. s \in Namings(fs, d)
      <4>1. Slot(fs, d, <<0, 1>>).name = "." /\ Slot(fs, d, <<0, 2>>).name = ".."
        BY <1>2, EntryIs
      <4> QED BY <1>2, <3>1, <3>4, <4>1, Words
    <3> QED BY <3>1, <3>4, <3>5
  <2>2. ASSUME NEW d \in Dirs, NEW s \in Namings(fs, d),
               x = <<d, Slot(fs, d, s)>>, Slot(fs, d, s).no = no
        PROVE  x \in named(no)
    <3>1. s \in Used(fs, d) /\ At(fs, d, s) = Slot(fs, d, s)
      BY <1>2
    <3>2. x \in namings
      BY <1>3, <2>2, <3>1
    <3>3. x[2].no = no /\ x[2].name \in Name
      BY <2>2 DEF Namings
    <3> QED BY <1>4, <3>2, <3>3
  <2> QED BY <2>1, <2>2
<1>7. Root \in Dirs
  BY <1>1 DEF DirsFormTree
<1>8. ASSUME NEW no \in fs.ibits \ {Root} PROVE Cardinality(named(no)) = 1
  <2>1. PICK d \in Dirs : NamedIn(fs, no, d)
    BY <1>1 DEF DirsFormTree
  <2>2. PICK s \in Namings(fs, d) : Slot(fs, d, s).no = no
    BY <2>1 DEF NamedIn
  <2>3. ASSUME NEW x \in named(no) PROVE x = <<d, Slot(fs, d, s)>>
    <3>1. PICK e \in Dirs : \E t \in Namings(fs, e) :
              x = <<e, Slot(fs, e, t)>> /\ Slot(fs, e, t).no = no
      BY <1>6
    <3>2. PICK t \in Namings(fs, e) : x = <<e, Slot(fs, e, t)>> /\ Slot(fs, e, t).no = no
      BY <3>1
    <3>3. d = e /\ s = t
      BY <1>1, <2>2, <3>2 DEF DirsFormTree
    <3> QED BY <3>2, <3>3
  <2>4. <<d, Slot(fs, d, s)>> \in named(no)
    BY <1>6, <2>2
  <2>5. named(no) = {<<d, Slot(fs, d, s)>>}
    BY <2>3, <2>4
  <2> QED BY <2>5, FS_Singleton
<1>9. ASSUME NEW x \in namings
      PROVE  x[2].no \in fs.ibits /\ (x[2].kind = "dir" <=> x[2].no \in Dirs)
  <2>1. PICK d \in Dirs : \E s \in Used(fs, d) : x = <<d, At(fs, d, s)>>
    BY <1>3
  <2>2. PICK s \in Used(fs, d) : x[2] = At(fs, d, s)
    BY <2>1
  <2> QED BY <1>1, <2>2, EntriesName
<1>10. ASSUME NEW d \in Dirs
       PROVE  /\ Entry(".", d, "dir") \in entries(d)
              /\ IF d = Root THEN up(d) = Root ELSE \E x \in named(d) : x[1] = up(d)
              /\ inode_open(fs, d).size = Cardinality(Used(fs, d))
              /\ Cardinality({e.name : e \in entries(d)}) = Cardinality(Used(fs, d))
  <2>1. Entry(".", d, "dir") \in entries(d)
    BY <1>2, <1>5
  <2>2. up(d) = Up(fs, d)
    <3> DEFINE e == CHOOSE e \in entries(d) : e.name = ".."
    <3>1. Slot(fs, d, <<0, 2>>) \in entries(d) /\ Slot(fs, d, <<0, 2>>).name = ".."
      BY <1>2, <1>5
    <3>2. e \in entries(d) /\ e.name = ".."
      BY <3>1
    <3>3. PICK s \in Used(fs, d) : e = At(fs, d, s)
      BY <1>5, <3>2
    <3> HIDE DEF e
    <3>4. At(fs, d, s).name = At(fs, d, <<0, 2>>).name /\ <<0, 2>> \in Used(fs, d)
      BY <1>2, <3>1, <3>2, <3>3
    <3>5. s = <<0, 2>>
      BY <1>1, <3>4, EntriesAreCounted
    <3>6. e.no = Up(fs, d)
      BY <1>2, <3>3, <3>5
    <3> QED BY <3>6 DEF e
  <2> HIDE DEF up
  <2>3. ASSUME d = Root PROVE up(d) = Root
    <3>1. Up(fs, Root) = Root
      BY <1>1 DEF DirsFormTree
    <3>2. up(d) = Up(fs, Root)
      BY ONLY <2>2, <2>3
    <3> QED BY ONLY <3>1, <3>2
  <2>4. ASSUME d # Root PROVE \E x \in named(d) : x[1] = up(d)
    <3>1. Up(fs, d) \in Dirs /\ NamedIn(fs, d, Up(fs, d))
      BY <1>1, <2>4, ParentsName
    <3>2. PICK s \in Namings(fs, Up(fs, d)) : Slot(fs, Up(fs, d), s).no = d
      BY <3>1 DEF NamedIn
    <3>3. <<Up(fs, d), Slot(fs, Up(fs, d), s)>> \in named(d)
      BY <1>6, <3>1, <3>2
    <3> QED BY <2>2, <3>3
  <2>5. inode_open(fs, d).size = Cardinality(Used(fs, d))
        /\ Cardinality({At(fs, d, s).name : s \in Used(fs, d)}) = Cardinality(Used(fs, d))
    BY <1>1, EntriesAreCounted
  <2>6. {e.name : e \in entries(d)} = {At(fs, d, s).name : s \in Used(fs, d)}
    BY <1>5
  <2> QED BY <2>1, <2>3, <2>4, <2>5, <2>6
<1> QED BY <1>7, <1>8, <1>9, <1>10 DEF TreeIsSound, namings, named, entries, up

(* After every command and every reboot the directories form one tree: an  *)
(* inode in use has one entry (sync_dir_entry, delete_dir_entry), "." and  *)
(* ".." lead where they should, and i_size counts the entries, on which    *)
(* dir_is_empty and dir_read rely.                                         *)
THEOREM TreeIsAlwaysSound == FreshNumbers => (Spec => []TreeIsSound)
<1> SUFFICES ASSUME FreshNumbers PROVE Spec => []TreeIsSound
  OBVIOUS
<1>1. Inv => TreeIsSound
  BY TreeFromInv
<1>2. Spec => []Inv
  BY Invariance
<1> QED BY <1>1, <1>2, PTL

---------------------------------------------------------------------------
(* Walks and washings along paths of any length                            *)

(* Naturals by their sets: there is no least one that is missing.          *)
LEMMA AllNaturals ==
    ASSUME NEW S, S \subseteq Nat, 0 \in S, \A n \in S : n + 1 \in S
    PROVE  S = Nat
<1> DEFINE none == Nat \ S
<1>1. SUFFICES ASSUME none # {} PROVE FALSE
  OBVIOUS
<1>2. Min(none) \in none /\ \A k \in none : Min(none) <= k
  <2>1. none \subseteq Nat
    OBVIOUS
  <2> HIDE DEF none
  <2> QED BY <1>1, <2>1, MinIsLeast
<1>3. PICK m \in none : \A k \in none : m <= k
  BY <1>2
<1>4. m \in Nat /\ m \notin S /\ m # 0
  OBVIOUS
<1>5. m - 1 \in Nat /\ m - 1 \notin none
  BY <1>3, <1>4
<1>6. m - 1 \in S /\ (m - 1) + 1 = m
  BY <1>4, <1>5
<1> QED BY <1>4, <1>6

(* Where the search along a path stands, for paths with "." and ".." too.  *)
Walked(f, path) ==
    LET walk[n \in 0..Len(path)] ==
            IF n = 0 THEN Start ELSE Descend(f, walk[n - 1], path[n])
    IN  walk[Len(path)]

LEMMA WalksAgree ==
    ASSUME NEW f, NEW p, NEW q, NEW L \in Nat, NEW M \in Nat, L <= M,
           NEW v, IsWalk(f, p, L, v), NEW w, IsWalk(f, q, M, w), \A i \in 1..L : p[i] = q[i]
    PROVE  \A n \in 0..L : v[n] = w[n]
<1> DEFINE S == {n \in Nat : n <= L => v[n] = w[n]}
<1>1. 0 \in S
  <2>1. v[0] = Start /\ w[0] = Start
    BY DEF IsWalk
  <2> QED BY <2>1
<1>2. ASSUME NEW n \in S PROVE n + 1 \in S
  <2>1. SUFFICES ASSUME n + 1 <= L PROVE v[n + 1] = w[n + 1]
    OBVIOUS
  <2>2. n \in Nat /\ v[n] = w[n]
    BY <2>1
  <2>3. n + 1 \in 1..L /\ n + 1 \in 0..L /\ n + 1 \in 0..M /\ n + 1 # 0 /\ (n + 1) - 1 = n
    BY <2>1, <2>2
  <2>4. v[n + 1] = Descend(f, v[n], p[n + 1])
    BY <2>3 DEF IsWalk
  <2>5. w[n + 1] = Descend(f, w[n], q[n + 1])
    BY <2>3 DEF IsWalk
  <2>6. p[n + 1] = q[n + 1]
    BY <2>3
  <2> QED BY <2>2, <2>4, <2>5, <2>6
<1>3. S \subseteq Nat
  OBVIOUS
<1> HIDE DEF S
<1>4. S = Nat
  BY <1>1, <1>2, <1>3, AllNaturals
<1> USE DEF S
<1> QED BY <1>4

LEMMA WalkedByWalk ==
    ASSUME NEW f, NEW path, Len(path) \in Nat
    PROVE  \E w : IsWalk(f, path, Len(path), w) /\ Walked(f, path) = w[Len(path)]
<1> DEFINE L == Len(path)
           walk == CHOOSE walk :
              walk = [n \in 0..L |-> IF n = 0 THEN Start ELSE Descend(f, walk[n - 1], path[n])]
<1>1. \E w : IsWalk(f, path, L, w)
  <2> HIDE DEF L
  <2> QED BY WalkExists DEF L
<1>2. walk = [n \in 0..L |-> IF n = 0 THEN Start ELSE Descend(f, walk[n - 1], path[n])]
  <2>1. \E w : w = [n \in 0..L |-> IF n = 0 THEN Start ELSE Descend(f, w[n - 1], path[n])]
    BY <1>1 DEF IsWalk
  <2> QED BY <2>1
<1>3. Walked(f, path) = walk[L]
  BY DEF Walked
<1> HIDE DEF walk
<1>4. IsWalk(f, path, L, walk)
  BY <1>2 DEF IsWalk
<1> QED BY <1>3, <1>4

LEMMA WalkedUnfolds ==
    /\ \A f : Walked(f, <<>>) = Start
    /\ \A f, S : \A path \in Seq(S) : \A name \in S :
          Walked(f, Append(path, name)) = Descend(f, Walked(f, path), name)
<1>1. ASSUME NEW f PROVE Walked(f, <<>>) = Start
  <2>1. PICK w : IsWalk(f, <<>>, 0, w) /\ Walked(f, <<>>) = w[0]
    BY WalkedByWalk
  <2> QED BY <2>1 DEF IsWalk
<1>2. ASSUME NEW f, NEW S, NEW path \in Seq(S), NEW name \in S
      PROVE  Walked(f, Append(path, name)) = Descend(f, Walked(f, path), name)
  <2> DEFINE q == Append(path, name)
             L == Len(path)
  <2>1. /\ L \in Nat /\ Len(q) = L + 1
        /\ \A i \in 1..L : path[i] = q[i]
        /\ q[L + 1] = name
    <3>1. path \in Seq(S) /\ name \in S
      OBVIOUS
    <3>2. Len(path) \in Nat
      BY <3>1, LenProperties
    <3>3. /\ Len(q) = L + 1 /\ q[L + 1] = name
          /\ \A i \in 1..L : q[i] = path[i]
      BY <3>1, AppendProperties
    <3> QED BY <3>2, <3>3
  <2> HIDE DEF q
  <2>2. PICK v : IsWalk(f, path, L, v) /\ Walked(f, path) = v[L]
    BY <2>1, WalkedByWalk
  <2>3. PICK w : IsWalk(f, q, L + 1, w) /\ Walked(f, q) = w[L + 1]
    BY <2>1, WalkedByWalk
  <2> HIDE DEF L
  <2>4. L + 1 \in Nat /\ L <= L + 1
    BY <2>1
  <2>5. v[L] = w[L]
    <3>1. \A i \in 1..L : path[i] = q[i]
      BY <2>1
    <3>2. \A n \in 0..L : v[n] = w[n]
      BY ONLY <2>1, <2>2, <2>3, <2>4, <3>1, WalksAgree
    <3>3. L \in 0..L
      BY <2>1
    <3> QED BY <3>2, <3>3
  <2>6. w[L + 1] = Descend(f, w[L], q[L + 1])
    <3>1. L + 1 \in 0..L + 1 /\ L + 1 # 0 /\ (L + 1) - 1 = L
      BY <2>1
    <3> QED BY <2>3, <3>1 DEF IsWalk
  <2> QED BY <2>1, <2>2, <2>3, <2>5, <2>6 DEF q
<1> QED BY <1>1, <1>2

(* Sequences by their sets, from the empty one on.                         *)
LEMMA AllSequences ==
    ASSUME NEW S, NEW T, T \subseteq Seq(S), <<>> \in T,
           \A p \in T : \A x \in S : Append(p, x) \in T
    PROVE  T = Seq(S)
<1> DEFINE Ns == {n \in Nat : \A p \in Seq(S) : Len(p) = n => p \in T}
<1>1. 0 \in Ns
  <2>1. \A p \in Seq(S) : Len(p) = 0 => p = <<>>
    BY EmptySeq
  <2> QED BY <2>1
<1>2. ASSUME NEW n \in Ns PROVE n + 1 \in Ns
  <2>1. n \in Nat /\ n + 1 \in Nat /\ n + 1 # 0
    OBVIOUS
  <2>2. ASSUME NEW p \in Seq(S), Len(p) = n + 1 PROVE p \in T
    <3>1. p # <<>>
      BY <2>1, <2>2, EmptySeq
    <3>2. PICK q \in Seq(S), x \in S : p = Append(q, x)
      BY <3>1, SequenceEmptyOrAppend
    <3>3. Len(p) = Len(q) + 1 /\ Len(q) \in Nat
      BY <3>2, AppendProperties, LenProperties
    <3>4. Len(q) = n
      BY <2>1, <2>2, <3>3
    <3>5. q \in T
      BY <3>4
    <3> QED BY <3>2, <3>5
  <2> QED BY <2>1, <2>2
<1>3. Ns \subseteq Nat
  OBVIOUS
<1> HIDE DEF Ns
<1>4. Ns = Nat
  BY <1>1, <1>2, <1>3, AllNaturals
<1>5. ASSUME NEW p \in Seq(S) PROVE p \in T
  <2>1. Len(p) \in Ns
    BY <1>4, LenProperties
  <2> QED BY <2>1 DEF Ns
<1> QED BY <1>5

(* What the shell makes of a path, name by name.                           *)
IsWashing(path, L, w) ==
    w = [n \in 0..L |-> IF n = 0 THEN <<>> ELSE Wash(w[n - 1], path[n])]

LEMMA WashingExists ==
    ASSUME NEW path, NEW L \in Nat
    PROVE  \E w : IsWashing(path, L, w)
<1> DEFINE S == {m \in Nat : \E w : IsWashing(path, m, w)}
<1>1. 0 \in S
  <2> DEFINE w == [n \in 0..0 |-> <<>>]
  <2>1. \A n \in 0..0 : w[n] = IF n = 0 THEN <<>> ELSE Wash(w[n - 1], path[n])
    OBVIOUS
  <2>2. w = [n \in 0..0 |-> w[n]]
    OBVIOUS
  <2> HIDE DEF w
  <2>3. w = [n \in 0..0 |-> IF n = 0 THEN <<>> ELSE Wash(w[n - 1], path[n])]
    BY <2>1, <2>2
  <2> QED BY <2>3 DEF IsWashing
<1>2. ASSUME NEW m \in S PROVE m + 1 \in S
  <2>1. m \in Nat /\ m + 1 \in Nat
    OBVIOUS
  <2>2. PICK w : w = [n \in 0..m |-> IF n = 0 THEN <<>> ELSE Wash(w[n - 1], path[n])]
    BY DEF IsWashing
  <2> DEFINE v == [n \in 0..m + 1 |-> IF n = m + 1 THEN Wash(w[m], path[m + 1]) ELSE w[n]]
  <2>3. \A n \in 0..m + 1 : v[n] = IF n = 0 THEN <<>> ELSE Wash(v[n - 1], path[n])
    <3> TAKE n \in 0..m + 1
    <3>1. CASE n = m + 1
      <4>1. v[n] = Wash(w[m], path[m + 1]) /\ v[m] = w[m] /\ n # 0 /\ n - 1 = m
        BY <2>1, <3>1
      <4> HIDE DEF v
      <4> QED BY <3>1, <4>1
    <3>2. CASE n # m + 1 /\ n = 0
      <4>1. v[n] = w[n] /\ 0 \in 0..m
        BY <2>1, <3>2
      <4>2. w[0] = <<>>
        BY <2>2, <4>1
      <4> HIDE DEF v
      <4> QED BY <3>2, <4>1, <4>2
    <3>3. CASE n # m + 1 /\ n # 0
      <4>1. v[n] = w[n] /\ v[n - 1] = w[n - 1] /\ n \in 0..m
        BY <2>1, <3>3
      <4>2. w[n] = Wash(w[n - 1], path[n])
        BY <2>2, <3>3, <4>1
      <4> HIDE DEF v
      <4> QED BY <3>3, <4>1, <4>2
    <3> QED BY <3>1, <3>2, <3>3
  <2>4. v = [n \in 0..m + 1 |-> v[n]]
    OBVIOUS
  <2> HIDE DEF v
  <2>5. v = [n \in 0..m + 1 |-> IF n = 0 THEN <<>> ELSE Wash(v[n - 1], path[n])]
    BY <2>3, <2>4
  <2>6. \E u : IsWashing(path, m + 1, u)
    BY <2>5 DEF IsWashing
  <2> QED BY <2>1, <2>6
<1>3. S \subseteq Nat
  OBVIOUS
<1> HIDE DEF S
<1>4. S = Nat
  BY <1>1, <1>2, <1>3, AllNaturals
<1> USE DEF S
<1> QED BY <1>4

LEMMA WashingsAgree ==
    ASSUME NEW p, NEW q, NEW L \in Nat, NEW M \in Nat, L <= M,
           NEW v, IsWashing(p, L, v), NEW w, IsWashing(q, M, w), \A i \in 1..L : p[i] = q[i]
    PROVE  \A n \in 0..L : v[n] = w[n]
<1> DEFINE S == {n \in Nat : n <= L => v[n] = w[n]}
<1>1. 0 \in S
  <2>1. v[0] = <<>> /\ w[0] = <<>>
    BY DEF IsWashing
  <2> QED BY <2>1
<1>2. ASSUME NEW n \in S PROVE n + 1 \in S
  <2>1. SUFFICES ASSUME n + 1 <= L PROVE v[n + 1] = w[n + 1]
    OBVIOUS
  <2>2. n \in Nat /\ v[n] = w[n]
    BY <2>1
  <2>3. n + 1 \in 1..L /\ n + 1 \in 0..L /\ n + 1 \in 0..M /\ n + 1 # 0 /\ (n + 1) - 1 = n
    BY <2>1, <2>2
  <2>4. v[n + 1] = Wash(v[n], p[n + 1])
    BY <2>3 DEF IsWashing
  <2>5. w[n + 1] = Wash(w[n], q[n + 1])
    BY <2>3 DEF IsWashing
  <2>6. p[n + 1] = q[n + 1]
    BY <2>3
  <2> QED BY <2>2, <2>4, <2>5, <2>6
<1>3. S \subseteq Nat
  OBVIOUS
<1> HIDE DEF S
<1>4. S = Nat
  BY <1>1, <1>2, <1>3, AllNaturals
<1> USE DEF S
<1> QED BY <1>4

LEMMA WashedByWashing ==
    ASSUME NEW path, Len(path) \in Nat
    PROVE  \E w : IsWashing(path, Len(path), w) /\ wash_path(path) = w[Len(path)]
<1> DEFINE L == Len(path)
           washed == CHOOSE washed :
              washed = [n \in 0..L |-> IF n = 0 THEN <<>> ELSE Wash(washed[n - 1], path[n])]
<1>1. \E w : IsWashing(path, L, w)
  <2> HIDE DEF L
  <2> QED BY WashingExists DEF L
<1>2. washed = [n \in 0..L |-> IF n = 0 THEN <<>> ELSE Wash(washed[n - 1], path[n])]
  <2>1. \E w : w = [n \in 0..L |-> IF n = 0 THEN <<>> ELSE Wash(w[n - 1], path[n])]
    BY <1>1 DEF IsWashing
  <2> QED BY <2>1
<1>3. wash_path(path) = washed[L]
  BY DEF wash_path
<1> HIDE DEF washed
<1>4. IsWashing(path, L, washed)
  BY <1>2 DEF IsWashing
<1> QED BY <1>3, <1>4

LEMMA WashUnfolds ==
    /\ wash_path(<<>>) = <<>>
    /\ \A S : \A path \in Seq(S) : \A name \in S :
          wash_path(Append(path, name)) = Wash(wash_path(path), name)
<1>1. wash_path(<<>>) = <<>>
  <2>1. PICK w : IsWashing(<<>>, 0, w) /\ wash_path(<<>>) = w[0]
    BY WashedByWashing
  <2> QED BY <2>1 DEF IsWashing
<1>2. ASSUME NEW S, NEW path \in Seq(S), NEW name \in S
      PROVE  wash_path(Append(path, name)) = Wash(wash_path(path), name)
  <2> DEFINE q == Append(path, name)
             L == Len(path)
  <2>1. /\ L \in Nat /\ Len(q) = L + 1
        /\ \A i \in 1..L : path[i] = q[i]
        /\ q[L + 1] = name
    <3>1. path \in Seq(S) /\ name \in S
      OBVIOUS
    <3>2. Len(path) \in Nat
      BY <3>1, LenProperties
    <3>3. /\ Len(q) = L + 1 /\ q[L + 1] = name
          /\ \A i \in 1..L : q[i] = path[i]
      BY <3>1, AppendProperties
    <3> QED BY <3>2, <3>3
  <2> HIDE DEF q
  <2>2. PICK v : IsWashing(path, L, v) /\ wash_path(path) = v[L]
    BY <2>1, WashedByWashing
  <2>3. PICK w : IsWashing(q, L + 1, w) /\ wash_path(q) = w[L + 1]
    BY <2>1, WashedByWashing
  <2> HIDE DEF L
  <2>4. L + 1 \in Nat /\ L <= L + 1
    BY <2>1
  <2>5. v[L] = w[L]
    <3>1. \A i \in 1..L : path[i] = q[i]
      BY <2>1
    <3>2. \A n \in 0..L : v[n] = w[n]
      BY ONLY <2>1, <2>2, <2>3, <2>4, <3>1, WashingsAgree
    <3>3. L \in 0..L
      BY <2>1
    <3> QED BY <3>2, <3>3
  <2>6. w[L + 1] = Wash(w[L], q[L + 1])
    <3>1. L + 1 \in 0..L + 1 /\ L + 1 # 0 /\ (L + 1) - 1 = L
      BY <2>1
    <3> QED BY <2>3, <3>1 DEF IsWashing
  <2> QED BY <2>1, <2>2, <2>3, <2>5, <2>6 DEF q
<1> QED BY <1>1, <1>2

Word == Name \cup {".", ".."}

LEMMA StartIs == Start.no = Root /\ Start.kind = "dir" /\ Start.dir = Root /\ Start.depth = 0
BY DEF Start

LEMMA DescendIs ==
    ASSUME NEW f, NEW r, NEW name
    PROVE  /\ r.kind # "dir" => Descend(f, r, name) = r
           /\ r.kind = "dir" =>
                LET e == search_dir_entry(f, r.no, name)
                    q == Descend(f, r, name)
                IN  /\ q.no = IF e = NoEntry THEN NotFound ELSE e.no
                    /\ q.kind = e.kind /\ q.dir = r.no /\ q.depth = r.depth + 1
BY DEF Descend

(* The search in one directory finds "." and "..".                         *)
LEMMA OneOfName ==
    ASSUME NEW f \in FileSystem, CacheIsCurrent(f), NEW d \in f.ibits, NEW s \in Live(f, d),
           \A t \in Live(f, d) : Slot(f, d, t).name = Slot(f, d, s).name => t = s
    PROVE  search_dir_entry(f, d, Slot(f, d, s).name) = Slot(f, d, s)
<1> DEFINE name == Slot(f, d, s).name
           found == {t \in Places(f, d) : At(f, d, t).name = name}
<1>1. search_dir_entry(f, d, name) = IF found = {} THEN NoEntry ELSE At(f, d, FirstPlace(found))
  BY DEF search_dir_entry
<1>2. Places(f, d) = Live(f, d) /\ \A t : At(f, d, t) = Slot(f, d, t)
  BY PlacesAreLive
<1>3. found = {s}
  BY <1>2
<1>4. s[1] \in Nat /\ s[2] \in Nat
  <2>1. d \in Inode
    BY Parts
  <2>2. s[1] \in 0..Direct - 1 /\ s[2] \in 1..PerSector
    BY <2>1, SlotsAreTyped
  <2> QED BY <2>2
<1>5. FirstPlace({s}) = s
  <2>1. \A t \in {s} : s[1] < t[1] \/ (s[1] = t[1] /\ s[2] <= t[2])
    BY <1>4
  <2> QED BY <2>1 DEF FirstPlace
<1> HIDE DEF found
<1> QED BY <1>1, <1>2, <1>3, <1>5

LEMMA SearchOfDots ==
    ASSUME NEW f, NEW spare, Sound(f, {}, spare), NEW d \in DirsOnDisk(f)
    PROVE  /\ search_dir_entry(f, d, ".") # NoEntry
           /\ search_dir_entry(f, d, ".").no = d /\ search_dir_entry(f, d, ".").kind = "dir"
           /\ search_dir_entry(f, d, "..") # NoEntry
           /\ search_dir_entry(f, d, "..").no = Up(f, d) /\ search_dir_entry(f, d, "..").kind = "dir"
<1>1. /\ f \in FileSystem /\ CacheIsCurrent(f) /\ d \in f.ibits /\ d \in Inode
      /\ HoldsDir(f, d) /\ EntriesFit(f, d)
  BY Parts DEF Sound, DirsOnDisk, DirsFormTree
<1>2. <<0, 1>> \in Live(f, d) /\ <<0, 2>> \in Live(f, d)
  BY <1>1, FirstPlaces
<1>3. /\ Slot(f, d, <<0, 1>>).name = "." /\ Slot(f, d, <<0, 1>>).kind = "dir" /\ Slot(f, d, <<0, 1>>).no = d
      /\ Slot(f, d, <<0, 2>>).name = ".." /\ Slot(f, d, <<0, 2>>).kind = "dir" /\ Slot(f, d, <<0, 2>>).no = Up(f, d)
  BY <1>1, EntryIs DEF EntriesFit, Up
<1>4. ASSUME NEW t \in Live(f, d), t \notin {<<0, 1>>, <<0, 2>>}
      PROVE  Slot(f, d, t).name \notin {".", ".."}
  <2>1. Slot(f, d, t) = NoEntry \/ t \in Namings(f, d)
    BY <1>1, <1>4 DEF EntriesFit
  <2>2. Slot(f, d, t).name = "" \/ Slot(f, d, t).name \in Name
    BY <2>1, NoEntryIs DEF Namings
  <2>3. "" \notin {".", ".."}
    OBVIOUS
  <2> QED BY <2>2, <2>3, Words
<1>5. "." # ".."
  OBVIOUS
<1>6. search_dir_entry(f, d, ".") = Slot(f, d, <<0, 1>>)
  <2>1. \A t \in Live(f, d) : Slot(f, d, t).name = Slot(f, d, <<0, 1>>).name => t = <<0, 1>>
    BY <1>3, <1>4, <1>5
  <2> QED BY <1>1, <1>2, <1>3, <2>1, OneOfName
<1>7. search_dir_entry(f, d, "..") = Slot(f, d, <<0, 2>>)
  <2>1. \A t \in Live(f, d) : Slot(f, d, t).name = Slot(f, d, <<0, 2>>).name => t = <<0, 2>>
    BY <1>3, <1>4, <1>5
  <2> QED BY <1>1, <1>2, <1>3, <2>1, OneOfName
<1>8. Slot(f, d, <<0, 1>>) # NoEntry /\ Slot(f, d, <<0, 2>>) # NoEntry
  BY <1>3, NoEntryIs
<1> QED BY <1>3, <1>6, <1>7, <1>8

(* What a name leads to from a directory.                                  *)
LEMMA ChildOf ==
    ASSUME NEW f, NEW spare, Sound(f, {}, spare), NEW d \in DirsOnDisk(f), NEW name \in Name
    PROVE  LET e == search_dir_entry(f, d, name)
           IN  /\ e = NoEntry <=> \A t \in Namings(f, d) : Slot(f, d, t).name # name
               /\ e # NoEntry =>
                    /\ \E s \in Namings(f, d) : e = Slot(f, d, s) /\ e.name = name
                    /\ e.no \in f.ibits \ {Root}
                    /\ e.kind = IF e.no \in DirsOnDisk(f) THEN "dir" ELSE "file"
                    /\ e.no \in DirsOnDisk(f) => Up(f, e.no) = d
<1> DEFINE e == search_dir_entry(f, d, name)
<1>1. f \in FileSystem /\ CacheIsCurrent(f) /\ d \in f.ibits /\ d \in Inode /\ EntriesFit(f, d)
  BY Parts DEF Sound, DirsOnDisk, DirsFormTree
<1>2. ASSUME NEW s \in Namings(f, d), Slot(f, d, s).name = name
      PROVE  e = Slot(f, d, s) /\ e # NoEntry
  <2>1. \A t \in Live(f, d) : Slot(f, d, t).name = Slot(f, d, s).name => t = s
    BY <1>1, <1>2 DEF EntriesFit, Namings
  <2>2. s \in Live(f, d)
    BY DEF Namings
  <2>3. e = Slot(f, d, s)
    BY <1>1, <1>2, <2>1, <2>2, OneOfName
  <2>4. Slot(f, d, s) # NoEntry
    BY <1>1, NamingsAreChildren
  <2> QED BY <2>3, <2>4
<1>3. (\A t \in Namings(f, d) : Slot(f, d, t).name # name) => e = NoEntry
  <2> SUFFICES ASSUME \A t \in Namings(f, d) : Slot(f, d, t).name # name PROVE e = NoEntry
    OBVIOUS
  <2>1. \/ e = NoEntry
        \/ \E s \in Namings(f, d) : e = Slot(f, d, s)
    BY SearchInDir
  <2>2. {t \in Places(f, d) : At(f, d, t).name = name} = {}
    <3>1. Places(f, d) = Live(f, d) /\ \A t : At(f, d, t) = Slot(f, d, t)
      BY <1>1, PlacesAreLive
    <3> QED BY <3>1 DEF Namings
  <2> QED BY <2>2 DEF search_dir_entry
<1>4. ASSUME NEW s \in Namings(f, d), e = Slot(f, d, s)
      PROVE  /\ e.no \in f.ibits \ {Root}
             /\ e.kind = IF e.no \in DirsOnDisk(f) THEN "dir" ELSE "file"
             /\ e.no \in DirsOnDisk(f) => Up(f, e.no) = d
  <2>1. NamesChild(f, d, e)
    BY <1>1, <1>4, NamingsAreChildren
  <2> HIDE DEF e
  <2> QED BY <2>1 DEF NamesChild, DirsOnDisk
<1> HIDE DEF e
<1>5. (\E s \in Namings(f, d) : Slot(f, d, s).name = name) =>
        /\ e # NoEntry
        /\ \E s \in Namings(f, d) : e = Slot(f, d, s) /\ e.name = name
        /\ e.no \in f.ibits \ {Root}
        /\ e.kind = IF e.no \in DirsOnDisk(f) THEN "dir" ELSE "file"
        /\ e.no \in DirsOnDisk(f) => Up(f, e.no) = d
  <2> SUFFICES ASSUME NEW s \in Namings(f, d), Slot(f, d, s).name = name
               PROVE  /\ e # NoEntry
                      /\ \E t \in Namings(f, d) : e = Slot(f, d, t) /\ e.name = name
                      /\ e.no \in f.ibits \ {Root}
                      /\ e.kind = IF e.no \in DirsOnDisk(f) THEN "dir" ELSE "file"
                      /\ e.no \in DirsOnDisk(f) => Up(f, e.no) = d
    OBVIOUS
  <2>1. e = Slot(f, d, s) /\ e # NoEntry
    BY <1>2
  <2>2. e.name = name
    BY <2>1
  <2> QED BY <1>4, <2>1, <2>2
<1> QED BY <1>3, <1>5 DEF e

LEMMA FrontOfAppend ==
    ASSUME NEW S, NEW u \in Seq(S), NEW y \in S
    PROVE  Front(Append(u, y)) = u /\ Last(Append(u, y)) = y
<1> DEFINE w == Append(u, y)
<1>1. /\ w \in Seq(S) /\ Len(w) = Len(u) + 1 /\ Len(u) \in Nat
      /\ \A i \in 1..Len(u) : w[i] = u[i]
      /\ w[Len(u) + 1] = y
  BY AppendProperties, LenProperties
<1> HIDE DEF w
<1>2. Last(w) = y
  BY <1>1 DEF Last
<1>3. Front(w) = SubSeq(w, 1, Len(u))
  BY <1>1 DEF Front
<1>4. /\ SubSeq(w, 1, Len(u)) \in Seq(S) /\ Len(SubSeq(w, 1, Len(u))) = Len(u)
      /\ \A i \in 1..Len(u) : SubSeq(w, 1, Len(u))[i] = u[i]
  <2>1. \A i \in 1..Len(u) : w[i] \in S
    BY <1>1, ElementOfSeq
  <2>2. /\ SubSeq(w, 1, Len(u)) \in Seq(S)
        /\ Len(SubSeq(w, 1, Len(u))) = IF 1 <= Len(u) THEN Len(u) - 1 + 1 ELSE 0
        /\ \A i \in 1..Len(u) - 1 + 1 : SubSeq(w, 1, Len(u))[i] = w[1 + i - 1]
    BY <1>1, <2>1, SubSeqProperties
  <2>3. Len(u) - 1 + 1 = Len(u) /\ (IF 1 <= Len(u) THEN Len(u) - 1 + 1 ELSE 0) = Len(u)
    BY <1>1
  <2>4. \A i \in 1..Len(u) : 1 + i - 1 = i
    BY <1>1
  <2> QED BY <1>1, <2>2, <2>3, <2>4
<1>5. SubSeq(w, 1, Len(u)) = u
  BY <1>4, SeqEqual
<1> QED BY <1>2, <1>3, <1>5 DEF w

(* A search along any path is at a directory, at a file, or at no entry.   *)
WalkedFits(f, r) ==
    \/ r.kind = "dir" /\ r.no \in DirsOnDisk(f)
    \/ r.kind = "file" /\ r.no \in f.ibits \ DirsOnDisk(f)
    \/ r.kind = "unknown" /\ r.no = NotFound

LEMMA DescendFits ==
    ASSUME NEW f, NEW spare, Sound(f, {}, spare), NEW r, WalkedFits(f, r), NEW name \in Word
    PROVE  WalkedFits(f, Descend(f, r, name))
<1> DEFINE e == search_dir_entry(f, r.no, name)
           q == Descend(f, r, name)
<1>1. CASE r.kind # "dir"
  BY <1>1, DescendIs
<1>2. ASSUME r.kind = "dir" PROVE WalkedFits(f, q)
  <2>1. r.no \in DirsOnDisk(f)
    BY <1>2 DEF WalkedFits
  <2>2. q.no = (IF e = NoEntry THEN NotFound ELSE e.no) /\ q.kind = e.kind
    BY <1>2, DescendIs
  <2>3. CASE name = "."
    <3>1. e # NoEntry /\ e.no = r.no /\ e.kind = "dir"
      BY <2>1, <2>3, SearchOfDots
    <3> HIDE DEF e, q
    <3> QED BY <2>1, <2>2, <3>1 DEF WalkedFits
  <2>4. CASE name = ".."
    <3>1. e # NoEntry /\ e.no = Up(f, r.no) /\ e.kind = "dir"
      BY <2>1, <2>4, SearchOfDots
    <3>2. Up(f, r.no) \in DirsOnDisk(f)
      BY <2>1, ParentsName
    <3> HIDE DEF e, q
    <3> QED BY <2>2, <3>1, <3>2 DEF WalkedFits
  <2>5. CASE name \in Name
    <3>1. e = NoEntry \/ (e.no \in f.ibits /\ e.kind = IF e.no \in DirsOnDisk(f) THEN "dir" ELSE "file")
      BY <2>1, <2>5, ChildOf
    <3> HIDE DEF e, q
    <3>2. CASE e = NoEntry
      BY <2>2, <3>2, NoEntryIs DEF WalkedFits
    <3>3. CASE e # NoEntry
      BY <2>2, <3>1, <3>3 DEF WalkedFits
    <3> QED BY <3>2, <3>3
  <2> QED BY <2>3, <2>4, <2>5 DEF Word
<1> QED BY <1>1, <1>2

LEMMA RootIsDir ==
    ASSUME NEW f, NEW spare, Sound(f, {}, spare)
    PROVE  Root \in DirsOnDisk(f) /\ Up(f, Root) = Root /\ WalkedFits(f, Start)
BY StartIs DEF Sound, DirsFormTree, WalkedFits

LEMMA WalkedIs ==
    ASSUME NEW f, NEW spare, Sound(f, {}, spare), NEW p \in Seq(Word)
    PROVE  WalkedFits(f, Walked(f, p))
<1> DEFINE T == {q \in Seq(Word) : WalkedFits(f, Walked(f, q))}
<1>1. T \subseteq Seq(Word)
  OBVIOUS
<1>2. <<>> \in T
  BY EmptySeq, WalkedUnfolds, RootIsDir
<1>3. ASSUME NEW q \in T, NEW x \in Word PROVE Append(q, x) \in T
  <2>1. q \in Seq(Word) /\ WalkedFits(f, Walked(f, q))
    OBVIOUS
  <2>2. Walked(f, Append(q, x)) = Descend(f, Walked(f, q), x)
    BY <2>1, WalkedUnfolds
  <2>3. Append(q, x) \in Seq(Word)
    BY <2>1, AppendProperties
  <2> QED BY <2>1, <2>2, <2>3, DescendFits
<1> HIDE DEF T
<1>4. T = Seq(Word)
  BY <1>1, <1>2, <1>3, AllSequences
<1> QED BY <1>4 DEF T

(* search_file's short cuts for the root find what the entries would.      *)
LEMMA SearchIsWalked ==
    ASSUME NEW f, NEW spare, Sound(f, {}, spare), NEW p \in Seq(Word)
    PROVE  /\ search_file(f, p).no = Walked(f, p).no
           /\ search_file(f, p).kind = Walked(f, p).kind
           /\ p \in Seq(Name) => search_file(f, p) = Walked(f, p)
<1>1. search_file(f, p) = IF p \in {<<>>, <<".">>, <<"..">>} THEN Start ELSE Walked(f, p)
  BY DEF search_file, Walked
<1>2. Walked(f, <<>>) = Start
  BY WalkedUnfolds
<1>3. ASSUME NEW x \in {".", ".."}
      PROVE  Walked(f, <<x>>).no = Start.no /\ Walked(f, <<x>>).kind = Start.kind
  <2>1. <<x>> = Append(<<>>, x) /\ <<>> \in Seq(Word) /\ x \in Word
    BY EmptySeq DEF Word
  <2>2. Walked(f, <<x>>) = Descend(f, Start, x)
    BY ZenonT(120), <1>2, <2>1, WalkedUnfolds
  <2>3. search_dir_entry(f, Root, x) # NoEntry /\ search_dir_entry(f, Root, x).no = Root
        /\ search_dir_entry(f, Root, x).kind = "dir"
    BY <1>3, SearchOfDots, RootIsDir
  <2>4. Descend(f, Start, x).no = Root /\ Descend(f, Start, x).kind = "dir"
    BY <2>3, StartIs, DescendIs
  <2> QED BY <2>2, <2>4, StartIs
<1>4. search_file(f, p).no = Walked(f, p).no /\ search_file(f, p).kind = Walked(f, p).kind
  BY <1>1, <1>2, <1>3
<1>5. ASSUME p \in Seq(Name) PROVE p \notin {<<".">>, <<"..">>}
  <2>1. SUFFICES ASSUME NEW x \in {".", ".."}, p = <<x>> PROVE FALSE
    OBVIOUS
  <2>2. Len(p) = 1 /\ p[1] = x
    BY <2>1
  <2>3. p[1] \in Name
    BY <1>5, <2>2, ElementOfSeq
  <2> QED BY <2>1, <2>2, <2>3, Words
<1> QED BY <1>1, <1>2, <1>4, <1>5

(* A path without "." and ".." that leads to a directory has led to its    *)
(* parent before.                                                          *)
LEMMA WalkedFrom ==
    ASSUME NEW f, NEW spare, Sound(f, {}, spare), NEW p \in Seq(Name), NEW x \in Name,
           Walked(f, Append(p, x)).kind = "dir"
    PROVE  /\ Walked(f, p).kind = "dir" /\ Walked(f, p).no \in DirsOnDisk(f)
           /\ Up(f, Walked(f, Append(p, x)).no) = Walked(f, p).no
<1> DEFINE r == Walked(f, p)
           q == Walked(f, Append(p, x))
           e == search_dir_entry(f, r.no, x)
<1>1. q = Descend(f, r, x)
  BY WalkedUnfolds
<1>2. r.kind = "dir"
  BY <1>1, DescendIs
<1>3. r.no \in DirsOnDisk(f)
  <2>1. p \in Seq(Word)
    BY SeqMonotonic DEF Word
  <2>2. WalkedFits(f, r)
    BY <2>1, WalkedIs
  <2> QED BY <1>2, <2>2 DEF WalkedFits
<1>4. q.no = (IF e = NoEntry THEN NotFound ELSE e.no) /\ q.kind = e.kind
  BY <1>1, <1>2, DescendIs
<1>5. e # NoEntry
  BY <1>4, NoEntryIs
<1>6. e.kind = (IF e.no \in DirsOnDisk(f) THEN "dir" ELSE "file")
      /\ (e.no \in DirsOnDisk(f) => Up(f, e.no) = r.no)
  BY <1>3, <1>5, ChildOf
<1>7. q.kind = "dir"
  OBVIOUS
<1> HIDE DEF e, q, r
<1>8. e.no \in DirsOnDisk(f)
  BY <1>4, <1>6, <1>7
<1>9. Up(f, q.no) = r.no
  BY <1>4, <1>5, <1>6, <1>8
<1> QED BY <1>2, <1>3, <1>9 DEF q, r

(* The words a path is made of and the washed path lead to one directory.  *)
LEMMA WashAgrees ==
    ASSUME NEW f, NEW spare, Sound(f, {}, spare), NEW p \in Seq(Word)
    PROVE  /\ wash_path(p) \in Seq(Name)
           /\ Walked(f, p).kind = "dir" =>
                Walked(f, wash_path(p)).kind = "dir" /\ Walked(f, wash_path(p)).no = Walked(f, p).no
<1> DEFINE Agrees(q) ==
                /\ wash_path(q) \in Seq(Name)
                /\ Walked(f, q).kind = "dir" =>
                     Walked(f, wash_path(q)).kind = "dir" /\ Walked(f, wash_path(q)).no = Walked(f, q).no
           T == {q \in Seq(Word) : Agrees(q)}
<1>1. T \subseteq Seq(Word)
  OBVIOUS
<1>2. <<>> \in T
  BY EmptySeq, WashUnfolds
<1>3. ASSUME NEW q \in T, NEW x \in Word PROVE Append(q, x) \in T
  <2> DEFINE w == wash_path(q)
             v == wash_path(Append(q, x))
             r == Walked(f, q)
             s == Walked(f, Append(q, x))
  <2>1. /\ q \in Seq(Word) /\ w \in Seq(Name)
        /\ r.kind = "dir" => Walked(f, w).kind = "dir" /\ Walked(f, w).no = r.no
    OBVIOUS
  <2>2. v = Wash(w, x) /\ s = Descend(f, r, x)
    BY <2>1, WashUnfolds, WalkedUnfolds
  <2>3. WalkedFits(f, r)
    BY <2>1, WalkedIs
  <2> SUFFICES /\ v \in Seq(Name)
               /\ s.kind = "dir" => Walked(f, v).kind = "dir" /\ Walked(f, v).no = s.no
    <3>1. Append(q, x) \in Seq(Word)
      BY <2>1, AppendProperties
    <3> QED BY <3>1
  <2> HIDE DEF w, v, r, s
  <2>4. s.kind = "dir" => r.kind = "dir" /\ r.no \in DirsOnDisk(f)
    BY <2>2, <2>3, DescendIs DEF WalkedFits
  <2>5. CASE x = "."
    <3>1. v = w
      BY <2>2, <2>5 DEF Wash
    <3>2. s.kind = "dir" => s.no = r.no
      BY <2>2, <2>4, <2>5, SearchOfDots, DescendIs
    <3> QED BY <2>1, <2>4, <3>1, <3>2
  <2>6. CASE x = ".." /\ w = <<>>
    <3>1. v = <<>>
      BY <2>2, <2>6 DEF Wash
    <3>2. Walked(f, v).kind = "dir" /\ Walked(f, v).no = Root
      BY <3>1, WalkedUnfolds, StartIs
    <3>3. s.kind = "dir" => s.no = Up(f, r.no)
      BY <2>2, <2>4, <2>6, SearchOfDots, DescendIs
    <3>4. r.kind = "dir" => r.no = Root
      BY <2>1, <2>6, WalkedUnfolds, StartIs
    <3> QED BY <2>4, <3>1, <3>2, <3>3, <3>4, RootIsDir, EmptySeq
  <2>7. CASE x = ".." /\ w # <<>>
    <3>1. PICK u \in Seq(Name), y \in Name : w = Append(u, y)
      BY <2>1, <2>7, SequenceEmptyOrAppend
    <3>2. v = u
      <4>1. v = Front(w)
        BY <2>2, <2>7 DEF Wash
      <4>2. Front(w) = u
        BY <3>1, FrontOfAppend
      <4> QED BY <4>1, <4>2
    <3>3. s.kind = "dir" => s.no = Up(f, r.no)
      BY SMTT(100), <2>2, <2>4, <2>7, SearchOfDots, DescendIs
    <3>4. r.kind = "dir" => Walked(f, u).kind = "dir" /\ Up(f, r.no) = Walked(f, u).no
      BY <2>1, <3>1, WalkedFrom
    <3> QED BY <2>4, <3>2, <3>3, <3>4
  <2>8. CASE x \in Name
    <3>1. v = Append(w, x)
      BY <2>2, <2>8, Words DEF Wash
    <3>2. v \in Seq(Name) /\ Walked(f, v) = Descend(f, Walked(f, w), x)
      BY <2>1, <2>8, <3>1, AppendProperties, WalkedUnfolds
    <3>3. ASSUME s.kind = "dir" PROVE Walked(f, v).kind = "dir" /\ Walked(f, v).no = s.no
      <4>1. r.kind = "dir" /\ Walked(f, w).kind = "dir" /\ Walked(f, w).no = r.no
        BY <2>1, <2>4, <3>3
      <4> QED BY <2>2, <3>2, <3>3, <4>1, DescendIs
    <3> QED BY <3>2, <3>3
  <2> QED BY <2>5, <2>6, <2>7, <2>8 DEF Word
<1> HIDE DEF T
<1>4. T = Seq(Word)
  BY <1>1, <1>2, <1>3, AllSequences
<1> QED BY <1>4 DEF T

LEMMA RootIsPath == <<>> \in Path /\ Path \subseteq Seq(Name) /\ Seq(Name) \subseteq Seq(Word)
<1>1. <<>> \in [1..0 -> Name] /\ 0 \in 0..MaxDepth
  <2>1. <<>> \in Seq(Name) /\ Len(<<>>) = 0
    BY EmptySeq
  <2>2. <<>> \in [1..0 -> Name]
    BY <2>1, LenProperties
  <2>3. MaxDepth \in Nat
    BY ShellAssumption
  <2>4. 0 \in 0..MaxDepth
    BY <2>3
  <2> QED BY <2>2, <2>4
<1>2. <<>> \in Path
  BY <1>1 DEF Path
<1>3. Path \subseteq Seq(Name)
  BY PathsAreSequences
<1>4. Seq(Name) \subseteq Seq(Word)
  <2>1. Name \subseteq Word
    BY DEF Word
  <2> QED BY <2>1, SeqMonotonic
<1> QED BY <1>2, <1>3, <1>4

LEMMA PromptStays ==
    ASSUME cwd_cache \in Path, [Next]_vars
    PROVE  cwd_cache' \in Path
<1>1. ASSUME NEW path \in Path, ChangeTo(path) PROVE cwd_cache' \in Path
  BY <1>1 DEF ChangeTo
<1>2. ASSUME NEW arg \in Argument,
             buildin_mkdir(arg) \/ buildin_rmdir(arg) \/ buildin_rm(arg) \/ buildin_ls(arg)
      PROVE  UNCHANGED cwd_cache
  BY <1>2 DEF buildin_mkdir, buildin_rmdir, buildin_rm, buildin_ls, Command, Call, ListPath
<1>3. ASSUME NEW arg \in Argument, buildin_cd(arg) PROVE cwd_cache' \in Path
  BY <1>1, <1>3 DEF buildin_cd, Command
<1>4. ASSUME CdWithoutArgument PROVE cwd_cache' \in Path
  BY <1>1, <1>4, RootIsPath DEF CdWithoutArgument
<1>5. ASSUME buildin_pwd \/ ExternalCommand \/ print_prompt PROVE UNCHANGED cwd_cache
  BY <1>5 DEF buildin_pwd, ExternalCommand, print_prompt
<1>6. ASSUME NEW path \in Path, ProgramCreates(path) PROVE UNCHANGED cwd_cache
  BY <1>6 DEF ProgramCreates, Call
<1>7. ASSUME Reboot PROVE cwd_cache' \in Path
  BY <1>7, RootIsPath DEF Reboot
<1>8. ASSUME UNCHANGED vars PROVE UNCHANGED cwd_cache
  BY <1>8 DEF vars
<1> QED BY <1>2, <1>3, <1>4, <1>5, <1>6, <1>7, <1>8 DEF Next

LEMMA WashedFromInv ==
    ASSUME Inv, cwd_cache \in Path
    PROVE  WashedPathsAgree
<1>1. Sound(fs, {}, fs.lost)
  BY DEF Inv
<1>2. ASSUME NEW arg \in Argument,
             NEW words, words = IF arg.absolute THEN arg.path ELSE cwd_cache \o arg.path,
             search_file(fs, words).kind = "dir"
      PROVE  search_file(fs, wash_path(words)).no = search_file(fs, words).no
  <2>1. arg.path \in Seq(Word) /\ cwd_cache \in Seq(Word)
    BY RootIsPath, ShellAssumption DEF Word
  <2>2. words \in Seq(Word)
    BY <1>2, <2>1, ConcatProperties
  <2>3. wash_path(words) \in Seq(Name) /\ wash_path(words) \in Seq(Word)
    BY <1>1, <2>2, WashAgrees, RootIsPath
  <2>4. Walked(fs, words).kind = "dir"
    BY <1>1, <1>2, <2>2, SearchIsWalked
  <2>5. Walked(fs, wash_path(words)).no = Walked(fs, words).no
    BY <1>1, <2>2, <2>4, WashAgrees
  <2> QED BY <1>1, <2>2, <2>3, <2>5, SearchIsWalked
<1> QED BY <1>2 DEF WashedPathsAgree

(* wash_path takes "." and ".." away without a look at the disk; the path  *)
(* it makes leads where the kernel gets by the entries of these names,     *)
(* for paths of any length.                                                *)
THEOREM WashedPathsAlwaysAgree ==
    FreshNumbers => (Spec => []WashedPathsAgree)
<1> SUFFICES ASSUME FreshNumbers PROVE Spec => []WashedPathsAgree
  OBVIOUS
<1>1. Spec => []Inv
  BY Invariance
<1>2. Init => cwd_cache \in Path
  BY RootIsPath DEF Init
<1>3. cwd_cache \in Path /\ [Next]_vars => (cwd_cache \in Path)'
  BY PromptStays
<1>4. Spec => [](cwd_cache \in Path)
  BY <1>2, <1>3, PTL DEF Spec
<1>5. Inv /\ cwd_cache \in Path => WashedPathsAgree
  BY WashedFromInv
<1> QED BY <1>1, <1>4, <1>5, PTL

---------------------------------------------------------------------------
(* Paths and what they lead to.  A directory's links are its entries with  *)
(* names of their own.                                                     *)

Linked(f, d, e) == d \in DirsOnDisk(f) /\ \E s \in Namings(f, d) : Slot(f, d, s) = e

Leads(f, p, no, kind) ==
    /\ Walked(f, p).no = no /\ Walked(f, p).kind = kind /\ Walked(f, p).depth = Len(p)
    /\ kind \in {"dir", "file"}

LEMMA LinksAre ==
    ASSUME NEW f, NEW orphans, NEW spare, Sound(f, orphans, spare), NEW d, NEW e, Linked(f, d, e)
    PROVE  /\ d \in DirsOnDisk(f) /\ d \in f.ibits
           /\ e.name \in Name /\ e.no \in f.ibits \ {Root} /\ e \in DirEntry
           /\ e.kind = IF e.no \in DirsOnDisk(f) THEN "dir" ELSE "file"
           /\ e.no \in DirsOnDisk(f) => Up(f, e.no) = d
           /\ \A c, x : Linked(f, c, x) /\ x.no = e.no => c = d /\ x = e
           /\ \A x : Linked(f, d, x) /\ x.name = e.name => x = e
<1>1. f \in FileSystem /\ DirsFormTree(f, orphans) /\ d \in DirsOnDisk(f)
  BY DEF Sound, Linked
<1>2. d \in f.ibits /\ f.ibits \subseteq Inode /\ d \in Inode /\ EntriesFit(f, d)
  BY <1>1, Parts DEF DirsOnDisk, DirsFormTree
<1>3. PICK s \in Namings(f, d) : Slot(f, d, s) = e
  BY DEF Linked
<1>4. s \in Live(f, d) /\ e.name \in Name /\ NamesChild(f, d, e)
  BY <1>1, <1>2, <1>3, NamingsAreChildren
<1>5. e \in DirEntry
  BY <1>1, <1>2, <1>3, <1>4, SlotsAreTyped
<1>6. /\ e.no \in f.ibits \ {Root}
      /\ e.kind = IF e.no \in DirsOnDisk(f) THEN "dir" ELSE "file"
      /\ e.no \in DirsOnDisk(f) => Up(f, e.no) = d
  BY <1>4 DEF NamesChild, DirsOnDisk
<1>7. ASSUME NEW c, NEW x, Linked(f, c, x), x.no = e.no PROVE c = d /\ x = e
  <2>1. c \in DirsOnDisk(f) /\ \E t \in Namings(f, c) : Slot(f, c, t) = x
    BY <1>7 DEF Linked
  <2>2. PICK t \in Namings(f, c) : Slot(f, c, t) = x
    BY <2>1
  <2>3. c = d /\ t = s
    BY <1>1, <1>3, <1>7, <2>1, <2>2 DEF DirsFormTree
  <2> QED BY <1>3, <2>2, <2>3
<1>8. ASSUME NEW x, Linked(f, d, x), x.name = e.name PROVE x = e
  <2>1. PICK t \in Namings(f, d) : Slot(f, d, t) = x
    BY <1>8 DEF Linked
  <2>2. t = s
    BY <1>2, <1>3, <1>8, <2>1 DEF EntriesFit
  <2> QED BY <1>3, <2>1, <2>2
<1> QED BY <1>1, <1>2, <1>4, <1>5, <1>6, <1>7, <1>8

(* A walk is as deep as its path while it is in directories, and never     *)
(* deeper.                                                                 *)
LEMMA WalkedDepth ==
    ASSUME NEW f, NEW p \in Seq(Name)
    PROVE  /\ Walked(f, p).depth \in Nat /\ Walked(f, p).depth <= Len(p)
           /\ Walked(f, p).kind = "dir" => Walked(f, p).depth = Len(p)
<1> DEFINE Good(q) == /\ Walked(f, q).depth \in Nat /\ Walked(f, q).depth <= Len(q)
                      /\ Walked(f, q).kind = "dir" => Walked(f, q).depth = Len(q)
           T == {q \in Seq(Name) : Good(q)}
<1>1. <<>> \in T
  <2>1. Walked(f, <<>>) = Start /\ Len(<<>>) = 0 /\ <<>> \in Seq(Name)
    BY WalkedUnfolds, EmptySeq
  <2> QED BY <2>1, StartIs
<1>2. ASSUME NEW q \in T, NEW x \in Name PROVE Append(q, x) \in T
  <2>1. q \in Seq(Name) /\ Len(q) \in Nat /\ Good(q)
    BY LenProperties
  <2>2. Append(q, x) \in Seq(Name) /\ Len(Append(q, x)) = Len(q) + 1
    BY <2>1, AppendProperties
  <2>3. Walked(f, Append(q, x)) = Descend(f, Walked(f, q), x)
    BY <2>1, WalkedUnfolds
  <2>4. CASE Walked(f, q).kind # "dir"
    <3>1. Walked(f, Append(q, x)) = Walked(f, q)
      BY <2>3, <2>4, DescendIs
    <3>2. Walked(f, q).depth <= Len(q) + 1
      BY <2>1
    <3> QED BY <2>1, <2>2, <2>4, <3>1, <3>2
  <2>5. CASE Walked(f, q).kind = "dir"
    <3>1. Walked(f, Append(q, x)).depth = Walked(f, q).depth + 1
      BY <2>3, <2>5, DescendIs
    <3>2. Walked(f, q).depth = Len(q)
      BY <2>1, <2>5
    <3>3. Walked(f, Append(q, x)).depth = Len(Append(q, x)) /\ Len(Append(q, x)) \in Nat
      BY <2>1, <2>2, <3>1, <3>2
    <3> QED BY <2>2, <3>3
  <2> QED BY <2>4, <2>5
<1>3. T \subseteq Seq(Name)
  OBVIOUS
<1> HIDE DEF T
<1>4. T = Seq(Name)
  BY <1>1, <1>2, <1>3, AllSequences
<1> QED BY <1>4 DEF T

LEMMA LeadsUnfolds ==
    ASSUME NEW f, NEW spare, Sound(f, {}, spare)
    PROVE  /\ \A no, kind : Leads(f, <<>>, no, kind) <=> no = Root /\ kind = "dir"
           /\ \A p \in Seq(Name), x \in Name : \A no, kind :
                 Leads(f, Append(p, x), no, kind) <=>
                    \E d, e : /\ Leads(f, p, d, "dir") /\ Linked(f, d, e)
                              /\ e.name = x /\ e.no = no /\ e.kind = kind
<1>1. ASSUME NEW no, NEW kind PROVE Leads(f, <<>>, no, kind) <=> no = Root /\ kind = "dir"
  <2>1. Walked(f, <<>>) = Start /\ Len(<<>>) = 0
    BY WalkedUnfolds, EmptySeq
  <2> QED BY <2>1, StartIs DEF Leads
<1>2. ASSUME NEW p \in Seq(Name), NEW x \in Name, NEW no, NEW kind
      PROVE  Leads(f, Append(p, x), no, kind) <=>
                    \E d, e : /\ Leads(f, p, d, "dir") /\ Linked(f, d, e)
                              /\ e.name = x /\ e.no = no /\ e.kind = kind
  <2> DEFINE r == Walked(f, p)
             q == Walked(f, Append(p, x))
  <2>1. q = Descend(f, r, x)
    BY WalkedUnfolds
  <2>2. /\ Len(Append(p, x)) = Len(p) + 1 /\ Len(p) \in Nat
        /\ r.depth \in Nat /\ r.depth <= Len(p) /\ (r.kind = "dir" => r.depth = Len(p))
    BY AppendProperties, LenProperties, WalkedDepth
  <2>3. WalkedFits(f, r)
    BY WalkedIs, RootIsPath
  <2> HIDE DEF r, q
  <2>4. CASE r.kind # "dir"
    <3>1. q = r
      BY <2>1, <2>4, DescendIs
    <3>2. q.depth # Len(Append(p, x))
      BY <2>2, <3>1
    <3>3. ~Leads(f, Append(p, x), no, kind)
      BY <3>2 DEF Leads, q
    <3>4. \A d : ~Leads(f, p, d, "dir")
      BY <2>4 DEF Leads, r
    <3> QED BY <3>3, <3>4
  <2>5. CASE r.kind = "dir"
    <3> DEFINE e == search_dir_entry(f, r.no, x)
    <3>1. r.no \in DirsOnDisk(f)
      BY <2>3, <2>5 DEF WalkedFits
    <3>2. /\ q.no = IF e = NoEntry THEN NotFound ELSE e.no
          /\ q.kind = e.kind /\ q.depth = r.depth + 1
      BY <2>1, <2>5, DescendIs
    <3>3. q.depth = Len(Append(p, x))
      BY <2>2, <2>5, <3>2
    <3>4. \A d : Leads(f, p, d, "dir") <=> d = r.no
      BY <2>2, <2>5 DEF Leads, r
    <3>5. /\ e = NoEntry => \A t \in Namings(f, r.no) : Slot(f, r.no, t).name # x
          /\ e # NoEntry => \E s \in Namings(f, r.no) : e = Slot(f, r.no, s) /\ e.name = x
      BY <3>1, ChildOf
    <3> HIDE DEF e
    <3>6. CASE e = NoEntry
      <4>1. q.kind = "unknown"
        BY <3>2, <3>6, NoEntryIs
      <4>2. ~Leads(f, Append(p, x), no, kind)
        BY <4>1 DEF Leads, q
      <4>3. \A y : ~(Linked(f, r.no, y) /\ y.name = x)
        BY <3>5, <3>6 DEF Linked
      <4> QED BY <3>4, <4>2, <4>3
    <3>7. CASE e # NoEntry
      <4>1. Linked(f, r.no, e) /\ e.name = x
        BY <3>1, <3>5, <3>7 DEF Linked
      <4>2. \A y : Linked(f, r.no, y) /\ y.name = x <=> y = e
        BY <4>1, LinksAre
      <4>3. q.no = e.no /\ q.kind = e.kind /\ e.kind \in {"dir", "file"}
        BY <3>2, <3>7, <4>1, LinksAre
      <4>4. Leads(f, Append(p, x), no, kind) <=> no = e.no /\ kind = e.kind
        BY <3>3, <4>3 DEF Leads, q
      <4> QED BY <3>4, <4>2, <4>4
    <3> QED BY <3>6, <3>7
  <2> QED BY <2>4, <2>5
<1> QED BY <1>1, <1>2

(* Two paths never lead to the same inode, nor one to two.                  *)
LEMMA PathsAreUnique ==
    ASSUME NEW f, NEW spare, Sound(f, {}, spare), NEW p \in Seq(Name), NEW q \in Seq(Name),
           NEW no, NEW kind, Leads(f, p, no, kind), NEW other, Leads(f, q, no, other)
    PROVE  p = q /\ kind = other
<1> DEFINE T == {u \in Seq(Name) : \A v \in Seq(Name) : \A m, k, o :
                     Leads(f, u, m, k) /\ Leads(f, v, m, o) => u = v}
<1>1. \A u \in Seq(Name) : u = <<>> \/ \E v \in Seq(Name), x \in Name : u = Append(v, x)
  BY SequenceEmptyOrAppend
<1>3. \A u \in Seq(Name), x \in Name : \A k : ~Leads(f, Append(u, x), Root, k)
  BY LeadsUnfolds, LinksAre
<1>4. <<>> \in T
  <2>1. <<>> \in Seq(Name)
    BY EmptySeq
  <2>2. ASSUME NEW v \in Seq(Name), NEW m, NEW k, NEW o, Leads(f, <<>>, m, k), Leads(f, v, m, o)
        PROVE  v = <<>>
    <3>1. m = Root
      BY <2>2, LeadsUnfolds
    <3>2. SUFFICES ASSUME v # <<>> PROVE FALSE
      OBVIOUS
    <3>3. PICK u \in Seq(Name), x \in Name : v = Append(u, x)
      BY <1>1, <3>2
    <3>4. Leads(f, Append(u, x), Root, o)
      BY <2>2, <3>1, <3>3
    <3> QED BY <1>3, <3>4
  <2> QED BY <2>1, <2>2
<1>5. ASSUME NEW u \in T, NEW x \in Name PROVE Append(u, x) \in T
  <2>1. u \in Seq(Name) /\ Append(u, x) \in Seq(Name)
    BY AppendProperties
  <2>2. ASSUME NEW w \in Seq(Name), NEW m, NEW k, NEW o, Leads(f, Append(u, x), m, k), Leads(f, w, m, o)
        PROVE  Append(u, x) = w
    <3>1. m # Root
      BY <1>3, <2>1, <2>2
    <3>2. w # <<>>
      BY <2>2, <3>1, LeadsUnfolds
    <3>3. PICK v \in Seq(Name), y \in Name : w = Append(v, y)
      BY <1>1, <3>2
    <3>4. PICK d, e : Leads(f, u, d, "dir") /\ Linked(f, d, e) /\ e.name = x /\ e.no = m
      BY <2>1, <2>2, LeadsUnfolds
    <3>5. PICK c, g : Leads(f, v, c, "dir") /\ Linked(f, c, g) /\ g.name = y /\ g.no = m
      BY <2>2, <3>3, LeadsUnfolds
    <3>6. c = d /\ g = e
      BY <3>4, <3>5, LinksAre
    <3>7. u = v
      BY <3>4, <3>5, <3>6
    <3> QED BY <3>3, <3>4, <3>5, <3>6, <3>7
  <2> QED BY <2>1, <2>2
<1>6. T \subseteq Seq(Name)
  OBVIOUS
<1> HIDE DEF T
<1>7. T = Seq(Name)
  BY <1>4, <1>5, <1>6, AllSequences
<1>8. p = q
  BY <1>7 DEF T
<1> QED BY <1>8 DEF Leads

(* One more link, to an inode that has none of its own, is one more path.  *)
LEMMA OneMorePath ==
    ASSUME NEW f, NEW spare, Sound(f, {}, spare), NEW g, NEW left, Sound(g, {}, left),
           NEW P \in Seq(Name), NEW d, Leads(f, P, d, "dir"), NEW e, Linked(g, d, e),
           \A c, x : Linked(g, c, x) <=> Linked(f, c, x) \/ (c = d /\ x = e),
           \A x : ~Linked(g, e.no, x)
    PROVE  \A p \in Seq(Name) : \A no, kind :
              Leads(g, p, no, kind) <=>
                 \/ Leads(f, p, no, kind)
                 \/ p = Append(P, e.name) /\ no = e.no /\ kind = e.kind
<1> DEFINE new == Append(P, e.name)
           T == {p \in Seq(Name) : \A no, kind :
                    Leads(g, p, no, kind) <=>
                       \/ Leads(f, p, no, kind)
                       \/ p = new /\ no = e.no /\ kind = e.kind}
<1>1. e.name \in Name
  BY LinksAre
<1>2. new \in Seq(Name) /\ new # <<>>
  BY <1>1, AppendProperties
<1>3. <<>> \in T
  <2>1. <<>> \in Seq(Name)
    BY EmptySeq
  <2>2. \A no, kind : Leads(g, <<>>, no, kind) <=> Leads(f, <<>>, no, kind)
    BY LeadsUnfolds
  <2> QED BY <1>2, <2>1, <2>2
<1>4. ASSUME NEW p \in T, NEW y \in Name PROVE Append(p, y) \in T
  <2>1. p \in Seq(Name) /\ Append(p, y) \in Seq(Name)
    BY AppendProperties
  <2>2. \A c : Leads(g, p, c, "dir") <=> Leads(f, p, c, "dir") \/ (p = new /\ c = e.no /\ "dir" = e.kind)
    OBVIOUS
  <2>3. \A c, x : Leads(g, p, c, "dir") /\ Linked(g, c, x) <=>
                     Leads(f, p, c, "dir") /\ (Linked(f, c, x) \/ (c = d /\ x = e))
    BY <2>2
  <2>4. Leads(f, p, d, "dir") <=> p = P
    BY <2>1, PathsAreUnique
  <2>5. Append(p, y) = new <=> p = P /\ y = e.name
    BY <1>1, <2>1, AppendProperties
  <2>6. ASSUME NEW no, NEW kind
        PROVE  Leads(g, Append(p, y), no, kind) <=>
                  \/ Leads(f, Append(p, y), no, kind)
                  \/ Append(p, y) = new /\ no = e.no /\ kind = e.kind
    <3> HIDE DEF new, T
    <3>1. Leads(g, Append(p, y), no, kind) <=>
             \E c, x : /\ Leads(g, p, c, "dir") /\ Linked(g, c, x)
                       /\ x.name = y /\ x.no = no /\ x.kind = kind
      BY <2>1, LeadsUnfolds
    <3>2. Leads(f, Append(p, y), no, kind) <=>
             \E c, x : /\ Leads(f, p, c, "dir") /\ Linked(f, c, x)
                       /\ x.name = y /\ x.no = no /\ x.kind = kind
      BY <2>1, LeadsUnfolds
    <3>3. ASSUME Leads(g, Append(p, y), no, kind)
          PROVE  \/ Leads(f, Append(p, y), no, kind)
                 \/ Append(p, y) = new /\ no = e.no /\ kind = e.kind
      <4>1. PICK c, x : /\ Leads(g, p, c, "dir") /\ Linked(g, c, x)
                        /\ x.name = y /\ x.no = no /\ x.kind = kind
        BY <3>1, <3>3
      <4>2. Leads(f, p, c, "dir") /\ (Linked(f, c, x) \/ (c = d /\ x = e))
        BY <2>3, <4>1
      <4> QED BY <2>4, <2>5, <3>2, <4>1, <4>2
    <3>4. ASSUME Leads(f, Append(p, y), no, kind) PROVE Leads(g, Append(p, y), no, kind)
      BY <2>3, <3>1, <3>2, <3>4
    <3>5. ASSUME Append(p, y) = new, no = e.no, kind = e.kind PROVE Leads(g, Append(p, y), no, kind)
      <4>1. Leads(g, p, d, "dir") /\ Linked(g, d, e) /\ e.name = y
        BY <2>3, <2>4, <2>5, <3>5
      <4> QED BY <3>1, <3>5, <4>1
    <3> QED BY <3>3, <3>4, <3>5
  <2> QED BY <2>1, <2>6
<1>5. T \subseteq Seq(Name)
  OBVIOUS
<1> HIDE DEF T
<1>6. T = Seq(Name)
  BY <1>3, <1>4, <1>5, AllSequences
<1> QED BY <1>6 DEF T

LEMMA SamePaths ==
    ASSUME NEW f, NEW spare, Sound(f, {}, spare), NEW g, NEW left, Sound(g, {}, left),
           \A c, x : Linked(g, c, x) <=> Linked(f, c, x)
    PROVE  \A p \in Seq(Name) : \A no, kind : Leads(g, p, no, kind) <=> Leads(f, p, no, kind)
<1> DEFINE T == {p \in Seq(Name) : \A no, kind : Leads(g, p, no, kind) <=> Leads(f, p, no, kind)}
<1>1. <<>> \in T
  BY LeadsUnfolds, EmptySeq
<1>2. ASSUME NEW p \in T, NEW y \in Name PROVE Append(p, y) \in T
  <2>1. p \in Seq(Name) /\ Append(p, y) \in Seq(Name)
    BY AppendProperties
  <2>2. ASSUME NEW no, NEW kind PROVE Leads(g, Append(p, y), no, kind) <=> Leads(f, Append(p, y), no, kind)
    <3>1. Leads(g, Append(p, y), no, kind) <=>
             \E c, x : /\ Leads(g, p, c, "dir") /\ Linked(g, c, x)
                       /\ x.name = y /\ x.no = no /\ x.kind = kind
      BY <2>1, LeadsUnfolds
    <3>2. Leads(f, Append(p, y), no, kind) <=>
             \E c, x : /\ Leads(f, p, c, "dir") /\ Linked(f, c, x)
                       /\ x.name = y /\ x.no = no /\ x.kind = kind
      BY <2>1, LeadsUnfolds
    <3> QED BY <3>1, <3>2
  <2> QED BY <2>1, <2>2
<1>3. T \subseteq Seq(Name)
  OBVIOUS
<1> HIDE DEF T
<1>4. T = Seq(Name)
  BY <1>1, <1>2, <1>3, AllSequences
<1> QED BY <1>4 DEF T

LEMMA LeadsAreTyped ==
    ASSUME NEW f, NEW spare, Sound(f, {}, spare), NEW p \in Seq(Name), NEW no, NEW kind,
           Leads(f, p, no, kind)
    PROVE  /\ no \in f.ibits /\ no \in Inode /\ kind \in {"dir", "file"}
           /\ kind = "dir" <=> no \in DirsOnDisk(f)
<1>1. WalkedFits(f, Walked(f, p))
  BY WalkedIs, RootIsPath
<1>2. f.ibits \subseteq Inode
  BY Parts DEF Sound
<1> QED BY <1>1, <1>2 DEF Leads, WalkedFits, DirsOnDisk

LEMMA LinksAreOnDisk ==
    ASSUME NEW f, NEW spare, Sound(f, {}, spare), NEW d \in DirsOnDisk(f), NEW e
    PROVE  e \in DiskEntries(f, d) /\ e.name \in Name <=> Linked(f, d, e)
<1>1. f \in FileSystem /\ d \in Inode /\ f.disk \in [Inode -> Node]
  BY Parts DEF Sound, DirsOnDisk
<1>2. DOMAIN f.disk[d].sec = 0..Direct - 1 /\ \A k : BlockOf(f, d, k) = f.disk[d].sec[k]
  BY <1>1 DEF Node, BlockOf
<1>3. ASSUME e \in DiskEntries(f, d), e.name \in Name PROVE Linked(f, d, e)
  <2>1. PICK b \in NodeBlocks(f.disk[d]) : \E i \in 1..PerSector : e = f.data[b][i]
    BY <1>3 DEF DiskEntries
  <2>2. PICK i \in 1..PerSector : e = f.data[b][i]
    BY <2>1
  <2>3. PICK k \in 0..Direct - 1 : b = BlockOf(f, d, k) /\ b # 0
    BY <1>2, <2>1 DEF NodeBlocks
  <2>4. <<k, i>> \in Slots /\ Slot(f, d, <<k, i>>) = e
    BY <2>2, <2>3 DEF Slots, Slot
  <2>5. <<k, i>> \in Namings(f, d)
    BY <1>3, <2>3, <2>4 DEF Namings, Live
  <2> QED BY <2>4, <2>5 DEF Linked
<1>4. ASSUME Linked(f, d, e) PROVE e \in DiskEntries(f, d) /\ e.name \in Name
  <2>1. PICK s \in Namings(f, d) : Slot(f, d, s) = e
    BY <1>4 DEF Linked
  <2>2. s \in Live(f, d) /\ e.name \in Name
    BY <2>1 DEF Namings
  <2>3. /\ s[1] \in 0..Direct - 1 /\ s[2] \in 1..PerSector /\ BlockOf(f, d, s[1]) # 0
        /\ e = f.data[BlockOf(f, d, s[1])][s[2]]
    BY <2>1, <2>2 DEF Live, Slots, Slot
  <2>4. BlockOf(f, d, s[1]) \in NodeBlocks(f.disk[d])
    BY <1>2, <2>3 DEF NodeBlocks
  <2> QED BY <2>2, <2>3, <2>4 DEF DiskEntries
<1> QED BY <1>3, <1>4

Found(path, no, kind) == [path |-> path, no |-> no, kind |-> kind]

(* The inodes with a path of n names or fewer.                              *)
Layer(f, n) ==
    {x \in [path : Seq(Name), no : Inode, kind : {"dir", "file"}] :
        Len(x.path) <= n /\ Leads(f, x.path, x.no, x.kind)}

LEMMA LayersHold ==
    ASSUME NEW f, NEW spare, Sound(f, {}, spare), NEW n \in Nat,
           NEW p \in Seq(Name), Len(p) <= n, NEW no, NEW kind, Leads(f, p, no, kind)
    PROVE  Found(p, no, kind) \in Layer(f, n)
<1>1. no \in Inode /\ kind \in {"dir", "file"}
  BY LeadsAreTyped
<1> QED BY <1>1 DEF Found, Layer

LEMMA LayersGrow ==
    ASSUME NEW f, NEW spare, Sound(f, {}, spare)
    PROVE  /\ Layer(f, 0) = {Found(<<>>, Root, "dir")}
           /\ \A n \in Nat : n # 0 => Layer(f, n) = Deeper(f, Layer(f, n - 1), n)
<1>1. Layer(f, 0) = {Found(<<>>, Root, "dir")}
  <2>1. /\ <<>> \in Seq(Name) /\ Len(<<>>) <= 0 /\ 0 \in Nat
        /\ Leads(f, <<>>, Root, "dir")
    BY EmptySeq, LeadsUnfolds
  <2>2. Found(<<>>, Root, "dir") \in Layer(f, 0)
    BY <2>1, LayersHold
  <2>3. ASSUME NEW x \in Layer(f, 0) PROVE x = Found(<<>>, Root, "dir")
    <3>1. x \in [path : Seq(Name), no : Inode, kind : {"dir", "file"}]
      BY DEF Layer
    <3>2. x.path \in Seq(Name) /\ Len(x.path) <= 0 /\ Len(x.path) \in Nat
      BY <3>1, LenProperties DEF Layer
    <3>3. x.path = <<>>
      BY <3>2, EmptySeq
    <3>4. Leads(f, <<>>, x.no, x.kind)
      BY <3>3 DEF Layer
    <3>5. x.no = Root /\ x.kind = "dir"
      BY <3>4, LeadsUnfolds
    <3>6. x = Found(x.path, x.no, x.kind)
      BY <3>1 DEF Found
    <3> QED BY <3>3, <3>5, <3>6
  <2> QED BY <2>2, <2>3
<1>2. ASSUME NEW n \in Nat, n # 0 PROVE Layer(f, n) = Deeper(f, Layer(f, n - 1), n)
  <2>1. n - 1 \in Nat /\ n - 1 <= n
    BY <1>2
  <2>2. ASSUME NEW z \in Deeper(f, Layer(f, n - 1), n) PROVE z \in Layer(f, n)
    <3>1. CASE z \in Layer(f, n - 1)
      <4>1. z.path \in Seq(Name) /\ Len(z.path) <= n - 1 /\ Len(z.path) \in Nat
        BY <3>1, LenProperties DEF Layer
      <4>2. Len(z.path) <= n
        BY <2>1, <4>1
      <4> QED BY <3>1, <4>2 DEF Layer
    <3>2. CASE z \notin Layer(f, n - 1)
      <4>1. PICK x \in Layer(f, n - 1) : x.kind = "dir" /\ Len(x.path) = n - 1 /\ z \in Under(f, x)
        BY <3>2 DEF Deeper
      <4>2. x.path \in Seq(Name) /\ Leads(f, x.path, x.no, "dir")
        BY <4>1 DEF Layer
      <4>3. PICK e \in DiskEntries(f, x.no) :
                e.name \in Name /\ z = Found(Append(x.path, e.name), e.no, e.kind)
        BY <4>1 DEF Under, Found
      <4>4. x.no \in DirsOnDisk(f)
        BY <4>2, LeadsAreTyped
      <4>5. Linked(f, x.no, e)
        BY <4>3, <4>4, LinksAreOnDisk
      <4>6. Append(x.path, e.name) \in Seq(Name) /\ Len(Append(x.path, e.name)) = Len(x.path) + 1
        BY <4>2, <4>3, AppendProperties
      <4>7. Leads(f, Append(x.path, e.name), e.no, e.kind)
        BY <4>2, <4>3, <4>5, LeadsUnfolds
      <4>8. Len(Append(x.path, e.name)) <= n
        BY <2>1, <4>1, <4>6
      <4> QED BY <4>3, <4>6, <4>7, <4>8, LayersHold
    <3> QED BY <3>1, <3>2
  <2>3. ASSUME NEW z \in Layer(f, n) PROVE z \in Deeper(f, Layer(f, n - 1), n)
    <3>1. /\ z.path \in Seq(Name) /\ Len(z.path) <= n /\ Len(z.path) \in Nat
          /\ Leads(f, z.path, z.no, z.kind)
      BY LenProperties DEF Layer
    <3>2. z = Found(z.path, z.no, z.kind)
      BY DEF Layer, Found
    <3>3. CASE Len(z.path) <= n - 1
      BY <3>3 DEF Layer, Deeper
    <3>4. CASE ~(Len(z.path) <= n - 1)
      <4>1. Len(z.path) = n /\ Len(z.path) # 0
        BY <1>2, <3>1, <3>4
      <4>2. z.path # <<>>
        BY <4>1, EmptySeq
      <4>3. PICK p \in Seq(Name), y \in Name : z.path = Append(p, y)
        BY <3>1, <4>2, SequenceEmptyOrAppend
      <4>4. PICK d, e : /\ Leads(f, p, d, "dir") /\ Linked(f, d, e)
                        /\ e.name = y /\ e.no = z.no /\ e.kind = z.kind
        BY <3>1, <4>3, LeadsUnfolds
      <4>5. d \in DirsOnDisk(f) /\ e.name \in Name
        BY <4>4, LinksAre
      <4>6. e \in DiskEntries(f, d)
        BY <4>4, <4>5, LinksAreOnDisk
      <4>7. Len(p) \in Nat /\ Len(z.path) = Len(p) + 1
        BY <4>3, AppendProperties, LenProperties
      <4>8. Len(p) = n - 1
        BY <4>1, <4>7
      <4> DEFINE x == Found(p, d, "dir")
      <4>9. x \in Layer(f, n - 1)
        BY <2>1, <4>4, <4>8, LayersHold
      <4>10. x.path = p /\ x.no = d /\ x.kind = "dir"
        BY DEF Found
      <4> HIDE DEF x
      <4>11. z \in Under(f, x)
        BY <3>2, <4>3, <4>4, <4>5, <4>6, <4>10 DEF Under, Found
      <4> QED BY <4>8, <4>9, <4>10, <4>11 DEF Deeper
    <3> QED BY <3>3, <3>4
  <2> QED BY <2>2, <2>3
<1> QED BY <1>1, <1>2

(* The paths that lead somewhere, no longer than the model's bound.         *)
Paths(f) == {p \in Path : \E no, kind : Leads(f, p, no, kind)}

LEMMA TreeIs ==
    ASSUME NEW f, NEW spare, Sound(f, {}, spare)
    PROVE  TreeOn(f) = [p \in Paths(f) |-> Walked(f, p).kind]
<1> DEFINE IsUpTo(u) == u = [n \in 0..MaxDepth |->
                IF n = 0 THEN {Found(<<>>, Root, "dir")} ELSE Deeper(f, u[n - 1], n)]
           layers == [n \in 0..MaxDepth |-> Layer(f, n)]
           upTo == CHOOSE u : IsUpTo(u)
<1>1. MaxDepth \in Nat
  BY ShellAssumption
<1>2. \E u : IsUpTo(u)
  <2>1. \A n \in 0..MaxDepth : layers[n] =
            IF n = 0 THEN {Found(<<>>, Root, "dir")} ELSE Deeper(f, layers[n - 1], n)
    <3> TAKE n \in 0..MaxDepth
    <3>1. CASE n = 0
      BY <3>1, LayersGrow
    <3>2. CASE n # 0
      <4>1. n \in Nat /\ n - 1 \in 0..MaxDepth
        BY <1>1, <3>2
      <4>2. layers[n] = Layer(f, n) /\ layers[n - 1] = Layer(f, n - 1)
        BY <4>1
      <4> HIDE DEF layers
      <4>3. Layer(f, n) = Deeper(f, Layer(f, n - 1), n)
        BY <3>2, <4>1, LayersGrow
      <4> QED BY <3>2, <4>2, <4>3
    <3> QED BY <3>1, <3>2
  <2>2. layers = [n \in 0..MaxDepth |-> layers[n]]
    OBVIOUS
  <2> HIDE DEF layers
  <2>3. IsUpTo(layers)
    BY <2>1, <2>2
  <2> QED BY <2>3
<1>3. IsUpTo(upTo)
  BY <1>2
<1> HIDE DEF upTo
<1>4. upTo[MaxDepth] = Layer(f, MaxDepth)
  <2> DEFINE S == {n \in Nat : n <= MaxDepth => upTo[n] = Layer(f, n)}
  <2>1. 0 \in S
    <3>1. 0 \in 0..MaxDepth
      BY <1>1
    <3>2. upTo[0] = {Found(<<>>, Root, "dir")}
      BY <1>3, <3>1
    <3> QED BY <3>2, LayersGrow
  <2>2. ASSUME NEW n \in S PROVE n + 1 \in S
    <3>1. SUFFICES ASSUME n + 1 <= MaxDepth PROVE upTo[n + 1] = Layer(f, n + 1)
      OBVIOUS
    <3>2. n \in Nat /\ upTo[n] = Layer(f, n)
      BY <1>1, <3>1
    <3>3. n + 1 \in 0..MaxDepth /\ n + 1 \in Nat /\ n + 1 # 0 /\ (n + 1) - 1 = n
      BY <1>1, <3>1, <3>2
    <3>4. upTo[n + 1] = Deeper(f, upTo[n], n + 1)
      BY <1>3, <3>3
    <3>5. Layer(f, n + 1) = Deeper(f, Layer(f, n), n + 1)
      BY <3>3, LayersGrow
    <3> QED BY <3>2, <3>4, <3>5
  <2>3. S \subseteq Nat
    OBVIOUS
  <2> HIDE DEF S
  <2>4. S = Nat
    BY <2>1, <2>2, <2>3, AllNaturals
  <2>5. MaxDepth \in S
    BY <1>1, <2>4
  <2> QED BY <1>1, <2>5 DEF S
<1> DEFINE nodes == Layer(f, MaxDepth)
<1>5. TreeOn(f) = [p \in {x.path : x \in nodes} |-> (CHOOSE x \in nodes : x.path = p).kind]
  <2>1. TreeOn(f) = [p \in {x.path : x \in upTo[MaxDepth]} |->
                        (CHOOSE x \in upTo[MaxDepth] : x.path = p).kind]
    BY DEF TreeOn, upTo, Found
  <2> QED BY <1>4, <2>1
<1>6. ASSUME NEW p PROVE p \in Path <=> p \in Seq(Name) /\ Len(p) <= MaxDepth
  <2>1. ASSUME p \in Path PROVE p \in Seq(Name) /\ Len(p) <= MaxDepth
    <3>1. PICK n \in 0..MaxDepth : p \in [1..n -> Name]
      BY <2>1 DEF Path
    <3>2. n \in Nat /\ n <= MaxDepth
      BY <1>1
    <3>3. p \in Seq(Name) /\ Len(p) = n
      BY <3>1, <3>2, LenProperties, SeqDef
    <3> QED BY <3>2, <3>3
  <2>2. ASSUME p \in Seq(Name), Len(p) <= MaxDepth PROVE p \in Path
    <3>1. Len(p) \in Nat /\ p \in [1..Len(p) -> Name]
      BY <2>2, LenProperties
    <3>2. Len(p) \in 0..MaxDepth
      BY <1>1, <2>2, <3>1
    <3> QED BY <3>1, <3>2 DEF Path
  <2> QED BY <2>1, <2>2
<1>7. {x.path : x \in nodes} = Paths(f)
  <2>1. ASSUME NEW x \in nodes PROVE x.path \in Paths(f)
    <3>1. x.path \in Seq(Name) /\ Len(x.path) <= MaxDepth /\ Leads(f, x.path, x.no, x.kind)
      BY DEF Layer
    <3> QED BY <1>6, <3>1 DEF Paths
  <2>2. ASSUME NEW p \in Paths(f) PROVE \E x \in nodes : p = x.path
    <3>1. p \in Path /\ \E no, kind : Leads(f, p, no, kind)
      BY DEF Paths
    <3>2. PICK no, kind : Leads(f, p, no, kind)
      BY <3>1
    <3>3. Found(p, no, kind) \in nodes
      BY <1>1, <1>6, <3>1, <3>2, LayersHold
    <3>4. Found(p, no, kind).path = p
      BY DEF Found
    <3> QED BY <3>3, <3>4
  <2> HIDE DEF nodes
  <2> QED BY <2>1, <2>2
<1>8. ASSUME NEW p \in Paths(f) PROVE (CHOOSE x \in nodes : x.path = p).kind = Walked(f, p).kind
  <2> DEFINE c == CHOOSE x \in nodes : x.path = p
  <2>1. \E x \in nodes : x.path = p
    BY <1>7
  <2>2. c \in nodes /\ c.path = p
    BY <2>1
  <2> HIDE DEF c
  <2>3. Leads(f, p, c.no, c.kind)
    BY <2>2 DEF Layer
  <2>4. c.kind = Walked(f, p).kind
    BY <2>3 DEF Leads
  <2> QED BY <2>4 DEF c
<1> HIDE DEF nodes
<1> QED BY <1>5, <1>7, <1>8

LEMMA SameTree ==
    ASSUME NEW f, NEW spare, Sound(f, {}, spare), NEW g, NEW left, Sound(g, {}, left),
           \A c, x : Linked(g, c, x) <=> Linked(f, c, x)
    PROVE  TreeOn(g) = TreeOn(f)
<1>1. \A p \in Seq(Name) : \A no, kind : Leads(g, p, no, kind) <=> Leads(f, p, no, kind)
  BY SamePaths
<1>2. Path \subseteq Seq(Name)
  BY RootIsPath
<1>3. Paths(g) = Paths(f)
  BY <1>1, <1>2 DEF Paths
<1>4. ASSUME NEW p \in Paths(f) PROVE Walked(g, p).kind = Walked(f, p).kind
  <2>1. PICK no, kind : Leads(f, p, no, kind)
    BY DEF Paths
  <2>2. Leads(g, p, no, kind)
    BY <1>1, <1>2, <2>1 DEF Paths
  <2> QED BY <2>1, <2>2 DEF Leads
<1> QED BY <1>3, <1>4, TreeIs

LEMMA TreeHas ==
    ASSUME NEW f, NEW spare, Sound(f, {}, spare)
    PROVE  /\ DOMAIN TreeOn(f) = Paths(f)
           /\ TreeOn(f) = [p \in DOMAIN TreeOn(f) |-> TreeOn(f)[p]]
           /\ \A p \in Path : \A no, kind : Leads(f, p, no, kind) =>
                 p \in DOMAIN TreeOn(f) /\ TreeOn(f)[p] = kind
           /\ \A p \in DOMAIN TreeOn(f) : p \in Path /\ \E no : Leads(f, p, no, TreeOn(f)[p])
<1>1. TreeOn(f) = [p \in Paths(f) |-> Walked(f, p).kind]
  BY TreeIs
<1>2. ASSUME NEW p \in Path, NEW no, NEW kind, Leads(f, p, no, kind)
      PROVE  p \in DOMAIN TreeOn(f) /\ TreeOn(f)[p] = kind
  <2>1. p \in Paths(f) /\ Walked(f, p).kind = kind
    BY <1>2 DEF Paths, Leads
  <2> QED BY <1>1, <2>1
<1>3. ASSUME NEW p \in DOMAIN TreeOn(f) PROVE p \in Path /\ \E no : Leads(f, p, no, TreeOn(f)[p])
  <2>1. p \in Paths(f) /\ TreeOn(f)[p] = Walked(f, p).kind
    BY <1>1
  <2>2. PICK no, kind : Leads(f, p, no, kind)
    BY <2>1 DEF Paths
  <2>3. kind = TreeOn(f)[p]
    BY <2>1, <2>2 DEF Leads
  <2> QED BY <2>1, <2>2, <2>3 DEF Paths
<1>4. TreeOn(f) = [p \in DOMAIN TreeOn(f) |-> TreeOn(f)[p]]
  BY <1>1
<1> QED BY <1>1, <1>2, <1>3, <1>4

(* What g has more than f is the entry e of d, and nothing is named in what *)
(* e names.                                                                 *)
OneMore(f, g, d, e) ==
    /\ Linked(g, d, e)
    /\ \A c, x : Linked(g, c, x) <=> Linked(f, c, x) \/ (c = d /\ x = e)
    /\ \A x : ~Linked(g, e.no, x)
    /\ \A c, x : Linked(f, c, x) => x.no # e.no

Plus(t, p, kind) == [q \in DOMAIN t \cup {p} |-> IF q = p THEN kind ELSE t[q]]
Minus(t, p) == [q \in DOMAIN t \ {p} |-> t[q]]

(* p is the path of e, which is new in the directory d of path P.          *)
Extends(f, g, P, d, e, p) ==
    /\ P \in Seq(Name) /\ p \in Path /\ p = Append(P, e.name)
    /\ Leads(f, P, d, "dir") /\ OneMore(f, g, d, e)

Grown(f, g, p, e) ==
    /\ p \notin DOMAIN TreeOn(f) /\ p \in DOMAIN TreeOn(g) /\ TreeOn(g)[p] = e.kind
    /\ TreeOn(g) = Plus(TreeOn(f), p, e.kind)
    /\ TreeOn(f) = Minus(TreeOn(g), p)
    /\ \A q \in Seq(Name) : \A no, kind : Leads(f, q, no, kind) => Leads(g, q, no, kind)
    /\ \A q \in Seq(Name) : \A no, kind : Leads(g, q, no, kind) => Leads(f, q, no, kind) \/ q = p
    /\ Leads(g, p, e.no, e.kind)

LEMMA OneMoreInTree ==
    ASSUME NEW f, NEW spare, Sound(f, {}, spare), NEW g, NEW left, Sound(g, {}, left),
           NEW P, NEW d, NEW e, NEW p, Extends(f, g, P, d, e, p)
    PROVE  Grown(f, g, p, e)
<1>0. /\ P \in Seq(Name) /\ p \in Path /\ p = Append(P, e.name)
      /\ Leads(f, P, d, "dir") /\ OneMore(f, g, d, e)
  BY DEF Extends
<1>1. \A q \in Seq(Name) : \A no, kind :
         Leads(g, q, no, kind) <=> \/ Leads(f, q, no, kind)
                                   \/ q = p /\ no = e.no /\ kind = e.kind
  <2>1. /\ P \in Seq(Name) /\ Leads(f, P, d, "dir") /\ Linked(g, d, e)
        /\ \A c, x : Linked(g, c, x) <=> Linked(f, c, x) \/ (c = d /\ x = e)
        /\ \A x : ~Linked(g, e.no, x)
    BY <1>0 DEF OneMore
  <2>2. \A q \in Seq(Name) : \A no, kind :
           Leads(g, q, no, kind) <=> \/ Leads(f, q, no, kind)
                                     \/ q = Append(P, e.name) /\ no = e.no /\ kind = e.kind
    BY ONLY Sound(f, {}, spare), Sound(g, {}, left), <2>1, OneMorePath
  <2> QED BY ONLY <1>0, <2>2
<1>2. Path \subseteq Seq(Name) /\ p \in Seq(Name) /\ e.name \in Name
  BY <1>0, RootIsPath, LinksAre DEF OneMore
<1>3. Leads(g, p, e.no, e.kind)
  BY <1>1, <1>2
<1>4. ASSUME NEW no, NEW kind, Leads(f, p, no, kind) PROVE FALSE
  <2>1. Leads(g, p, no, kind)
    BY <1>1, <1>2, <1>4
  <2>2. no = e.no
    BY <1>3, <2>1 DEF Leads
  <2>3. PICK c, x : Linked(f, c, x) /\ x.no = no
    BY <1>0, <1>2, <1>4, LeadsUnfolds
  <2> QED BY <1>0, <2>2, <2>3 DEF OneMore
<1>5. p \notin DOMAIN TreeOn(f)
  BY <1>0, <1>4, TreeHas
<1>6. p \in DOMAIN TreeOn(g) /\ TreeOn(g)[p] = e.kind
  BY <1>0, <1>3, TreeHas
<1>7. ASSUME NEW q \in DOMAIN TreeOn(f) PROVE q \in DOMAIN TreeOn(g) /\ TreeOn(g)[q] = TreeOn(f)[q]
  <2>1. q \in Path /\ \E no : Leads(f, q, no, TreeOn(f)[q])
    BY TreeHas
  <2>2. PICK no : Leads(f, q, no, TreeOn(f)[q])
    BY <2>1
  <2>3. Leads(g, q, no, TreeOn(f)[q])
    BY <1>1, <1>2, <2>1, <2>2
  <2> QED BY <2>1, <2>3, TreeHas
<1>8. ASSUME NEW q \in DOMAIN TreeOn(g), q # p PROVE q \in DOMAIN TreeOn(f)
  <2>1. q \in Path /\ \E no : Leads(g, q, no, TreeOn(g)[q])
    BY TreeHas
  <2>2. PICK no : Leads(g, q, no, TreeOn(g)[q])
    BY <2>1
  <2>3. Leads(f, q, no, TreeOn(g)[q])
    BY <1>1, <1>2, <1>8, <2>1, <2>2
  <2> QED BY <2>1, <2>3, TreeHas
<1> DEFINE s == TreeOn(f)
           t == TreeOn(g)
<1>9. s = [q \in DOMAIN s |-> s[q]] /\ t = [q \in DOMAIN t |-> t[q]]
  BY TreeHas
<1> HIDE DEF s, t
<1>10. DOMAIN t = DOMAIN s \cup {p} /\ DOMAIN s = DOMAIN t \ {p}
  BY <1>5, <1>6, <1>7, <1>8 DEF s, t
<1>11. /\ \A q \in DOMAIN t : t[q] = IF q = p THEN e.kind ELSE s[q]
       /\ \A q \in DOMAIN s : s[q] = t[q]
  BY <1>6, <1>7, <1>10 DEF s, t
<1>12. t = Plus(s, p, e.kind)
  BY <1>9, <1>10, <1>11 DEF Plus
<1>13. s = Minus(t, p)
  BY <1>9, <1>10, <1>11 DEF Minus
<1> QED BY <1>1, <1>3, <1>5, <1>6, <1>12, <1>13 DEF s, t, Grown

(* What the search of the kernel says of the tree.                          *)
LEMMA SearchTells ==
    ASSUME NEW f, NEW spare, Sound(f, {}, spare), NEW p \in Path,
           NEW r, r = search_file(f, p), NEW t, t = TreeOn(f)
    PROVE  /\ r.kind = "dir" <=> p \in DOMAIN t /\ t[p] = "dir"
           /\ r.kind = "dir" <=> Leads(f, p, r.no, "dir")
           /\ p \in DOMAIN t /\ t[p] = "file" <=> Leads(f, p, r.no, "file")
           /\ p \in DOMAIN t => t[p] \in {"dir", "file"}
           /\ \A no, kind : Leads(f, p, no, kind) => no = r.no /\ kind = r.kind
<1>1. p \in Seq(Name) /\ p \in Seq(Word) /\ r = Walked(f, p)
  <2>1. p \in Seq(Name) /\ p \in Seq(Word)
    BY RootIsPath
  <2> QED BY <2>1, SearchIsWalked
<1>2. \A no, kind : Leads(f, p, no, kind) => no = r.no /\ kind = r.kind
  BY <1>1 DEF Leads
<1>3. r.kind = "dir" => Leads(f, p, r.no, "dir")
  BY <1>1, WalkedDepth DEF Leads
<1>4. \A kind : Leads(f, p, r.no, kind) => p \in DOMAIN t /\ t[p] = kind
  BY TreeHas
<1>5. p \in DOMAIN t => Leads(f, p, r.no, t[p]) /\ t[p] = r.kind
  <2>1. p \in DOMAIN t => \E no : Leads(f, p, no, t[p])
    BY TreeHas
  <2> QED BY <1>2, <2>1
<1>6. \A kind : Leads(f, p, r.no, kind) => kind \in {"dir", "file"}
  BY DEF Leads
<1> QED BY <1>2, <1>3, <1>4, <1>5, <1>6

(* No path of a sound disk is longer than the longest that a call is given. *)
Bounded(f) == \A p \in Seq(Name) : \A no, kind : Leads(f, p, no, kind) => p \in Path

LEMMA ChildrenAre ==
    ASSUME NEW f, NEW spare, Sound(f, {}, spare), Bounded(f),
           NEW p \in Path, NEW d, Leads(f, p, d, "dir")
    PROVE  {q \in DOMAIN TreeOn(f) : Len(q) = Len(p) + 1 /\ Front(q) = p}
              = {Append(p, e.name) : e \in {x \in DirEntry : Linked(f, d, x)}}
<1>1. p \in Seq(Name)
  BY RootIsPath
<1>2. ASSUME NEW q \in DOMAIN TreeOn(f), Len(q) = Len(p) + 1, Front(q) = p
      PROVE  \E e \in {x \in DirEntry : Linked(f, d, x)} : q = Append(p, e.name)
  <2>1. q \in Path /\ \E no : Leads(f, q, no, TreeOn(f)[q])
    BY TreeHas
  <2>2. PICK no : Leads(f, q, no, TreeOn(f)[q])
    BY <2>1
  <2>3. q \in Seq(Name) /\ q # <<>>
    <3>1. Len(p) \in Nat /\ q \in Seq(Name)
      BY <1>1, <2>1, LenProperties, RootIsPath
    <3>2. Len(q) # 0
      BY <1>2, <3>1
    <3> QED BY <3>1, <3>2, EmptySeq
  <2>4. PICK u \in Seq(Name), y \in Name : q = Append(u, y)
    BY <2>3, SequenceEmptyOrAppend
  <2>5. u = p
    BY <1>2, <2>4, FrontOfAppend
  <2>6. PICK c, e : Leads(f, p, c, "dir") /\ Linked(f, c, e) /\ e.name = y
    BY <2>2, <2>4, <2>5, LeadsUnfolds
  <2>7. c = d
    BY <2>6 DEF Leads
  <2>8. e \in DirEntry
    BY <2>6, LinksAre
  <2> QED BY <2>4, <2>5, <2>6, <2>7, <2>8
<1>3. ASSUME NEW e \in {x \in DirEntry : Linked(f, d, x)}
      PROVE  /\ Append(p, e.name) \in DOMAIN TreeOn(f)
             /\ Len(Append(p, e.name)) = Len(p) + 1 /\ Front(Append(p, e.name)) = p
  <2>1. e.name \in Name
    BY LinksAre
  <2>2. Append(p, e.name) \in Seq(Name) /\ Len(Append(p, e.name)) = Len(p) + 1
    BY <1>1, <2>1, AppendProperties
  <2>3. Leads(f, Append(p, e.name), e.no, e.kind)
    BY <1>1, <2>1, LeadsUnfolds
  <2>4. Append(p, e.name) \in Path
    BY <2>2, <2>3 DEF Bounded
  <2> QED BY <1>1, <2>1, <2>2, <2>3, <2>4, TreeHas, FrontOfAppend
<1> QED BY <1>2, <1>3

---------------------------------------------------------------------------
(* What the small changes do to the links                                  *)

Like(f, g, d) ==
    /\ HoldsDir(g, d) <=> HoldsDir(f, d)
    /\ \A k : BlockOf(g, d, k) = BlockOf(f, d, k)
    /\ Namings(g, d) = Namings(f, d)
    /\ \A s \in Namings(f, d) : Slot(g, d, s) = Slot(f, d, s)

Bare(f, d) == Namings(f, d) = {} /\ \A k \in 1..Direct - 1 : BlockOf(f, d, k) = 0

LEMMA UntouchedIsLike ==
    ASSUME NEW f, NEW g, NEW d, Untouched(f, g, d)
    PROVE  Like(f, g, d)
<1>1. \A s \in Namings(f, d) : s \in Live(f, d)
  BY DEF Namings
<1> QED BY <1>1, UntouchedLooks DEF Like

LEMMA LinksStay ==
    ASSUME NEW f, NEW g,
           \A d \in DirsOnDisk(f) : \/ d \in DirsOnDisk(g) /\ Like(f, g, d)
                                    \/ d \notin DirsOnDisk(g) /\ Namings(f, d) = {},
           \A d \in DirsOnDisk(g) : d \in DirsOnDisk(f) \/ Bare(g, d)
    PROVE  /\ \A c, x : Linked(g, c, x) <=> Linked(f, c, x)
           /\ BlocksAreUsed(f) => BlocksAreUsed(g)
           /\ NoHoles(f) => NoHoles(g)
<1>1. ASSUME NEW c, NEW x PROVE Linked(g, c, x) <=> Linked(f, c, x)
  <2>1. ASSUME Linked(g, c, x) PROVE Linked(f, c, x)
    <3>1. PICK s \in Namings(g, c) : Slot(g, c, s) = x
      BY <2>1 DEF Linked
    <3>2. c \in DirsOnDisk(g)
      BY <2>1 DEF Linked
    <3>3. c \in DirsOnDisk(f) /\ Like(f, g, c)
      BY <3>1, <3>2 DEF Bare
    <3> QED BY <3>1, <3>3 DEF Linked, Like
  <2>2. ASSUME Linked(f, c, x) PROVE Linked(g, c, x)
    <3>1. PICK s \in Namings(f, c) : Slot(f, c, s) = x
      BY <2>2 DEF Linked
    <3>2. c \in DirsOnDisk(f)
      BY <2>2 DEF Linked
    <3>3. c \in DirsOnDisk(g) /\ Like(f, g, c)
      BY <3>1, <3>2
    <3> QED BY <3>1, <3>3 DEF Linked, Like
  <2> QED BY <2>1, <2>2
<1>2. ASSUME BlocksAreUsed(f), NEW d \in DirsOnDisk(g), NEW k \in 1..Direct - 1, BlockOf(g, d, k) # 0
      PROVE  \E s \in Namings(g, d) : s[1] = k
  <2>1. d \in DirsOnDisk(f) /\ Like(f, g, d)
    BY <1>2 DEF Bare
  <2>2. BlockOf(f, d, k) # 0
    BY <1>2, <2>1 DEF Like
  <2>3. \E s \in Namings(f, d) : s[1] = k
    BY <1>2, <2>1, <2>2 DEF BlocksAreUsed
  <2> QED BY <2>1, <2>3 DEF Like
<1>3. ASSUME NoHoles(f), NEW d \in DirsOnDisk(g), NEW k \in 1..Direct - 1, BlockOf(g, d, k) # 0
      PROVE  BlockOf(g, d, k - 1) # 0
  <2>1. d \in DirsOnDisk(f) /\ Like(f, g, d)
    BY <1>3 DEF Bare
  <2>2. BlockOf(f, d, k) # 0
    BY <1>3, <2>1 DEF Like
  <2>3. BlockOf(f, d, k - 1) # 0
    BY <1>3, <2>1, <2>2 DEF NoHoles
  <2> QED BY <2>1, <2>3 DEF Like
<1> QED BY <1>1, <1>2, <1>3 DEF BlocksAreUsed, NoHoles

(* Nothing but files and what is not yet an inode changes.                  *)
LEMMA SameLinks ==
    ASSUME NEW f, NEW g, g.ibits = f.ibits,
           \A no \in f.ibits : Untouched(f, g, no) \/ (~HoldsDir(f, no) /\ ~HoldsDir(g, no))
    PROVE  /\ \A c, x : Linked(g, c, x) <=> Linked(f, c, x)
           /\ BlocksAreUsed(f) => BlocksAreUsed(g)
           /\ NoHoles(f) => NoHoles(g)
<1>1. \A d \in DirsOnDisk(f) : d \in DirsOnDisk(g) /\ Like(f, g, d)
  BY UntouchedIsLike DEF DirsOnDisk, Like
<1>2. \A d \in DirsOnDisk(g) : d \in DirsOnDisk(f)
  BY UntouchedIsLike DEF DirsOnDisk, Like
<1> QED BY <1>1, <1>2, LinksStay

LEMMA BornLinks ==
    ASSUME NEW f \in FileSystem, NEW g, NEW no \in Inode \ f.ibits, NEW node \in Node, Birth(f, g, no, node),
           HoldsDir(g, no) => Namings(g, no) = {}, \A k \in 1..Direct - 1 : node.sec[k] = 0
    PROVE  /\ \A c, x : Linked(g, c, x) <=> Linked(f, c, x)
           /\ BlocksAreUsed(f) => BlocksAreUsed(g)
           /\ NoHoles(f) => NoHoles(g)
<1>1. /\ \A m \in f.ibits : Untouched(f, g, m)
      /\ \A k : BlockOf(g, no, k) = node.sec[k]
      /\ g.ibits = f.ibits \cup {no}
  BY BirthIsAlone DEF Birth
<1>2. \A d \in DirsOnDisk(f) : d \in DirsOnDisk(g) /\ Like(f, g, d)
  BY <1>1, UntouchedIsLike DEF DirsOnDisk, Like
<1>3. ASSUME NEW d \in DirsOnDisk(g) PROVE d \in DirsOnDisk(f) \/ Bare(g, d)
  <2>1. d \in g.ibits /\ HoldsDir(g, d)
    BY DEF DirsOnDisk
  <2>2. CASE d = no
    BY <1>1, <2>1, <2>2 DEF Bare
  <2>3. CASE d \in f.ibits
    BY <1>1, <2>1, <2>3, UntouchedIsLike DEF DirsOnDisk, Like
  <2> QED BY <1>1, <2>1, <2>2, <2>3
<1> QED BY <1>2, <1>3, LinksStay

LEMMA PutLinks ==
    ASSUME NEW f, NEW orphans, NEW spare, Sound(f, orphans, spare), NEW g \in FileSystem,
           NEW d \in DirsOnDisk(f),
           NEW s \in Slots, NEW b \in Block, NEW e, e.name \in Name, Put(f, g, d, s, b, e)
    PROVE  /\ Linked(g, d, e)
           /\ \A c, x : Linked(g, c, x) <=> Linked(f, c, x) \/ (c = d /\ x = e)
           /\ BlocksAreUsed(f) => BlocksAreUsed(g)
           /\ NoHoles(f) => NoHoles(g)
<1>1. f \in FileSystem /\ BlocksAreOwned(f, spare) /\ DirsFormTree(f, orphans)
  BY DEF Sound
<1>2. d \in f.ibits /\ HoldsDir(f, d) /\ EntriesFit(f, d)
  BY <1>1 DEF DirsOnDisk, DirsFormTree
<1>3. /\ s[1] \in 0..Direct - 1 /\ b # 0
      /\ \A k \in 0..Direct - 1 : BlockOf(g, d, k) = IF k = s[1] THEN b ELSE BlockOf(f, d, k)
  BY <1>1, <1>2, PutBlocks
<1>4. \A m \in f.ibits : m # d => Like(f, g, m)
  BY <1>1, <1>2, PutOwners, UntouchedIsLike
<1>5. /\ s \in Live(g, d) /\ Slot(g, d, s) = e /\ s \notin Namings(f, d)
      /\ \A t \in Live(f, d) : t # s => t \in Live(g, d) /\ Slot(g, d, t) = Slot(f, d, t)
      /\ Namings(g, d) = Namings(f, d) \cup {s}
      /\ HoldsDir(g, d)
  BY <1>1, <1>2, PutSlots
<1>6. g.ibits = f.ibits
  BY DEF Put
<1>7. DirsOnDisk(g) = DirsOnDisk(f)
  BY <1>2, <1>4, <1>5, <1>6 DEF DirsOnDisk, Like
<1>8. \A t \in Namings(f, d) : Slot(g, d, t) = Slot(f, d, t)
  BY <1>5 DEF Namings
<1>9. Linked(g, d, e)
  BY <1>5, <1>7 DEF Linked
<1>10. ASSUME NEW c, NEW x PROVE Linked(g, c, x) <=> Linked(f, c, x) \/ (c = d /\ x = e)
  <2>1. CASE c = d
    <3>1. Linked(g, d, x) => Linked(f, d, x) \/ x = e
      BY <1>5, <1>8 DEF Linked
    <3>2. Linked(f, d, x) => Linked(g, d, x)
      BY <1>5, <1>7, <1>8 DEF Linked
    <3> QED BY <1>9, <2>1, <3>1, <3>2
  <2>2. CASE c # d
    <3>1. c \in DirsOnDisk(f) => Like(f, g, c)
      BY <1>4, <2>2 DEF DirsOnDisk
    <3> QED BY <1>7, <2>2, <3>1 DEF Linked, Like
  <2> QED BY <2>1, <2>2
<1>11. ASSUME NEW k \in 0..Direct - 1, BlockOf(g, d, k) = 0 PROVE BlockOf(f, d, k) = 0 /\ k # s[1]
  BY <1>3, <1>11
<1>12. ASSUME BlocksAreUsed(f), NEW c \in DirsOnDisk(g), NEW k \in 1..Direct - 1, BlockOf(g, c, k) # 0
       PROVE  \E t \in Namings(g, c) : t[1] = k
  <2>1. CASE c # d
    <3>1. Like(f, g, c) /\ c \in DirsOnDisk(f)
      BY <1>4, <1>7, <2>1 DEF DirsOnDisk
    <3>2. \E t \in Namings(f, c) : t[1] = k
      BY <1>12, <3>1 DEF BlocksAreUsed, Like
    <3> QED BY <3>1, <3>2 DEF Like
  <2>2. CASE c = d /\ k = s[1]
    BY <1>5, <2>2
  <2>3. CASE c = d /\ k # s[1]
    <3>1. k \in 0..Direct - 1
      OBVIOUS
    <3>2. BlockOf(f, d, k) # 0
      BY <1>3, <1>12, <2>3, <3>1
    <3>3. \E t \in Namings(f, d) : t[1] = k
      BY <1>12, <3>2 DEF BlocksAreUsed
    <3> QED BY <1>5, <2>3, <3>3
  <2> QED BY <2>1, <2>2, <2>3
<1>13. ASSUME NoHoles(f), NEW c \in DirsOnDisk(g), NEW k \in 1..Direct - 1, BlockOf(g, c, k) # 0
       PROVE  BlockOf(g, c, k - 1) # 0
  <2>1. CASE c # d
    <3>1. Like(f, g, c) /\ c \in DirsOnDisk(f)
      BY <1>4, <1>7, <2>1 DEF DirsOnDisk
    <3> QED BY <1>13, <3>1 DEF NoHoles, Like
  <2>2. CASE c = d
    <3>1. k \in 0..Direct - 1 /\ k - 1 \in 0..Direct - 1
      BY Sizes
    <3>2. CASE BlockOf(f, d, k) # 0
      <4>1. BlockOf(f, d, k - 1) # 0
        BY <1>13, <3>2 DEF NoHoles
      <4> QED BY <1>11, <2>2, <3>1, <4>1
    <3>3. CASE BlockOf(f, d, k) = 0
      <4>1. k = s[1]
        BY <1>3, <1>13, <2>2, <3>1, <3>3
      <4>2. \A j \in 0..s[1] - 1 : BlockOf(f, d, j) # 0
        <5>1. BlockOf(f, d, s[1]) # b
          BY <1>3, <3>3, <4>1
        <5> QED BY <5>1 DEF Put
      <4>3. k - 1 \in 0..s[1] - 1
        BY <4>1
      <4>4. BlockOf(f, d, k - 1) # 0
        BY <4>2, <4>3
      <4> QED BY <1>11, <2>2, <3>1, <4>4
    <3> QED BY <3>2, <3>3
  <2> QED BY <2>1, <2>2
<1> QED BY <1>9, <1>10, <1>12, <1>13 DEF BlocksAreUsed, NoHoles

LEMMA DropLinks ==
    ASSUME NEW f, NEW orphans, NEW spare, Sound(f, orphans, spare), NEW g \in FileSystem,
           NEW d \in DirsOnDisk(f), NEW s \in Namings(f, d), Drop(f, g, d, s),
           NEW e, e = Slot(f, d, s)
    PROVE  /\ Linked(f, d, e)
           /\ \A c, x : Linked(f, c, x) <=> Linked(g, c, x) \/ (c = d /\ x = e)
           /\ \A c, x : Linked(g, c, x) => x.no # e.no
           /\ BlocksAreUsed(f) => BlocksAreUsed(g)
<1>1. f \in FileSystem /\ BlocksAreOwned(f, spare) /\ DirsFormTree(f, orphans)
  BY DEF Sound
<1>2. d \in f.ibits /\ d \in Inode /\ HoldsDir(f, d) /\ EntriesFit(f, d)
  BY <1>1, Parts DEF DirsOnDisk, DirsFormTree
<1>3. /\ \A m \in f.ibits : m # d => Like(f, g, m)
      /\ <<0, 1>> \in Live(g, d) /\ Slot(g, d, <<0, 1>>) = Slot(f, d, <<0, 1>>)
      /\ \A t \in Live(g, d) : t \in Live(f, d) /\ (t # s => Slot(g, d, t) = Slot(f, d, t))
      /\ Namings(g, d) = Namings(f, d) \ {s}
  BY DropLooks, UntouchedIsLike
<1>4. g.ibits = f.ibits
  BY DEF Drop
<1>5. HoldsDir(g, d)
  BY <1>2, <1>3 DEF HoldsDir, Live
<1>6. DirsOnDisk(g) = DirsOnDisk(f)
  BY <1>2, <1>3, <1>4, <1>5 DEF DirsOnDisk, Like
<1>7. \A t \in Namings(g, d) : Slot(g, d, t) = Slot(f, d, t)
  BY <1>3 DEF Namings
<1>8. Linked(f, d, e)
  BY DEF Linked
<1>9. ASSUME NEW c, NEW x PROVE Linked(f, c, x) <=> Linked(g, c, x) \/ (c = d /\ x = e)
  <2>1. CASE c = d
    <3>1. Linked(g, d, x) => Linked(f, d, x)
      BY <1>3, <1>7 DEF Linked
    <3>2. Linked(f, d, x) => Linked(g, d, x) \/ x = e
      BY <1>3, <1>6, <1>7 DEF Linked
    <3> QED BY <1>8, <2>1, <3>1, <3>2
  <2>2. CASE c # d
    <3>1. c \in DirsOnDisk(f) => Like(f, g, c)
      BY <1>3, <2>2 DEF DirsOnDisk
    <3> QED BY <1>6, <2>2, <3>1 DEF Linked, Like
  <2> QED BY <2>1, <2>2
<1>10. ASSUME NEW c, NEW x, Linked(g, c, x), x.no = e.no PROVE FALSE
  <2>1. c = d /\ x = e
    BY <1>8, <1>9, <1>10, LinksAre
  <2>2. PICK t \in Namings(g, d) : Slot(g, d, t) = e
    BY <1>10, <2>1 DEF Linked
  <2>3. t \in Namings(f, d) /\ t # s /\ Slot(f, d, t) = e
    BY <1>3, <1>7, <2>2
  <2>4. t = s
    BY <1>1, <2>3 DEF DirsFormTree
  <2> QED BY <2>3, <2>4
<1>11. ASSUME BlocksAreUsed(f), NEW c \in DirsOnDisk(g), NEW k \in 1..Direct - 1, BlockOf(g, c, k) # 0
       PROVE  \E t \in Namings(g, c) : t[1] = k
  <2>1. CASE c # d
    <3>1. Like(f, g, c) /\ c \in DirsOnDisk(f)
      BY <1>3, <1>6, <2>1 DEF DirsOnDisk
    <3>2. \E t \in Namings(f, c) : t[1] = k
      BY <1>11, <3>1 DEF BlocksAreUsed, Like
    <3> QED BY <3>1, <3>2 DEF Like
  <2>2. CASE c = d
    <3>1. s[1] \in 0..Direct - 1 /\ k \in 0..Direct - 1 /\ k # 0
      BY <1>1, <1>2, SlotsAreTyped DEF Namings
    <3>2. f.disk[d].sec \in [0..Direct - 1 -> 0..Blocks + 1]
      BY <1>1, <1>2, Parts DEF Node
    <3>3. BlockOf(g, d, k) = f.disk[d].sec[k]
          /\ (k = s[1] => \E t \in Namings(f, d) : t # s /\ t[1] = s[1])
      <4>1. CASE g.disk[d].sec = f.disk[d].sec
                 /\ (s[1] = 0 \/ \E t \in Namings(f, d) : t # s /\ t[1] = s[1])
        BY <3>1, <4>1 DEF BlockOf
      <4>2. CASE g.disk[d].sec = [f.disk[d].sec EXCEPT ![s[1]] = 0]
        BY <1>11, <2>2, <3>1, <3>2, <4>2 DEF BlockOf
      <4> QED BY <4>1, <4>2 DEF Drop
    <3>4. PICK t \in Namings(f, d) : t[1] = k
      <4>1. BlockOf(f, d, k) # 0
        BY <1>11, <2>2, <3>3 DEF BlockOf
      <4> QED BY <1>11, <4>1 DEF BlocksAreUsed
    <3>5. \E u \in Namings(f, d) : u # s /\ u[1] = k
      BY <3>3, <3>4
    <3> QED BY <1>3, <2>2, <3>5
  <2> QED BY <2>1, <2>2
<1> QED BY <1>8, <1>9, <1>10, <1>11 DEF BlocksAreUsed

---------------------------------------------------------------------------
(* What a call does to the links                                           *)

SameLinked(f, g) == \A c, x : Linked(g, c, x) <=> Linked(f, c, x)

KeepsBlocks(f, g) == (BlocksAreUsed(f) => BlocksAreUsed(g)) /\ (NoHoles(f) => NoHoles(g))

LEMMA OrphanLinks ==
    ASSUME NEW f, NEW spare, NEW no, Sound(f, {no}, spare), HoldsDir(f, no) => Namings(f, no) = {}
    PROVE  SameLinked(f, inode_release(f, no)) /\ KeepsBlocks(f, inode_release(f, no))
<1> DEFINE g == inode_release(f, no)
<1>1. f \in FileSystem /\ CacheIsCurrent(f) /\ no \in f.ibits /\ f.ibits \subseteq Inode
  BY Parts DEF Sound, DirsFormTree
<1>2. /\ g.ibits = f.ibits \ {no} /\ g.disk = [f.disk EXCEPT ![no] = inode_init]
      /\ g.data = f.data
  BY <1>1, ReleasedIs
<1> HIDE DEF g
<1>3. \A m \in g.ibits : Untouched(f, g, m)
  BY <1>1, <1>2, Parts DEF Untouched
<1>4. ASSUME NEW d \in DirsOnDisk(f)
      PROVE  \/ d \in DirsOnDisk(g) /\ Like(f, g, d)
             \/ d \notin DirsOnDisk(g) /\ Namings(f, d) = {}
  <2>1. d \in f.ibits /\ HoldsDir(f, d)
    BY DEF DirsOnDisk
  <2>2. CASE d = no
    BY <1>2, <2>1, <2>2 DEF DirsOnDisk
  <2>3. CASE d # no
    <3>1. d \in g.ibits
      BY <1>2, <2>1, <2>3
    <3>2. Like(f, g, d)
      BY <1>3, <3>1, UntouchedIsLike
    <3> QED BY <2>1, <3>1, <3>2 DEF DirsOnDisk, Like
  <2> QED BY <2>2, <2>3
<1>5. ASSUME NEW d \in DirsOnDisk(g) PROVE d \in DirsOnDisk(f)
  <2>1. d \in g.ibits /\ HoldsDir(g, d) /\ Like(f, g, d)
    BY <1>3, UntouchedIsLike DEF DirsOnDisk
  <2> QED BY <1>2, <2>1 DEF DirsOnDisk, Like
<1>6. /\ \A c, x : Linked(g, c, x) <=> Linked(f, c, x)
      /\ BlocksAreUsed(f) => BlocksAreUsed(g)
      /\ NoHoles(f) => NoHoles(g)
  BY <1>4, <1>5, LinksStay
<1> QED BY <1>6 DEF SameLinked, KeepsBlocks, g

(* An entry and what it names go.                                          *)
LEMMA RemoveLinks ==
    ASSUME NEW f, NEW spare, Sound(f, {}, spare), NEW d, NEW e, Linked(f, d, e),
           HoldsDir(f, e.no) => Namings(f, e.no) = {},
           NEW g, g = inode_release(delete_dir_entry(f, d, e.no), e.no)
    PROVE  OneMore(g, f, d, e) /\ (BlocksAreUsed(f) => BlocksAreUsed(g))
<1> DEFINE no == e.no
           h == delete_dir_entry(f, d, no)
<1>1. d \in DirsOnDisk(f) /\ \E s \in Namings(f, d) : Slot(f, d, s) = e
  BY DEF Linked
<1>2. PICK s \in Namings(f, d) : Slot(f, d, s) = e
  BY <1>1
<1>3. h \in FileSystem /\ Drop(f, h, d, s)
  BY <1>1, <1>2, EntryIsDropped
<1>4. g = inode_release(h, no)
  OBVIOUS
<1> HIDE DEF h
<1>5. /\ Sound(h, {no}, spare)
      /\ \A m \in f.ibits : m # d => Untouched(f, h, m)
      /\ \A m \in f.ibits : SameHead(f, h, m)
      /\ no \in f.ibits
  <2>1. /\ Sound(h, {Slot(f, d, s).no}, spare)
        /\ Slot(f, d, s).no \in f.ibits \ {Root}
        /\ \A m \in f.ibits : m # d => Untouched(f, h, m)
        /\ \A m \in f.ibits : SameHead(f, h, m)
    BY <1>1, <1>3, DropTree
  <2> QED BY <1>2, <2>1
<1>6. HoldsDir(h, no) => Namings(h, no) = {}
  <2> SUFFICES ASSUME HoldsDir(h, no) PROVE Namings(h, no) = {}
    OBVIOUS
  <2>1. HoldsDir(f, no)
    BY <1>5 DEF SameHead
  <2>2. Namings(f, no) = {} /\ no # d
    BY <1>2, <2>1
  <2> QED BY <1>5, <2>2, UntouchedLooks
<1>7. SameLinked(h, g) /\ KeepsBlocks(h, g)
  BY <1>4, <1>5, <1>6, OrphanLinks
<1>8. /\ Linked(f, d, e)
      /\ \A c, x : Linked(f, c, x) <=> Linked(h, c, x) \/ (c = d /\ x = e)
      /\ \A c, x : Linked(h, c, x) => x.no # e.no
      /\ BlocksAreUsed(f) => BlocksAreUsed(h)
  BY <1>1, <1>2, <1>3, DropLinks
<1>9. \A x : ~Linked(f, no, x)
  BY DEF Linked, DirsOnDisk
<1> QED BY <1>7, <1>8, <1>9 DEF OneMore, SameLinked, KeepsBlocks

(* An inode is made and entered.                                           *)
LEMMA EntryLinks ==
    ASSUME NEW f, NEW spare, Sound(f, {}, spare),
           NEW no \in Located \ f.ibits, NEW node \in Node, NEW left, Sound(Enroll(f, no, node), {no}, left),
           \A k \in 1..Direct - 1 : node.sec[k] = 0,
           HoldsDir(Enroll(f, no, node), no) => Namings(Enroll(f, no, node), no) = {},
           NEW d \in DirsOnDisk(f), NEW h \in FileSystem,
           NEW s \in Slots, NEW b \in Block, NEW e, Put(f, h, d, s, b, e),
           e.name \in Name, e.no = no,
           NEW g, g = Enroll(h, no, node)
    PROVE  OneMore(f, g, d, e) /\ KeepsBlocks(f, g)
<1> DEFINE born == Enroll(f, no, node)
<1>0. no \in Inode \ f.ibits
  BY LocatedOnes
<1>1. f \in FileSystem
  BY DEF Sound
<1>2. d \in f.ibits /\ d \in Inode /\ no # d /\ HoldsDir(f, d)
  BY <1>1, Parts DEF DirsOnDisk
<1>3. Birth(f, born, no, node) /\ born \in FileSystem /\ g \in FileSystem
  BY <1>1, Enrolled
<1>4. Put(born, g, d, s, b, e)
  BY <1>1, <1>2, EntryThenInode
<1>5. Sound(born, {no}, left) /\ (HoldsDir(born, no) => Namings(born, no) = {})
  OBVIOUS
<1> HIDE DEF born
<1>6. /\ \A c, x : Linked(born, c, x) <=> Linked(f, c, x)
      /\ BlocksAreUsed(f) => BlocksAreUsed(born)
      /\ NoHoles(f) => NoHoles(born)
  BY <1>0, <1>1, <1>3, <1>5, BornLinks
<1>7. d \in DirsOnDisk(born)
  <2>1. Untouched(f, born, d)
    BY <1>0, <1>1, <1>2, <1>3, BirthIsAlone
  <2>2. HoldsDir(born, d) /\ d \in born.ibits
    BY <1>2, <1>3, <2>1, UntouchedLooks DEF Birth
  <2> QED BY <2>2 DEF DirsOnDisk
<1>8. /\ Linked(g, d, e)
      /\ \A c, x : Linked(g, c, x) <=> Linked(born, c, x) \/ (c = d /\ x = e)
      /\ BlocksAreUsed(born) => BlocksAreUsed(g)
      /\ NoHoles(born) => NoHoles(g)
  BY <1>3, <1>4, <1>5, <1>7, PutLinks
<1>9. \A x : ~Linked(f, no, x)
  BY DEF Linked, DirsOnDisk
<1>10. \A c, x : Linked(f, c, x) => x.no # e.no
  <2> SUFFICES ASSUME NEW c, NEW x, Linked(f, c, x) PROVE x.no # e.no
    OBVIOUS
  <2>1. x.no \in f.ibits
    BY LinksAre
  <2> QED BY <2>1
<1> QED BY <1>2, <1>6, <1>8, <1>9, <1>10 DEF OneMore, KeepsBlocks

---------------------------------------------------------------------------
(* The last name of a path, and the directory it is looked up in            *)

LEMMA LastName ==
    ASSUME NEW f, NEW spare, Sound(f, {}, spare), NEW path \in Path, path # <<>>
    PROVE  /\ Front(path) \in Path /\ Last(path) \in Name
           /\ path = Append(Front(path), Last(path))
           /\ Len(path) = Len(Front(path)) + 1
           /\ Front(path) = SubSeq(path, 1, Len(path) - 1)
           /\ search_file(f, Front(path)) = Walked(f, Front(path))
           /\ search_file(f, path) = Descend(f, search_file(f, Front(path)), Last(path))
<1>1. path \in Seq(Name) /\ Len(path) \in Nat /\ Len(path) # 0
  BY PathsAreSequences, EmptySeq
<1>2. PICK n \in 0..MaxDepth : path \in [1..n -> Name]
  BY DEF Path
<1>3. Len(path) = n /\ n \in Nat /\ MaxDepth \in Nat
  <2>1. n \in Nat /\ MaxDepth \in Nat
    <3>1. MaxDepth \in Nat
      BY ShellAssumption
    <3> QED BY ONLY <3>1, n \in 0..MaxDepth
  <2>2. 1..n = 1..Len(path)
    BY <1>1, <1>2, LenProperties
  <2>3. Len(path) = n
    BY ONLY <1>1, <2>1, <2>2
  <2> QED BY <2>1, <2>3
<1>4. PICK u \in Seq(Name), y \in Name : path = Append(u, y)
  BY <1>1, SequenceEmptyOrAppend
<1>5. Front(path) = u /\ Last(path) = y
  BY <1>4, FrontOfAppend
<1>6. Len(path) = Len(u) + 1 /\ Len(u) \in Nat
  BY <1>4, AppendProperties, LenProperties
<1>7. u \in Path
  <2>1. u \in [1..Len(u) -> Name] /\ Len(u) \in 0..MaxDepth
    BY <1>3, <1>6, LenProperties
  <2> QED BY <2>1 DEF Path
<1>8. Front(path) = SubSeq(path, 1, Len(path) - 1)
  BY DEF Front
<1>9. u \in Seq(Word) /\ path \in Seq(Word)
  BY <1>1, RootIsPath
<1>10. search_file(f, u) = Walked(f, u) /\ search_file(f, path) = Walked(f, path)
  BY <1>1, <1>9, SearchIsWalked
<1>11. Walked(f, path) = Descend(f, Walked(f, u), y)
  BY <1>4, WalkedUnfolds
<1> QED BY <1>4, <1>5, <1>6, <1>7, <1>8, <1>10, <1>11

(* What a search finds with all names used is the entry of its last name.   *)
LEMMA SearchEnds ==
    ASSUME NEW f, NEW spare, Sound(f, {}, spare), NEW path \in Path, path # <<>>,
           NEW r, r = search_file(f, path), search_file(f, Front(path)).kind # "file"
    PROVE  /\ r.kind \in {"dir", "file"} =>
                 /\ Leads(f, Front(path), r.dir, "dir")
                 /\ Leads(f, path, r.no, r.kind)
                 /\ \E e : /\ Linked(f, r.dir, e)
                           /\ e.name = Last(path) /\ e.no = r.no /\ e.kind = r.kind
           /\ r.kind \notin {"dir", "file"} => \A no, kind : ~Leads(f, path, no, kind)
<1> DEFINE P == Front(path)
           w == Walked(f, P)
<1>1. /\ P \in Path /\ Last(path) \in Name /\ path = Append(P, Last(path))
      /\ search_file(f, P) = w /\ r = Descend(f, w, Last(path))
  BY LastName
<1>2. P \in Seq(Name) /\ path \in Seq(Name) /\ path \in Seq(Word)
  BY <1>1, RootIsPath
<1>3. r = Walked(f, path)
  BY <1>2, SearchIsWalked
<1>4. w.kind = "dir" => Leads(f, P, w.no, "dir") /\ r.dir = w.no /\ r.depth = Len(path)
  <2> SUFFICES ASSUME w.kind = "dir" PROVE Leads(f, P, w.no, "dir") /\ r.dir = w.no /\ r.depth = Len(path)
    OBVIOUS
  <2>1. w.depth = Len(P) /\ w.depth \in Nat
    BY <1>2, WalkedDepth
  <2>2. r.dir = w.no /\ r.depth = w.depth + 1
    BY <1>1, DescendIs
  <2>3. Len(path) = Len(P) + 1
    BY <1>1, <1>2, AppendProperties
  <2> QED BY <2>1, <2>2, <2>3 DEF Leads
<1>5. w.kind # "dir" => r.kind \notin {"dir", "file"} /\ r = w
  BY <1>1, DescendIs, <1>2, WalkedIs, RootIsPath DEF WalkedFits
<1> HIDE DEF w
<1>6. ASSUME r.kind \in {"dir", "file"}
      PROVE  /\ Leads(f, P, r.dir, "dir") /\ Leads(f, path, r.no, r.kind)
             /\ \E e : /\ Linked(f, r.dir, e)
                       /\ e.name = Last(path) /\ e.no = r.no /\ e.kind = r.kind
  <2>1. Leads(f, P, r.dir, "dir") /\ r.depth = Len(path)
    BY <1>4, <1>5, <1>6
  <2>2. Leads(f, path, r.no, r.kind)
    BY <1>3, <1>6, <2>1 DEF Leads
  <2>3. PICK d, e : /\ Leads(f, P, d, "dir") /\ Linked(f, d, e)
                    /\ e.name = Last(path) /\ e.no = r.no /\ e.kind = r.kind
    <3>1. Leads(f, Append(P, Last(path)), r.no, r.kind)
      BY <1>1, <2>2
    <3> HIDE DEF P
    <3> QED BY <1>1, <1>2, <3>1, LeadsUnfolds
  <2>4. d = r.dir
    BY <2>1, <2>3 DEF Leads
  <2> QED BY <2>1, <2>2, <2>3, <2>4
<1>7. ASSUME r.kind \notin {"dir", "file"}, NEW no, NEW kind, Leads(f, path, no, kind) PROVE FALSE
  BY <1>3, <1>7 DEF Leads
<1> QED BY <1>6, <1>7

(* The directory a new name goes to.                                       *)
LEMMA NewNameGoes ==
    ASSUME NEW f, NEW spare, Sound(f, {}, spare), NEW path \in Path,
           NEW r, r = search_file(f, path), IsNew(r, path)
    PROVE  path # <<>> /\ Leads(f, Front(path), r.dir, "dir")
<1>1. r.no = -1 /\ r.depth = Len(path)
  BY DEF IsNew, NotFound
<1>2. path # <<>>
  <2> SUFFICES ASSUME path = <<>> PROVE FALSE
    OBVIOUS
  <2>1. r = Start
    BY DEF search_file
  <2> QED BY <1>1, <2>1, StartIs DEF Root
<1> DEFINE P == Front(path)
           w == Walked(f, P)
<1>3. /\ P \in Path /\ Last(path) \in Name /\ Len(path) = Len(P) + 1
      /\ r = Descend(f, w, Last(path))
  BY <1>2, LastName
<1>4. P \in Seq(Name)
  BY <1>3, RootIsPath
<1>5. w.depth \in Nat /\ w.depth <= Len(P) /\ Len(P) \in Nat /\ (w.kind = "dir" => w.depth = Len(P))
  BY <1>4, WalkedDepth, LenProperties
<1>6. w.kind = "dir"
  <2> SUFFICES ASSUME w.kind # "dir" PROVE FALSE
    OBVIOUS
  <2>1. r = w
    BY <1>3, DescendIs
  <2> HIDE DEF w, P
  <2>2. w.depth = Len(P) + 1
    BY <1>1, <1>3, <2>1
  <2> QED BY <1>5, <2>2
<1>7. r.dir = w.no
  BY <1>3, <1>6, DescendIs
<1> QED BY <1>2, <1>5, <1>6, <1>7 DEF Leads

---------------------------------------------------------------------------
(* What each call does to the links                                        *)

Entered(f, g, d, name, kind) ==
    \E e : e.name = name /\ e.kind = kind /\ OneMore(f, g, d, e)

LEMMA MkdirLinks ==
    ASSUME NEW f, Sound(f, {}, f.lost), NEW no \in Located \ f.ibits, f.cnt[no] = 0,
           NEW b \in Block \ f.bbits, NEW d \in DirsOnDisk(f), NEW name \in Name,
           NEW entered, entered = sync_dir_entry(Begun(f, no, b, d), d, Entry(name, no, "dir"))
    PROVE  /\ entered.ok \in BOOLEAN
           /\ entered.ok =>
                 /\ Entered(f, Enroll(entered.fs, no, DirNode(b)), d, name, "dir")
                 /\ KeepsBlocks(f, Enroll(entered.fs, no, DirNode(b)))
           /\ ~entered.ok =>
                 /\ SameLinked(f, [Begun(f, no, b, d) EXCEPT !.lost = @ \cup {b}])
                 /\ KeepsBlocks(f, [Begun(f, no, b, d) EXCEPT !.lost = @ \cup {b}])
<1> DEFINE begun == Begun(f, no, b, d)
           e == Entry(name, no, "dir")
<1>1. f \in FileSystem /\ CacheIsCurrent(f) /\ BlocksAreOwned(f, f.lost)
  BY DEF Sound
<1>2. d \in f.ibits /\ d \in Inode /\ HoldsDir(f, d)
  BY <1>1, Parts DEF DirsOnDisk
<1>3. /\ begun \in FileSystem /\ Sound(begun, {}, f.lost \cup {b})
      /\ begun.ibits = f.ibits /\ begun.cnt = f.cnt
      /\ begun.data[b] = FirstSector(no, d) /\ Untouched(f, begun, d)
  BY BegunIs, LocatedOnes
<1>4. e \in DirEntry /\ e.name = name /\ e.no = no /\ e.kind = "dir"
  <2>1. name \in Name \cup {".", "..", "", "bytes"} /\ no \in Inode /\ "dir" \in {"dir", "file", "unknown"}
    BY LocatedOnes
  <2>2. e \in DirEntry
    BY <2>1, EntriesAreTyped
  <2> QED BY <2>2, EntryIs
<1>5. CacheIsCurrent(begun) /\ d \in begun.ibits
  BY <1>2, <1>3 DEF Sound
<1>6. SameLinked(f, begun) /\ KeepsBlocks(f, begun)
  <2>1. begun.disk = f.disk /\ begun.data = [f.data EXCEPT ![b] = FirstSector(no, d)]
    <3>1. TakeBlock(f, b) \in FileSystem /\ TakeBlock(f, b).disk = f.disk /\ TakeBlock(f, b).data = f.data
      BY <1>1, Taken
    <3> DEFINE t == TakeBlock(f, b)
    <3> HIDE DEF t
    <3>2. begun = [t EXCEPT !.data[b] = FirstSector(no, d)]
      BY DEF Begun, t
    <3>3. t \in FileSystem /\ t.disk = f.disk /\ t.data = f.data
      BY <3>1 DEF t
    <3> HIDE DEF begun
    <3> QED BY <3>2, <3>3 DEF FileSystem
  <2> HIDE DEF begun
  <2>2. \A m \in f.ibits, k \in 0..Direct - 1 : BlockOf(f, m, k) # 0 => BlockOf(f, m, k) # b
    BY <1>1 DEF BlocksAreOwned
  <2>3. \A m \in f.ibits, k \in 0..Direct - 1 :
           BlockOf(f, m, k) # 0 => BlockOf(f, m, k) \in Block
    BY <1>1, Parts, BlocksAreTyped
  <2>4. f.data \in [Block -> [1..PerSector -> DirEntry]]
    BY <1>1, Parts
  <2>5. \A m \in f.ibits : Untouched(f, begun, m)
    BY <2>1, <2>2, <2>3, <2>4 DEF Untouched
  <2> QED BY <1>3, <2>5, SameLinks DEF SameLinked, KeepsBlocks
<1> HIDE DEF begun, e
<1>7. entered = sync_dir_entry(begun, d, e)
  BY DEF begun, e
<1>8. entered.ok \in BOOLEAN
  <2>1. sync_dir_entry(begun, d, e).ok \in BOOLEAN
    BY ONLY <1>3, <1>4, <1>5, EntryIsPut
  <2> QED BY <1>7, <2>1
<1>9. ASSUME entered.ok
      PROVE  /\ Entered(f, Enroll(entered.fs, no, DirNode(b)), d, name, "dir")
             /\ KeepsBlocks(f, Enroll(entered.fs, no, DirNode(b)))
  <2>1. /\ entered.fs \in FileSystem
        /\ \E s \in Slots, c \in Block : Put(begun, entered.fs, d, s, c, e)
    <3>1. sync_dir_entry(begun, d, e).ok
      BY <1>7, <1>9
    <3>2. /\ sync_dir_entry(begun, d, e).fs \in FileSystem
          /\ \E s \in Slots, c \in Block : Put(begun, sync_dir_entry(begun, d, e).fs, d, s, c, e)
      BY ONLY <1>3, <1>4, <1>5, <3>1, EntryIsPut
    <3> QED BY <1>7, <3>2
  <2>2. PICK s \in Slots, c \in Block : Put(begun, entered.fs, d, s, c, e)
    BY <2>1
  <2>3. b \in f.lost \cup {b} /\ no \in Located \ begun.ibits /\ no \in Inode \ begun.ibits
        /\ begun.cnt[no] = 0
    BY <1>3, LocatedOnes
  <2>4. DirNode(b) \in Node /\ \A k \in 1..Direct - 1 : DirNode(b).sec[k] = 0
    <3>1. DirNode(b) \in Node /\ \A k \in 0..Direct - 1 : DirNode(b).sec[k] = IF k = 0 THEN b ELSE 0
      BY NodesAreTyped
    <3> QED BY <3>1
  <2>5. /\ Enroll(begun, no, DirNode(b)) \in FileSystem
        /\ Birth(begun, Enroll(begun, no, DirNode(b)), no, DirNode(b))
    BY <1>3, <2>4, Enrolled
  <2>6. Sound(Enroll(begun, no, DirNode(b)), {no}, (f.lost \cup {b}) \ {b})
    BY <1>2, <1>3, <2>3, <2>5, DirIsBorn
  <2>7. Namings(Enroll(begun, no, DirNode(b)), no) = {}
    <3> DEFINE born == Enroll(begun, no, DirNode(b))
    <3>0. Birth(begun, born, no, DirNode(b))
      BY <2>5
    <3> HIDE DEF born
    <3>a. begun \in FileSystem
      BY <1>3
    <3>b. no \in Inode \ begun.ibits
      BY <2>3
    <3>c. DirNode(b) \in Node
      BY <2>4
    <3>1. /\ \A k : BlockOf(born, no, k) = DirNode(b).sec[k]
          /\ born.disk[no] = DirNode(b)
      BY ONLY <3>0, <3>a, <3>b, <3>c, BirthIsAlone
    <3>2. /\ \A k \in 0..Direct - 1 : BlockOf(born, no, k) = IF k = 0 THEN b ELSE 0
          /\ born.disk[no].size = 2
      BY <3>1, NodesAreTyped
    <3>3. born.data[b] = FirstSector(no, d)
      BY <1>3, <3>0 DEF Birth
    <3>4. Namings(born, no) = {}
      BY <1>2, <3>b, <3>2, <3>3, FreshDirectory
    <3> QED BY <3>4 DEF born
  <2>8. d \in DirsOnDisk(begun)
    BY <1>2, <1>3, <1>5, UntouchedLooks DEF DirsOnDisk
  <2> DEFINE g == Enroll(entered.fs, no, DirNode(b))
  <2>9. OneMore(begun, g, d, e) /\ KeepsBlocks(begun, g)
    BY <1>3, <1>4, <2>1, <2>2, <2>3, <2>4, <2>6, <2>7, <2>8, EntryLinks
  <2> HIDE DEF g
  <2>10. OneMore(f, g, d, e) /\ KeepsBlocks(f, g)
    BY <1>6, <2>9 DEF OneMore, SameLinked, KeepsBlocks
  <2> QED BY <1>4, <2>10 DEF Entered, g
<1>10. ASSUME ~entered.ok
      PROVE  /\ SameLinked(f, [begun EXCEPT !.lost = @ \cup {b}])
             /\ KeepsBlocks(f, [begun EXCEPT !.lost = @ \cup {b}])
  <2> DEFINE g == [begun EXCEPT !.lost = @ \cup {b}]
  <2>1. g.ibits = begun.ibits /\ g.disk = begun.disk /\ g.data = begun.data
    BY <1>3 DEF FileSystem
  <2> HIDE DEF g
  <2>2. \A m \in begun.ibits : Untouched(begun, g, m)
    BY <2>1 DEF Untouched
  <2>3. SameLinked(begun, g) /\ KeepsBlocks(begun, g)
    BY <2>1, <2>2, SameLinks DEF SameLinked, KeepsBlocks
  <2>4. SameLinked(f, g) /\ KeepsBlocks(f, g)
    BY <1>6, <2>3 DEF SameLinked, KeepsBlocks
  <2> QED BY <2>4 DEF g
<1> QED BY <1>8, <1>9, <1>10 DEF begun

LEMMA CreateLinks ==
    ASSUME NEW f, Sound(f, {}, f.lost), NEW no \in Located \ f.ibits, f.cnt[no] = 0,
           NEW d \in DirsOnDisk(f), NEW name \in Name,
           NEW entered, entered = sync_dir_entry(f, d, Entry(name, no, "file"))
    PROVE  /\ entered.ok \in BOOLEAN
           /\ entered.ok =>
                 /\ Entered(f, Enroll(entered.fs, no, inode_init), d, name, "file")
                 /\ KeepsBlocks(f, Enroll(entered.fs, no, inode_init))
<1> DEFINE e == Entry(name, no, "file")
           born == Enroll(f, no, inode_init)
<1>0. no \in Inode \ f.ibits
  BY LocatedOnes
<1>1. f \in FileSystem /\ CacheIsCurrent(f) /\ inode_init \in Node
  BY NodesAreTyped DEF Sound
<1>2. d \in f.ibits /\ d \in Inode
  BY <1>1, Parts DEF DirsOnDisk
<1>3. e \in DirEntry /\ e.name = name /\ e.no = no /\ e.kind = "file"
  <2>1. name \in Name \cup {".", "..", "", "bytes"} /\ no \in Inode /\ "file" \in {"dir", "file", "unknown"}
    BY LocatedOnes
  <2>2. e \in DirEntry
    BY <2>1, EntriesAreTyped
  <2> QED BY <2>2, EntryIs
<1>4. entered = sync_dir_entry(f, d, e)
  OBVIOUS
<1> HIDE DEF e
<1>5. entered.ok \in BOOLEAN
  <2>1. sync_dir_entry(f, d, e).ok \in BOOLEAN
    BY ONLY <1>1, <1>2, <1>3, EntryIsPut
  <2> QED BY <1>4, <2>1
<1>6. ASSUME entered.ok
      PROVE  /\ Entered(f, Enroll(entered.fs, no, inode_init), d, name, "file")
             /\ KeepsBlocks(f, Enroll(entered.fs, no, inode_init))
  <2>1. /\ entered.fs \in FileSystem
        /\ \E s \in Slots, c \in Block : Put(f, entered.fs, d, s, c, e)
    <3>1. sync_dir_entry(f, d, e).ok
      BY <1>4, <1>6
    <3>2. /\ sync_dir_entry(f, d, e).fs \in FileSystem
          /\ \E s \in Slots, c \in Block : Put(f, sync_dir_entry(f, d, e).fs, d, s, c, e)
      BY ONLY <1>1, <1>2, <1>3, <3>1, EntryIsPut
    <3> QED BY <1>4, <3>2
  <2>2. PICK s \in Slots, c \in Block : Put(f, entered.fs, d, s, c, e)
    BY <2>1
  <2>3. born \in FileSystem /\ Birth(f, born, no, inode_init)
    BY <1>1, Enrolled
  <2> HIDE DEF born
  <2>4. Sound(born, {no}, f.lost) /\ ~HoldsDir(born, no)
    BY <1>0, <2>3, FileIsBorn
  <2>5. /\ Sound(Enroll(f, no, inode_init), {no}, f.lost)
        /\ ~HoldsDir(Enroll(f, no, inode_init), no)
    BY <2>4 DEF born
  <2>6. \A k \in 1..Direct - 1 : inode_init.sec[k] = 0
    <3>1. \A k \in 0..Direct - 1 : inode_init.sec[k] = 0
      BY NodesAreTyped
    <3> QED BY <3>1
  <2> DEFINE g == Enroll(entered.fs, no, inode_init)
  <2>7. OneMore(f, g, d, e) /\ KeepsBlocks(f, g)
    BY <1>1, <1>3, <2>1, <2>2, <2>5, <2>6, EntryLinks
  <2> HIDE DEF g
  <2> QED BY <1>3, <2>7 DEF Entered, g
<1> QED BY <1>5, <1>6

LEMMA Itself ==
    ASSUME NEW f
    PROVE  SameLinked(f, f) /\ KeepsBlocks(f, f)
BY DEF SameLinked, KeepsBlocks

(* A call that makes something enters it at its path, or changes no link.  *)
Makes(f, path, kind, c) ==
    /\ c.stops = FALSE /\ KeepsBlocks(f, c.fs)
    /\ \/ /\ c.ok = TRUE /\ path # <<>>
          /\ \E d : Leads(f, Front(path), d, "dir") /\ Entered(f, c.fs, d, Last(path), kind)
       \/ c.ok = FALSE /\ SameLinked(f, c.fs)

LEMMA MkdirMakes ==
    ASSUME NEW f, Sound(f, {}, f.lost), NEW path \in Path,
           FreshNumber(f)
    PROVE  Makes(f, path, "dir", sys_mkdir(f, path))
<1> DEFINE r == search_file(f, path)
           no == Min(FreeInodes(f))
           b == Min(FreeBlocks(f))
           begun == [TakeBlock(f, b) EXCEPT !.data[b] = FirstSector(no, r.dir)]
           entered == sync_dir_entry(begun, r.dir, Entry(Last(path), no, "dir"))
           given_up == [begun EXCEPT !.lost = @ \cup {b}]
           made == [inode_sync(entered.fs, no, DirNode(b))
                       EXCEPT !.ibits = @ \cup {no}, !.dibits = @ \cup {no}]
<1>1. sys_mkdir(f, path) =
         IF ~IsNew(r, path) \/ FreeInodes(f) = {} \/ FreeBlocks(f) = {} THEN Refuse(f)
         ELSE IF ~entered.ok THEN Refuse(given_up)
         ELSE Result(TRUE, made)
  BY DEF sys_mkdir
<1>2. /\ begun = Begun(f, no, b, r.dir)
      /\ made = Enroll(entered.fs, no, DirNode(b))
  <2> HIDE DEF entered
  <2> QED BY DEF Begun, Enroll
<1>3. \A h : /\ Refuse(h).fs = h /\ Refuse(h).ok = FALSE /\ Refuse(h).stops = FALSE
             /\ Result(TRUE, h).fs = h /\ Result(TRUE, h).ok = TRUE /\ Result(TRUE, h).stops = FALSE
  BY DEF Refuse, Result
<1> HIDE DEF r, no, b, made
<1>4. CASE ~IsNew(r, path) \/ FreeInodes(f) = {} \/ FreeBlocks(f) = {}
  <2> HIDE DEF entered, given_up
  <2>1. sys_mkdir(f, path) = Refuse(f)
    BY <1>1, <1>4
  <2> QED BY <1>3, <2>1, Itself DEF Makes
<1>5. CASE ~(~IsNew(r, path) \/ FreeInodes(f) = {} \/ FreeBlocks(f) = {})
  <2>1. r.dir \in DirsOnDisk(f) /\ Last(path) \in Name
    BY <1>5, NewNames DEF r
  <2>2. path # <<>> /\ Leads(f, Front(path), r.dir, "dir")
    BY <1>5, NewNameGoes DEF r
  <2>3. no \in Located \ f.ibits /\ b \in Block \ f.bbits /\ f.cnt[no] = 0
    BY <1>5, FreeOnes DEF no, b, FreshNumber
  <2>4. entered = sync_dir_entry(Begun(f, no, b, r.dir), r.dir, Entry(Last(path), no, "dir"))
    BY <1>2
  <2>5. given_up = [Begun(f, no, b, r.dir) EXCEPT !.lost = @ \cup {b}]
    BY <1>2
  <2> HIDE DEF entered, begun, given_up
  <2>6. /\ entered.ok \in BOOLEAN
        /\ entered.ok =>
              /\ Entered(f, Enroll(entered.fs, no, DirNode(b)), r.dir, Last(path), "dir")
              /\ KeepsBlocks(f, Enroll(entered.fs, no, DirNode(b)))
        /\ ~entered.ok =>
              /\ SameLinked(f, [Begun(f, no, b, r.dir) EXCEPT !.lost = @ \cup {b}])
              /\ KeepsBlocks(f, [Begun(f, no, b, r.dir) EXCEPT !.lost = @ \cup {b}])
    BY <2>1, <2>3, <2>4, MkdirLinks
  <2>7. /\ entered.ok => Entered(f, made, r.dir, Last(path), "dir") /\ KeepsBlocks(f, made)
        /\ ~entered.ok => SameLinked(f, given_up) /\ KeepsBlocks(f, given_up)
    BY <1>2, <2>3, <2>5, <2>6
  <2>8. CASE entered.ok
    <3>1. sys_mkdir(f, path) = Result(TRUE, made)
      BY <1>1, <1>5, <2>8
    <3> QED BY <1>3, <2>2, <2>7, <2>8, <3>1 DEF Makes
  <2>9. CASE ~entered.ok
    <3>1. sys_mkdir(f, path) = Refuse(given_up)
      BY <1>1, <1>5, <2>9
    <3> QED BY <1>3, <2>7, <2>9, <3>1 DEF Makes
  <2> QED BY <2>8, <2>9
<1> QED BY <1>4, <1>5

LEMMA CreateMakes ==
    ASSUME NEW f, Sound(f, {}, f.lost), NEW path \in Path,
           FreshNumber(f)
    PROVE  Makes(f, path, "file", create_file(f, path))
<1> DEFINE r == search_file(f, path)
           no == Min(FreeInodes(f))
           entered == sync_dir_entry(f, r.dir, Entry(Last(path), no, "file"))
           made == [inode_sync(entered.fs, no, inode_init)
                       EXCEPT !.ibits = @ \cup {no}, !.dibits = @ \cup {no}]
           b == Min(FreeBlocks(made))
           node == [inode_init EXCEPT !.size = 1, !.sec[0] = b]
           full == [inode_sync(TakeBlock(made, b), no, node) EXCEPT !.data[b] = FileBytes]
<1>1. create_file(f, path) =
         IF ~IsNew(r, path) \/ FreeInodes(f) = {} \/ ~entered.ok THEN Refuse(f)
         ELSE IF FreeBlocks(made) = {} THEN Result(TRUE, made)
         ELSE Result(TRUE, full)
  BY DEF create_file
<1>2. made = Enroll(entered.fs, no, inode_init)
  <2> HIDE DEF entered, no
  <2> QED BY DEF Enroll
<1>3. \A h : /\ Refuse(h).fs = h /\ Refuse(h).ok = FALSE /\ Refuse(h).stops = FALSE
             /\ Result(TRUE, h).fs = h /\ Result(TRUE, h).ok = TRUE /\ Result(TRUE, h).stops = FALSE
  BY DEF Refuse, Result
<1> HIDE DEF r, no, made
<1>4. CASE ~IsNew(r, path) \/ FreeInodes(f) = {} \/ ~entered.ok
  <2> HIDE DEF entered, full
  <2>1. create_file(f, path) = Refuse(f)
    BY <1>1, <1>4
  <2> QED BY <1>3, <2>1, Itself DEF Makes
<1>5. CASE ~(~IsNew(r, path) \/ FreeInodes(f) = {} \/ ~entered.ok)
  <2>1. /\ r.dir \in DirsOnDisk(f) /\ Last(path) \in Name
        /\ \A t \in Namings(f, r.dir) : Slot(f, r.dir, t).name # Last(path)
    BY <1>5, NewNames DEF r
  <2>2. path # <<>> /\ Leads(f, Front(path), r.dir, "dir")
    BY <1>5, NewNameGoes DEF r
  <2>3. no \in Located \ f.ibits /\ f.cnt[no] = 0
    BY <1>5, FreeOnes DEF no, FreshNumber
  <2>4. /\ Sound(made, {}, f.lost) /\ made.disk[no] = inode_init
        /\ made.cnt[no] = 0 /\ no \in made.ibits
    BY <1>2, <1>5, <2>1, <2>3, CreateKeeps
  <2>5. Entered(f, made, r.dir, Last(path), "file") /\ KeepsBlocks(f, made)
    <3>1. entered.ok
      BY <1>5
    <3>2. /\ Entered(f, Enroll(entered.fs, no, inode_init), r.dir, Last(path), "file")
          /\ KeepsBlocks(f, Enroll(entered.fs, no, inode_init))
      BY <2>1, <2>3, <3>1, CreateLinks
    <3> QED BY <1>2, <2>3, <3>2
  <2>6. made \in FileSystem /\ BlocksAreOwned(made, f.lost)
    BY <2>4 DEF Sound
  <2> HIDE DEF entered
  <2>7. CASE FreeBlocks(made) = {}
    <3> HIDE DEF full
    <3>1. create_file(f, path) = Result(TRUE, made)
      BY <1>1, <1>5, <2>7
    <3> QED BY <1>3, <2>2, <2>5, <3>1 DEF Makes
  <2>8. CASE FreeBlocks(made) # {}
    <3>1. b \in Block \ made.bbits
      BY <2>8, FreeOnes
    <3> HIDE DEF b
    <3>2. node \in Node /\ \A k \in 0..Direct - 1 : node.sec[k] = IF k = 0 THEN b ELSE 0
      BY <3>1, FileNodeIs
    <3> DEFINE mid == TakeBlock(made, b)
    <3>3. /\ mid \in FileSystem /\ mid.ibits = made.ibits
          /\ mid.disk = made.disk /\ mid.data = made.data
      BY <2>6, <3>1, Taken
    <3>4. full = [mid EXCEPT !.data[b] = FileBytes, !.disk[no] = node]
      <4>1. full = [inode_sync(mid, no, node) EXCEPT !.data[b] = FileBytes]
        OBVIOUS
      <4> HIDE DEF full, mid, node
      <4>2. inode_sync(mid, no, node) = [mid EXCEPT !.disk[no] = node]
        BY <2>3, SyncIs
      <4>3. inode_sync(mid, no, node).data = mid.data
        BY <3>3, <4>2 DEF FileSystem
      <4> QED BY <3>3, <4>1, <4>2, <4>3 DEF FileSystem
    <3> HIDE DEF mid, full, node
    <3>5. /\ full.data = [made.data EXCEPT ![b] = FileBytes]
          /\ full.disk = [made.disk EXCEPT ![no] = node]
          /\ full.ibits = made.ibits
      BY <3>3, <3>4 DEF FileSystem
    <3>6. /\ made.data \in [Block -> [1..PerSector -> DirEntry]]
          /\ made.disk \in [Inode -> Node] /\ made.ibits \subseteq Inode
      BY <2>6, Parts
    <3>7. \A m \in made.ibits, k \in 0..Direct - 1 :
             BlockOf(made, m, k) # 0 => BlockOf(made, m, k) \in Block /\ BlockOf(made, m, k) # b
      <4>1. \A m \in made.ibits, k \in 0..Direct - 1 :
               BlockOf(made, m, k) # 0 => BlockOf(made, m, k) \in Block
        BY <2>6, <3>6, BlocksAreTyped
      <4>2. \A m \in made.ibits, k \in 0..Direct - 1 :
               BlockOf(made, m, k) # 0 => BlockOf(made, m, k) # b
        BY <2>6, <3>1 DEF BlocksAreOwned
      <4> QED BY <4>1, <4>2
    <3>8. \A m \in made.ibits : m # no => Untouched(made, full, m)
      BY <3>5, <3>6, <3>7 DEF Untouched
    <3>9. ~HoldsDir(made, no) /\ ~HoldsDir(full, no)
      <4>1. 0 \in 0..Direct - 1 /\ 1 \in 1..PerSector
        BY Sizes
      <4>2. BlockOf(made, no, 0) = 0
        BY <2>4, <4>1, NodesAreTyped DEF BlockOf
      <4>3. full.disk[no] = node /\ node.sec[0] = b /\ full.data[b] = FileBytes
        BY <2>4, <3>1, <3>2, <3>5, <3>6, <4>1
      <4>4. BlockOf(full, no, 0) = b /\ Slot(full, no, <<0, 1>>) = FileBytes[1]
        BY <4>3 DEF BlockOf, Slot
      <4>5. Slot(full, no, <<0, 1>>).name = "bytes"
        BY <4>4, FileBytesIs
      <4> QED BY <4>2, <4>5 DEF HoldsDir
    <3>10. SameLinked(made, full) /\ KeepsBlocks(made, full)
      BY <3>5, <3>8, <3>9, SameLinks DEF SameLinked, KeepsBlocks
    <3>11. Entered(f, full, r.dir, Last(path), "file") /\ KeepsBlocks(f, full)
      BY <2>5, <3>10 DEF SameLinked, KeepsBlocks, Entered, OneMore
    <3>12. create_file(f, path) = Result(TRUE, full)
      BY <1>1, <1>5, <2>8
    <3> QED BY <1>3, <2>2, <3>11, <3>12 DEF Makes
  <2> QED BY <2>7, <2>8
<1> QED BY <1>4, <1>5

LEMMA NeverRoot ==
    ASSUME NEW f, NEW spare, Sound(f, {}, spare), NEW path \in Path, path # <<>>,
           NEW r, r = search_file(f, path)
    PROVE  /\ r.no # Root /\ r.kind \in {"dir", "file", "unknown"}
           /\ r.kind = "dir" => search_file(f, Front(path)).kind # "file"
<1> DEFINE w == search_file(f, Front(path))
<1>1. /\ Front(path) \in Path /\ Last(path) \in Name
      /\ w = Walked(f, Front(path)) /\ r = Descend(f, w, Last(path))
  BY LastName
<1>2. Reached(f, path, r)
  BY SearchFinds
<1>3. w.kind # "dir" => r = w
  BY <1>1, DescendIs
<1> HIDE DEF w
<1>4. CASE r.kind = "dir"
  <2>1. w.kind = "dir"
    BY <1>3, <1>4
  <2>2. w.kind # "file"
    BY <2>1
  <2>3. Leads(f, path, r.no, "dir")
    <3>1. search_file(f, Front(path)).kind # "file"
      BY <2>2 DEF w
    <3>2. r.kind \in {"dir", "file"}
      BY <1>4
    <3>3. Leads(f, path, r.no, r.kind) /\ \E e : Linked(f, r.dir, e) /\ e.no = r.no
      BY <3>1, <3>2, SearchEnds
    <3> QED BY <1>4, <3>3
  <2>4. \E e : Linked(f, r.dir, e) /\ e.no = r.no
    <3>1. search_file(f, Front(path)).kind # "file"
      BY <2>2 DEF w
    <3>2. r.kind \in {"dir", "file"}
      BY <1>4
    <3> QED BY <3>1, <3>2, SearchEnds
  <2>5. r.no # Root
    BY <2>4, LinksAre
  <2> QED BY <1>4, <2>2, <2>5 DEF w
<1>5. CASE r.kind = "file"
  <2>1. r.no \in f.ibits \ DirsOnDisk(f)
    BY <1>2, <1>5 DEF Reached
  <2> QED BY <1>5, <2>1, RootIsDir
<1>6. CASE r.kind = "unknown"
  <2>1. r.no = NotFound
    BY <1>2, <1>6 DEF Reached
  <2> QED BY <1>6, <2>1 DEF NotFound, Root
<1>7. r.kind \in {"dir", "file", "unknown"}
  BY <1>2 DEF Reached
<1> QED BY <1>4, <1>5, <1>6, <1>7

(* A call that removes something takes the entry away that its path leads  *)
(* to, when it may, and changes no link otherwise.                         *)
Removes(f, path, kind, may, c) ==
    /\ c.stops = FALSE /\ (BlocksAreUsed(f) => BlocksAreUsed(c.fs))
    /\ IF may
       THEN /\ c.ok = TRUE
            /\ \E d : Leads(f, Front(path), d, "dir") /\ Entered(c.fs, f, d, Last(path), kind)
       ELSE c.ok = FALSE /\ SameLinked(f, c.fs)

LEMMA UnlinkRemoves ==
    ASSUME NEW f, Sound(f, {}, f.lost), NEW path \in Path, path # <<>>,
           search_file(f, Front(path)).kind # "file"
    PROVE  Removes(f, path, "file", search_file(f, path).kind = "file", sys_unlink(f, path))
<1> DEFINE r == search_file(f, path)
           g == inode_release(delete_dir_entry(f, r.dir, r.no), r.no)
<1>1. sys_unlink(f, path) = IF r.no = Root THEN Stop(f)
                            ELSE IF r.kind # "file" THEN Refuse(f)
                            ELSE IF NamedTwice(f, r.dir, r.no) THEN Stop(f)
                            ELSE Result(TRUE, g)
  BY DEF sys_unlink
<1>2. \A h : /\ Refuse(h).fs = h /\ Refuse(h).ok = FALSE /\ Refuse(h).stops = FALSE
             /\ Result(TRUE, h).fs = h /\ Result(TRUE, h).ok = TRUE /\ Result(TRUE, h).stops = FALSE
  BY DEF Refuse, Result
<1>3. r.no # Root
  BY NeverRoot
<1>4. r.kind \in {"dir", "file"} =>
         /\ Leads(f, Front(path), r.dir, "dir") /\ Leads(f, path, r.no, r.kind)
         /\ \E e : Linked(f, r.dir, e) /\ e.name = Last(path) /\ e.no = r.no /\ e.kind = r.kind
  BY SearchEnds
<1> HIDE DEF r
<1>5. CASE r.kind # "file"
  <2> HIDE DEF g
  <2>1. sys_unlink(f, path) = Refuse(f)
    BY <1>1, <1>3, <1>5
  <2>2. ~(search_file(f, path).kind = "file")
    BY <1>5 DEF r
  <2> QED BY <1>2, <2>1, <2>2, Itself DEF Removes
<1>6. CASE r.kind = "file"
  <2>1. PICK e : Linked(f, r.dir, e) /\ e.name = Last(path) /\ e.no = r.no /\ e.kind = r.kind
    BY <1>4, <1>6
  <2>2. ~HoldsDir(f, e.no)
    BY <1>6, <2>1, LinksAre DEF DirsOnDisk
  <2>3. g = inode_release(delete_dir_entry(f, r.dir, e.no), e.no)
    BY <2>1
  <2> HIDE DEF g
  <2>4. OneMore(g, f, r.dir, e) /\ (BlocksAreUsed(f) => BlocksAreUsed(g))
    BY <2>1, <2>2, <2>3, RemoveLinks
  <2>5. sys_unlink(f, path) = Result(TRUE, g)
    <3>1. ~NamedTwice(f, r.dir, r.no)
      BY <2>1, NotNamedTwice DEF Linked
    <3> QED BY <1>1, <1>3, <1>6, <3>1
  <2>6. Leads(f, Front(path), r.dir, "dir") /\ Entered(g, f, r.dir, Last(path), "file")
    BY <1>4, <1>6, <2>1, <2>4 DEF Entered
  <2>7. search_file(f, path).kind = "file"
    BY <1>6 DEF r
  <2> QED BY <1>2, <2>4, <2>5, <2>6, <2>7 DEF Removes
<1> QED BY <1>5, <1>6

LEMMA RmdirRemoves ==
    ASSUME NEW f, Sound(f, {}, f.lost), BlocksAreUsed(f), NEW path \in Path, path # <<>>,
           NEW r, r = search_file(f, path)
    PROVE  Removes(f, path, "dir", r.kind = "dir" /\ Namings(f, r.no) = {}, sys_rmdir(f, path))
<1> DEFINE opened == KeepOpen(f, r.no)
           node == inode_open(f, r.no)
           g == inode_release(delete_dir_entry(opened, r.dir, r.no), r.no)
<1>1. sys_rmdir(f, path) = IF r.no = Root THEN Stop(f)
                           ELSE IF r.kind # "dir" THEN Refuse(f)
                           ELSE IF ~(node.size = 2) THEN Refuse(opened)
                           ELSE IF \E k \in 1..Direct - 1 : node.sec[k] # 0 THEN Stop(opened)
                           ELSE IF NamedTwice(opened, r.dir, r.no) THEN Stop(opened)
                           ELSE Result(TRUE, g)
  BY DEF sys_rmdir
<1>2. \A h : /\ Refuse(h).fs = h /\ Refuse(h).ok = FALSE /\ Refuse(h).stops = FALSE
             /\ Result(TRUE, h).fs = h /\ Result(TRUE, h).ok = TRUE /\ Result(TRUE, h).stops = FALSE
  BY DEF Refuse, Result
<1>3. r.no # Root /\ (r.kind = "dir" => search_file(f, Front(path)).kind # "file")
  BY NeverRoot
<1>4. CASE r.kind # "dir"
  <2> HIDE DEF g, opened, node
  <2>1. sys_rmdir(f, path) = Refuse(f)
    BY <1>1, <1>3, <1>4
  <2> QED BY <1>2, <1>4, <2>1, Itself DEF Removes
<1>5. CASE r.kind = "dir"
  <2>1. /\ Leads(f, Front(path), r.dir, "dir") /\ Leads(f, path, r.no, "dir")
        /\ \E e : Linked(f, r.dir, e) /\ e.name = Last(path) /\ e.no = r.no /\ e.kind = "dir"
    BY <1>3, <1>5, SearchEnds
  <2>2. PICK e : Linked(f, r.dir, e) /\ e.name = Last(path) /\ e.no = r.no /\ e.kind = "dir"
    BY <2>1
  <2>3. r.no \in f.ibits /\ r.no \in DirsOnDisk(f)
    BY <2>2, LinksAre
  <2>4. f \in FileSystem /\ CacheIsCurrent(f) /\ EntriesFit(f, r.no)
    BY <2>3 DEF Sound, DirsFormTree
  <2>5. node = f.disk[r.no] /\ f.disk[r.no].size = 2 + Cardinality(Namings(f, r.no))
    BY <2>3, <2>4, OpenIsDisk DEF EntriesFit
  <2>6. node.size = 2 <=> Namings(f, r.no) = {}
    <3>1. IsFiniteSet(Namings(f, r.no)) /\ Cardinality(Namings(f, r.no)) \in Nat
      BY NamingsAreFinite
    <3>2. Cardinality(Namings(f, r.no)) = 0 <=> Namings(f, r.no) = {}
      BY <3>1, FS_EmptySet
    <3>3. node.size = 2 + Cardinality(Namings(f, r.no))
      BY <2>5
    <3> HIDE DEF node
    <3> QED BY <3>1, <3>2, <3>3
  <2>7. /\ Sound(opened, {}, f.lost) /\ opened.ibits = f.ibits
        /\ opened.disk = f.disk /\ opened.data = f.data
    BY <2>3, KeptOpen
  <2> HIDE DEF opened
  <2>8. \A m : Untouched(f, opened, m)
    BY <2>7 DEF Untouched
  <2>9. SameLinked(f, opened) /\ KeepsBlocks(f, opened)
    BY <2>7, <2>8, SameLinks DEF SameLinked, KeepsBlocks
  <2>10. CASE Namings(f, r.no) # {}
    <3> HIDE DEF g, node
    <3>1. sys_rmdir(f, path) = Refuse(opened)
      BY <1>1, <1>3, <1>5, <2>6, <2>10
    <3> QED BY <1>2, <2>9, <2>10, <3>1 DEF Removes, KeepsBlocks
  <2>11. CASE Namings(f, r.no) = {}
    <3>1. ~\E k \in 1..Direct - 1 : node.sec[k] # 0
      <4>1. \A k : node.sec[k] = BlockOf(f, r.no, k)
        BY <2>5 DEF BlockOf
      <4> HIDE DEF node
      <4> QED BY <2>3, <2>11, <4>1 DEF BlocksAreUsed
    <3>2. Linked(opened, r.dir, e) /\ Namings(opened, e.no) = {}
      <4>1. Linked(opened, r.dir, e)
        BY <2>2, <2>9 DEF SameLinked
      <4>2. Namings(opened, r.no) = Namings(f, r.no)
        BY <2>8, UntouchedLooks
      <4> QED BY <2>2, <2>11, <4>1, <4>2
    <3>3. g = inode_release(delete_dir_entry(opened, r.dir, e.no), e.no)
      BY <2>2
    <3> HIDE DEF g, node
    <3>4. OneMore(g, opened, r.dir, e) /\ (BlocksAreUsed(opened) => BlocksAreUsed(g))
      BY <2>7, <3>2, <3>3, RemoveLinks
    <3>5. OneMore(g, f, r.dir, e) /\ BlocksAreUsed(g)
      BY <2>9, <3>4 DEF OneMore, SameLinked, KeepsBlocks
    <3>6. sys_rmdir(f, path) = Result(TRUE, g)
      <4>1. ~NamedTwice(opened, r.dir, r.no)
        BY <2>7, <3>2, NotNamedTwice DEF Linked
      <4> QED BY <1>1, <1>3, <1>5, <2>6, <2>11, <3>1, <4>1
    <3>7. Leads(f, Front(path), r.dir, "dir") /\ Entered(g, f, r.dir, Last(path), "dir")
      BY <2>1, <2>2, <3>5 DEF Entered
    <3> QED BY <1>2, <1>5, <2>11, <3>5, <3>6, <3>7 DEF Removes
  <2> QED BY <2>10, <2>11
<1> QED BY <1>4, <1>5

---------------------------------------------------------------------------
(* What each call does to the tree                                         *)

(* The directory an entry is taken from keeps its path.                    *)
LEMMA RestOfPath ==
    ASSUME NEW f, NEW spare, Sound(f, {}, spare), NEW g, NEW left, Sound(g, {}, left),
           NEW P \in Seq(Name), NEW d, Leads(f, P, d, "dir"), NEW e, OneMore(g, f, d, e)
    PROVE  Leads(g, P, d, "dir")
<1>1. Linked(f, d, e) /\ e.name \in Name
  BY LinksAre DEF OneMore
<1> DEFINE path == Append(P, e.name)
<1>2. path \in Seq(Name) /\ Len(path) = Len(P) + 1 /\ Len(P) \in Nat
  BY <1>1, AppendProperties, LenProperties
<1>3. Leads(f, path, e.no, e.kind)
  BY <1>1, LeadsUnfolds
<1> DEFINE Good(q) == Len(q) <= Len(P) => \A no, kind : Leads(f, q, no, kind) => Leads(g, q, no, kind)
           T == {q \in Seq(Name) : Good(q)}
<1> HIDE DEF path
<1>4. <<>> \in T
  BY EmptySeq, LeadsUnfolds
<1>5. ASSUME NEW q \in T, NEW x \in Name PROVE Append(q, x) \in T
  <2>1. q \in Seq(Name) /\ Good(q) /\ Len(q) \in Nat
    BY LenProperties
  <2>2. Append(q, x) \in Seq(Name) /\ Len(Append(q, x)) = Len(q) + 1
    BY <2>1, AppendProperties
  <2>3. ASSUME Len(Append(q, x)) <= Len(P), NEW no, NEW kind, Leads(f, Append(q, x), no, kind)
        PROVE  Leads(g, Append(q, x), no, kind)
    <3>1. PICK b, y : /\ Leads(f, q, b, "dir") /\ Linked(f, b, y)
                      /\ y.name = x /\ y.no = no /\ y.kind = kind
      BY <2>1, <2>3, LeadsUnfolds
    <3>2. Len(q) <= Len(P)
      BY <1>2, <2>1, <2>2, <2>3
    <3>3. Leads(g, q, b, "dir")
      BY <2>1, <3>1, <3>2
    <3>4. y # e
      <4> SUFFICES ASSUME y = e PROVE FALSE
        OBVIOUS
      <4>1. Append(q, x) = path
        BY <1>2, <1>3, <2>2, <2>3, <3>1, PathsAreUnique
      <4>2. Len(path) <= Len(P)
        BY <2>3, <4>1
      <4> QED BY <1>2, <4>2
    <3>5. Linked(g, b, y)
      BY <3>1, <3>4 DEF OneMore
    <3> QED BY <2>1, <3>1, <3>3, <3>5, LeadsUnfolds
  <2> QED BY <2>2, <2>3
<1>6. T = Seq(Name)
  BY <1>4, <1>5, AllSequences
<1>7. Good(P)
  BY <1>6
<1> QED BY <1>2, <1>7

LEMMA SameInTree ==
    ASSUME NEW f, NEW spare, Sound(f, {}, spare), NEW g, NEW left, Sound(g, {}, left), SameLinked(f, g)
    PROVE  /\ TreeOn(g) = TreeOn(f)
           /\ Bounded(f) => Bounded(g)
           /\ \A q \in Seq(Name) : \A no, kind : Leads(f, q, no, kind) => Leads(g, q, no, kind)
<1>1. \A c, x : Linked(g, c, x) <=> Linked(f, c, x)
  BY DEF SameLinked
<1>2. TreeOn(g) = TreeOn(f)
  BY <1>1, SameTree
<1>3. \A p \in Seq(Name) : \A no, kind : Leads(g, p, no, kind) <=> Leads(f, p, no, kind)
  BY <1>1, SamePaths
<1> QED BY <1>2, <1>3 DEF Bounded

MadeInTree(f, path, kind, c) ==
    /\ Bounded(f) => Bounded(c.fs)
    /\ \A q \in Seq(Name) : \A no, k : Leads(f, q, no, k) => Leads(c.fs, q, no, k)
    /\ \/ /\ c.ok = TRUE /\ path \notin DOMAIN TreeOn(f) /\ path # <<>>
          /\ Front(path) \in DOMAIN TreeOn(f) /\ TreeOn(f)[Front(path)] = "dir"
          /\ TreeOn(c.fs) = Plus(TreeOn(f), path, kind)
       \/ c.ok = FALSE /\ TreeOn(c.fs) = TreeOn(f)

LEMMA MakesInTree ==
    ASSUME NEW f, NEW spare, Sound(f, {}, spare), NEW path \in Path, NEW kind, NEW c,
           Makes(f, path, kind, c), NEW left, Sound(c.fs, {}, left), NEW t, t = TreeOn(f)
    PROVE  MadeInTree(f, path, kind, c)
<1> SUFFICES /\ Bounded(f) => Bounded(c.fs)
             /\ \A q \in Seq(Name) : \A no, k : Leads(f, q, no, k) => Leads(c.fs, q, no, k)
             /\ \/ /\ c.ok = TRUE /\ path \notin DOMAIN t /\ path # <<>>
                   /\ Front(path) \in DOMAIN t /\ t[Front(path)] = "dir"
                   /\ TreeOn(c.fs) = Plus(t, path, kind)
                \/ c.ok = FALSE /\ TreeOn(c.fs) = t
  BY DEF MadeInTree
<1> DEFINE g == c.fs
<1>1. CASE c.ok = FALSE /\ SameLinked(f, g)
  BY <1>1, SameInTree
<1>2. CASE c.ok = TRUE /\ path # <<>>
           /\ \E d : Leads(f, Front(path), d, "dir") /\ Entered(f, g, d, Last(path), kind)
  <2>1. PICK d : Leads(f, Front(path), d, "dir") /\ Entered(f, g, d, Last(path), kind)
    BY <1>2
  <2>2. PICK e : e.name = Last(path) /\ e.kind = kind /\ OneMore(f, g, d, e)
    BY <2>1 DEF Entered
  <2>3. Front(path) \in Path /\ path = Append(Front(path), Last(path))
    BY ONLY Sound(f, {}, spare), path \in Path, <1>2, LastName
  <2>4. Front(path) \in Seq(Name) /\ path = Append(Front(path), e.name)
    BY <2>2, <2>3, RootIsPath
  <2> HIDE DEF g
  <2>5. Sound(g, {}, left)
    BY DEF g
  <2>6. /\ path \notin DOMAIN t
        /\ TreeOn(g) = Plus(t, path, e.kind)
        /\ \A q \in Seq(Name) : \A no, k : Leads(f, q, no, k) => Leads(g, q, no, k)
        /\ \A q \in Seq(Name) : \A no, k : Leads(g, q, no, k) => Leads(f, q, no, k) \/ q = path
    <3> DEFINE P == Front(path)
    <3>1. P \in Seq(Name) /\ path = Append(P, e.name) /\ Leads(f, P, d, "dir")
      BY <2>1, <2>4
    <3> HIDE DEF P
    <3>2. OneMore(f, g, d, e)
      BY <2>2
    <3>3. Extends(f, g, P, d, e, path)
      BY ONLY path \in Path, <3>1, <3>2 DEF Extends
    <3>4. Grown(f, g, path, e)
      BY ONLY Sound(f, {}, spare), <2>5, <3>3, OneMoreInTree
    <3> QED BY <3>4 DEF Grown
  <2>7. Front(path) \in DOMAIN t /\ t[Front(path)] = "dir"
    BY <2>1, <2>3, TreeHas
  <2>8. Bounded(f) => Bounded(g)
    BY <2>6 DEF Bounded
  <2> QED BY <1>2, <2>2, <2>6, <2>7, <2>8 DEF g
<1> QED BY <1>1, <1>2 DEF Makes

RemovedFromTree(f, path, kind, may, c) ==
    /\ Bounded(f) => Bounded(c.fs)
    /\ \A q \in Seq(Name) : \A no, k : Leads(f, q, no, k) => Leads(c.fs, q, no, k) \/ q = path
    /\ IF may
       THEN /\ c.ok = TRUE /\ path \in DOMAIN TreeOn(f) /\ TreeOn(f)[path] = kind
            /\ TreeOn(c.fs) = Minus(TreeOn(f), path)
       ELSE c.ok = FALSE /\ TreeOn(c.fs) = TreeOn(f)

LEMMA RemovesInTree ==
    ASSUME NEW f, NEW spare, Sound(f, {}, spare), NEW path \in Path, path # <<>>,
           NEW kind \in {"dir", "file"}, NEW may, NEW c,
           Removes(f, path, kind, may, c), NEW left, Sound(c.fs, {}, left), NEW t, t = TreeOn(f)
    PROVE  RemovedFromTree(f, path, kind, may, c)
<1> SUFFICES /\ Bounded(f) => Bounded(c.fs)
             /\ \A q \in Seq(Name) : \A no, k : Leads(f, q, no, k) => Leads(c.fs, q, no, k) \/ q = path
             /\ IF may
                THEN /\ c.ok = TRUE /\ path \in DOMAIN t /\ t[path] = kind
                     /\ TreeOn(c.fs) = Minus(t, path)
                ELSE c.ok = FALSE /\ TreeOn(c.fs) = t
  BY DEF RemovedFromTree
<1> DEFINE g == c.fs
<1>1. CASE ~may
  <2>1. c.ok = FALSE /\ SameLinked(f, g)
    BY <1>1 DEF Removes
  <2> QED BY <1>1, <2>1, SameInTree
<1>2. CASE may
  <2>1. c.ok = TRUE /\ \E d : Leads(f, Front(path), d, "dir") /\ Entered(g, f, d, Last(path), kind)
    BY <1>2 DEF Removes
  <2>2. PICK d : Leads(f, Front(path), d, "dir") /\ Entered(g, f, d, Last(path), kind)
    BY <2>1
  <2>3. PICK e : e.name = Last(path) /\ e.kind = kind /\ OneMore(g, f, d, e)
    BY <2>2 DEF Entered
  <2>4. Front(path) \in Path /\ path = Append(Front(path), Last(path))
    BY ONLY Sound(f, {}, spare), path \in Path, path # <<>>, LastName
  <2>5. Front(path) \in Seq(Name) /\ path = Append(Front(path), e.name)
    BY <2>3, <2>4, RootIsPath
  <2> HIDE DEF g
  <2>6. Sound(g, {}, left)
    BY DEF g
  <2>7. Leads(g, Front(path), d, "dir")
    BY <2>2, <2>3, <2>5, <2>6, RestOfPath
  <2>8. /\ path \in DOMAIN t /\ t[path] = e.kind
        /\ TreeOn(g) = Minus(t, path)
        /\ \A q \in Seq(Name) : \A no, k : Leads(g, q, no, k) => Leads(f, q, no, k)
        /\ \A q \in Seq(Name) : \A no, k : Leads(f, q, no, k) => Leads(g, q, no, k) \/ q = path
    <3> DEFINE P == Front(path)
    <3>1. P \in Seq(Name) /\ path = Append(P, e.name) /\ Leads(g, P, d, "dir")
      BY <2>5, <2>7
    <3> HIDE DEF P
    <3>2. OneMore(g, f, d, e)
      BY <2>3
    <3>3. Extends(g, f, P, d, e, path)
      BY ONLY path \in Path, <3>1, <3>2 DEF Extends
    <3>4. Grown(g, f, path, e)
      BY ONLY Sound(f, {}, spare), <2>6, <3>3, OneMoreInTree
    <3> QED BY <3>4 DEF Grown
  <2>9. Bounded(f) => Bounded(g)
    BY <2>8 DEF Bounded
  <2> QED BY <1>2, <2>1, <2>3, <2>8, <2>9 DEF g
<1> QED BY <1>1, <1>2

(* dir_read goes through a directory's places in order, each at its turn.   *)
Turn(S, s) == 1 + Cardinality({t \in S : Before(t, s)})

LEMMA TurnsAreOrdered ==
    ASSUME NEW S, IsFiniteSet(S), S \subseteq Nat \X Nat
    PROVE  /\ Cardinality(S) \in Nat
           /\ \A s \in S : Turn(S, s) \in 1..Cardinality(S)
           /\ \A s, t \in S : Turn(S, s) = Turn(S, t) => s = t
<1> DEFINE less(s) == {t \in S : Before(t, s)}
<1>1. Cardinality(S) \in Nat
  BY FS_CardinalityType
<1>2. ASSUME NEW s \in S
      PROVE  IsFiniteSet(less(s)) /\ Cardinality(less(s)) \in Nat
  <2>1. less(s) \subseteq S
    OBVIOUS
  <2> QED BY <2>1, FS_Subset, FS_CardinalityType
<1>3. ASSUME NEW s \in S PROVE Turn(S, s) \in 1..Cardinality(S)
  <2>1. less(s) \subseteq S \ {s}
    BY DEF Before
  <2>2. IsFiniteSet(S \ {s}) /\ Cardinality(S \ {s}) = Cardinality(S) - 1
    BY FS_RemoveElement
  <2>3. Cardinality(less(s)) <= Cardinality(S \ {s})
    BY <2>1, <2>2, FS_Subset
  <2> HIDE DEF less
  <2>4. Cardinality(less(s)) + 1 \in 1..Cardinality(S)
    BY <1>1, <1>2, <2>2, <2>3
  <2> QED BY <1>2, <2>4 DEF Turn, less
<1>4. ASSUME NEW s \in S, NEW t \in S, Before(s, t) PROVE Turn(S, s) < Turn(S, t)
  <2>1. less(s) \subseteq less(t) \ {s} /\ s \in less(t)
    BY <1>4 DEF Before
  <2>2. IsFiniteSet(less(t) \ {s}) /\ Cardinality(less(t) \ {s}) = Cardinality(less(t)) - 1
    BY <1>2, <2>1, FS_RemoveElement
  <2>3. Cardinality(less(s)) <= Cardinality(less(t) \ {s})
    BY <2>1, <2>2, FS_Subset
  <2> HIDE DEF less
  <2>4. Cardinality(less(s)) + 1 < Cardinality(less(t)) + 1
    BY <1>2, <2>2, <2>3
  <2> QED BY <1>2, <2>4 DEF Turn, less
<1>5. ASSUME NEW s \in S, NEW t \in S, s # t PROVE Before(s, t) \/ Before(t, s)
  BY <1>5 DEF Before
<1>6. ASSUME NEW s \in S, NEW t \in S, Turn(S, s) = Turn(S, t) PROVE s = t
  <2>1. Turn(S, s) \in Int
    BY <1>3
  <2> QED BY <1>4, <1>5, <1>6, <2>1
<1> QED BY <1>1, <1>3, <1>6

LEMMA EachTurnIsTaken ==
    ASSUME NEW S, IsFiniteSet(S), S \subseteq Nat \X Nat, NEW i \in 1..Cardinality(S)
    PROVE  \E s \in S : Turn(S, s) = i
<1> DEFINE C == Cardinality(S)
           R == [s \in S |-> Turn(S, s)]
<1>1. /\ C \in Nat
      /\ \A s \in S : Turn(S, s) \in 1..C
      /\ \A s, t \in S : Turn(S, s) = Turn(S, t) => s = t
  BY TurnsAreOrdered
<1>2. IsFiniteSet(1..C) /\ Cardinality(1..C) = C
  BY <1>1, FS_Interval
<1> HIDE DEF C
<1>3. R \in Injection(S, 1..C)
  <2>1. R \in [S -> 1..C]
    BY <1>1
  <2>2. \A s, t \in S : R[s] = R[t] => s = t
    BY <1>1
  <2> QED BY <2>1, <2>2 DEF Injection, IsInjective
<1>4. R \in Surjection(S, 1..C)
  BY <1>2, <1>3, FS_Injection DEF C
<1>5. \A j \in 1..C : \E s \in S : R[s] = j
  BY <1>4 DEF Surjection
<1>6. i \in 1..C
  BY DEF C
<1> QED BY <1>5, <1>6

(* A directory is read to its end: each entry in use, at its turn.          *)
LEMMA EntriesAreRead ==
    ASSUME NEW f, NEW spare, Sound(f, {}, spare), NEW d \in DirsOnDisk(f),
           NEW size, size = inode_open(f, d).size
    PROVE  /\ size = Cardinality(Used(f, d))
           /\ \A i \in 1..size : \E s \in Used(f, d) : dir_read(f, d)[i] = At(f, d, s)
           /\ \A s \in Used(f, d) : \E i \in 1..size : dir_read(f, d)[i] = At(f, d, s)
<1> DEFINE U == Used(f, d)
           C(i) == CHOOSE s \in U : Turn(U, s) = i
<1>1. /\ f \in FileSystem /\ CacheIsCurrent(f) /\ d \in f.ibits /\ d \in Inode
      /\ HoldsDir(f, d) /\ EntriesFit(f, d)
  BY Parts DEF Sound, DirsFormTree, DirsOnDisk
<1>2. U = Namings(f, d) \cup {<<0, 1>>, <<0, 2>>}
  BY <1>1, OwnEntries
<1>3. U \subseteq Slots
  <2>1. Namings(f, d) \subseteq Slots
    BY DEF Namings, Live
  <2> QED BY <1>2, <2>1, RangesAreFinite
<1>4. IsFiniteSet(U) /\ U \subseteq Nat \X Nat
  BY <1>3, RangesAreFinite, FS_Subset
<1>5. size = Cardinality(U)
  BY EntriesAreCounted
<1>6. dir_read(f, d) = [i \in 1..size |-> At(f, d, C(i))]
  BY DEF dir_read, Turn
<1> HIDE DEF U
<1>7. /\ \A s \in U : Turn(U, s) \in 1..size
      /\ \A s, t \in U : Turn(U, s) = Turn(U, t) => s = t
      /\ \A i \in 1..size : \E s \in U : Turn(U, s) = i
  BY <1>4, <1>5, TurnsAreOrdered, EachTurnIsTaken
<1>8. ASSUME NEW i \in 1..size PROVE C(i) \in U /\ Turn(U, C(i)) = i
  BY <1>7
<1>9. ASSUME NEW s \in U PROVE Turn(U, s) \in 1..size /\ C(Turn(U, s)) = s
  BY <1>7, <1>8
<1> HIDE DEF C
<1>10. \A i \in 1..size : dir_read(f, d)[i] = At(f, d, C(i))
  BY <1>6
<1>11. \A i \in 1..size : \E s \in U : dir_read(f, d)[i] = At(f, d, s)
  BY <1>8, <1>10
<1>12. \A s \in U : \E i \in 1..size : dir_read(f, d)[i] = At(f, d, s)
  BY <1>9, <1>10
<1> QED BY <1>5, <1>11, <1>12 DEF U

(* What ls prints of a directory: the names of its entries, each once.      *)
LEMMA NamesAreListed ==
    ASSUME NEW f, NEW spare, Sound(f, {}, spare), NEW d \in DirsOnDisk(f)
    PROVE  /\ Readable(f, d)
           /\ {dir_read(f, d)[i].name : i \in 1..inode_open(f, d).size} \ {".", ".."}
                 = {e.name : e \in {x \in DirEntry : Linked(f, d, x)}}
<1> DEFINE size == inode_open(f, d).size
           read == dir_read(f, d)
           names == {read[i].name : i \in 1..size}
<1>1. /\ f \in FileSystem /\ CacheIsCurrent(f) /\ d \in f.ibits /\ d \in Inode
      /\ HoldsDir(f, d) /\ EntriesFit(f, d)
  BY Parts DEF Sound, DirsFormTree, DirsOnDisk
<1>2. /\ size = Cardinality(Used(f, d))
      /\ \A i \in 1..size : \E s \in Used(f, d) : read[i] = At(f, d, s)
      /\ \A s \in Used(f, d) : \E i \in 1..size : read[i] = At(f, d, s)
  BY EntriesAreRead
<1>3. /\ {s \in Used(f, d) : At(f, d, s).name \notin {".", ".."}} = Namings(f, d)
      /\ \A s : At(f, d, s) = Slot(f, d, s)
  BY <1>1, OwnEntries, PlacesAreLive
<1> HIDE DEF size, read
<1>4. ASSUME NEW n \in names \ {".", ".."} PROVE \E e \in DirEntry : Linked(f, d, e) /\ e.name = n
  <2>1. PICK i \in 1..size : n = read[i].name
    OBVIOUS
  <2>2. PICK s \in Used(f, d) : read[i] = At(f, d, s)
    BY <1>2
  <2>3. s \in Namings(f, d)
    BY <1>3, <2>1, <2>2
  <2>4. Linked(f, d, Slot(f, d, s)) /\ Slot(f, d, s).name = n
    BY <1>3, <2>1, <2>2, <2>3 DEF Linked
  <2> QED BY <2>4, LinksAre
<1>5. ASSUME NEW e, Linked(f, d, e) PROVE e.name \in names \ {".", ".."}
  <2>1. PICK s \in Namings(f, d) : Slot(f, d, s) = e
    BY <1>5 DEF Linked
  <2>2. s \in Used(f, d) /\ At(f, d, s) = e /\ e.name \notin {".", ".."}
    BY <1>3, <2>1
  <2>3. PICK i \in 1..size : read[i] = e
    BY <1>2, <2>2
  <2> QED BY <2>2, <2>3
<1> HIDE DEF names
<1>6. names \ {".", ".."} = {e.name : e \in {x \in DirEntry : Linked(f, d, x)}}
  BY <1>4, <1>5
<1>7. Cardinality(Used(f, d)) \in Nat
  <2>1. IsFiniteSet(Used(f, d))
    <3>1. Used(f, d) = Namings(f, d) \cup {<<0, 1>>, <<0, 2>>} /\ Namings(f, d) \subseteq Slots
      BY <1>1, OwnEntries DEF Namings, Live
    <3>2. Used(f, d) \subseteq Slots
      BY <3>1, RangesAreFinite
    <3> QED BY <3>2, RangesAreFinite, FS_Subset
  <2> QED BY <2>1, FS_CardinalityType
<1>8. Readable(f, d)
  BY <1>2, <1>7 DEF Readable, size
<1> QED BY <1>6, <1>8 DEF names, size, read

ChildrenOf(t, p) == {q \in DOMAIN t : Len(q) = Len(p) + 1 /\ Front(q) = p}

(* ls and rmdir see the children that the tree has.                         *)
LEMMA ChildrenAreNamed ==
    ASSUME NEW f, NEW spare, Sound(f, {}, spare), Bounded(f),
           NEW p \in Path, NEW d, Leads(f, p, d, "dir"), NEW t, t = TreeOn(f)
    PROVE  /\ Namings(f, d) = {} <=> ChildrenOf(t, p) = {}
           /\ {<<n>> : n \in {e.name : e \in {x \in DirEntry : Linked(f, d, x)}}}
                 = {<<Last(q)>> : q \in ChildrenOf(t, p)}
<1> DEFINE E == {x \in DirEntry : Linked(f, d, x)}
<1>1. ChildrenOf(t, p) = {Append(p, e.name) : e \in E}
  BY ChildrenAre DEF ChildrenOf
<1>2. p \in Seq(Name) /\ d \in DirsOnDisk(f)
  BY RootIsPath, LeadsAreTyped
<1>3. \A e \in E : e.name \in Name /\ Last(Append(p, e.name)) = e.name
  BY <1>2, LinksAre, FrontOfAppend
<1>4. Namings(f, d) = {} <=> E = {}
  <2>1. ASSUME NEW s \in Namings(f, d) PROVE Slot(f, d, s) \in E
    BY <1>2, LinksAre DEF Linked
  <2>2. ASSUME NEW e \in E PROVE Namings(f, d) # {}
    BY DEF Linked
  <2> QED BY <2>1, <2>2
<1> HIDE DEF E
<1>5. Namings(f, d) = {} <=> ChildrenOf(t, p) = {}
  BY <1>1, <1>4
<1>6. {<<n>> : n \in {e.name : e \in E}} = {<<Last(q)>> : q \in ChildrenOf(t, p)}
  BY ZenonT(120), <1>1, <1>3
<1> QED BY <1>5, <1>6 DEF E

(* The directory above a directory that is not the root.                    *)
LEMMA ParentLeads ==
    ASSUME NEW f, NEW spare, Sound(f, {}, spare), NEW p \in Seq(Name), NEW no, no # Root,
           Leads(f, p, no, "dir"), NEW d, d = Up(f, no)
    PROVE  /\ no \in DirsOnDisk(f) /\ d \in DirsOnDisk(f) /\ d # no
           /\ \E q \in Seq(Name) : Leads(f, q, d, "dir")
           /\ \A q \in Seq(Name) : Leads(f, q, d, "dir") =>
                 \E s \in Namings(f, d) : Slot(f, d, s).no = no /\ p = Append(q, Slot(f, d, s).name)
<1>1. p # <<>>
  BY LeadsUnfolds
<1>2. PICK q \in Seq(Name), y \in Name : p = Append(q, y)
  BY <1>1, SequenceEmptyOrAppend
<1>3. PICK c, e : Leads(f, q, c, "dir") /\ Linked(f, c, e) /\ e.name = y /\ e.no = no /\ e.kind = "dir"
  BY <1>2, LeadsUnfolds
<1>4. no \in DirsOnDisk(f) /\ c \in DirsOnDisk(f) /\ c = d
  <2>1. no \in DirsOnDisk(f)
    BY LeadsAreTyped
  <2> QED BY <1>3, <2>1, LinksAre
<1>5. PICK s \in Namings(f, d) : Slot(f, d, s) = e
  BY <1>3, <1>4 DEF Linked
<1>6. d # no
  <2>1. SUFFICES ASSUME d = no PROVE FALSE
    OBVIOUS
  <2>2. q = p
    BY <1>3, <1>4, <2>1, PathsAreUnique
  <2> QED BY <1>2, <2>2, AppendProperties, LenProperties
<1>7. ASSUME NEW r \in Seq(Name), Leads(f, r, d, "dir") PROVE r = q
  BY <1>3, <1>4, <1>7, PathsAreUnique
<1> QED BY <1>2, <1>3, <1>4, <1>5, <1>6, <1>7

EntriesFor(f, d, no) == {t \in Places(f, d) : At(f, d, t).no = no}

(* One entry of the directory above has the number of the directory below. *)
LEMMA OnlyOneEntry ==
    ASSUME NEW f, NEW spare, Sound(f, {}, spare), NEW p \in Seq(Name), NEW no, no # Root,
           Leads(f, p, no, "dir"), NEW d, d = Up(f, no),
           NEW s \in Namings(f, d), Slot(f, d, s).no = no
    PROVE  EntriesFor(f, d, no) = {s}
<1>1. no \in DirsOnDisk(f) /\ d \in DirsOnDisk(f) /\ d # no
  BY ParentLeads
<1>2. /\ f \in FileSystem /\ CacheIsCurrent(f) /\ d \in f.ibits /\ d \in Inode
      /\ HoldsDir(f, d) /\ EntriesFit(f, d)
  BY <1>1, Parts DEF Sound, DirsFormTree, DirsOnDisk
<1>3. Places(f, d) = Live(f, d) /\ \A t : At(f, d, t) = Slot(f, d, t)
  BY <1>2, PlacesAreLive
<1>4. Slot(f, d, <<0, 1>>).no = d
  BY <1>2, EntryIs DEF EntriesFit
<1>5. Slot(f, d, <<0, 2>>).no # no
  <2>1. Slot(f, d, <<0, 2>>).no = Up(f, d)
    BY DEF Up
  <2>2. CASE d = Root
    <3>1. Up(f, d) = Root
      BY <2>2, RootIsDir
    <3> QED BY <2>1, <3>1
  <2>3. CASE d # Root
    <3>1. SUFFICES ASSUME Up(f, d) = no PROVE FALSE
      BY <2>1
    <3>2. PICK q \in Seq(Name) : Leads(f, q, d, "dir")
      BY ParentLeads
    <3>3. Leads(f, p, Up(f, d), "dir")
      BY <3>1
    <3>4. PICK t : p = Append(q, Slot(f, d, t).name) /\ t \in Namings(f, d)
      BY <3>2, ParentLeads
    <3>5. PICK u : q = Append(p, Slot(f, no, u).name) /\ u \in Namings(f, no)
      BY <2>3, <3>1, <3>2, <3>3, ParentLeads
    <3>6. Slot(f, d, t).name \in Name /\ Slot(f, no, u).name \in Name
      BY <3>4, <3>5 DEF Namings
    <3>7. Len(p) = Len(q) + 1 /\ Len(q) = Len(p) + 1 /\ Len(p) \in Nat /\ Len(q) \in Nat
      BY <3>2, <3>4, <3>5, <3>6, AppendProperties, LenProperties
    <3> QED BY <3>7
  <2> QED BY <2>2, <2>3
<1>6. NoEntry.no = Root
  BY DEF NoEntry, Entry, Root
<1>7. ASSUME NEW t \in Live(f, d), Slot(f, d, t).no = no PROVE t = s
  <2>1. t # <<0, 1>> /\ t # <<0, 2>> /\ Slot(f, d, t) # NoEntry
    BY <1>1, <1>4, <1>5, <1>6, <1>7
  <2>2. t \in Namings(f, d)
    BY <1>2, <2>1 DEF EntriesFit
  <2> QED BY <1>1, <1>7, <2>2 DEF Sound, DirsFormTree
<1>8. s \in Live(f, d)
  BY DEF Namings
<1> QED BY <1>3, <1>7, <1>8 DEF EntriesFor

(* The name that getcwd puts in front.                                      *)
LEMMA ChildsName ==
    ASSUME NEW f, NEW spare, Sound(f, {}, spare), NEW p \in Seq(Name), NEW no, no # Root,
           Leads(f, p, no, "dir"), NEW d, d = Up(f, no),
           NEW q \in Seq(Name), Leads(f, q, d, "dir"),
           NEW name, name = get_child_dir_name(f, d, no), name.ok
    PROVE  p = q \o name.path
<1>1. PICK s \in Namings(f, d) : Slot(f, d, s).no = no /\ p = Append(q, Slot(f, d, s).name)
  BY ParentLeads
<1> DEFINE found == {t \in Places(f, d) : At(f, d, t).no = no}
           n == At(f, d, FirstPlace(found)).name
<1>2. found = {s}
  <2>1. Leads(f, p, no, "dir") /\ d = Up(f, no) /\ no # Root /\ s \in Namings(f, d) /\ Slot(f, d, s).no = no
    BY <1>1
  <2>2. EntriesFor(f, d, no) = {s}
    <3> HIDE DEF found, n
    <3> QED BY ONLY Sound(f, {}, spare), p \in Seq(Name), <2>1, OnlyOneEntry
  <2> QED BY <2>2 DEF EntriesFor
<1>3. /\ f \in FileSystem /\ CacheIsCurrent(f) /\ d \in f.ibits /\ d \in Inode
      /\ HoldsDir(f, d) /\ EntriesFit(f, d)
  BY ParentLeads, Parts DEF Sound, DirsFormTree, DirsOnDisk
<1>4. s[1] \in Nat /\ s[2] \in Nat
  <2>1. s \in Slots
    BY DEF Namings, Live
  <2> QED BY <2>1 DEF Slots
<1>5. FirstPlace(found) = s
  BY ONLY <1>2, <1>4 DEF FirstPlace
<1>6. n = Slot(f, d, s).name
  BY <1>3, <1>5, PlacesAreLive
<1>7. name.path = <<n>>
  <2>1. Stuck.ok = FALSE /\ NoAnswer.ok = FALSE /\ [NoAnswer EXCEPT !.ok = TRUE, !.path = <<n>>].path = <<n>>
    BY DEF Stuck, NoAnswer
  <2>2. name = [NoAnswer EXCEPT !.ok = TRUE, !.path = <<n>>] \/ name = NoAnswer \/ name = Stuck
    BY DEF get_child_dir_name
  <2> HIDE DEF n
  <2> QED BY <2>1, <2>2
<1>8. Slot(f, d, s).name \in Name
  BY DEF Namings
<1>9. \A y \in Name : Append(q, y) = q \o <<y>>
  BY AppendIsConcat
<1> QED BY <1>1, <1>6, <1>7, <1>8, <1>9

(* One directory higher in the climb of getcwd.                             *)
Rung(f, left, prev, no) ==
    LET first == inode_open(f, no).sec[0]
        parent == f.data[first][2]
        name == get_child_dir_name(f, parent.no, no)
        above == prev[parent.no]
    IN  IF no = Root THEN [NoAnswer EXCEPT !.ok = TRUE]
        ELSE IF left = 0 \/ first = 0 THEN Stuck
        ELSE IF parent.kind # "dir" THEN Stuck
        ELSE IF ~name.ok THEN name
        ELSE IF ~above.ok THEN above
        ELSE [NoAnswer EXCEPT !.ok = TRUE, !.path = above.path \o name.path]
Rungs(f, left, prev) == [no \in Inode |-> Rung(f, left, prev, no)]
IsClimb(f, L, climb) == climb = [left \in 0..L |-> Rungs(f, left, climb[left - 1])]

LEMMA LowestRung ==
    ASSUME NEW f, NEW prev, NEW other
    PROVE  Rungs(f, 0, prev) = Rungs(f, 0, other)
<1>1. \A no \in Inode : Rung(f, 0, prev, no) = Rung(f, 0, other, no)
  BY DEF Rung
<1> QED BY <1>1 DEF Rungs

(* The climb's function is there: each value is got from the one before.    *)
LEMMA ClimbExists ==
    ASSUME NEW f, NEW L \in Nat
    PROVE  \E climb : IsClimb(f, L, climb)
<1> DEFINE upTo(m) == \E climb : IsClimb(f, m, climb)
           none == {m \in Nat : ~upTo(m)}
<1>1. SUFFICES none = {}
  OBVIOUS
<1>2. SUFFICES ASSUME none # {} PROVE FALSE
  OBVIOUS
<1>3. PICK m \in none : \A k \in none : m <= k
  <2>1. none \subseteq Nat
    OBVIOUS
  <2> HIDE DEF none
  <2>2. Min(none) \in none /\ \A k \in none : Min(none) <= k
    BY <1>2, <2>1, MinIsLeast
  <2> QED BY <2>2
<1>4. m \in Nat /\ ~upTo(m)
  OBVIOUS
<1>5. m # 0
  <2>1. SUFFICES ASSUME m = 0 PROVE FALSE
    OBVIOUS
  <2> DEFINE w == [left \in 0..0 |-> Rungs(f, 0, f)]
  <2>2. \A left \in 0..0 : Rungs(f, 0, f) = Rungs(f, left, w[left - 1])
    <3> HIDE DEF w
    <3>1. SUFFICES ASSUME NEW left \in 0..0 PROVE Rungs(f, 0, f) = Rungs(f, left, w[left - 1])
      OBVIOUS
    <3>2. left = 0
      OBVIOUS
    <3>3. Rungs(f, 0, f) = Rungs(f, 0, w[left - 1])
      BY LowestRung
    <3> QED BY <3>2, <3>3
  <2>3. w = [left \in 0..0 |-> Rungs(f, left, w[left - 1])]
    BY <2>2
  <2>4. upTo(0)
    BY <2>3 DEF IsClimb
  <2> QED BY <1>4, <2>1, <2>4
<1>6. m - 1 \in Nat /\ upTo(m - 1)
  <2>1. m - 1 \in Nat /\ ~(m <= m - 1)
    BY <1>4, <1>5
  <2>2. m - 1 \notin none
    BY <1>3, <2>1
  <2> QED BY <2>1, <2>2
<1>7. PICK w : w = [left \in 0..m - 1 |-> Rungs(f, left, w[left - 1])]
  BY <1>6 DEF IsClimb
<1> DEFINE v == [left \in 0..m |-> IF left = m THEN Rungs(f, m, w[m - 1]) ELSE w[left]]
<1>8. \A left \in 0..m : v[left] = Rungs(f, left, v[left - 1])
  <2> TAKE left \in 0..m
  <2>1. CASE left = m
    <3>1. v[left] = Rungs(f, m, w[m - 1]) /\ v[m - 1] = w[m - 1]
      BY <1>4, <1>5, <1>6, <2>1
    <3> HIDE DEF v
    <3> QED BY <2>1, <3>1
  <2>2. CASE left # m /\ left = 0
    <3>1. v[left] = w[left] /\ 0 \in 0..m - 1
      BY <1>4, <1>6, <2>2
    <3>2. w[0] = Rungs(f, 0, w[0 - 1])
      BY <1>7, <3>1
    <3> HIDE DEF v
    <3>3. Rungs(f, 0, w[0 - 1]) = Rungs(f, 0, v[left - 1])
      BY LowestRung
    <3> QED BY <2>2, <3>1, <3>2, <3>3
  <2>3. CASE left # m /\ left # 0
    <3>1. v[left] = w[left] /\ v[left - 1] = w[left - 1] /\ left \in 0..m - 1
      BY <1>4, <2>3
    <3>2. w[left] = Rungs(f, left, w[left - 1])
      BY <1>7, <3>1
    <3> HIDE DEF v
    <3> QED BY <3>1, <3>2
  <2> QED BY <2>1, <2>2, <2>3
<1>9. v = [left \in 0..m |-> Rungs(f, left, v[left - 1])]
  <2>1. v = [left \in 0..m |-> v[left]]
    OBVIOUS
  <2> HIDE DEF v
  <2> QED BY <1>8, <2>1
<1>10. upTo(m)
  <2> HIDE DEF v
  <2> QED BY <1>9 DEF IsClimb
<1> QED BY <1>4, <1>10

(* One rung of the climb puts the right name in front.                      *)
LEMMA RungIsRight ==
    ASSUME NEW f, NEW spare, Sound(f, {}, spare), NEW left, NEW prev,
           \A q \in Seq(Name) : \A n \in Inode :
              left # 0 /\ Leads(f, q, n, "dir") /\ prev[n].ok => prev[n].path = q,
           NEW p \in Seq(Name), NEW no, Leads(f, p, no, "dir"), Rung(f, left, prev, no).ok
    PROVE  Rung(f, left, prev, no).path = p
<1>1. no \in DirsOnDisk(f) /\ no \in Inode
  BY LeadsAreTyped
<1>2. CASE no = Root
  <2>1. Leads(f, <<>>, no, "dir") /\ <<>> \in Seq(Name)
    BY <1>2, LeadsUnfolds
  <2>2. p = <<>>
    BY <2>1, PathsAreUnique
  <2>3. Rung(f, left, prev, no).path = <<>>
    BY <1>2 DEF Rung, NoAnswer
  <2> QED BY <2>2, <2>3
<1>3. CASE no # Root
  <2> DEFINE first == inode_open(f, no).sec[0]
             parent == f.data[first][2]
             name == get_child_dir_name(f, parent.no, no)
             above == prev[parent.no]
  <2>1. parent.no = Up(f, no)
    <3>1. f \in FileSystem /\ CacheIsCurrent(f) /\ no \in f.ibits
      BY <1>1, Parts DEF Sound, DirsOnDisk
    <3>2. inode_open(f, no) = f.disk[no]
      BY <1>1, <3>1, OpenIsDisk
    <3>3. first = BlockOf(f, no, 0)
      BY <3>2 DEF BlockOf
    <3>4. Up(f, no) = f.data[BlockOf(f, no, <<0, 2>>[1])][<<0, 2>>[2]].no
      BY DEF Up, Slot
    <3> HIDE DEF first
    <3> QED BY <3>3, <3>4
  <2>2. Stuck.ok = FALSE
    BY DEF Stuck
  <2>3. name.ok /\ above.ok /\ left # 0 /\ Rung(f, left, prev, no) = [NoAnswer EXCEPT !.ok = TRUE, !.path = above.path \o name.path]
    <3>1. \/ Rung(f, left, prev, no) = Stuck
          \/ Rung(f, left, prev, no) = name /\ ~name.ok
          \/ Rung(f, left, prev, no) = above /\ ~above.ok
          \/ name.ok /\ above.ok /\ left # 0 /\ Rung(f, left, prev, no) = [NoAnswer EXCEPT !.ok = TRUE, !.path = above.path \o name.path]
      BY <1>3 DEF Rung
    <3> HIDE DEF name, above
    <3> QED BY <2>2, <3>1
  <2> HIDE DEF first
  <2>4. PICK q \in Seq(Name) : Leads(f, q, Up(f, no), "dir")
    BY <1>3, ParentLeads
  <2>5. above.path = q
    <3>1. Up(f, no) \in Inode
      BY <2>4, LeadsAreTyped
    <3> QED BY <2>1, <2>3, <2>4, <3>1
  <2>6. p = q \o name.path
    <3>1. name = get_child_dir_name(f, Up(f, no), no) /\ name.ok
      BY <2>1, <2>3
    <3> HIDE DEF name
    <3> QED BY <1>3, <2>4, <3>1, ChildsName
  <2>7. Rung(f, left, prev, no).path = above.path \o name.path
    <3> HIDE DEF above, name
    <3> QED BY <2>3 DEF NoAnswer
  <2> QED BY <2>5, <2>6, <2>7
<1> QED BY <1>2, <1>3

(* pwd prints, when it prints, the path the prompt shows.                   *)
LEMMA GetcwdIsRight ==
    ASSUME NEW f, NEW spare, Sound(f, {}, spare),
           NEW p \in Seq(Name), NEW no, Leads(f, p, no, "dir"), sys_getcwd(f, no).ok
    PROVE  sys_getcwd(f, no).path = p
<1> DEFINE climb == CHOOSE climb : climb = [left \in 0..Inodes |-> Rungs(f, left, climb[left - 1])]
           right(left) == \A q \in Seq(Name) : \A n \in Inode :
              left \in 0..Inodes /\ Leads(f, q, n, "dir") /\ climb[left][n].ok => climb[left][n].path = q
<1>1. sys_getcwd(f, no) = climb[Inodes][no]
  BY DEF sys_getcwd, Rungs, Rung
<1>2. Inodes \in Nat
  BY DirectoriesAssumption
<1>3. climb = [left \in 0..Inodes |-> Rungs(f, left, climb[left - 1])]
  <2>1. \E c : c = [left \in 0..Inodes |-> Rungs(f, left, c[left - 1])]
    BY <1>2, ClimbExists DEF IsClimb
  <2> QED BY <2>1
<1> HIDE DEF climb
<1>4. \A left \in 0..Inodes : \A n \in Inode : climb[left][n] = Rung(f, left, climb[left - 1], n)
  <2>1. \A left \in 0..Inodes : climb[left] = Rungs(f, left, climb[left - 1])
    BY <1>3
  <2>2. \A left, prev : \A n \in Inode : Rungs(f, left, prev)[n] = Rung(f, left, prev, n)
    BY DEF Rungs
  <2> QED BY <2>1, <2>2
<1>5. \A left \in 0..Inodes : right(left - 1) \/ left = 0 => right(left)
  <2> TAKE left \in 0..Inodes
  <2>1. SUFFICES ASSUME right(left - 1) \/ left = 0, NEW q \in Seq(Name), NEW n \in Inode,
                        Leads(f, q, n, "dir"), climb[left][n].ok
                 PROVE  climb[left][n].path = q
    OBVIOUS
  <2> DEFINE prev == climb[left - 1]
  <2>2. \A r \in Seq(Name) : \A m \in Inode :
           left # 0 /\ Leads(f, r, m, "dir") /\ prev[m].ok => prev[m].path = r
    <3>1. left # 0 => left - 1 \in 0..Inodes
      BY <1>2
    <3> QED BY <2>1, <3>1
  <2>3. Rung(f, left, prev, n).ok /\ climb[left][n] = Rung(f, left, prev, n)
    BY <1>4, <2>1
  <2> HIDE DEF prev
  <2>4. Rung(f, left, prev, n).path = q
    BY <2>1, <2>2, <2>3, RungIsRight
  <2> QED BY <2>3, <2>4
<1>6. \A left \in 0..Inodes : right(left)
  <2> DEFINE wrong == {left \in 0..Inodes : ~right(left)}
  <2> SUFFICES ASSUME wrong # {} PROVE FALSE
    OBVIOUS
  <2>1. PICK m \in wrong : \A k \in wrong : m <= k
    <3>1. wrong \subseteq Nat
      BY <1>2
    <3> HIDE DEF wrong
    <3>2. Min(wrong) \in wrong /\ \A k \in wrong : Min(wrong) <= k
      BY <3>1, MinIsLeast
    <3> QED BY <3>2
  <2>2. m \in 0..Inodes /\ ~right(m)
    OBVIOUS
  <2>3. m # 0
    BY <1>5, <2>2
  <2>4. m - 1 \in 0..Inodes /\ ~(m <= m - 1)
    BY <1>2, <2>2, <2>3
  <2>5. right(m - 1)
    <3> HIDE DEF right
    <3> QED BY <2>1, <2>4
  <2> HIDE DEF right
  <2> QED BY <1>5, <2>2, <2>5
<1>7. no \in Inode /\ Inodes \in 0..Inodes
  BY <1>2, LeadsAreTyped
<1> QED BY <1>1, <1>6, <1>7

(* The inodes on the way to an inode, which are as many as the names.       *)
Chain(f, S, l) ==
    /\ IsFiniteSet(S) /\ S \subseteq Inode /\ Cardinality(S) = l + 1
    /\ \A m \in S : \E q \in Seq(Name) : Len(q) <= l /\ \E kind : Leads(f, q, m, kind)

LEMMA ChainGrows ==
    ASSUME NEW f, NEW spare, Sound(f, {}, spare), NEW p \in Seq(Name), NEW l, l = Len(p),
           NEW S, Chain(f, S, l), NEW x \in Name, NEW no, NEW kind, Leads(f, Append(p, x), no, kind)
    PROVE  Chain(f, S \cup {no}, l + 1)
<1>1. l \in Nat /\ Append(p, x) \in Seq(Name) /\ Len(Append(p, x)) = l + 1
  BY AppendProperties, LenProperties
<1>2. no \notin S
  <2>1. SUFFICES ASSUME no \in S PROVE FALSE
    OBVIOUS
  <2>2. PICK q \in Seq(Name) : Len(q) <= l /\ \E k : Leads(f, q, no, k)
    BY <2>1 DEF Chain
  <2>3. q = Append(p, x)
    BY <1>1, <2>2, PathsAreUnique
  <2> QED BY <1>1, <2>2, <2>3
<1>3. no \in Inode
  BY <1>1, LeadsAreTyped
<1>4. IsFiniteSet(S) /\ Cardinality(S) = l + 1
  BY DEF Chain
<1>5. IsFiniteSet(S \cup {no}) /\ Cardinality(S \cup {no}) = l + 1 + 1
  BY <1>2, <1>4, FS_AddElement
<1>6. ASSUME NEW m \in S \cup {no}
      PROVE  \E q \in Seq(Name) : Len(q) <= l + 1 /\ \E k : Leads(f, q, m, k)
  <2>1. CASE m = no
    <3>1. Len(Append(p, x)) <= l + 1
      BY <1>1
    <3> QED BY <1>1, <2>1, <3>1
  <2>2. CASE m \in S
    <3>1. PICK q \in Seq(Name) : Len(q) <= l /\ \E k : Leads(f, q, m, k)
      BY <2>2 DEF Chain
    <3>2. Len(q) \in Nat
      BY LenProperties
    <3>3. Len(q) <= l + 1
      BY <1>1, <3>1, <3>2
    <3> QED BY <3>1, <3>3
  <2> QED BY <1>6, <2>1, <2>2
<1>7. S \cup {no} \subseteq Inode
  BY <1>3 DEF Chain
<1> QED BY <1>5, <1>6, <1>7 DEF Chain

(* A path on the disk has fewer names than the disk has inodes.             *)
LEMMA PathsAreShort ==
    ASSUME NEW f, NEW spare, Sound(f, {}, spare), NEW p \in Seq(Name), NEW no, NEW kind,
           Leads(f, p, no, kind)
    PROVE  Len(p) < Inodes
<1> DEFINE named(q) == \E m, k : Leads(f, q, m, k)
           T == {q \in Seq(Name) : named(q) => \E S : Chain(f, S, Len(q))}
<1>1. T \subseteq Seq(Name)
  OBVIOUS
<1>2. <<>> \in T
  <2>1. Leads(f, <<>>, Root, "dir") /\ <<>> \in Seq(Name) /\ Len(<<>>) = 0
    BY LeadsUnfolds, EmptySeq
  <2>2. IsFiniteSet({Root}) /\ Cardinality({Root}) = 1 /\ Root \in Inode
    BY FS_Singleton, RangesAreFinite
  <2>3. \A m \in {Root} : \E q \in Seq(Name) : Len(q) <= 0 /\ \E k : Leads(f, q, m, k)
    <3>1. Len(<<>>) <= 0
      BY <2>1
    <3> QED BY <2>1, <3>1
  <2>4. Chain(f, {Root}, 0)
    BY <2>2, <2>3 DEF Chain
  <2> QED BY <2>1, <2>4
<1>3. ASSUME NEW q \in T, NEW x \in Name PROVE Append(q, x) \in T
  <2>1. q \in Seq(Name) /\ Append(q, x) \in Seq(Name) /\ Len(Append(q, x)) = Len(q) + 1
    BY AppendProperties
  <2>2. SUFFICES ASSUME NEW m, NEW k, Leads(f, Append(q, x), m, k)
                 PROVE  \E S : Chain(f, S, Len(Append(q, x)))
    BY <2>1
  <2>3. named(q)
    BY <2>1, <2>2, LeadsUnfolds
  <2>4. PICK S : Chain(f, S, Len(q))
    BY <2>3
  <2>5. Chain(f, S \cup {m}, Len(q) + 1)
    BY <2>1, <2>2, <2>4, ChainGrows
  <2> QED BY <2>1, <2>5
<1> HIDE DEF T
<1>4. T = Seq(Name)
  BY <1>1, <1>2, <1>3, AllSequences
<1>5. PICK S : Chain(f, S, Len(p))
  BY <1>4 DEF T
<1>6. Inodes \in Nat /\ IsFiniteSet(Inode) /\ Cardinality(Inode) = Inodes
  <2>1. Inodes \in Nat /\ 0 \in Int /\ Inodes - 1 \in Int
    <3>1. Inodes \in Nat
      BY DirectoriesAssumption
    <3>2. Inodes - 1 \in Int /\ 0 \in Int
      BY ONLY <3>1
    <3> QED BY <3>1, <3>2
  <2>2. IsFiniteSet(0..Inodes - 1)
        /\ Cardinality(0..Inodes - 1) = IF 0 > Inodes - 1 THEN 0 ELSE Inodes - 1 - 0 + 1
    BY <2>1, FS_Interval
  <2> QED BY <2>1, <2>2 DEF Inode
<1>7. Cardinality(S) <= Inodes /\ Cardinality(S) = Len(p) + 1
  <2>1. S \in SUBSET Inode /\ Cardinality(S) = Len(p) + 1
    BY <1>5 DEF Chain
  <2> QED BY <1>6, <2>1, FS_Subset
<1>8. Len(p) \in Nat
  BY LenProperties
<1> QED BY <1>6, <1>7, <1>8

(* Without holes no block is missing before one that is there.              *)
LEMMA BlocksBefore ==
    ASSUME NEW f, NoHoles(f), NEW d \in DirsOnDisk(f),
           NEW k \in 0..Direct - 1, BlockOf(f, d, k) # 0
    PROVE  \A j \in 0..k : BlockOf(f, d, j) # 0
<1>1. k \in Nat /\ k <= Direct - 1 /\ Direct \in Nat
  BY Sizes
<1> DEFINE Ns == {n \in Nat : n <= k => BlockOf(f, d, k - n) # 0}
<1>2. 0 \in Ns
  <2>1. k - 0 = k
    BY <1>1
  <2> QED BY <2>1
<1>3. ASSUME NEW n \in Ns PROVE n + 1 \in Ns
  <2>1. n \in Nat /\ (n <= k => BlockOf(f, d, k - n) # 0)
    BY <1>3
  <2>2. SUFFICES ASSUME n + 1 <= k PROVE BlockOf(f, d, k - (n + 1)) # 0
    BY <2>1
  <2>3. n <= k /\ k - n \in 1..Direct - 1 /\ k - n - 1 = k - (n + 1)
    BY <1>1, <2>1, <2>2
  <2> QED BY <2>1, <2>3 DEF NoHoles
<1>4. Ns = Nat
  <2> HIDE DEF Ns
  <2>1. \A n \in Ns : n + 1 \in Ns
    BY <1>3
  <2>2. Ns \subseteq Nat
    BY DEF Ns
  <2> QED BY <1>2, <2>1, <2>2, AllNaturals
<1>5. ASSUME NEW j \in 0..k PROVE BlockOf(f, d, j) # 0
  <2>1. k - j \in Nat /\ k - j <= k /\ k - (k - j) = j
    BY <1>1
  <2>2. k - j \in Ns
    BY <1>4, <2>1
  <2> QED BY <2>1, <2>2
<1> QED BY <1>5

(* getcwd comes back with a path, or hangs at a hole.                       *)
Comes(f, answer) == \/ answer.ok = TRUE /\ answer.stops = FALSE
                    \/ ~NoHoles(f) /\ answer = Stuck

(* getcwd finds the name of a directory in the one above.                   *)
LEMMA NameIsFound ==
    ASSUME NEW f, NEW spare, Sound(f, {}, spare),
           NEW p \in Seq(Name), NEW no, no # Root, Leads(f, p, no, "dir")
    PROVE  Comes(f, get_child_dir_name(f, Up(f, no), no))
<1> DEFINE d == Up(f, no)
           found == {t \in Places(f, d) : At(f, d, t).no = no}
           sec == inode_open(f, d).sec
<1>1. PICK q \in Seq(Name) : Leads(f, q, d, "dir")
  BY ParentLeads
<1>2. PICK s \in Namings(f, d) : Slot(f, d, s).no = no
  BY <1>1, ParentLeads
<1>3. d \in DirsOnDisk(f)
  BY ParentLeads
<1>4. f \in FileSystem /\ CacheIsCurrent(f) /\ d \in f.ibits /\ d \in Inode /\ HoldsDir(f, d) /\ EntriesFit(f, d)
  BY <1>3, Parts DEF Sound, DirsFormTree, DirsOnDisk
<1>5. found = {s}
  <2>1. EntriesFor(f, d, no) = {s}
    <3>1. Leads(f, p, no, "dir") /\ d = Up(f, no) /\ no # Root /\ s \in Namings(f, d) /\ Slot(f, d, s).no = no
      BY <1>2
    <3> HIDE DEF found, d
    <3> QED BY ONLY Sound(f, {}, spare), p \in Seq(Name), <3>1, OnlyOneEntry
  <2> QED BY <2>1 DEF EntriesFor
<1>6. s \in Slots /\ BlockOf(f, d, s[1]) # 0
  BY DEF Namings, Live
<1>7. s[1] \in 0..Direct - 1 /\ s[1] \in Nat /\ s[2] \in Nat
  BY <1>6, Sizes DEF Slots
<1>8. FirstPlace(found) = s
  BY ONLY <1>5, <1>7 DEF FirstPlace
<1>9. NoHoles(f) => \A j \in 0..s[1] - 1 : sec[j] # 0
  <2> SUFFICES ASSUME NoHoles(f) PROVE \A j \in 0..s[1] - 1 : sec[j] # 0
    OBVIOUS
  <2>1. sec = f.disk[d].sec
    BY <1>4, OpenIsDisk
  <2>2. \A j \in 0..s[1] : BlockOf(f, d, j) # 0
    BY <1>3, <1>6, <1>7, BlocksBefore
  <2>3. \A j \in 0..s[1] - 1 : j \in 0..s[1]
    BY <1>7
  <2> QED BY <2>1, <2>2, <2>3 DEF BlockOf
<1>10. CASE \A j \in 0..s[1] - 1 : sec[j] # 0
  <2>1. found # {} /\ \A j \in 0..FirstPlace(found)[1] - 1 : sec[j] # 0
    BY <1>5, <1>8, <1>10
  <2>2. get_child_dir_name(f, d, no) =
           [NoAnswer EXCEPT !.ok = TRUE, !.path = <<At(f, d, FirstPlace(found)).name>>]
    BY <2>1 DEF get_child_dir_name
  <2> QED BY <2>2 DEF NoAnswer, Comes
<1>11. CASE ~\A j \in 0..s[1] - 1 : sec[j] # 0
  <2>1. ~\A j \in 0..FirstPlace(found)[1] - 1 : sec[j] # 0
    BY <1>8, <1>11
  <2>2. ~\A j \in 0..Direct - 1 : sec[j] # 0
    <3>1. \A j \in 0..s[1] - 1 : j \in 0..Direct - 1
      BY <1>7, Sizes
    <3> QED BY <1>11, <3>1
  <2>3. get_child_dir_name(f, d, no) = Stuck
    BY <2>1, <2>2 DEF get_child_dir_name
  <2> QED BY <1>9, <1>11, <2>3 DEF Comes
<1> QED BY <1>10, <1>11

LEMMA RungHolds ==
    ASSUME NEW f, NEW spare, Sound(f, {}, spare), NEW left \in Nat, NEW prev,
           NEW p \in Seq(Name), NEW no, Leads(f, p, no, "dir"), Len(p) <= left,
           \A q \in Seq(Name) : \A n \in Inode :
              left # 0 /\ Leads(f, q, n, "dir") /\ Len(q) <= left - 1 => Comes(f, prev[n])
    PROVE  Comes(f, Rung(f, left, prev, no))
<1>1. no \in DirsOnDisk(f) /\ no \in Inode
  BY LeadsAreTyped
<1>2. CASE no = Root
  BY <1>2 DEF Rung, NoAnswer, Comes
<1>3. CASE no # Root
  <2> DEFINE first == inode_open(f, no).sec[0]
             parent == f.data[first][2]
             name == get_child_dir_name(f, parent.no, no)
             above == prev[parent.no]
  <2>1. /\ f \in FileSystem /\ CacheIsCurrent(f) /\ no \in f.ibits
        /\ HoldsDir(f, no) /\ EntriesFit(f, no)
    BY <1>1, Parts DEF Sound, DirsFormTree, DirsOnDisk
  <2>2. parent = Slot(f, no, <<0, 2>>) /\ first # 0
    <3>1. inode_open(f, no) = f.disk[no]
      BY <1>1, <2>1, OpenIsDisk
    <3>2. first = BlockOf(f, no, 0)
      BY <3>1 DEF BlockOf
    <3>3. Slot(f, no, <<0, 2>>) = f.data[BlockOf(f, no, <<0, 2>>[1])][<<0, 2>>[2]]
      BY DEF Slot
    <3> HIDE DEF first
    <3> QED BY <2>1, <3>2, <3>3 DEF HoldsDir
  <2>3. parent.kind = "dir" /\ parent.no = Up(f, no)
    BY <2>1, <2>2 DEF EntriesFit, Up
  <2>4. Comes(f, name)
    <3>1. Comes(f, get_child_dir_name(f, Up(f, no), no))
      BY <1>3, NameIsFound
    <3> QED BY <2>3, <3>1
  <2>5. PICK q \in Seq(Name), s \in Namings(f, Up(f, no)) :
           Leads(f, q, Up(f, no), "dir") /\ p = Append(q, Slot(f, Up(f, no), s).name)
    <3>1. PICK q \in Seq(Name) : Leads(f, q, Up(f, no), "dir")
      BY <1>3, ParentLeads
    <3> QED BY <1>3, <3>1, ParentLeads
  <2>6. Len(p) = Len(q) + 1 /\ Len(q) \in Nat
    <3>1. Slot(f, Up(f, no), s).name \in Name
      BY <2>5 DEF Namings
    <3> QED BY <2>5, <3>1, AppendProperties, LenProperties
  <2>7. left # 0 /\ Len(q) <= left - 1
    <3>1. \A a, b \in Nat : a + 1 <= b => b # 0 /\ a <= b - 1
      BY ONLY TRUE
    <3> QED BY ONLY <2>6, <3>1, left \in Nat, Len(p) <= left
  <2>8. Comes(f, above)
    <3>1. Up(f, no) \in Inode
      BY <2>5, LeadsAreTyped
    <3>2. Comes(f, prev[Up(f, no)])
      BY <2>5, <2>7, <3>1
    <3> QED BY <2>3, <3>2
  <2>9. Rung(f, left, prev, no) = IF ~name.ok THEN name
                                  ELSE IF ~above.ok THEN above
                                  ELSE [NoAnswer EXCEPT !.ok = TRUE, !.path = above.path \o name.path]
    <3> HIDE DEF above, name
    <3>1. Rung(f, left, prev, no) =
             IF no = Root THEN [NoAnswer EXCEPT !.ok = TRUE]
             ELSE IF left = 0 \/ first = 0 THEN Stuck
             ELSE IF parent.kind # "dir" THEN Stuck
             ELSE IF ~name.ok THEN name
             ELSE IF ~above.ok THEN above
             ELSE [NoAnswer EXCEPT !.ok = TRUE, !.path = above.path \o name.path]
      BY DEF Rung, name, above
    <3> QED BY <1>3, <2>2, <2>3, <2>7, <3>1
  <2> HIDE DEF above, name
  <2> QED BY <2>4, <2>8, <2>9 DEF NoAnswer, Comes
<1> QED BY <1>2, <1>3

(* The whole climb.                                                         *)
LEMMA GetcwdHolds ==
    ASSUME NEW f, NEW spare, Sound(f, {}, spare),
           NEW p \in Seq(Name), NEW no, Leads(f, p, no, "dir")
    PROVE  Comes(f, sys_getcwd(f, no))
<1> DEFINE climb == CHOOSE climb : climb = [left \in 0..Inodes |-> Rungs(f, left, climb[left - 1])]
           holds(left) == \A q \in Seq(Name) : \A n \in Inode :
              left \in 0..Inodes /\ Leads(f, q, n, "dir") /\ Len(q) <= left => Comes(f, climb[left][n])
<1>1. sys_getcwd(f, no) = climb[Inodes][no]
  BY DEF sys_getcwd, Rungs, Rung
<1>2. Inodes \in Nat
  BY DirectoriesAssumption
<1>3. climb = [left \in 0..Inodes |-> Rungs(f, left, climb[left - 1])]
  <2>1. \E c : c = [left \in 0..Inodes |-> Rungs(f, left, c[left - 1])]
    BY <1>2, ClimbExists DEF IsClimb
  <2> QED BY <2>1
<1> HIDE DEF climb
<1>4. \A left \in 0..Inodes : \A n \in Inode : climb[left][n] = Rung(f, left, climb[left - 1], n)
  <2>1. \A left \in 0..Inodes : climb[left] = Rungs(f, left, climb[left - 1])
    BY <1>3
  <2>2. \A left, prev : \A n \in Inode : Rungs(f, left, prev)[n] = Rung(f, left, prev, n)
    BY DEF Rungs
  <2> QED BY <2>1, <2>2
<1>5. \A left \in 0..Inodes : holds(left - 1) \/ left = 0 => holds(left)
  <2> TAKE left \in 0..Inodes
  <2>1. SUFFICES ASSUME holds(left - 1) \/ left = 0, NEW q \in Seq(Name), NEW n \in Inode,
                        Leads(f, q, n, "dir"), Len(q) <= left
                 PROVE  Comes(f, climb[left][n])
    OBVIOUS
  <2> DEFINE prev == climb[left - 1]
  <2>2. \A r \in Seq(Name) : \A m \in Inode :
           left # 0 /\ Leads(f, r, m, "dir") /\ Len(r) <= left - 1 => Comes(f, prev[m])
    <3>1. left # 0 => left - 1 \in 0..Inodes
      BY <1>2
    <3> QED BY <2>1, <3>1
  <2>3. climb[left][n] = Rung(f, left, prev, n)
    BY <1>4
  <2> HIDE DEF prev
  <2>4. left \in Nat
    OBVIOUS
  <2>5. Comes(f, Rung(f, left, prev, n))
    BY <2>1, <2>2, <2>4, RungHolds
  <2> QED BY <2>3, <2>5
<1>6. \A left \in 0..Inodes : holds(left)
  <2> DEFINE wrong == {left \in 0..Inodes : ~holds(left)}
  <2> SUFFICES ASSUME wrong # {} PROVE FALSE
    OBVIOUS
  <2>1. PICK m \in wrong : \A k \in wrong : m <= k
    <3>1. wrong \subseteq Nat
      BY <1>2
    <3> HIDE DEF wrong
    <3>2. Min(wrong) \in wrong /\ \A k \in wrong : Min(wrong) <= k
      BY <3>1, MinIsLeast
    <3> QED BY <3>2
  <2>2. m \in 0..Inodes /\ ~holds(m)
    OBVIOUS
  <2>3. m # 0
    BY <1>5, <2>2
  <2>4. m - 1 \in 0..Inodes /\ ~(m <= m - 1)
    BY <1>2, <2>2, <2>3
  <2>5. holds(m - 1)
    <3> HIDE DEF holds
    <3> QED BY <2>1, <2>4
  <2> HIDE DEF holds
  <2> QED BY <1>5, <2>2, <2>5
<1>7. no \in Inode /\ Inodes \in 0..Inodes
  BY <1>2, LeadsAreTyped
<1>8. Len(p) <= Inodes
  <2>1. Len(p) < Inodes /\ Len(p) \in Nat
    BY PathsAreShort, LenProperties
  <2> QED BY <1>2, <2>1
<1> QED BY <1>1, <1>6, <1>7, <1>8

(* Between two commands: the prompt's path leads to the current directory. *)
Held(f, here, shown) ==
    /\ Sound(f, {}, f.lost) /\ BlocksAreUsed(f) /\ Bounded(f)
    /\ shown \in Path /\ Leads(f, shown, here, "dir")
RInv == Held(fs, cwd, cwd_cache)

(* What a step of the tree is about a path.                                 *)
LEMMA TreeStep ==
    ASSUME NEW path \in Path, reply'.of = path,
           \/ Tree!Make("mkdir", path, "dir") \/ Tree!Make("create", path, "file")
           \/ Tree!RemoveDir(path) \/ Tree!RemoveFile(path)
           \/ Tree!Change(path) \/ Tree!List(path)
    PROVE  Tree!TreeNext
<1>1. path \in Tree!Path
  BY DEF Path, Tree!Path
<1> QED BY <1>1 DEF Tree!TreeNext

LEMMA AnswersAre ==
    /\ Nothing = Tree!Nothing
    /\ \A by, path, ok : /\ Answer(by, path, ok) = Tree!Answer(by, path, ok)
                         /\ Answer(by, path, ok).of = path
    /\ \A by, path, paths : /\ Printed(by, path, paths) = Tree!Printed(by, path, paths)
                            /\ Printed(by, path, paths).of = path
                            /\ Printed(by, path, paths).ok
BY DEF Nothing, Answer, Printed, Tree!Nothing, Tree!Answer, Tree!Printed

LEMMA SameEnds ==
    \A q : Tree!Front(q) = Front(q) /\ Tree!Last(q) = Last(q)
BY DEF Front, Last, Tree!Front, Tree!Last

(* A call that makes something, or refuses to.                              *)
LEMMA MakingRefines ==
    ASSUME RInv, NEW path \in Path, NEW kind \in {"dir", "file"}, NEW c, Makes(fs, path, kind, c),
           Sound(c.fs, {}, c.fs.lost), NEW by, Call(by, path, c)
    PROVE  RInv' /\ Tree!Make(by, path, kind) /\ reply'.of = path
<1> DEFINE t == TreeOn(fs)
           u == TreeOn(c.fs)
<1>1. /\ Sound(fs, {}, fs.lost) /\ BlocksAreUsed(fs) /\ Bounded(fs)
      /\ cwd_cache \in Path /\ cwd_cache \in Seq(Name) /\ Leads(fs, cwd_cache, cwd, "dir")
  BY RootIsPath DEF RInv, Held
<1>2. fs' = c.fs /\ reply' = Answer(by, path, c.ok) /\ cwd' = cwd /\ cwd_cache' = cwd_cache
  BY DEF Call
<1>3. /\ Bounded(c.fs)
      /\ Leads(c.fs, cwd_cache, cwd, "dir")
      /\ \/ /\ c.ok = TRUE /\ path \notin DOMAIN t /\ path # <<>>
            /\ Front(path) \in DOMAIN t /\ t[Front(path)] = "dir"
            /\ u = Plus(t, path, kind)
         \/ c.ok = FALSE /\ u = t
  <2>1. MadeInTree(fs, path, kind, c)
    BY ONLY <1>1, path \in Path, Makes(fs, path, kind, c), Sound(c.fs, {}, c.fs.lost), MakesInTree
  <2> QED BY <1>1, <2>1 DEF MadeInTree
<1>4. BlocksAreUsed(c.fs)
  BY <1>1 DEF Makes, KeepsBlocks
<1>5. Held(c.fs, cwd, cwd_cache)
  BY <1>1, <1>3, <1>4 DEF Held
<1>6. RInv'
  BY <1>2, <1>5 DEF RInv
<1>7. TreeOnDisk = t /\ TreeOnDisk' = u
  BY <1>2 DEF TreeOnDisk
<1> HIDE DEF t, u
<1>8. Tree!Make(by, path, kind)
  <2>1. CASE c.ok = TRUE /\ u = Plus(t, path, kind)
    <3>1. reply' = Tree!Answer(by, path, TRUE)
      BY <1>2, <2>1, AnswersAre
    <3>2. Tree!IsDir(Front(path)) /\ path \notin DOMAIN TreeOnDisk /\ path # <<>>
      BY <1>3, <1>7, <2>1 DEF Tree!IsDir
    <3>3. TreeOnDisk' = [q \in DOMAIN TreeOnDisk \cup {path} |-> IF q = path THEN kind ELSE TreeOnDisk[q]]
      BY <1>7, <2>1 DEF Plus
    <3>4. UNCHANGED cwd_cache
      BY <1>2
    <3> QED BY ONLY <3>1, <3>2, <3>3, <3>4, SameEnds DEF Tree!Make
  <2>2. CASE c.ok = FALSE /\ u = t
    <3>1. reply' = Tree!Answer(by, path, FALSE)
      BY <1>2, <2>2, AnswersAre
    <3> QED BY <1>2, <1>7, <2>2, <3>1 DEF Tree!Make, Tree!Fail
  <2> QED BY <1>3, <2>1, <2>2
<1>9. reply'.of = path
  BY <1>2, AnswersAre
<1> QED BY <1>6, <1>8, <1>9

(* A call that removes a file or an empty directory, but not the current   *)
(* one.                                                                     *)
LEMMA RemovingRefines ==
    ASSUME RInv, NEW path \in Path, path # <<>>, NEW kind \in {"dir", "file"}, NEW may, NEW c,
           Removes(fs, path, kind, may, c), Sound(c.fs, {}, c.fs.lost),
           NEW by, Call(by, path, c), may => search_file(fs, path).no # cwd \/ kind = "file"
    PROVE  /\ RInv' /\ reply'.of = path
           /\ IF may THEN Tree!Gone(by, path) ELSE Tree!Fail(by, path)
<1> DEFINE t == TreeOn(fs)
           u == TreeOn(c.fs)
<1>1. /\ Sound(fs, {}, fs.lost) /\ BlocksAreUsed(fs) /\ Bounded(fs)
      /\ cwd_cache \in Path /\ cwd_cache \in Seq(Name) /\ Leads(fs, cwd_cache, cwd, "dir")
  BY RootIsPath DEF RInv, Held
<1>2. fs' = c.fs /\ reply' = Answer(by, path, c.ok) /\ cwd' = cwd /\ cwd_cache' = cwd_cache
  BY DEF Call
<1>3. /\ Bounded(c.fs)
      /\ Leads(c.fs, cwd_cache, cwd, "dir") \/ cwd_cache = path
      /\ IF may THEN /\ c.ok = TRUE /\ path \in DOMAIN t /\ t[path] = kind
                     /\ u = Minus(t, path)
                ELSE c.ok = FALSE /\ u = t
  <2>1. RemovedFromTree(fs, path, kind, may, c)
    BY ONLY <1>1, path \in Path, path # <<>>, kind \in {"dir", "file"},
            Removes(fs, path, kind, may, c), Sound(c.fs, {}, c.fs.lost), RemovesInTree
  <2> QED BY <1>1, <2>1 DEF RemovedFromTree
<1>4. BlocksAreUsed(c.fs)
  BY <1>1 DEF Removes
<1>5. Leads(c.fs, cwd_cache, cwd, "dir")
  <2>1. CASE ~may
    <3>1. SameLinked(fs, c.fs)
      BY <2>1 DEF Removes
    <3> QED BY <1>1, <3>1, SameInTree
  <2>2. CASE may /\ cwd_cache = path
    <3>1. search_file(fs, path).no = cwd /\ search_file(fs, path).kind = "dir" /\ t[path] = "dir"
      BY <1>1, <2>2, SearchTells
    <3> HIDE DEF t
    <3> QED BY <1>3, <2>2, <3>1
  <2> QED BY <1>3, <2>1, <2>2
<1>6. Held(c.fs, cwd, cwd_cache)
  BY <1>1, <1>3, <1>4, <1>5 DEF Held
<1>7. RInv'
  BY <1>2, <1>6 DEF RInv
<1>8. TreeOnDisk = t /\ TreeOnDisk' = u
  BY <1>2 DEF TreeOnDisk
<1> HIDE DEF t, u
<1>9. reply'.of = path
  BY <1>2, AnswersAre
<1>10. CASE may
  <2>1. reply' = Tree!Answer(by, path, TRUE)
    BY <1>2, <1>3, <1>10, AnswersAre
  <2>2. TreeOnDisk' = [q \in DOMAIN TreeOnDisk \ {path} |-> TreeOnDisk[q]]
    BY <1>3, <1>8, <1>10 DEF Minus
  <2>3. Tree!Gone(by, path)
    BY <1>2, <2>1, <2>2 DEF Tree!Gone
  <2> QED BY <1>7, <1>9, <1>10, <2>3
<1>11. CASE ~may
  <2>1. reply' = Tree!Answer(by, path, FALSE)
    BY <1>2, <1>3, <1>11, AnswersAre
  <2>2. Tree!Fail(by, path)
    BY <1>2, <1>3, <1>8, <1>11, <2>1 DEF Tree!Fail
  <2> QED BY <1>7, <1>9, <1>11, <2>2
<1> QED BY <1>10, <1>11

Told(f, p, t, r) ==
    /\ r.kind = "dir" <=> p \in DOMAIN t /\ t[p] = "dir"
    /\ p \in DOMAIN t /\ t[p] = "file" <=> Leads(f, p, r.no, "file")
    /\ p \in DOMAIN t => t[p] \in {"dir", "file"}
    /\ \A no, kind : Leads(f, p, no, kind) => no = r.no /\ kind = r.kind

LEMMA TreeTells ==
    ASSUME NEW f, NEW spare, Sound(f, {}, spare), NEW p \in Path
    PROVE  Told(f, p, TreeOn(f), search_file(f, p))
<1> DEFINE t == TreeOn(f)
           r == search_file(f, p)
<1>1. t = TreeOn(f) /\ r = search_file(f, p)
  OBVIOUS
<1> HIDE DEF t, r
<1>2. Told(f, p, t, r)
  BY <1>1, SearchTells DEF Told
<1> QED BY <1>1, <1>2

LEMMA RootIsFound ==
    ASSUME NEW f
    PROVE  search_file(f, <<>>).kind = "dir"
BY DEF search_file, Start

(* mkdir, rmdir and rm of the root, which the shell refuses by itself.      *)
LEMMA RefusalRefines ==
    ASSUME RInv, NEW path \in Path, path = <<>>, NEW by \in {"mkdir", "rmdir", "rm"},
           Call(by, path, Refuse(fs))
    PROVE  RInv' /\ Tree!TreeNext
<1>1. Refuse(fs).fs = fs /\ Refuse(fs).ok = FALSE /\ Refuse(fs).stops = FALSE
  BY DEF Refuse, Result
<1>2. UNCHANGED <<fs, cwd, cwd_cache>> /\ reply' = Answer(by, path, FALSE)
  BY <1>1 DEF Call
<1>3. RInv' /\ TreeOnDisk' = TreeOnDisk
  BY <1>2 DEF RInv, TreeOnDisk
<1>4. Tree!Fail(by, path) /\ reply'.of = path
  <2>1. reply' = Tree!Answer(by, path, FALSE) /\ Answer(by, path, FALSE).of = path
    BY <1>2 DEF Answer, Tree!Answer
  <2> QED BY <1>2, <1>3, <2>1 DEF Tree!Fail
<1>5. ~Tree!IsEmptyDir(path) /\ ~Tree!IsFile(path)
  <2>1. Told(fs, path, TreeOn(fs), search_file(fs, path))
    BY TreeTells DEF RInv, Held
  <2>2. TreeOn(fs)[path] = "dir"
    BY <2>1, RootIsFound DEF Told
  <2> QED BY <2>2 DEF Tree!IsEmptyDir, Tree!IsFile, TreeOnDisk
<1>6. Tree!Make("mkdir", path, "dir") \/ Tree!RemoveDir(path) \/ Tree!RemoveFile(path)
  BY <1>4, <1>5 DEF Tree!Make, Tree!RemoveDir, Tree!RemoveFile
<1> QED BY <1>3, <1>4, <1>6, TreeStep

LEMMA ChangeRefines ==
    ASSUME RInv, NEW path \in Path, ChangeTo(path)
    PROVE  RInv' /\ Tree!TreeNext
<1> DEFINE t == TreeOn(fs)
           r == search_file(fs, path)
<1>1. /\ Sound(fs, {}, fs.lost) /\ BlocksAreUsed(fs) /\ Bounded(fs)
      /\ cwd_cache \in Path /\ Leads(fs, cwd_cache, cwd, "dir")
  BY DEF RInv, Held
<1>2. /\ r.kind = "dir" <=> path \in DOMAIN t /\ t[path] = "dir"
      /\ r.kind = "dir" <=> Leads(fs, path, r.no, "dir")
  BY <1>1, SearchTells
<1>3. /\ cwd' = IF r.kind = "dir" THEN r.no ELSE cwd
      /\ cwd_cache' = IF r.kind = "dir" THEN path ELSE cwd_cache
      /\ reply' = Answer("cd", path, r.kind = "dir") /\ fs' = fs
  BY DEF ChangeTo, sys_chdir
<1>4. TreeOnDisk = t /\ TreeOnDisk' = t
  BY <1>3 DEF TreeOnDisk
<1> HIDE DEF t, r
<1>5. Tree!IsDir(path) <=> r.kind = "dir"
  BY <1>2, <1>4 DEF Tree!IsDir
<1>6. reply'.of = path
  BY <1>3, AnswersAre
<1>7. CASE r.kind = "dir"
  <2>1. Held(fs, r.no, path)
    BY <1>1, <1>2, <1>7 DEF Held
  <2>2. RInv'
    BY <1>3, <1>7, <2>1 DEF RInv
  <2>3. cwd_cache' = path /\ reply' = Tree!Answer("cd", path, TRUE)
    BY <1>3, <1>7, AnswersAre
  <2>4. Tree!Change(path)
    BY <1>4, <1>5, <1>7, <2>3 DEF Tree!Change
  <2> QED BY <1>6, <2>2, <2>4, TreeStep
<1>8. CASE r.kind # "dir"
  <2>1. RInv'
    BY <1>1, <1>3, <1>8 DEF RInv, Held
  <2>2. cwd_cache' = cwd_cache /\ reply' = Tree!Answer("cd", path, FALSE)
    BY <1>3, <1>8, AnswersAre
  <2>3. Tree!Change(path)
    BY <1>4, <1>5, <1>8, <2>2 DEF Tree!Change, Tree!Fail
  <2> QED BY <1>6, <2>1, <2>3, TreeStep
<1> QED BY <1>7, <1>8

(* A user who walks through no file does not search for a path in one.      *)
LEMMA FrontIsNoFile ==
    ASSUME RInv, NEW path \in Path, path # <<>>, WalksDirectories(path),
           "no path through a file" \in Habits
    PROVE  search_file(fs, Front(path)).kind # "file"
<1>1. Sound(fs, {}, fs.lost)
  BY DEF RInv, Held
<1>2. /\ Front(path) \in Path /\ Len(path) = Len(Front(path)) + 1
      /\ Front(path) = SubSeq(path, 1, Len(path) - 1)
  BY <1>1, LastName
<1>3. Front(path) \in Seq(Name) /\ Len(Front(path)) \in Nat
  BY <1>2, RootIsPath, LenProperties
<1>4. CASE Front(path) = <<>>
  <2>1. search_file(fs, <<>>).kind = "dir"
    BY RootIsFound
  <2> QED BY <1>4, <2>1
<1>5. CASE Front(path) # <<>>
  <2>1. Len(Front(path)) # 0
    BY <1>3, <1>5, EmptySeq
  <2>2. PICK n \in Nat : n = Len(Front(path)) /\ n # 0 /\ Len(path) = n + 1
    BY <1>2, <1>3, <2>1
  <2>3. PICK k : k = Len(path) - 1 /\ k = n
    <3>1. \A m \in Nat : \A l : l = m + 1 => l - 1 = m
      BY ONLY TRUE
    <3>2. Len(path) - 1 = n
      BY ONLY <2>2, n \in Nat, <3>1
    <3> QED BY <3>2
  <2>4. n \in 1..k
    <3>1. \A m \in Nat : m # 0 => m \in 1..m
      BY ONLY TRUE
    <3>2. n \in 1..n
      BY ONLY <2>2, n \in Nat, <3>1
    <3> QED BY <2>3, <3>2
  <2>5. Front(path) = SubSeq(path, 1, n)
    BY <1>2, <2>3
  <2>6. \A m \in 1..k : search_file(fs, SubSeq(path, 1, m)).kind # "file"
    <3>1. \A m \in 1..Len(path) - 1 : search_file(fs, SubSeq(path, 1, m)).kind # "file"
      BY ONLY WalksDirectories(path), "no path through a file" \in Habits DEF WalksDirectories
    <3> QED BY <2>3, <3>1
  <2> QED BY <2>4, <2>5, <2>6
<1> QED BY <1>4, <1>5

(* A search that has walked no file tells what the tree has.                *)
LEMMA SearchTellsAll ==
    ASSUME RInv, NEW path \in Path, WalksDirectories(path),
           "no path through a file" \in Habits, NEW r, r = search_file(fs, path)
    PROVE  /\ r.kind = "dir" <=> Tree!IsDir(path)
           /\ r.kind = "file" <=> Tree!IsFile(path)
           /\ r.kind \notin {"dir", "file"} => path \notin DOMAIN TreeOnDisk
           /\ path = <<>> => r.kind = "dir"
<1>1. Sound(fs, {}, fs.lost)
  BY DEF RInv, Held
<1> DEFINE t == TreeOn(fs)
<1>2. /\ r.kind = "dir" <=> path \in DOMAIN t /\ t[path] = "dir"
      /\ path \in DOMAIN t /\ t[path] = "file" <=> Leads(fs, path, r.no, "file")
      /\ path \in DOMAIN t => t[path] \in {"dir", "file"}
      /\ \A no, kind : Leads(fs, path, no, kind) => no = r.no /\ kind = r.kind
  <2>1. Told(fs, path, t, r)
    BY <1>1, TreeTells
  <2> HIDE DEF t
  <2> QED BY <2>1 DEF Told
<1>3. path = <<>> => r.kind = "dir"
  <2>1. search_file(fs, <<>>).kind = "dir"
    BY RootIsFound
  <2> QED BY <2>1
<1>4. path # <<>> /\ r.kind = "file" => Leads(fs, path, r.no, "file")
  <2> SUFFICES ASSUME path # <<>>, r.kind = "file" PROVE Leads(fs, path, r.no, "file")
    OBVIOUS
  <2>1. search_file(fs, Front(path)).kind # "file"
    BY FrontIsNoFile
  <2>2. r.kind \in {"dir", "file"} => Leads(fs, path, r.no, r.kind)
    BY <1>1, <2>1, SearchEnds
  <2> QED BY <2>2
<1>5. TreeOnDisk = t
  BY DEF TreeOnDisk
<1> HIDE DEF t
<1>6. r.kind = "file" <=> path \in DOMAIN t /\ t[path] = "file"
  BY <1>2, <1>3, <1>4
<1>7. r.kind \notin {"dir", "file"} => path \notin DOMAIN t
  BY <1>2, <1>6
<1> QED BY <1>2, <1>3, <1>5, <1>6, <1>7 DEF Tree!IsDir, Tree!IsFile

LEMMA ListRefines ==
    ASSUME RInv, NEW path \in Path, ListPath(path), "no path through a file" \in Habits
    PROVE  RInv' /\ Tree!TreeNext
<1> DEFINE r == search_file(fs, path)
           names == {dir_read(fs, r.no)[i].name : i \in 1..inode_open(fs, r.no).size}
           shown == {<<n>> : n \in names \ {".", ".."}}
<1>1. Sound(fs, {}, fs.lost) /\ Bounded(fs) /\ WalksDirectories(path)
  BY DEF RInv, Held, ListPath
<1>2. /\ r.kind = "dir" <=> Tree!IsDir(path)
      /\ r.kind = "file" <=> Tree!IsFile(path)
      /\ r.kind \notin {"dir", "file"} => path \notin DOMAIN TreeOnDisk
  BY <1>1, SearchTellsAll
<1>3. ASSUME r.kind = "dir"
      PROVE  Readable(fs, r.no) /\ shown = {<<Last(q)>> : q \in ChildrenOf(TreeOnDisk, path)}
  <2>1. Leads(fs, path, r.no, "dir")
    BY <1>1, <1>3, SearchTells
  <2>2. r.no \in DirsOnDisk(fs)
    BY <1>1, <2>1, LeadsAreTyped, RootIsPath
  <2>3. /\ Readable(fs, r.no)
        /\ names \ {".", ".."} = {e.name : e \in {x \in DirEntry : Linked(fs, r.no, x)}}
    BY <1>1, <2>2, NamesAreListed
  <2>4. {<<n>> : n \in {e.name : e \in {x \in DirEntry : Linked(fs, r.no, x)}}}
           = {<<Last(q)>> : q \in ChildrenOf(TreeOn(fs), path)}
    BY <1>1, <2>1, ChildrenAreNamed
  <2>5. TreeOn(fs) = TreeOnDisk
    BY DEF TreeOnDisk
  <2> HIDE DEF names
  <2> QED BY <2>3, <2>4, <2>5
<1>4. /\ UNCHANGED <<fs, cwd, cwd_cache>>
      /\ reply' = CASE r.kind = "dir"  -> Printed("ls", path, shown)
                    [] r.kind = "file" -> Printed("ls", path, {path})
                    [] OTHER           -> Answer("ls", path, FALSE)
  BY <1>3 DEF ListPath
<1> HIDE DEF r, shown
<1>5. RInv'
  BY <1>4 DEF RInv
<1>6. TreeOnDisk' = TreeOnDisk
  BY <1>4 DEF TreeOnDisk
<1>7. CASE r.kind = "dir"
  <2>1. reply' = Printed("ls", path, shown)
    BY <1>4, <1>7
  <2>2. reply' = Tree!Printed("ls", path, {<<Tree!Last(q)>> : q \in Tree!Children(path)})
    <3>1. Tree!Children(path) = ChildrenOf(TreeOnDisk, path)
      BY SameEnds DEF Tree!Children, ChildrenOf
    <3>2. {<<Tree!Last(q)>> : q \in Tree!Children(path)} = {<<Last(q)>> : q \in ChildrenOf(TreeOnDisk, path)}
      BY <3>1, SameEnds
    <3> QED BY <1>3, <1>7, <2>1, <3>2, AnswersAre
  <2>3. reply'.of = path /\ reply'.ok
    BY <2>1 DEF Printed
  <2>4. Tree!List(path)
    BY <1>2, <1>4, <1>6, <1>7, <2>2, <2>3 DEF Tree!List
  <2> QED BY <1>5, <2>3, <2>4, TreeStep
<1>8. CASE r.kind = "file"
  <2>1. reply' = Printed("ls", path, {path})
    BY <1>4, <1>8
  <2>2. reply' = Tree!Printed("ls", path, {path}) /\ reply'.of = path /\ reply'.ok
    BY <2>1 DEF Printed, Tree!Printed
  <2>3. Tree!List(path)
    BY <1>2, <1>4, <1>6, <1>8, <2>2 DEF Tree!List
  <2> QED BY <1>5, <2>2, <2>3, TreeStep
<1>9. CASE r.kind \notin {"dir", "file"}
  <2>1. reply' = Answer("ls", path, FALSE)
    BY <1>4, <1>9
  <2>2. reply' = Tree!Answer("ls", path, FALSE) /\ reply'.of = path
    BY <2>1 DEF Answer, Tree!Answer
  <2>3. Tree!List(path)
    BY <1>2, <1>4, <1>6, <1>9, <2>2 DEF Tree!List, Tree!Fail
  <2> QED BY <1>5, <2>2, <2>3, TreeStep
<1> QED BY <1>7, <1>8, <1>9

LEMMA MakingCalls ==
    ASSUME RInv, NEW path \in Path, FreshInode, FreshNumbers
    PROVE  /\ Call("mkdir", path, sys_mkdir(fs, path)) => RInv' /\ Tree!TreeNext
           /\ Call("create", path, create_file(fs, path)) => RInv' /\ Tree!TreeNext
<1>1. Sound(fs, {}, fs.lost)
  BY DEF RInv, Held
<1>2. FreshNumber(fs)
  BY FreshIsFresh
<1>3. /\ Makes(fs, path, "dir", sys_mkdir(fs, path))
      /\ Sound(sys_mkdir(fs, path).fs, {}, sys_mkdir(fs, path).fs.lost)
  BY <1>1, <1>2, MkdirMakes, MkdirIsSound
<1>4. /\ Makes(fs, path, "file", create_file(fs, path))
      /\ Sound(create_file(fs, path).fs, {}, create_file(fs, path).fs.lost)
  BY <1>1, <1>2, CreateMakes, CreateIsSound
<1>5. ASSUME Call("mkdir", path, sys_mkdir(fs, path)) PROVE RInv' /\ Tree!TreeNext
  <2>1. RInv' /\ Tree!Make("mkdir", path, "dir") /\ reply'.of = path
    BY <1>3, <1>5, MakingRefines
  <2> QED BY <2>1, TreeStep
<1>6. ASSUME Call("create", path, create_file(fs, path)) PROVE RInv' /\ Tree!TreeNext
  <2>1. RInv' /\ Tree!Make("create", path, "file") /\ reply'.of = path
    BY <1>4, <1>6, MakingRefines
  <2> QED BY <2>1, TreeStep
<1> QED BY <1>5, <1>6

LEMMA RmdirRefines ==
    ASSUME RInv, NEW path \in Path, path # <<>>, Leaves(path),
           "keep the current directory" \in Habits, Call("rmdir", path, sys_rmdir(fs, path))
    PROVE  RInv' /\ Tree!TreeNext
<1> DEFINE r == search_file(fs, path)
           may == r.kind = "dir" /\ Namings(fs, r.no) = {}
           c == sys_rmdir(fs, path)
<1>1. Sound(fs, {}, fs.lost) /\ BlocksAreUsed(fs) /\ Bounded(fs)
  BY DEF RInv, Held
<1>2. Removes(fs, path, "dir", may, c)
  BY <1>1, RmdirRemoves
<1>3. Sound(c.fs, {}, c.fs.lost)
  BY <1>1, RmdirIsSound
<1>4. search_file(fs, path).no # cwd
  BY DEF Leaves
<1>5. may <=> Tree!IsEmptyDir(path)
  <2>1. Told(fs, path, TreeOn(fs), r)
    BY <1>1, TreeTells
  <2>2. r.kind = "dir" <=> Tree!IsDir(path)
    BY <2>1 DEF Told, Tree!IsDir, TreeOnDisk
  <2>3. ASSUME r.kind = "dir" PROVE Namings(fs, r.no) = {} <=> Tree!Children(path) = {}
    <3>1. Leads(fs, path, r.no, "dir")
      BY <1>1, <2>3, SearchTells
    <3>2. Namings(fs, r.no) = {} <=> ChildrenOf(TreeOn(fs), path) = {}
      BY <1>1, <3>1, ChildrenAreNamed
    <3>3. Tree!Children(path) = ChildrenOf(TreeOn(fs), path)
      BY SameEnds DEF Tree!Children, ChildrenOf, TreeOnDisk
    <3> QED BY <3>2, <3>3
  <2> QED BY <2>2, <2>3 DEF Tree!IsEmptyDir
<1>6. Call("rmdir", path, c)
  OBVIOUS
<1> HIDE DEF may, c, r
<1>7. /\ RInv' /\ reply'.of = path
      /\ IF may THEN Tree!Gone("rmdir", path) ELSE Tree!Fail("rmdir", path)
  BY <1>2, <1>3, <1>4, <1>6, RemovingRefines
<1>8. Tree!RemoveDir(path)
  BY <1>5, <1>7 DEF Tree!RemoveDir
<1> QED BY <1>7, <1>8, TreeStep

LEMMA RmRefines ==
    ASSUME RInv, NEW path \in Path, path # <<>>, WalksDirectories(path),
           "no path through a file" \in Habits, Call("rm", path, sys_unlink(fs, path))
    PROVE  RInv' /\ Tree!TreeNext
<1> DEFINE may == search_file(fs, path).kind = "file"
           c == sys_unlink(fs, path)
<1>1. Sound(fs, {}, fs.lost)
  BY DEF RInv, Held
<1>2. search_file(fs, Front(path)).kind # "file"
  BY FrontIsNoFile
<1>3. Removes(fs, path, "file", may, c)
  BY <1>1, <1>2, UnlinkRemoves
<1>4. Sound(c.fs, {}, c.fs.lost)
  BY <1>1, UnlinkIsSound
<1>5. may <=> Tree!IsFile(path)
  BY SearchTellsAll
<1>6. Call("rm", path, c)
  OBVIOUS
<1> HIDE DEF may, c
<1>7. /\ RInv' /\ reply'.of = path
      /\ IF may THEN Tree!Gone("rm", path) ELSE Tree!Fail("rm", path)
  BY <1>3, <1>4, <1>6, RemovingRefines
<1>8. Tree!RemoveFile(path)
  BY <1>5, <1>7 DEF Tree!RemoveFile
<1> QED BY <1>7, <1>8, TreeStep

(* pwd prints the prompt's path, or hangs at a hole and prints nothing.     *)
LEMMA PwdRefines ==
    ASSUME RInv, buildin_pwd
    PROVE  RInv' /\ (Tree!TreeNext \/ UNCHANGED Tree!treeVars)
<1> DEFINE here == sys_getcwd(fs, cwd)
<1>1. /\ Sound(fs, {}, fs.lost) /\ cwd_cache \in Path /\ cwd_cache \in Seq(Name)
      /\ Leads(fs, cwd_cache, cwd, "dir")
  BY RootIsPath DEF RInv, Held
<1>2. /\ UNCHANGED <<fs, cwd, cwd_cache>>
      /\ reply' = IF here.ok THEN Printed("pwd", here.path, {here.path})
                  ELSE IF here.stops THEN reply
                  ELSE Answer("pwd", cwd_cache, FALSE)
  BY DEF buildin_pwd
<1>3. here.ok => here.path = cwd_cache
  BY <1>1, GetcwdIsRight
<1>4. Comes(fs, here)
  BY <1>1, GetcwdHolds
<1> HIDE DEF here
<1>5. RInv' /\ TreeOnDisk' = TreeOnDisk
  BY <1>2 DEF RInv, TreeOnDisk
<1>6. CASE here.ok
  <2>1. reply' = Tree!Printed("pwd", cwd_cache, {cwd_cache})
    BY <1>2, <1>3, <1>6, AnswersAre
  <2> QED BY <1>2, <1>5, <2>1 DEF Tree!TreeNext, Tree!Where
<1>7. CASE ~here.ok
  <2>1. here.stops
    BY <1>4, <1>7 DEF Comes, Stuck
  <2>2. reply' = reply
    BY <1>2, <1>7, <2>1
  <2> QED BY <1>2, <1>5, <2>2 DEF Tree!treeVars
<1> QED BY <1>6, <1>7

LEMMA RebootRefines ==
    ASSUME RInv, Reboot
    PROVE  RInv' /\ Tree!TreeNext
<1> DEFINE g == mount_partition(fs)
<1>1. Sound(fs, {}, fs.lost) /\ BlocksAreUsed(fs) /\ Bounded(fs)
  BY DEF RInv, Held
<1>2. fs' = g /\ cwd' = Root /\ cwd_cache' = <<>> /\ reply' = Nothing
  BY DEF Reboot
<1>3. Sound(g, {}, g.lost)
  BY <1>1, Mounted
<1>4. g.ibits = fs.ibits /\ g.disk = fs.disk /\ g.data = fs.data
  <2>1. fs \in FileSystem /\ fs.dibits = fs.ibits
    BY <1>1 DEF Sound, CacheIsCurrent
  <2> QED BY <2>1 DEF mount_partition, FileSystem
<1> HIDE DEF g
<1>5. \A no : Untouched(fs, g, no)
  BY <1>4 DEF Untouched
<1>6. SameLinked(fs, g) /\ (BlocksAreUsed(fs) => BlocksAreUsed(g))
  BY <1>4, <1>5, SameLinks DEF SameLinked
<1>7. TreeOn(g) = TreeOn(fs) /\ Bounded(g)
  BY <1>1, <1>3, <1>6, SameInTree
<1>8. Leads(g, <<>>, Root, "dir") /\ <<>> \in Path
  BY <1>3, LeadsUnfolds, RootIsPath
<1>9. Held(g, Root, <<>>)
  BY <1>1, <1>3, <1>6, <1>7, <1>8 DEF Held
<1>10. RInv'
  BY <1>2, <1>9 DEF RInv
<1>11. TreeOnDisk' = TreeOnDisk
  BY <1>2, <1>7 DEF TreeOnDisk
<1>12. reply' = Tree!Nothing
  BY <1>2, AnswersAre
<1> QED BY <1>2, <1>10, <1>11, <1>12 DEF Tree!TreeNext, Tree!Restart

CarefulUse ==
    {"keep the current directory", "no path through a file", "no open number twice",
     "no number past a byte"} \subseteq Habits

(* A command does what it does to its path, or the machine stops.           *)
LEMMA CommandsRefine ==
    ASSUME RInv, CarefulUse, NEW arg \in Argument,
           \/ buildin_mkdir(arg) \/ buildin_rmdir(arg) \/ buildin_rm(arg)
           \/ buildin_cd(arg) \/ buildin_ls(arg)
    PROVE  RInv' /\ (Tree!TreeNext \/ UNCHANGED Tree!treeVars)
<1> DEFINE final_path == make_clear_abs_path(arg)
           path == final_path.path
<1>1. CASE ~final_path.ok
  <2>1. UNCHANGED <<fs, cwd, cwd_cache, reply>>
    BY <1>1 DEF buildin_mkdir, buildin_rmdir, buildin_rm, buildin_cd, buildin_ls, Command
  <2>2. RInv' /\ TreeOnDisk' = TreeOnDisk
    BY <2>1 DEF RInv, TreeOnDisk
  <2> QED BY <2>1, <2>2 DEF Tree!treeVars
<1>2. CASE final_path.ok
  <2>1. /\ path \in Path
        /\ \/ FreshInode /\ Call("mkdir", path, IF path = <<>> THEN Refuse(fs) ELSE sys_mkdir(fs, path))
           \/ Leaves(path) /\ Call("rmdir", path, IF path = <<>> THEN Refuse(fs) ELSE sys_rmdir(fs, path))
           \/ WalksDirectories(path) /\ Call("rm", path, IF path = <<>> THEN Refuse(fs) ELSE sys_unlink(fs, path))
           \/ ChangeTo(path)
           \/ ListPath(path)
    BY <1>2 DEF buildin_mkdir, buildin_rmdir, buildin_rm, buildin_cd, buildin_ls, Command
  <2> HIDE DEF path, final_path
  <2>2. /\ "keep the current directory" \in Habits /\ "no path through a file" \in Habits
        /\ FreshNumbers
    BY DEF CarefulUse, FreshNumbers
  <2>3. \/ path = <<>> /\ \E by \in {"mkdir", "rmdir", "rm"} : Call(by, path, Refuse(fs))
        \/ FreshInode /\ Call("mkdir", path, sys_mkdir(fs, path))
        \/ path # <<>> /\ Leaves(path) /\ Call("rmdir", path, sys_rmdir(fs, path))
        \/ path # <<>> /\ WalksDirectories(path) /\ Call("rm", path, sys_unlink(fs, path))
        \/ ChangeTo(path)
        \/ ListPath(path)
    BY <2>1
  <2> QED BY <2>1, <2>2, <2>3, RefusalRefines, MakingCalls, RmdirRefines, RmRefines,
             ChangeRefines, ListRefines
<1> QED BY <1>1, <1>2

LEMMA StepRefines ==
    ASSUME RInv, CarefulUse, [Next]_vars
    PROVE  RInv' /\ (Tree!TreeNext \/ UNCHANGED Tree!treeVars)
<1>1. ASSUME UNCHANGED <<fs, cwd, cwd_cache, reply>>
      PROVE  RInv' /\ UNCHANGED Tree!treeVars
  <2>1. RInv' /\ TreeOnDisk' = TreeOnDisk
    BY <1>1 DEF RInv, TreeOnDisk
  <2> QED BY <1>1, <2>1 DEF Tree!treeVars
<1>2. CASE UNCHANGED vars
  BY <1>1, <1>2 DEF vars
<1>3. CASE ExternalCommand
  BY <1>1, <1>3 DEF ExternalCommand
<1>4. CASE CdWithoutArgument
  <2>1. <<>> \in Path /\ ChangeTo(<<>>)
    BY <1>4, RootIsPath DEF CdWithoutArgument
  <2> QED BY <2>1, ChangeRefines
<1>5. CASE buildin_pwd
  BY <1>5, PwdRefines
<1>6. ASSUME NEW path \in Path, ProgramCreates(path) PROVE RInv' /\ Tree!TreeNext
  <2>1. FreshInode /\ Call("create", path, create_file(fs, path)) /\ FreshNumbers
    BY <1>6 DEF ProgramCreates, CarefulUse, FreshNumbers
  <2> QED BY <2>1, MakingCalls
<1>7. CASE print_prompt
  <2>1. UNCHANGED <<fs, cwd, cwd_cache>> /\ reply' = Tree!Nothing
    BY <1>7, AnswersAre DEF print_prompt
  <2>2. RInv' /\ TreeOnDisk' = TreeOnDisk
    BY <2>1 DEF RInv, TreeOnDisk
  <2> QED BY <2>1, <2>2 DEF Tree!TreeNext, Tree!Acknowledge
<1>8. CASE Reboot
  BY <1>8, RebootRefines
<1>9. CASE \E arg \in Argument : \/ buildin_mkdir(arg) \/ buildin_rmdir(arg) \/ buildin_rm(arg)
                                 \/ buildin_cd(arg) \/ buildin_ls(arg)
  BY <1>9, CommandsRefine
<1> QED BY <1>2, <1>3, <1>4, <1>5, <1>6, <1>7, <1>8, <1>9 DEF Next

(* An empty disk is an empty tree.                                          *)
LEMMA FormattedRefines ==
    ASSUME Init
    PROVE  RInv /\ Tree!TreeInit
<1> DEFINE f == partition_format
<1>1. /\ Sound(f, {}, f.lost) /\ DirsOnDisk(f) = {Root} /\ Namings(f, Root) = {}
      /\ \A k \in 1..Direct - 1 : BlockOf(f, Root, k) = 0
  BY FormattedIsSound
<1>2. fs = f /\ cwd = Root /\ cwd_cache = <<>> /\ reply = Nothing
  BY DEF Init
<1> HIDE DEF f
<1>3. \A c, x : ~Linked(f, c, x)
  BY <1>1 DEF Linked
<1>4. BlocksAreUsed(f)
  BY <1>1 DEF BlocksAreUsed
<1>5. Leads(f, <<>>, Root, "dir") /\ <<>> \in Path
  BY <1>1, LeadsUnfolds, RootIsPath
<1>6. ASSUME NEW p \in Seq(Name), NEW no, NEW kind, Leads(f, p, no, kind) PROVE p = <<>>
  <2>1. SUFFICES ASSUME p # <<>> PROVE FALSE
    OBVIOUS
  <2>2. PICK q \in Seq(Name), x \in Name : p = Append(q, x)
    BY <2>1, SequenceEmptyOrAppend
  <2>3. \E d, e : Linked(f, d, e)
    BY <1>1, <1>6, <2>2, LeadsUnfolds
  <2> QED BY <1>3, <2>3
<1>7. Bounded(f)
  BY <1>5, <1>6 DEF Bounded
<1>8. RInv
  BY <1>1, <1>2, <1>4, <1>5, <1>7 DEF RInv, Held
<1>9. TreeOnDisk = [p \in {<<>>} |-> "dir"]
  <2>1. TreeOn(f) = [p \in Paths(f) |-> Walked(f, p).kind]
    BY <1>1, TreeIs
  <2>2. Paths(f) = {<<>>}
    BY <1>5, <1>6, RootIsPath DEF Paths
  <2>3. Walked(f, <<>>).kind = "dir"
    BY <1>5 DEF Leads
  <2>4. TreeOn(f) = [p \in {<<>>} |-> "dir"]
    BY <2>1, <2>2, <2>3
  <2> QED BY <1>2, <2>4 DEF TreeOnDisk
<1> QED BY <1>2, <1>8, <1>9, AnswersAre DEF Tree!TreeInit

(***************************************************************************)
(* ImplementsTree: for users with these four habits the commands of        *)
(* buildin_cmd.c, over the system calls of fs.c, are those of a plain tree *)
(* of names.  What the disk holds is changed by no more and no less than   *)
(* the command's name says, a refusal changes nothing, ls lists each entry *)
(* once, pwd prints the path of the current directory, and a reboot loses  *)
(* nothing.                                                                *)
(***************************************************************************)
THEOREM ShellImplementsTree ==
    {"keep the current directory", "no path through a file", "no open number twice",
     "no number past a byte"} \subseteq Habits => (Spec => ImplementsTree)
<1> SUFFICES ASSUME CarefulUse PROVE Spec => ImplementsTree
  BY DEF CarefulUse
<1>1. Init => RInv /\ Tree!TreeInit
  BY FormattedRefines
<1>2. RInv /\ [Next]_vars => RInv' /\ [Tree!TreeNext]_(Tree!treeVars)
  BY StepRefines
<1> QED BY <1>1, <1>2, PTL DEF Spec, ImplementsTree, Tree!TreeSpec

(* Between two commands of a user with all habits.                          *)
Calm == RInv /\ NoHoles(fs) /\ NoPanic

LEMMA CallsDoNotStop ==
    ASSUME Calm, NEW path \in Path
    PROVE  /\ \A by : Call(by, path, Refuse(fs)) => NoHoles(fs') /\ NoPanic'
           /\ FreshInode /\ FreshNumbers =>
                 /\ Call("mkdir", path, sys_mkdir(fs, path)) => NoHoles(fs') /\ NoPanic'
                 /\ Call("create", path, create_file(fs, path)) => NoHoles(fs') /\ NoPanic'
           /\ path # <<>> /\ "no hole in a directory" \in Habits
              /\ LeavesNoHole(sys_rmdir(fs, path)) /\ Call("rmdir", path, sys_rmdir(fs, path))
                 => NoHoles(fs') /\ NoPanic'
           /\ path # <<>> /\ "no hole in a directory" \in Habits
              /\ WalksDirectories(path) /\ "no path through a file" \in Habits
              /\ LeavesNoHole(sys_unlink(fs, path)) /\ Call("rm", path, sys_unlink(fs, path))
                 => NoHoles(fs') /\ NoPanic'
<1>1. /\ Sound(fs, {}, fs.lost) /\ BlocksAreUsed(fs) /\ NoHoles(fs) /\ turn # "nobody" /\ RInv
  BY DEF Calm, RInv, Held, NoPanic
<1>2. ASSUME NEW by, NEW c, Call(by, path, c), c.stops = FALSE, NoHoles(c.fs) PROVE NoHoles(fs') /\ NoPanic'
  <2>1. fs' = c.fs /\ turn' = turn
    BY <1>2 DEF Call
  <2> QED BY <1>1, <1>2, <2>1 DEF NoPanic
<1>3. Refuse(fs).stops = FALSE /\ Refuse(fs).fs = fs
  BY DEF Refuse, Result
<1>4. ASSUME NEW kind, NEW c, Makes(fs, path, kind, c) PROVE c.stops = FALSE /\ NoHoles(c.fs)
  BY <1>1, <1>4 DEF Makes, KeepsBlocks
<1>5. ASSUME FreshInode, FreshNumbers
      PROVE  /\ Makes(fs, path, "dir", sys_mkdir(fs, path))
             /\ Makes(fs, path, "file", create_file(fs, path))
  <2>1. FreshNumber(fs)
    BY <1>5, FreshIsFresh
  <2> QED BY <1>1, <2>1, MkdirMakes, CreateMakes
<1>6. path # <<>> => sys_rmdir(fs, path).stops = FALSE
  <2>1. SUFFICES ASSUME path # <<>> PROVE sys_rmdir(fs, path).stops = FALSE
    OBVIOUS
  <2> DEFINE r == search_file(fs, path)
  <2>2. Removes(fs, path, "dir", r.kind = "dir" /\ Namings(fs, r.no) = {}, sys_rmdir(fs, path))
    BY <1>1, <2>1, RmdirRemoves
  <2> QED BY <2>2 DEF Removes
<1>7. path # <<>> /\ WalksDirectories(path) /\ "no path through a file" \in Habits
         => sys_unlink(fs, path).stops = FALSE
  <2>1. SUFFICES ASSUME path # <<>>, WalksDirectories(path), "no path through a file" \in Habits
                 PROVE sys_unlink(fs, path).stops = FALSE
    OBVIOUS
  <2>2. search_file(fs, Front(path)).kind # "file"
    BY <1>1, <2>1, FrontIsNoFile
  <2>3. Removes(fs, path, "file", search_file(fs, path).kind = "file", sys_unlink(fs, path))
    BY <1>1, <2>1, <2>2, UnlinkRemoves
  <2> QED BY <2>3 DEF Removes
<1>8. \A by : Call(by, path, Refuse(fs)) => NoHoles(fs') /\ NoPanic'
  BY <1>1, <1>2, <1>3
<1>9. ASSUME FreshInode, FreshNumbers
      PROVE  /\ Call("mkdir", path, sys_mkdir(fs, path)) => NoHoles(fs') /\ NoPanic'
             /\ Call("create", path, create_file(fs, path)) => NoHoles(fs') /\ NoPanic'
  <2>1. /\ sys_mkdir(fs, path).stops = FALSE /\ NoHoles(sys_mkdir(fs, path).fs)
        /\ create_file(fs, path).stops = FALSE /\ NoHoles(create_file(fs, path).fs)
    BY <1>4, <1>5, <1>9
  <2> QED BY <1>2, <2>1
<1>10. ASSUME path # <<>>, "no hole in a directory" \in Habits,
              LeavesNoHole(sys_rmdir(fs, path)), Call("rmdir", path, sys_rmdir(fs, path))
       PROVE  NoHoles(fs') /\ NoPanic'
  BY <1>2, <1>6, <1>10 DEF LeavesNoHole
<1>11. ASSUME path # <<>>, "no hole in a directory" \in Habits,
              WalksDirectories(path), "no path through a file" \in Habits,
              LeavesNoHole(sys_unlink(fs, path)), Call("rm", path, sys_unlink(fs, path))
       PROVE  NoHoles(fs') /\ NoPanic'
  BY <1>2, <1>7, <1>11 DEF LeavesNoHole
<1> QED BY <1>8, <1>9, <1>10, <1>11

LEMMA StepIsCalm ==
    ASSUME Calm, CarefulUse, "no hole in a directory" \in Habits, [Next]_vars
    PROVE  Calm'
<1>1. RInv /\ NoHoles(fs) /\ turn # "nobody" /\ Sound(fs, {}, fs.lost)
  BY DEF Calm, RInv, Held, NoPanic
<1>2. RInv'
  BY <1>1, StepRefines
<1>3. SUFFICES NoHoles(fs') /\ NoPanic'
  BY <1>2 DEF Calm
<1>4. "no path through a file" \in Habits /\ FreshNumbers
  BY DEF CarefulUse, FreshNumbers
<1>5. sys_getcwd(fs, cwd).ok = TRUE /\ sys_getcwd(fs, cwd).stops = FALSE
  <2>1. Leads(fs, cwd_cache, cwd, "dir") /\ cwd_cache \in Seq(Name)
    BY <1>1, RootIsPath DEF RInv, Held
  <2> QED BY <1>1, <2>1, GetcwdHolds DEF Comes
<1>6. ASSUME UNCHANGED fs, turn' = turn \/ turn' \in {"program", "shell"}
      PROVE  NoHoles(fs') /\ NoPanic'
  BY <1>1, <1>6 DEF NoPanic
<1>7. ASSUME NEW path \in Path, ChangeTo(path) \/ ListPath(path) PROVE UNCHANGED <<fs, turn>>
  <2>1. CASE ChangeTo(path)
    BY <2>1 DEF ChangeTo
  <2>2. CASE ListPath(path)
    <3> DEFINE r == search_file(fs, path)
    <3>1. r.kind = "dir" => Readable(fs, r.no)
      <4>1. SUFFICES ASSUME r.kind = "dir" PROVE Readable(fs, r.no)
        OBVIOUS
      <4>2. Leads(fs, path, r.no, "dir")
        BY <1>1, <4>1, SearchTells
      <4>3. r.no \in DirsOnDisk(fs)
        BY <1>1, <4>2, LeadsAreTyped, RootIsPath
      <4> QED BY <1>1, <4>3, NamesAreListed
    <3> QED BY <2>2, <3>1 DEF ListPath
  <2> QED BY <1>7, <2>1, <2>2
<1>8. ASSUME NEW arg \in Argument,
             \/ buildin_mkdir(arg) \/ buildin_rmdir(arg) \/ buildin_rm(arg)
             \/ buildin_cd(arg) \/ buildin_ls(arg)
      PROVE  NoHoles(fs') /\ NoPanic'
  <2> DEFINE final_path == make_clear_abs_path(arg)
             path == final_path.path
  <2>1. final_path.ok
    <3>1. sys_getcwd(fs, cwd).ok
      BY <1>5
    <3>3. CASE arg.absolute
      <4>1. final_path = [ok |-> TRUE, path |-> wash_path(arg.path)]
        BY <3>3 DEF make_clear_abs_path
      <4> HIDE DEF final_path
      <4>2. final_path.ok = TRUE
        BY <4>1
      <4> QED BY <4>2
    <3>4. CASE ~arg.absolute
      <4> DEFINE here == sys_getcwd(fs, cwd)
      <4>1. final_path = [ok |-> here.ok, path |-> wash_path(here.path \o arg.path)]
        BY <3>4 DEF make_clear_abs_path
      <4>2. final_path.ok = here.ok
        <5> HIDE DEF here, final_path
        <5> QED BY <4>1
      <4> HIDE DEF final_path
      <4> QED BY <3>1, <4>2
    <3> QED BY <3>3, <3>4
  <2>2. /\ path \in Path
        /\ \/ FreshInode /\ Call("mkdir", path, IF path = <<>> THEN Refuse(fs) ELSE sys_mkdir(fs, path))
           \/ /\ LeavesNoHole(sys_rmdir(fs, path))
              /\ Call("rmdir", path, IF path = <<>> THEN Refuse(fs) ELSE sys_rmdir(fs, path))
           \/ /\ WalksDirectories(path) /\ LeavesNoHole(sys_unlink(fs, path))
              /\ Call("rm", path, IF path = <<>> THEN Refuse(fs) ELSE sys_unlink(fs, path))
           \/ ChangeTo(path) \/ ListPath(path)
    BY <1>8, <2>1 DEF buildin_mkdir, buildin_rmdir, buildin_rm, buildin_cd, buildin_ls, Command
  <2> HIDE DEF path, final_path
  <2>3. \/ \E by : Call(by, path, Refuse(fs))
        \/ FreshInode /\ Call("mkdir", path, sys_mkdir(fs, path))
        \/ path # <<>> /\ LeavesNoHole(sys_rmdir(fs, path)) /\ Call("rmdir", path, sys_rmdir(fs, path))
        \/ /\ path # <<>> /\ WalksDirectories(path)
           /\ LeavesNoHole(sys_unlink(fs, path)) /\ Call("rm", path, sys_unlink(fs, path))
        \/ ChangeTo(path) \/ ListPath(path)
    BY <2>2
  <2>4. ASSUME ChangeTo(path) \/ ListPath(path) PROVE NoHoles(fs') /\ NoPanic'
    BY <1>6, <1>7, <2>2, <2>4
  <2> QED BY <1>4, <2>2, <2>3, <2>4, CallsDoNotStop
<1>9. CASE CdWithoutArgument
  <2>1. <<>> \in Path /\ ChangeTo(<<>>)
    BY <1>9, RootIsPath DEF CdWithoutArgument
  <2> QED BY <1>6, <1>7, <2>1
<1>10. CASE buildin_pwd
  <2>1. UNCHANGED fs /\ turn' = turn
    BY <1>5, <1>10 DEF buildin_pwd
  <2> QED BY <1>6, <2>1
<1>11. CASE ExternalCommand \/ print_prompt \/ UNCHANGED vars
  <2>1. UNCHANGED fs /\ (turn' = turn \/ turn' \in {"program", "shell"})
    BY <1>11 DEF ExternalCommand, print_prompt, vars
  <2> QED BY <1>6, <2>1
<1>12. ASSUME NEW path \in Path, ProgramCreates(path) PROVE NoHoles(fs') /\ NoPanic'
  <2>1. FreshInode /\ Call("create", path, create_file(fs, path))
    BY <1>12 DEF ProgramCreates
  <2> QED BY <1>4, <2>1, CallsDoNotStop
<1>13. CASE Reboot
  <2> DEFINE g == mount_partition(fs)
  <2>1. fs' = g /\ turn' = "shell"
    BY <1>13 DEF Reboot
  <2>2. fs \in FileSystem /\ fs.dibits = fs.ibits
    BY <1>1 DEF Sound, CacheIsCurrent
  <2>3. g.ibits = fs.ibits /\ g.disk = fs.disk /\ g.data = fs.data
    BY <2>2 DEF mount_partition, FileSystem
  <2> HIDE DEF g
  <2>4. \A no : Untouched(fs, g, no)
    BY <2>3 DEF Untouched
  <2>5. NoHoles(g)
    BY <1>1, <2>3, <2>4, SameLinks
  <2> QED BY <2>1, <2>5 DEF NoPanic
<1>14. CASE \E arg \in Argument : \/ buildin_mkdir(arg) \/ buildin_rmdir(arg) \/ buildin_rm(arg)
                                  \/ buildin_cd(arg) \/ buildin_ls(arg)
  BY <1>8, <1>14
<1> QED BY <1>9, <1>10, <1>11, <1>12, <1>13, <1>14 DEF Next

(***************************************************************************)
(* NoPanic: for users with all five habits no command stops the machine.   *)
(* No ASSERT of fs.c and dir.c fails, and sys_getcwd, which every relative *)
(* path goes through, climbs to the root and finds each name on its way:   *)
(* it meets neither a removed directory nor a missing block before the one *)
(* that holds the name (fs.c:846).                                         *)
(***************************************************************************)
THEOREM ShellNeverPanics ==
    {"keep the current directory", "no path through a file", "no open number twice",
     "no number past a byte", "no hole in a directory"} \subseteq Habits => (Spec => []NoPanic)
<1> SUFFICES ASSUME CarefulUse, "no hole in a directory" \in Habits PROVE Spec => []NoPanic
  BY DEF CarefulUse
<1>1. Init => Calm
  <2>1. SUFFICES ASSUME Init PROVE Calm
    OBVIOUS
  <2>2. fs = partition_format /\ turn = "shell"
    BY <2>1 DEF Init
  <2>3. NoHoles(fs)
    BY <2>2, FormattedIsSound DEF NoHoles
  <2> QED BY <2>1, <2>2, <2>3, FormattedRefines DEF Calm, NoPanic
<1>2. Calm /\ [Next]_vars => Calm'
  BY StepIsCalm
<1>3. Calm => NoPanic
  BY DEF Calm
<1> QED BY <1>1, <1>2, <1>3, PTL DEF Spec
=============================================================================
