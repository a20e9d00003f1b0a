----------------------------- MODULE OpenFiles -----------------------------
(***************************************************************************)
(* Open inodes, the file table and the descriptors (fs/inode.c, fs/file.c, *)
(* fs/fs.c), and fork's copy of the descriptors.  A system call runs with  *)
(* interrupts off, so that other tasks run only while it sleeps for the    *)
(* disk; a call is cut there.  main creates its file as a kernel thread,   *)
(* with interrupts on.                                                     *)
(*                                                                         *)
(* Inodes in memory are blocks of one arena of the kernel's heap.  A freed *)
(* inode stays in the list of open inodes; only its number is gone, since  *)
(* the links of the heap's free list lie over it.  When its block is       *)
(* handed out again it is zeroed, the link of the open list included.      *)
(***************************************************************************)
EXTENDS Naturals, Sequences, FiniteSets, FiniteSetsExt

CONSTANTS
    Process,      \* the shell and the processes that it forks
    main,         \* the kernel thread that creates the first file
    File,         \* numbers of inodes, but for 0, the root directory
    Directory,    \* those of directories
    Existing,     \* those that are in a directory from the start
    Blocks,       \* the number of blocks of the arena
    Slots,        \* MAX_FILE_OPEN - 3
    Fds,          \* MAX_FILES_OPEN_PER_PROC - 3
    Counts,       \* the values of a uint32_t
    SyncNumbers,  \* those of inode_sync's uint8_t inode_no
    Reuse,        \* are freed inodes' blocks handed out again?
    StaleForks,   \* does a process fork whose descriptor names the slot of
                  \* the file that main is creating?
    LateCounts    \* does a process open that file when it is in the list of
                  \* open inodes and main has not yet stored its count?

ASSUME OpenFilesAssumption ==
    /\ main \notin Process /\ IsFiniteSet(Process)
    /\ File \subseteq Nat \ {0} /\ IsFiniteSet(File)
    /\ Directory \subseteq Existing /\ Existing \subseteq File
    /\ Blocks \in Nat \ {0} /\ Slots \in Nat /\ Fds \in Nat /\ Counts \in Nat \ {0}
    /\ SyncNumbers \in Nat \ {0}
    /\ Reuse \in BOOLEAN /\ StaleForks \in BOOLEAN /\ LateCounts \in BOOLEAN

VARIABLES
    heap,        \* heap[a]: the inode in block a
    free_list,   \* the blocks that are free, in the order they are handed out
    first,       \* open_inodes.head.next
    file_table,  \* file_table[s]: fd_inode, and whether fd_flag is for writing
    fd_table,    \* fd_table[t][fd]: a slot of file_table
    named,       \* the numbers that are in a directory
    taken,       \* the numbers whose bit is set in the inode bitmap
    table,       \* table[no]: i_no as the inode table on the disk has it
    pc,          \* where t stands in its system call
    local,       \* local[t]: the variables of t's call
    alone,       \* does only one task at a time use the file system?
    panic,       \* has an ASSERT or a page fault stopped the machine?
    hung         \* does a search of open_inodes go on for ever?

inodes == <<heap, free_list, first>>
files == <<file_table, fd_table>>
disk == <<named, taken, table>>
stopped == <<alone, panic, hung>>
vars == <<inodes, files, disk, pc, local, stopped>>

Task == Process \cup {main}
Root == 0
Number == File \cup {Root}
Address == 1 .. Blocks
Slot == 1 .. Slots
Fd == 1 .. Fds

NULL == 0         \* no inode, or a link that was zeroed
TheTail == Blocks + 1
NoSlot == 0       \* -1 in fd_table
Link == Max(Number) + 1  \* i_no where a link of the free list lies over it

ZeroedInode == [i_no |-> Root, i_open_cnts |-> 0, write_deny |-> FALSE, next |-> NULL]

EmptySlot == [fd_inode |-> NULL, writes |-> FALSE]

NoCall == [op |-> "none", no |-> Root, inode |-> NULL, slot |-> NoSlot, writes |-> FALSE]

---------------------------------------------------------------------------
(* filesys_init has opened the root directory; the shell runs.             *)
Init ==
    /\ heap = [a \in Address |->
                  IF a = 1 THEN [ZeroedInode EXCEPT !.i_open_cnts = 1, !.next = TheTail]
                  ELSE [ZeroedInode EXCEPT !.i_no = Link]]
    /\ free_list = [k \in 1 .. Blocks - 1 |-> k + 1]
    /\ first = 1
    /\ file_table = [s \in Slot |-> EmptySlot]
    /\ fd_table = [t \in Task |-> [fd \in Fd |-> NoSlot]]
    /\ named = Existing
    /\ taken = Existing \cup {Root}
    /\ table = [no \in Number |-> IF no \in Existing THEN no ELSE Root]
    /\ \E shell \in Process : pc = [t \in Task |-> IF t \in {shell, main} THEN "run" ELSE "unborn"]
    /\ local = [t \in Task |-> NoCall]
    /\ alone \in BOOLEAN
    /\ panic = FALSE
    /\ hung = FALSE

At(t, label) == ~panic /\ ~hung /\ pc[t] = label

Goto(t, label) == pc' = [pc EXCEPT ![t] = label]

(* t may begin a system call.                                              *)
Idle(t) == At(t, "run") /\ (alone => \A u \in Task : pc[u] \in {"run", "unborn", "done"})

(* main has only the one call.                                             *)
Return(t) ==
    /\ Goto(t, IF t = main THEN "done" ELSE "run")
    /\ local' = [local EXCEPT ![t] = NoCall]

---------------------------------------------------------------------------
(* The list of open inodes.  It is only ever added to, at its head.        *)

(* The k-th element: an inode, the list's tail, or a link that is zero.    *)
Walk[k \in 0 .. Blocks] ==
    IF k = 0 THEN first
    ELSE IF Walk[k - 1] \in Address THEN heap[Walk[k - 1]].next ELSE Walk[k - 1]

Hits(no) == {k \in 0 .. Blocks : Walk[k] \in Address /\ heap[Walk[k]].i_no = no}

Found(no) == Hits(no) # {}
InodeOf(no) == Walk[Min(Hits(no))]
Ends == Walk[Blocks] = TheTail
Strays == Walk[Blocks] = NULL

(* Mutant: the list behind the new inode is lost.                          *)
PushLosesList(h, a) == [h EXCEPT ![a].next = TheTail]

(* Mutant: the list's head is set before the new inode's link is.          *)
PushInWrongOrder(h, a) == [h EXCEPT ![a].next = a]

(* list_push, on the heap h.                                               *)
Push(h, a) == [h EXCEPT ![a].next = first]

(* The head of the list is a block that is being filled again: list_push   *)
(* writes through its zeroed link.                                         *)
PushFaults == first \in Address /\ heap[first].next = NULL

(* Mutant: an inode that is found is not counted.                          *)
FindsOnly(a) == heap

(* inode_open finds the inode in the list.                                 *)
Count(a) == [heap EXCEPT ![a].i_open_cnts = @ + 1]

(* main has put its file's inode into the list, with no count.             *)
NotCounted(no) == pc[main] = "counting" /\ no = local[main].no

(* It does not: a block is taken, and the disk is read.                    *)
Miss(no) ==
    /\ ~Found(no)
    /\ Ends
    /\ free_list # <<>>
    /\ Reuse \/ heap[Head(free_list)].next = NULL

TakeBlock ==
    /\ heap' = [heap EXCEPT ![Head(free_list)] = ZeroedInode]
    /\ free_list' = Tail(free_list)

(* The search comes to a zeroed link, or it goes round.                    *)
Lost(no) ==
    /\ ~Found(no)
    /\ ~Ends
    /\ panic' = Strays
    /\ hung' = ~Strays

(* The heap when the disk has answered.                                    *)
Read(t) ==
    Push([heap EXCEPT ![local[t].inode] =
              [ZeroedInode EXCEPT !.i_no = table[local[t].no], !.i_open_cnts = 1]],
         local[t].inode)

(* Mutant: every close frees.                                              *)
EveryClose(h, a) == TRUE

(* inode_close on the heap h.                                              *)
LastClose(h, a) == h[a].i_open_cnts = 1

Closed(h, a) ==
    [h EXCEPT ![a].i_open_cnts = IF @ = 0 THEN Counts - 1 ELSE @ - 1,
              ![a].i_no = IF LastClose(h, a) THEN Link ELSE @]

FreedBy(h, a) == IF LastClose(h, a) THEN Append(free_list, a) ELSE free_list

---------------------------------------------------------------------------
(* Opening a file                                                          *)

FreeSlots == {s \in Slot : file_table[s].fd_inode = NULL}
FreeFds(t) == {fd \in Fd : fd_table[t][fd] = NoSlot}

(* pcb_fd_install; without a free descriptor the slot stays taken.         *)
Install(t, slot) ==
    IF FreeFds(t) = {} THEN fd_table
    ELSE [fd_table EXCEPT ![t][Min(FreeFds(t))] = slot]

(* The end of file_open, on the heap h with a opened.  A writer who is     *)
(* denied leaves slot and count as they are.                               *)
FileOpened(t, h, a, slot, writes) ==
    /\ heap' = [h EXCEPT ![a].write_deny = @ \/ writes]
    /\ fd_table' = IF writes /\ h[a].write_deny THEN fd_table ELSE Install(t, slot)

OpenCached(t, no, writes) ==
    LET slot == Min(FreeSlots)
        a    == InodeOf(no)
    IN  /\ Found(no)
        /\ file_table' = [file_table EXCEPT ![slot] = [fd_inode |-> a, writes |-> writes]]
        /\ FileOpened(t, Count(a), a, slot, writes)
        /\ UNCHANGED <<free_list, first, pc, local, panic, hung>>

OpenReads(t, no, writes) ==
    LET slot == Min(FreeSlots)
    IN  /\ Miss(no)
        /\ TakeBlock
        /\ file_table' = [file_table EXCEPT ![slot].writes = writes]
        /\ local' = [local EXCEPT ![t] = [op |-> "open", no |-> no, inode |-> Head(free_list),
                                         slot |-> slot, writes |-> writes]]
        /\ Goto(t, "reading")
        /\ UNCHANGED <<first, fd_table, panic, hung>>

(* sys_open of an existing file.                                           *)
file_open(t, no, writes) ==
    /\ Idle(t)
    /\ t \in Process
    /\ no \in named \ Directory
    /\ FreeSlots # {}
    /\ NotCounted(no) => LateCounts
    /\ \/ OpenCached(t, no, writes)
       \/ OpenReads(t, no, writes)
       \/ Lost(no) /\ UNCHANGED <<inodes, files, pc, local>>
    /\ UNCHANGED <<disk, alone>>

OpenEnds(t) ==
    LET a    == local[t].inode
        slot == local[t].slot
    IN  /\ At(t, "reading")
        /\ local[t].op = "open"
        /\ first' = a
        /\ file_table' = [file_table EXCEPT ![slot].fd_inode = a]
        /\ FileOpened(t, Read(t), a, slot, local[t].writes)
        /\ panic' = PushFaults
        /\ Return(t)
        /\ UNCHANGED <<free_list, disk, alone, hung>>

(* fd_inode = NULL, in file_close.                                         *)
EmptyTheSlot(slot) == [file_table EXCEPT ![slot].fd_inode = NULL]

(* A descriptor whose slot is empty faults.                                *)
sys_close(t, fd) ==
    LET slot == fd_table[t][fd]
        a    == file_table[slot].fd_inode
        h    == [heap EXCEPT ![a].write_deny = FALSE]
    IN  /\ Idle(t)
        /\ t \in Process
        /\ slot # NoSlot
        /\ \/ /\ a = NULL
              /\ panic' = TRUE
              /\ UNCHANGED <<heap, free_list, files>>
           \/ /\ a # NULL
              /\ heap' = Closed(h, a)
              /\ free_list' = FreedBy(h, a)
              /\ file_table' = EmptyTheSlot(slot)
              /\ fd_table' = [fd_table EXCEPT ![t][fd] = NoSlot]
              /\ UNCHANGED panic
        /\ UNCHANGED <<first, disk, pc, local, alone, hung>>

---------------------------------------------------------------------------
(* Other users of an inode: the search of a path opens a directory, reads  *)
(* it and closes it; sys_stat opens any inode and closes it at once.       *)

StartRead(t, op, no) ==
    /\ Miss(no)
    /\ TakeBlock
    /\ local' = [local EXCEPT ![t] = [NoCall EXCEPT !.op = op, !.no = no,
                                                    !.inode = Head(free_list)]]
    /\ Goto(t, "reading")
    /\ UNCHANGED <<first, panic, hung>>

Use(t, op, no) ==
    /\ Found(no)
    /\ heap' = Count(InodeOf(no))
    /\ local' = [local EXCEPT ![t] = [NoCall EXCEPT !.op = op, !.no = no,
                                                    !.inode = InodeOf(no)]]
    /\ Goto(t, "using")
    /\ UNCHANGED <<free_list, first, panic, hung>>

dir_open(t, no) ==
    /\ Idle(t)
    /\ t \in Process
    /\ no \in (named \cap Directory) \cup {Root}
    /\ NotCounted(no) => LateCounts
    /\ \/ Use(t, "dir", no)
       \/ StartRead(t, "dir", no)
       \/ Lost(no) /\ UNCHANGED <<inodes, pc, local>>
    /\ UNCHANGED <<files, disk, alone>>

(* An inode of the list that has no count is freed by sys_stat; if it has  *)
(* one nothing changes.                                                    *)
StatFrees(no) ==
    LET a == InodeOf(no)
    IN  /\ Found(no)
        /\ heap[a].i_open_cnts = 0
        /\ heap' = Closed(Count(a), a)
        /\ free_list' = Append(free_list, a)
        /\ UNCHANGED <<first, pc, local, panic, hung>>

sys_stat(t, no) ==
    /\ Idle(t)
    /\ t \in Process
    /\ no \in named \cup {Root}
    /\ NotCounted(no) => LateCounts
    /\ \/ StartRead(t, "stat", no)
       \/ StatFrees(no)
       \/ Lost(no) /\ UNCHANGED <<inodes, pc, local>>
    /\ UNCHANGED <<files, disk, alone>>

(* The inode that was read is put into the list, to be used.               *)
ReadEnds(t) ==
    /\ At(t, "reading")
    /\ local[t].op \in {"dir", "unlink"}
    /\ heap' = Read(t)
    /\ first' = local[t].inode
    /\ panic' = (PushFaults \/ (local[t].op = "unlink" /\ table[local[t].no] # local[t].no))
    /\ Goto(t, "using")
    /\ UNCHANGED <<free_list, files, disk, local, alone, hung>>

StatEnds(t) ==
    LET a == local[t].inode
    IN  /\ At(t, "reading")
        /\ local[t].op = "stat"
        /\ heap' = Closed(Read(t), a)
        /\ free_list' = Append(free_list, a)
        /\ first' = a
        /\ panic' = PushFaults
        /\ Return(t)
        /\ UNCHANGED <<files, disk, alone, hung>>

dir_close(t) ==
    LET a == local[t].inode
    IN  /\ At(t, "using")
        /\ local[t].op = "dir"
        /\ heap' = Closed(heap, a)
        /\ free_list' = FreedBy(heap, a)
        /\ Return(t)
        /\ UNCHANGED <<first, files, disk, stopped>>

---------------------------------------------------------------------------
(* sys_unlink                                                              *)

(* The slots that name the inode: not those of an open that still reads.   *)
InUse(no) ==
    \E s \in Slot : LET a == file_table[s].fd_inode IN a # NULL /\ heap[a].i_no = no

(* Mutant: files are deleted while they are open.                          *)
MayAlwaysDelete(no) == TRUE

MayDelete(no) == ~InUse(no)

sys_unlink(t, no) ==
    /\ Idle(t)
    /\ t \in Process
    /\ no \in named \ Directory
    /\ MayDelete(no)
    /\ local' = [local EXCEPT ![t] = [NoCall EXCEPT !.op = "unlink", !.no = no]]
    /\ Goto(t, "unnaming")
    /\ UNCHANGED <<inodes, files, disk, stopped>>

(* delete_dir_entry is done, and inode_release opens the inode.            *)
delete_dir_entry(t) ==
    LET no == local[t].no
    IN  /\ At(t, "unnaming")
        /\ NotCounted(no) => LateCounts
        /\ named' = named \ {no}
        /\ \/ Use(t, "unlink", no)
           \/ StartRead(t, "unlink", no)
           \/ Lost(no) /\ UNCHANGED <<inodes, pc, local>>
        /\ UNCHANGED <<files, taken, table, alone>>

(* The rest of inode_release, which frees the number, then its entry in    *)
(* the inode table.                                                        *)
ReleaseNumber(t) ==
    /\ At(t, "using")
    /\ local[t].op = "unlink"
    /\ taken' = taken \ {local[t].no}
    /\ Goto(t, "deleting")
    /\ UNCHANGED <<inodes, files, named, table, local, stopped>>

inode_delete(t) ==
    LET a == local[t].inode
    IN  /\ At(t, "deleting")
        /\ table' = [table EXCEPT ![local[t].no] = Root]
        /\ heap' = Closed(heap, a)
        /\ free_list' = FreedBy(heap, a)
        /\ Return(t)
        /\ UNCHANGED <<first, files, named, taken, stopped>>

---------------------------------------------------------------------------
(* file_create, by main, whose inode comes from the kernel's heap          *)

file_create(no, writes) ==
    LET a    == Head(free_list)
        slot == Min(FreeSlots)
    IN  /\ Idle(main)
        /\ no \notin taken
        /\ \A m \in Number \ taken : no <= m
        /\ free_list # <<>>
        /\ Reuse \/ heap[a].next = NULL
        /\ FreeSlots # {}
        /\ taken' = taken \cup {no}
        /\ heap' = [heap EXCEPT ![a] = [ZeroedInode EXCEPT !.i_no = no]]
        /\ free_list' = Tail(free_list)
        /\ file_table' = [file_table EXCEPT ![slot] = [fd_inode |-> a, writes |-> writes]]
        /\ local' = [local EXCEPT ![main] = [op |-> "create", no |-> no, inode |-> a,
                                            slot |-> slot, writes |-> writes]]
        /\ Goto(main, "naming")
        /\ UNCHANGED <<first, fd_table, named, table, stopped>>

(* main is in the middle of it.                                            *)
Creating == pc[main] \in {"naming", "syncing", "pushing", "counting"}

sync_dir_entry ==
    /\ At(main, "naming")
    /\ named' = named \cup {local[main].no}
    /\ Goto(main, "syncing")
    /\ UNCHANGED <<inodes, files, taken, table, local, stopped>>

(* The directory is full: rollback.                                        *)
CreateFails ==
    LET a == local[main].inode
    IN  /\ At(main, "naming")
        /\ file_table' = [file_table EXCEPT ![local[main].slot] = EmptySlot]
        /\ heap' = [heap EXCEPT ![a].i_no = Link]
        /\ free_list' = Append(free_list, a)
        /\ taken' = taken \ {local[main].no}
        /\ Return(main)
        /\ UNCHANGED <<first, fd_table, named, table, stopped>>

(* inode_sync finds the place on the disk by eight bits of the number.     *)
inode_locate(no) == no % SyncNumbers

inode_sync ==
    /\ At(main, "syncing")
    /\ table' = [table EXCEPT ![inode_locate(local[main].no)] = local[main].no]
    /\ Goto(main, "pushing")
    /\ UNCHANGED <<inodes, files, named, taken, local, stopped>>

(* list_push; the count comes after it.                                    *)
CreatePushes ==
    /\ At(main, "pushing")
    /\ heap' = Push(heap, local[main].inode)
    /\ first' = local[main].inode
    /\ panic' = PushFaults
    /\ Goto(main, "counting")
    /\ UNCHANGED <<free_list, files, disk, local, alone, hung>>

CreateEnds ==
    /\ At(main, "counting")
    /\ heap' = [heap EXCEPT ![local[main].inode].i_open_cnts = 1]
    /\ fd_table' = Install(main, local[main].slot)
    /\ Return(main)
    /\ UNCHANGED <<free_list, first, file_table, disk, stopped>>

---------------------------------------------------------------------------
(* updata_inode_open_cnts: one more for every descriptor.                  *)
CountAgain(t) ==
    [a \in Address |->
        [heap[a] EXCEPT !.i_open_cnts =
            @ + Cardinality({fd \in Fd : /\ fd_table[t][fd] # NoSlot
                                         /\ file_table[fd_table[t][fd]].fd_inode = a})]]

(* The child has the parent's descriptors.  A descriptor whose slot is     *)
(* empty faults.                                                           *)
sys_fork(t, child) ==
    LET open == {fd \in Fd : fd_table[t][fd] # NoSlot}
    IN  /\ Idle(t)
        /\ t \in Process
        /\ pc[child] = "unborn"
        /\ alone => open = {}
        /\ Creating /\ (\E fd \in open : fd_table[t][fd] = local[main].slot) => StaleForks
        /\ fd_table' = [fd_table EXCEPT ![child] = fd_table[t]]
        /\ heap' = CountAgain(t)
        /\ panic' = \E fd \in open : file_table[fd_table[t][fd]].fd_inode = NULL
        /\ Goto(child, "run")
        /\ UNCHANGED <<free_list, first, file_table, disk, local, alone, hung>>

Next ==
    \/ \E t \in Process :
          \/ \E no \in File, writes \in BOOLEAN : file_open(t, no, writes)
          \/ \E no \in Number : dir_open(t, no) \/ sys_stat(t, no) \/ sys_unlink(t, no)
          \/ \E fd \in Fd : sys_close(t, fd)
          \/ \E child \in Process : sys_fork(t, child)
          \/ OpenEnds(t) \/ ReadEnds(t) \/ StatEnds(t)
          \/ dir_close(t)
          \/ delete_dir_entry(t) \/ ReleaseNumber(t) \/ inode_delete(t)
    \/ \E no \in File, writes \in BOOLEAN : file_create(no, writes)
    \/ sync_dir_entry \/ CreateFails \/ inode_sync \/ CreatePushes \/ CreateEnds

Spec == Init /\ [][Next]_vars

---------------------------------------------------------------------------
Inode == [ i_no : Number \cup {Link}, i_open_cnts : Nat, write_deny : BOOLEAN,
           next : Address \cup {NULL, TheTail} ]

Call == [ op : {"none", "open", "dir", "stat", "unlink", "create"}, no : Number,
          inode : Address \cup {NULL}, slot : Slot \cup {NoSlot}, writes : BOOLEAN ]

Types ==
    /\ heap \in [Address -> Inode]
    /\ free_list \in Seq(Address)
    /\ \A j, k \in 1 .. Len(free_list) : free_list[j] = free_list[k] => j = k
    /\ first \in Address
    /\ file_table \in [Slot -> [fd_inode : Address \cup {NULL}, writes : BOOLEAN]]
    /\ fd_table \in [Task -> [Fd -> Slot \cup {NoSlot}]]
    /\ named \subseteq File /\ taken \subseteq Number
    /\ table \in [Number -> Number]
    /\ pc \in [Task -> {"unborn", "run", "reading", "using", "unnaming", "deleting",
                        "naming", "syncing", "pushing", "counting", "done"}]
    /\ local \in [Task -> Call]
    /\ alone \in BOOLEAN /\ panic \in BOOLEAN /\ hung \in BOOLEAN

(* Types of the tables, inodes and locals; no block is freed twice, and no *)
(* count is past a uint32_t.                                               *)
TypeOK == Types /\ \A a \in Address : heap[a].i_open_cnts < Counts

(* inode.c:71: inode_open returns: the search of open_inodes comes to an   *)
(* inode with the number or to the end of the list.                        *)
SearchesEnd == ~hung

(* inode.c:131: an inode's memory is freed with its last close, and not    *)
(* before: each slot and each call in flight has its own share of the      *)
(* count, whatever tasks do at the same time.                              *)
Users(a) ==
    Cardinality({s \in Slot : /\ file_table[s].fd_inode = a
                              /\ ~ \E t \in Task : local[t].op = "create" /\ local[t].slot = s})
    + Cardinality({t \in Task : pc[t] \in {"using", "deleting"} /\ local[t].inode = a})
    + (IF a = 1 THEN 1 ELSE 0)

CountsCoverUsers ==
    \A a \in Address :
        /\ Users(a) <= heap[a].i_open_cnts
        /\ alone => Users(a) = heap[a].i_open_cnts
        /\ Users(a) > 0 => heap[a].i_no # Link

(* While one task at a time uses the file system and none inherits an open *)
(* file, each descriptor has a slot of its own and in it an inode of a     *)
(* file that is still in a directory, and no access goes astray.           *)
Descriptors == {d \in Task \X Fd : fd_table[d[1]][d[2]] # NoSlot}

DescriptorsAreLive ==
    alone =>
        /\ ~panic
        /\ \A d \in Descriptors :
              LET a == file_table[fd_table[d[1]][d[2]]].fd_inode
              IN  a # NULL /\ heap[a].i_no \in named
        /\ \A d, e \in Descriptors :
              fd_table[d[1]][d[2]] = fd_table[e[1]][e[2]] => d = e

(* Under the same condition a number has one inode in memory, so that all  *)
(* who open a file share its size, its blocks and write_deny.              *)
InodesAreShared ==
    alone => \A a, b \in Address :
                 heap[a].i_open_cnts > 0 /\ heap[b].i_open_cnts > 0
                 /\ heap[a].i_no = heap[b].i_no => a = b

---------------------------------------------------------------------------
(* The invariant that the proofs of module OpenFilesProofs rest on.  They  *)
(* assume this of the tasks, and that the numbers of inodes are below 256. *)
Careful ==
    /\ ~Reuse /\ ~StaleForks /\ ~LateCounts
    /\ \A no \in File : no < SyncNumbers

(* The variables of a call fit its label.                                  *)
CallFits(t) ==
    /\ pc[t] \in {"run", "unborn", "done"} => local[t] = NoCall
    /\ pc[t] = "reading" => local[t].op \in {"open", "dir", "stat", "unlink"}
    /\ pc[t] = "using" => local[t].op \in {"dir", "unlink"}
    /\ pc[t] \in {"unnaming", "deleting"} => local[t].op = "unlink"
    /\ pc[t] \in {"naming", "syncing", "pushing", "counting"} => local[t].op = "create"
    /\ local[t].op # "none" => (local[t].op = "create" <=> t = main)
    /\ local[t].op \in {"unlink", "create"} => local[t].no \in File
    /\ local[t].op \in {"open", "create"} => local[t].slot \in Slot
    /\ pc[t] \notin {"run", "unborn", "done", "unnaming"} => local[t].inode \in Address

(* order[n], .., order[1] are the inodes of the list of open inodes.       *)
IsOpenList(n, order) ==
    /\ \A i, j \in 1 .. n : order[i] = order[j] => i = j
    /\ first = order[n]
    /\ \A i \in 1 .. n : heap[order[i]].next = IF i = 1 THEN TheTail ELSE order[i - 1]
    /\ \A a \in Address : heap[a].next # NULL => \E i \in 1 .. n : order[i] = a

ListIsWhole == \E n \in 1 .. Blocks : \E order \in [1 .. n -> Address] : IsOpenList(n, order)

FreeBlocks == \A k \in 1 .. Len(free_list) : heap[free_list[k]].i_no = Link

(* The tasks with a block that is not yet in the list, or has no count     *)
(* there, and their blocks.                                                *)
Holds(t) == pc[t] \in {"reading", "naming", "syncing", "pushing", "counting"}
Held == {local[t].inode : t \in {u \in Task : Holds(u)}}

SlotsWith(a) == {s \in Slot : file_table[s].fd_inode = a}
TasksWith(a) == {t \in Task : pc[t] \in {"using", "deleting"} /\ local[t].inode = a}
Claims(a) ==
    Cardinality(SlotsWith(a)) + Cardinality(TasksWith(a)) + (IF a = 1 THEN 1 ELSE 0)

OwnBlock(t) ==
    LET a == local[t].inode
    IN  Holds(t) =>
            /\ heap[a].i_no # Link /\ a # 1
            /\ heap[a].next = NULL <=> pc[t] # "counting"
            /\ t = main => heap[a].i_no = local[main].no
            /\ \A u \in Task : u # t /\ Holds(u) => local[u].inode # a
            /\ TasksWith(a) = {}
            /\ \A s \in SlotsWith(a) :
                  t = main /\ s = local[main].slot /\ heap[a].i_open_cnts = 0

Shares ==
    \A a \in Address \ Held :
        /\ Claims(a) <= heap[a].i_open_cnts
        /\ Claims(a) > 0 => heap[a].i_no # Link

RootIsOpen == heap[1].i_no = Root

(* What holds besides while one task at a time uses the file system.       *)
InCall(t) == pc[t] \notin {"run", "unborn", "done"}

OneCall == \A t, u \in Task : InCall(t) /\ InCall(u) => t = u

ExactCounts ==
    \A a \in Address :
        /\ heap[a].i_open_cnts = IF a \in Held THEN 0 ELSE Claims(a)
        /\ heap[a].i_open_cnts > 0 => heap[a].next # NULL
        /\ a \notin Held /\ heap[a].i_open_cnts = 0 => heap[a].i_no = Link

Numbers ==
    /\ named \cup {Root} \subseteq taken
    /\ \A no \in named \cup {Root} :
          table[no] = no \/ (pc[main] = "syncing" /\ no = local[main].no)

SlotsAreNamed ==
    \A s \in Slot :
        LET a == file_table[s].fd_inode
        IN  a # NULL /\ ~(Creating /\ s = local[main].slot) => heap[a].i_no \in named

OwnSlots ==
    /\ \A t \in Task, fd \in Fd :
          fd_table[t][fd] # NoSlot => file_table[fd_table[t][fd]].fd_inode # NULL
    /\ \A t, u \in Task, fd, gd \in Fd :
          fd_table[t][fd] # NoSlot /\ fd_table[t][fd] = fd_table[u][gd] => t = u /\ fd = gd
    /\ \A t, u \in Task, fd \in Fd :
          local[u].op \in {"open", "create"} => fd_table[t][fd] # local[u].slot

AloneFits(t) ==
    LET no == local[t].no
    IN  /\ Holds(t) => \A b \in Address : heap[b].i_open_cnts > 0 => heap[b].i_no # no
        /\ pc[t] \in {"reading", "unnaming"} => table[no] = no
        /\ local[t].op = "open" => no \in named /\ file_table[local[t].slot].fd_inode = NULL
        /\ pc[t] = "unnaming" => ~InUse(no)
        /\ local[t].op = "create" =>
              /\ file_table[local[t].slot].fd_inode = local[t].inode
              /\ heap[local[t].inode].i_no = no
              /\ no \in taken
              /\ pc[t] = "naming" => no \notin named
              /\ pc[t] \in {"syncing", "pushing", "counting"} => no \in named
              /\ pc[t] \in {"pushing", "counting"} => table[no] = no
        /\ local[t].op = "unlink" /\ pc[t] # "unnaming" => no \notin named

Orderly ==
    alone => /\ ~panic
             /\ OneCall
             /\ ExactCounts
             /\ InodesAreShared
             /\ Numbers
             /\ SlotsAreNamed
             /\ OwnSlots
             /\ \A t \in Task : AloneFits(t)

Sound ==
    /\ Types
    /\ ~hung
    /\ \A t \in Task : CallFits(t) /\ OwnBlock(t)
    /\ ListIsWhole
    /\ FreeBlocks
    /\ Shares
    /\ RootIsOpen

Inv == Sound /\ Orderly

(* What bounds a count: it has one for each of its shares and one more for *)
(* each time a slot was assigned over another open's (an inode that was    *)
(* read has then come into the list, or main's file was not made), and a   *)
(* fork adds at most all descriptors of one task.  Only the inode that     *)
(* file_create makes may be closed before it is counted, over a stale      *)
(* descriptor of its slot; then it has no shares.                          *)
Listed == {a \in Address : heap[a].next # NULL}
Born == {p \in Process : pc[p] # "unborn"}
Leaks == Cardinality(Listed) + Fds * Cardinality(Born) + (IF pc[main] = "done" THEN 1 ELSE 0)

Arriving(a) == pc[main] = "counting" /\ a = local[main].inode

FewLeaks(a) ==
    \/ heap[a].i_open_cnts <= Claims(a) + Leaks
    \/ /\ heap[a].next = NULL \/ Arriving(a)
       /\ heap[a].i_open_cnts = Counts - 1 /\ Claims(a) = 0

LeaksAreFew == \A a \in Address : FewLeaks(a)

(* So many shares and leaks there can be.  An inode takes 128 bytes of the *)
(* kernel's heap and a process a page and more, and there are 32 slots and *)
(* 8 descriptors: far fewer than 2^32.                                     *)
MostUsers == Slots + Blocks + (Fds + 1) * Cardinality(Process) + 3
=============================================================================
