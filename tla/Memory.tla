------------------------------- MODULE Memory -------------------------------
(***************************************************************************)
(* Memory of GlowOS (src/kernel/memory.c) and what processes take of it    *)
(* (src/userprog): two pools of page frames, a range of virtual pages for  *)
(* the kernel and one for each process, arenas with small blocks.          *)
(*                                                                         *)
(* A process is in the kernel with interrupts off, its calls are one step. *)
(* main has them on: its sys_malloc and sys_free are cut between the look  *)
(* at a bitmap and the change, and where a page is half freed.  mem is:    *)
(*   vbits  the virtual pages marked in each space's bitmap                *)
(*   pbits  the frames marked in the bitmaps of both pools                 *)
(*   pte    the frame each virtual page is mapped to                       *)
(*   table  the frames of each process's page tables                       *)
(*   arena  the header at the start of a page of small blocks, or of a     *)
(*          large block; free, live: the free list, the blocks in use      *)
(*   own    the kernel pages of a process: PCB, bitmap, page directory     *)
(*   lost   the pages that a call which failed half-way keeps marked       *)
(*   repeat whether page_table_add met an entry that is present            *)
(***************************************************************************)
EXTENDS Integers, SequencesExt

CONSTANTS
    Process, init,              \* user processes, and the first one
    KernelFrames, UserFrames,   \* frames of the two pools
    KernelPages, UserPages,     \* virtual pages of the kernel's heap and of a process
    PerArena,                   \* block_per_arena, of the one size of small blocks
    LargeSizes,                 \* pages a large block may take
    MaxLive,                    \* bound of this model: blocks in use at once, see MayAllocate
    Image,                      \* the pages a program's file is loaded to
    Habits                      \* what threads are careful about, see below

ASSUME MemoryAssumption ==
    /\ init \in Process /\ {"kernel", "main", "nobody"} \cap Process = {}
    /\ {KernelFrames, UserFrames, KernelPages, UserPages, PerArena} \subseteq Nat \ {0}
    /\ LargeSizes \subseteq Nat \ {0}
    /\ KernelPages > 2 /\ UserPages > 2 /\ PerArena > 1 /\ Image \subseteq 0..UserPages - 2

VARIABLES
    mem,
    at,       \* where main stands in a call
    held,     \* the process that left get_a_page with user_pool.lock, or Nobody
    loading,  \* the pages of its new program that a process in execv has to load yet
    stopped   \* why the machine stopped, "" while it runs

vars == <<mem, at, held, loading, stopped>>

Kernel == "kernel"
Space == Process \cup {Kernel}
Nobody == "nobody"

(* Frames of the kernel's pool come first; 0 is NULL, physical page 0.      *)
Frame == 1..KernelFrames + UserFrames
PoolOf(s) == IF s = Kernel THEN 1..KernelFrames ELSE Frame \ (1..KernelFrames)
NoFrame == 0

Size(s) == IF s = Kernel THEN KernelPages ELSE UserPages
Page == 0..KernelPages \cup 0..UserPages   \* of any space, and the one past the end
NoPage == -1
StackPage == UserPages - 1
(* The stack is far from the heap and has a page table of its own.          *)
Region == {"heap", "stack"}
RegionOf(page) == IF page = StackPage THEN "stack" ELSE "heap"

NoArena == [cnt |-> 0, large |-> FALSE, desc |-> Nobody]

-----------------------------------------------------------------------------
(* Mutant of bitmap_scan: the bit past the end also for one page.           *)
ScanPastEnd(bits, size, cnt) ==
    LET fits == {s \in 0..size : s + cnt - 1 <= size /\ (s..s + cnt - 1) \cap bits = {}}
    IN  IF fits = {} THEN NoPage ELSE Min(fits)

(* For more than one bit, bit_left lets the scan look one bit past the end. *)
bitmap_scan(bits, size, cnt) ==
    LET last == IF cnt = 1 THEN size - 1 ELSE size
        fits == {s \in 0..size - 1 : s + cnt - 1 <= last /\ (s..s + cnt - 1) \cap bits = {}}
    IN  IF fits = {} THEN NoPage ELSE Min(fits)

palloc_scan(m, s) ==
    LET unused == PoolOf(s) \ m.pbits IN IF unused = {} THEN NoFrame ELSE Min(unused)

(* palloc for one page after the other: the k-th of them gets the k-th of  *)
(* the unused frames, until there is none.                                 *)
Rank(S, x) == Cardinality({y \in S : y <= x})
Nth(S, k) == CHOOSE x \in S : Rank(S, x) = k

FrameFor(m, s, pages, page) ==
    LET unused == PoolOf(s) \ m.pbits
        k == Rank(pages, page)
    IN  IF k <= Cardinality(unused) THEN Nth(unused, k) ELSE NoFrame

(* The page tables of the kernel's space are there from the start.  The    *)
(* frame for a process's table is not checked for NULL.                    *)
AddTable(m, s, r) ==
    LET t == palloc_scan(m, Kernel)
    IN  IF s = Kernel THEN m
        ELSE IF m.table[s][r] # {} THEN m
        ELSE [m EXCEPT !.table[s][r] = {t}, !.pbits = @ \cup ({t} \ {NoFrame})]

(* The pages of DOMAIN frames are mapped to their frames, which stops the  *)
(* machine when one of them has a frame (the ASSERT and the PANIC; the     *)
(* third check reads an entry of a table that was cleared the line before).*)
SetEntries(m, s, frames) ==
    [m EXCEPT !.repeat = @ \/ \E page \in DOMAIN frames : m.pte[s][page] # NoFrame,
              !.pbits = @ \cup {frames[page] : page \in DOMAIN frames},
              !.pte[s] = [page \in Page |-> IF page \in DOMAIN frames THEN frames[page] ELSE @[page]]]

page_table_add(m, s, frames) ==
    LET placed == SetEntries(m, s, frames)
        regions == {RegionOf(page) : page \in DOMAIN frames}
        heap == IF "heap" \in regions THEN AddTable(placed, s, "heap") ELSE placed
    IN  IF "stack" \in regions THEN AddTable(heap, s, "stack") ELSE heap

MapPage(m, s, page, f) == page_table_add(m, s, [q \in {page} |-> f])

MapPages(m, s, pages) ==
    page_table_add(m, s, [page \in {q \in pages : FrameFor(m, s, pages, q) # NoFrame}
                            |-> FrameFor(m, s, pages, page)])

Marked(m, s, range) == [m EXCEPT !.vbits[s] = @ \cup range]
GiveUp(m, s, range) == [m EXCEPT !.lost = @ \cup ({s} \X range)]

(* With too few frames the call returns NULL after the pages they last for. *)
malloc_page(m, s, pg_cnt) ==
    LET start == bitmap_scan(m.vbits[s], Size(s), pg_cnt)
        range == start..start + pg_cnt - 1
        mapped == MapPages(Marked(m, s, range), s, range)
        enough == pg_cnt <= Cardinality(PoolOf(s) \ m.pbits)
    IN  IF start = NoPage THEN [ok |-> FALSE, m |-> m, page |-> start]
        ELSE IF enough THEN [ok |-> TRUE, m |-> mapped, page |-> start]
        ELSE [ok |-> FALSE, m |-> GiveUp(mapped, s, range), page |-> start]

get_kernel_pages(m, pg_cnt) == malloc_page(m, Kernel, pg_cnt)

(* Mutants: the neighbours' bits are cleared; the entries stay; a range    *)
(* loses the mark of its first page only.                                  *)
PfreeNext(m, frames) == [m EXCEPT !.pbits = @ \ {f + 1 : f \in frames}]
PteStays(m, s, pages) == m
RemoveOnlyFirst(m, s, range) == [m EXCEPT !.vbits[s] = @ \ {p \in range : \A q \in range : p <= q}]

pfree(m, frames) == [m EXCEPT !.pbits = @ \ frames]
page_table_pte_remove(m, s, pages) ==
    [m EXCEPT !.pte[s] = [page \in Page |-> IF page \in pages THEN NoFrame ELSE @[page]]]
vaddr_remove(m, s, range) == [m EXCEPT !.vbits[s] = @ \ range]

(* The ASSERTs of mfree_page: the frames are of the pool that is chosen.  A *)
(* cleared entry keeps its address and would pass them; it must not here.  *)
FreesFrames(m, s, range) == \A page \in range : m.pte[s][page] \in PoolOf(s)

mfree_page(m, s, range) ==
    LET freed == pfree(m, {m.pte[s][page] : page \in range})
    IN  vaddr_remove(page_table_pte_remove(freed, s, range), s, range)

-----------------------------------------------------------------------------
(* Blocks.  <<page, i>> is the block with index i of an arena; the large   *)
(* block that starts at a page is <<page, 0>>.                             *)
BlocksOf(page) == {<<page, i>> : i \in 1..PerArena}
ArenaBlocks(page) == [i \in 1..PerArena |-> <<page, i>>]

NewLarge(m, s, page, n) ==
    [m EXCEPT !.arena[s][page] = [cnt |-> n, large |-> TRUE, desc |-> s],
              !.live[s] = @ \cup {<<page, 0>>}]

NewArena(m, s, page) ==
    [m EXCEPT !.arena[s][page] = [cnt |-> PerArena, large |-> FALSE, desc |-> s],
              !.free[s] = @ \o ArenaBlocks(page)]

(* Mutant of PopBlock: the header does not count it.                       *)
PopUncounted(m, s) ==
    LET b == Head(m.free[s]) IN [m EXCEPT !.free[s] = Tail(@), !.live[s] = @ \cup {b}]

PopBlock(m, s) ==
    LET b == Head(m.free[s])
    IN  [m EXCEPT !.free[s] = Tail(@), !.live[s] = @ \cup {b}, !.arena[s][b[1]].cnt = @ - 1]

Furnish(m, s, page, n) ==
    IF n = 0 THEN PopBlock(NewArena(m, s, page), s) ELSE NewLarge(m, s, page, n)

(* n pages, or for n = 0 a small block.                                    *)
NeedsPages(m, s, n) == n > 0 \/ m.free[s] = <<>>
PagesFor(n) == IF n = 0 THEN 1 ELSE n

sys_malloc(m, s, n) ==
    LET r == malloc_page(m, s, PagesFor(n))
    IN  IF ~NeedsPages(m, s, n) THEN PopBlock(m, s)
        ELSE IF r.ok THEN Furnish(r.m, s, r.page, n)
        ELSE r.m

(* The list_remove of every block of a page.                               *)
Without(list, page) ==
    LET others == {i \in DOMAIN list : list[i][1] # page}
    IN  [k \in 1..Cardinality(others) |-> list[Nth(others, k)]]

(* The first half of sys_free: the block goes to the free list, and when   *)
(* all blocks of its arena are free they leave the list again.             *)
ReturnBlock(m, s, b) ==
    LET a == m.arena[s][b[1]]
        returned == [m EXCEPT !.live[s] = @ \ {b}, !.free[s] = Append(@, b),
                              !.arena[s][b[1]].cnt = @ + 1]
    IN  IF a.large THEN [m EXCEPT !.live[s] = @ \ {b}]
        ELSE IF a.cnt + 1 < PerArena THEN returned
        ELSE [returned EXCEPT !.free[s] = Without(@, b[1])]

(* The pages that go back with it.                                         *)
PagesReturned(m, s, b) ==
    LET a == m.arena[s][b[1]]
    IN  IF a.large THEN b[1]..b[1] + a.cnt - 1
        ELSE IF a.cnt + 1 = PerArena THEN {b[1]} ELSE {}

(* The ASSERTs on the way.  A block's entries are its owner's to clear, so *)
(* that those of all its pages can be looked at from the start.            *)
FreeAsserts(m, s, b) ==
    LET a == m.arena[s][b[1]]
    IN  /\ (~a.large /\ a.cnt + 1 = PerArena) =>
                BlocksOf(b[1]) \subseteq Range(m.free[s]) \cup {b}
        /\ FreesFrames(m, s, PagesReturned(m, s, b))

Cleared(m, s, range) ==
    [m EXCEPT !.arena[s] = [page \in Page |-> IF page \in range THEN NoArena ELSE @[page]]]

sys_free(m, s, b) ==
    LET range == PagesReturned(m, s, b)
    IN  Cleared(mfree_page(ReturnBlock(m, s, b), s, range), s, range)

-----------------------------------------------------------------------------
(* Processes.  Their three (with a larger bitmap, more) kernel pages.       *)
Boot ==
    [vbits |-> [s \in Space |-> {}], pbits |-> {},
     pte |-> [s \in Space |-> [p \in Page |-> NoFrame]],
     table |-> [p \in Process |-> [r \in Region |-> {}]],
     arena |-> [s \in Space |-> [p \in Page |-> NoArena]],
     free |-> [s \in Space |-> <<>>], live |-> [s \in Space |-> {}],
     own |-> [p \in Process |-> {}], lost |-> {}, repeat |-> FALSE]

(* PCB, bitmap of virtual pages, page directory.                           *)
process_execute(m, p) ==
    LET pcb == get_kernel_pages(m, 1)
        bits == get_kernel_pages(pcb.m, 1)
        dir == get_kernel_pages(bits.m, 1)
    IN  [dir.m EXCEPT !.own[p] = {pcb.page, bits.page, dir.page}]

Done(m) == [m |-> m, why |-> "", holds |-> FALSE]
Fault(m, why) == [m |-> m, why |-> why, holds |-> FALSE]

(* The bit is set before there is a frame; without one the lock stays.     *)
get_a_page(m, p, page) ==
    LET f == palloc_scan(m, p)
        marked == Marked(m, p, {page})
    IN  IF f # NoFrame THEN Done(MapPage(marked, p, page, f))
        ELSE [Done(GiveUp(marked, p, {page})) EXCEPT !.holds = TRUE]

(* Page for page through the buffer, up to the first that the parent does  *)
(* not have; the child's frame is not checked.                             *)
copy_body_stack3(m, p, c) ==
    LET there == {page \in m.vbits[p] : \A q \in m.vbits[p] : q <= page => m.pte[p][q] # NoFrame}
        copied == MapPages(m, c, there)
    IN  IF \A page \in m.vbits[p] : copied.pte[c][page] # NoFrame THEN Done(copied)
        ELSE Fault(copied, "page fault in fork")

(* copy_process: block_desc_init empties the child's free lists, the       *)
(* arenas come with the pages and still name the parent's; what a call of  *)
(* the parent lost is lost in the copy.                                    *)
Kept(m, s) == {page \in Page : <<s, page>> \in m.lost}

Forked(m, d, p, c, own) ==
    [d EXCEPT !.own[c] = own, !.vbits[c] = m.vbits[p], !.lost = @ \cup ({c} \X Kept(m, p)),
              !.arena[c] = m.arena[p], !.live[c] = m.live[p], !.free[c] = <<>>]

sys_fork(m, p, c) ==
    LET pcb == get_kernel_pages(m, 1)
        buf == get_kernel_pages(pcb.m, 1)
        bits == get_kernel_pages(buf.m, 1)
        dir == get_kernel_pages(bits.m, 1)
        made == Forked(m, dir.m, p, c, {pcb.page, bits.page, dir.page})
        copied == copy_body_stack3(made, p, c)
    IN  IF ~pcb.ok THEN Done(pcb.m)
        ELSE IF ~buf.ok THEN Done(GiveUp(buf.m, Kernel, {pcb.page}))
        ELSE IF ~bits.ok THEN Fault(bits.m, "page fault in fork")
        ELSE IF ~dir.ok THEN Done(GiveUp(dir.m, Kernel, {pcb.page, buf.page, bits.page}))
        ELSE IF copied.why # "" THEN copied
        ELSE IF ~FreesFrames(copied.m, Kernel, {buf.page}) THEN Fault(copied.m, "ASSERT in mfree_page")
        ELSE Done(mfree_page(copied.m, Kernel, {buf.page}))

Only(S) == CHOOSE x \in S : TRUE

(* A page of the program: it is asked for if there is none, then sys_read  *)
(* has its buffer on the process's heap.  What was in the page is          *)
(* overwritten, an arena's header as well.                                 *)
segment_load(m, p, page) ==
    LET got == IF m.pte[p][page] # NoFrame THEN Done(m)
               ELSE IF page = 0 THEN Fault(m, "ASSERT(bit_idx > 0)")
               ELSE get_a_page(m, p, page)
        buffered == sys_malloc(got.m, p, 0)
        buffer == buffered.live[p] \ got.m.live[p]
        read == IF buffer = {} THEN buffered ELSE sys_free(buffered, p, Only(buffer))
    IN  IF got.why # "" \/ got.holds THEN got
        ELSE IF buffer \cap BlocksOf(page) # {} THEN Fault(buffered, "page fault in sys_free")
        ELSE IF buffer # {} /\ ~FreeAsserts(buffered, p, Only(buffer))
        THEN Fault(buffered, "ASSERT in sys_free")
        ELSE Done(Cleared(read, p, {page}))

-----------------------------------------------------------------------------
(* What threads are careful about, where the code is not: no process takes *)
(* memory while main is in the middle of a call (get_kernel_pages   *)
(* and page_table_add take no lock, and a process that waits for the lock  *)
(* comes back with the kernel's page directory); no page table is asked    *)
(* for when no frame is left; programs are linked above the heap.          *)
MainUndisturbed == "main undisturbed" \in Habits => at.pc = "run"
TablesHaveRoom ==
    "room for page tables" \in Habits =>
        \A p \in Process, r \in Region : NoFrame \notin mem'.table[p][r]
ProgramsAboveHeap(p) ==
    "programs above the heap" \in Habits =>
        0 \notin Image /\ \A page \in Image : mem.arena[p][page] = NoArena

(* A small block counts as one towards MaxLive, a large one as its pages.  *)
Weight(s, b) == IF mem.arena[s][b[1]].large THEN mem.arena[s][b[1]].cnt ELSE 1
LiveWeight == MapThenSumSet(LAMBDA s : MapThenSumSet(LAMBDA b : Weight(s, b), mem.live[s]), Space)
MayAllocate(n) == LiveWeight + PagesFor(n) <= MaxLive

Outside == [pc |-> "run", n |-> 0, pages |-> {}, left |-> {}, frame |-> NoFrame]

(* Why the machine stops after a call, if it does.                          *)
Halt(m, why) == IF m.repeat THEN "pte repeat" ELSE why

Init ==
    /\ mem = process_execute(Boot, init)
    /\ at = Outside
    /\ held = Nobody
    /\ loading = [p \in Process |-> {}]
    /\ stopped = Halt(mem, "")

Runs(p) == mem.own[p] # {} /\ mem.pte[p][StackPage] # NoFrame /\ loading[p] = {}

(* The system call of a process, with the result r.                        *)
InKernel(p, r) ==
    /\ stopped = "" /\ MainUndisturbed
    /\ mem' = r.m /\ stopped' = Halt(r.m, r.why)
    /\ held' = IF r.holds THEN p ELSE held
    /\ TablesHaveRoom
    /\ UNCHANGED at

Call(p, r) == InKernel(p, r) /\ UNCHANGED loading

(* The lock of user_pool, which a process may take again.                   *)
UserPool(p) == held \in {Nobody, p}

start_process ==
    mem.pte[init][StackPage] = NoFrame /\ UserPool(init) /\ Call(init, get_a_page(mem, init, StackPage))

ProcessMallocs(p, n) ==
    Runs(p) /\ UserPool(p) /\ MayAllocate(n) /\ Call(p, Done(sys_malloc(mem, p, n)))

(* A block of an arena that came with a fork is never freed: its header    *)
(* names the parent's free list.                                           *)
ProcessFrees(p, b) ==
    LET a == mem.arena[p][b[1]]
    IN  /\ Runs(p) /\ UserPool(p) /\ b \in mem.live[p]
        /\ a.large \/ a.desc = p
        /\ Call(p, IF FreeAsserts(mem, p, b) THEN Done(sys_free(mem, p, b))
                   ELSE Fault(mem, "ASSERT in sys_free"))

(* inode_open and inode_close take pgdir away for a moment.                 *)
ProcessOpensInode(p) ==
    /\ Runs(p) /\ at.pc = "run" /\ MayAllocate(0)
    /\ Call(p, Done(sys_malloc(mem, Kernel, 0)))

ProcessClosesInode(p, b) ==
    /\ Runs(p) /\ at.pc = "run" /\ b \in mem.live[Kernel] /\ b[2] # 0
    /\ Call(p, IF FreeAsserts(mem, Kernel, b) THEN Done(sys_free(mem, Kernel, b))
               ELSE Fault(mem, "ASSERT in sys_free"))

ProcessForks(p, c) == Runs(p) /\ UserPool(p) /\ mem.own[c] = {} /\ Call(p, sys_fork(mem, p, c))

(* sys_execv loads a page at a time, others run while the disk reads it.    *)
sys_execv(p) ==
    /\ Runs(p) /\ UserPool(p) /\ ProgramsAboveHeap(p)
    /\ InKernel(p, Done(mem))
    /\ loading' = [loading EXCEPT ![p] = Image]

ProcessLoads(p) ==
    LET page == Min(loading[p])
        r == segment_load(mem, p, page)
    IN  /\ loading[p] # {} /\ UserPool(p)
        /\ InKernel(p, r)
        /\ loading' = [loading EXCEPT ![p] = IF r.why = "" /\ ~r.holds THEN @ \ {page} ELSE {}]

-----------------------------------------------------------------------------
(* main.  It holds kernel_pool.lock from the first step of a call to the   *)
(* last; a call that needs no page has one step.                           *)
MainStep(m, next) ==
    mem' = m /\ at' = next /\ UNCHANGED <<held, loading, stopped>>

vaddr_scan(n) ==
    LET start == bitmap_scan(mem.vbits[Kernel], KernelPages, PagesFor(n))
        range == start..start + PagesFor(n) - 1
    IN  /\ at.pc = "run" /\ MayAllocate(n)
        /\ IF ~NeedsPages(mem, Kernel, n) THEN MainStep(PopBlock(mem, Kernel), at)
           ELSE /\ start # NoPage
                /\ MainStep(mem, [pc |-> "mark", n |-> n, pages |-> range, left |-> range, frame |-> NoFrame])

(* palloc of the next page, which main may not come to mark in time.        *)
FindFrame(m, pages, left, n) ==
    LET f == palloc_scan(m, Kernel)
    IN  IF f = NoFrame THEN MainStep(GiveUp(m, Kernel, pages), Outside)
        ELSE MainStep(m, [pc |-> "map", n |-> n, pages |-> pages, left |-> left, frame |-> f])

vaddr_set ==
    /\ at.pc = "mark"
    /\ FindFrame(Marked(mem, Kernel, at.pages), at.pages, at.left, at.n)

frame_set ==
    LET page == Min(at.left)
        mapped == MapPage(mem, Kernel, page, at.frame)
    IN  /\ at.pc = "map"
        /\ IF mem.pte[Kernel][page] # NoFrame
           THEN stopped' = "pte repeat" /\ UNCHANGED <<mem, at, held, loading>>
           ELSE IF at.left = {page}
           THEN MainStep(Furnish(mapped, Kernel, Min(at.pages), at.n), Outside)
           ELSE FindFrame(mapped, at.pages, at.left \ {page}, at.n)

(* mfree_page clears a frame's bit, then the page's entry.                  *)
ClearFrame(m, pages, left) ==
    MainStep(pfree(m, {m.pte[Kernel][Min(left)]}),
             [Outside EXCEPT !.pc = "unmap", !.pages = pages, !.left = left])

main_free(b) ==
    LET range == PagesReturned(mem, Kernel, b)
        returned == Cleared(ReturnBlock(mem, Kernel, b), Kernel, range)
    IN  /\ at.pc = "run" /\ b \in mem.live[Kernel]
        /\ IF ~FreeAsserts(mem, Kernel, b)
           THEN stopped' = "ASSERT in sys_free" /\ UNCHANGED <<mem, at, held, loading>>
           ELSE IF range = {} THEN MainStep(returned, at)
           ELSE ClearFrame(returned, range, range)

pte_clear ==
    LET page == Min(at.left)
        cleared == page_table_pte_remove(mem, Kernel, {page})
    IN  /\ at.pc = "unmap"
        /\ IF at.left = {page} THEN MainStep(vaddr_remove(cleared, Kernel, at.pages), Outside)
           ELSE ClearFrame(cleared, at.pages, at.left \ {page})

MainNext ==
    /\ stopped = ""
    /\ \/ \E n \in {0} \cup LargeSizes : vaddr_scan(n)
       \/ vaddr_set \/ frame_set
       \/ \E b \in mem.live[Kernel] : main_free(b)
       \/ pte_clear

ProcessNext(p) ==
    \/ \E n \in {0} \cup LargeSizes : ProcessMallocs(p, n)
    \/ \E b \in mem.live[p] : ProcessFrees(p, b)
    \/ ProcessOpensInode(p)
    \/ \E b \in mem.live[Kernel] : ProcessClosesInode(p, b)
    \/ \E c \in Process : ProcessForks(p, c)
    \/ sys_execv(p)
    \/ ProcessLoads(p)

Next == start_process \/ MainNext \/ \E p \in Process : ProcessNext(p)

Spec == Init /\ [][Next]_vars

-----------------------------------------------------------------------------
(* The state has its type; a page past the end of the kernel's bitmap is   *)
(* used at most as the last of a larger range (bitmap.c:54).               *)
TypeOK ==
    /\ mem.pbits \subseteq Frame
    /\ \A s \in Space : /\ mem.vbits[s] \subseteq 0..Size(s)
                        /\ Size(s) \in mem.vbits[s] => s = Kernel /\ Size(s) - 1 \in mem.vbits[s]
                        /\ \A p \in Page : mem.pte[s][p] \in PoolOf(s) \cup {NoFrame}
    /\ held \in Process \cup {Nobody}
    /\ at.pc \in {"run", "mark", "map", "unmap"}
    /\ loading \in [Process -> SUBSET Image]

(* No ASSERT in page_table_add, get_a_page, sys_free or mfree_page fails,  *)
(* whoever calls: no page that is handed out still has a frame, and what   *)
(* is freed has one.  A fork may find no memory for its child and fault,   *)
(* which it does not look at.                                              *)
NoPanic == stopped \in {"", "page fault in fork"}

(* A frame is mapped in one place, or holds one page table: nobody's data  *)
(* can show up in somebody else's pages.  What is mapped is marked in both *)
(* bitmaps, so that it is not handed out again.                            *)
PagesHaveOneOwner ==
    LET mapped == {x \in Space \X Page : mem.pte[x[1]][x[2]] # NoFrame}
        frame(x) == mem.pte[x[1]][x[2]]
        tables == {y \in Process \X Region : mem.table[y[1]][y[2]] # {}}
        framesOf(y) == mem.table[y[1]][y[2]]
    IN  /\ \A x1, x2 \in mapped : frame(x1) = frame(x2) => x1 = x2
        /\ \A y1, y2 \in tables : framesOf(y1) \cap framesOf(y2) # {} => y1 = y2
        /\ \A x \in mapped, y \in tables : frame(x) \notin framesOf(y)
        /\ at.pc # "unmap" => \A x \in mapped : frame(x) \in mem.pbits
        /\ \A y \in tables : framesOf(y) \subseteq mem.pbits
        /\ \A x \in mapped : x[2] \in mem.vbits[x[1]]

(* The pages of the small blocks' arenas and of the large blocks.          *)
Arenas(m, s) == {page \in Page : m.arena[s][page] # NoArena}
PagesOf(m, s, page) ==
    IF m.arena[s][page].large THEN page..page + m.arena[s][page].cnt - 1 ELSE {page}
HeapPages(m, s) == UNION {PagesOf(m, s, page) : page \in Arenas(m, s)}

(* Nothing is kept for nobody: between calls, each marked page is part of  *)
(* a block, an arena, a PCB or its like, a stack or a program, and each    *)
(* marked frame is mapped, but for what a call that failed half-way keeps. *)
UsedFor(m, s) ==
    IF s = Kernel THEN UNION {m.own[p] : p \in Process} ELSE {StackPage} \cup Image
Frames(m) ==
    (UNION {{m.pte[s][page] : page \in Page} : s \in Space})
        \cup (UNION {m.table[x[1]][x[2]] : x \in Process \X Region})

NothingIsForgotten ==
    (at.pc = "run" /\ stopped = "") =>
        /\ \A s \in Space :
                /\ mem.vbits[s] \subseteq HeapPages(mem, s) \cup UsedFor(mem, s) \cup Kept(mem, s)
                /\ HeapPages(mem, s) \subseteq mem.vbits[s] \ Kept(mem, s)
        /\ mem.pbits \subseteq Frames(mem)

(* The heap of every space: blocks in use lie in arenas that are there, a  *)
(* free block is in the list once and not in use, the header counts the    *)
(* free blocks, and no arena stays that is free as a whole.  An arena that *)
(* came with a fork has its free blocks in no list of the child.  All of   *)
(* it is mapped.                                                           *)
HeapIsExact ==
    stopped = "" =>
      \A s \in Space :
        LET listed == Range(mem.free[s])
        IN  /\ IsInjective(mem.free[s]) /\ listed \cap mem.live[s] = {}
            /\ \A b \in listed \cup mem.live[s] :
                    mem.arena[s][b[1]] # NoArena /\ (mem.arena[s][b[1]].large <=> b[2] = 0)
            /\ \A p \in Arenas(mem, s) :
                LET a == mem.arena[s][p]
                    inUse == BlocksOf(p) \cap mem.live[s]
                IN  /\ \A page \in PagesOf(mem, s, p) : mem.pte[s][page] # NoFrame
                    /\ IF a.large THEN <<p, 0>> \in mem.live[s]
                       ELSE /\ a.cnt + Cardinality(inUse) = PerArena /\ inUse # {}
                            /\ Cardinality(BlocksOf(p) \cap listed) = IF a.desc = s THEN a.cnt ELSE 0

(* A program's first page is loaded like any other: get_a_page's           *)
(* ASSERT(bit_idx > 0) (memory.c:217) holds for every page execv asks for. *)
FirstPageIsLoaded == stopped # "ASSERT(bit_idx > 0)"

-----------------------------------------------------------------------------
(* The inductive invariant.                                                *)
Arena == [cnt : Int, large : BOOLEAN, desc : Space \cup {Nobody}]
Block == Page \X (0..PerArena)
Memory ==
    [vbits : [Space -> SUBSET Page], pbits : SUBSET Frame,
     pte : [Space -> [Page -> Frame \cup {NoFrame}]],
     table : [Process -> [Region -> SUBSET (Frame \cup {NoFrame})]],
     arena : [Space -> [Page -> Arena]],
     free : [Space -> Seq(Block)], live : [Space -> SUBSET Block],
     own : [Process -> SUBSET Page], lost : SUBSET (Space \X Page), repeat : {FALSE}]

(* Frames and pages; half are the pages, as <<space, page>>, whose frame   *)
(* is free and whose entry is not cleared yet.                             *)
EntriesSound(m, half) ==
    \A s \in Space, page \in Page :
        m.pte[s][page] # NoFrame =>
            /\ m.pte[s][page] \in PoolOf(s)
            /\ page \in m.vbits[s]
            /\ m.pte[s][page] \in m.pbits <=> <<s, page>> \notin half
            /\ \A t \in Space, q \in Page : m.pte[t][q] = m.pte[s][page] => t = s /\ q = page
            /\ \A c \in Process, r \in Region : m.pte[s][page] \notin m.table[c][r]

TablesSound(m) ==
    \A p \in Process, r \in Region : \A f \in m.table[p][r] \ {NoFrame} :
        /\ f \in PoolOf(Kernel) /\ f \in m.pbits
        /\ \A c \in Process, u \in Region : f \in m.table[c][u] => c = p /\ u = r

(* Where a space ends, and that a process which is not there has no pages. *)
SpacesSound(m) ==
    /\ \A s \in Space : m.vbits[s] \subseteq 0..Size(s)
    /\ \A p \in Process : UserPages \notin m.vbits[p]
    /\ \A p \in Process : m.own[p] = {} => m.vbits[p] = {}
    /\ \A s \in Space : \A page \in Arenas(m, s) : PagesOf(m, s, page) \subseteq Page

PagesSound(m, half) ==
    EntriesSound(m, half) /\ TablesSound(m) /\ m.pbits \subseteq Frames(m) /\ SpacesSound(m)

(* The blocks of a space: F is its free list, L what is in use, A are the  *)
(* headers, P the processes that are there.                                *)
ArenaSound(s, a, page, listed, L, P) ==
    /\ a.desc \in IF s = Kernel THEN {Kernel} ELSE P
    /\ IF a.large THEN <<page, 0>> \in L /\ a.cnt > 0
       ELSE /\ a.cnt + Cardinality(BlocksOf(page) \cap L) = PerArena
            /\ IF a.desc = s THEN BlocksOf(page) \subseteq listed \cup L
               ELSE BlocksOf(page) \cap listed = {}

HeapSound(s, F, L, A, P) ==
    /\ IsInjective(F) /\ Range(F) \cap L = {}
    /\ \A b \in Range(F) \cup L : A[b[1]] # NoArena /\ (A[b[1]].large <=> b[2] = 0)
    /\ \A page \in Page : A[page] # NoArena => ArenaSound(s, A[page], page, Range(F), L, P)

NoneIdle(L, A, but) ==
    \A page \in Page \ but : A[page] # NoArena /\ ~A[page].large => BlocksOf(page) \cap L # {}

PagesAt(A, page) == IF A[page].large THEN page..page + A[page].cnt - 1 ELSE {page}
Covered(A) == {q \in Page : \E page \in Page : A[page] # NoArena /\ q \in PagesAt(A, page)}
Laid(A, size) ==
    \A p \in Page : A[p] # NoArena =>
        /\ p < size /\ PagesAt(A, p) \subseteq Page
        /\ \A q \in Page : A[q] # NoArena /\ PagesAt(A, p) \cap PagesAt(A, q) # {} => p = q

(* The marked pages V of a space are its heap H, the processes' kernel     *)
(* pages R, what is kept (K), the pages of a call that is not over (B) and *)
(* stack and program.  E has the pages with a frame.                       *)
Whole(S, size) == size \in S => size - 1 \in S
Stacks(s) == IF s = Kernel THEN {} ELSE {StackPage} \cup Image
Divided(s, H, V, K, E, R, B) ==
    /\ V \subseteq H \cup R \cup Stacks(s) \cup K \cup B
    /\ H \cup R \cup K \cup B \subseteq V
    /\ H \cap (R \cup K \cup B) = {} /\ B \cap (R \cup K) = {}
    /\ H \subseteq E
    /\ Whole(R, Size(s)) /\ Whole(K, Size(s)) /\ Whole(B, Size(s))

There(m) == {p \in Process : m.own[p] # {}}
Mapped(m, s) == {page \in Page : m.pte[s][page] # NoFrame}
Reserved(m, s) == IF s = Kernel THEN UNION {m.own[p] : p \in Process} ELSE {}

SpaceOK(s, F, L, A, P, V, K, E, R, B) ==
    /\ HeapSound(s, F, L, A, P) /\ NoneIdle(L, A, {}) /\ Laid(A, Size(s))
    /\ Divided(s, Covered(A), V, K, E, R, B)

SpaceSound(m, s, B) ==
    SpaceOK(s, m.free[s], m.live[s], m.arena[s], There(m), m.vbits[s],
            Kept(m, s), Mapped(m, s), Reserved(m, s), B)

(* A call in space s is busy with the pages B.                             *)
Balanced(m, s, B) == \A t \in Space : SpaceSound(m, t, IF t = s THEN B ELSE {})

(* Where main is in its call, x; half freed is the page whose entry is next. *)
Point == [pc : {"run", "mark", "map", "unmap"}, n : {0} \cup LargeSizes,
          pages : SUBSET Page, left : SUBSET Page, frame : Frame \cup {NoFrame}]
Half(x) == IF x.pc = "unmap" THEN {<<Kernel, Min(x.left)>>} ELSE {}
Busy(x) == IF x.pc \in {"map", "unmap"} THEN x.pages ELSE {}

MainSound(m, x) ==
    /\ x.pc # "run" => x.left \subseteq x.pages /\ x.left # {}
    /\ x.pc \in {"mark", "map"} =>
        /\ \E start \in 0..KernelPages - 1 : x.pages = start..start + PagesFor(x.n) - 1
        /\ x.pages \subseteq 0..KernelPages
        /\ x.n = 0 => m.free[Kernel] = <<>>
        /\ \A page \in x.left : m.pte[Kernel][page] = NoFrame
    /\ x.pc = "mark" => x.left = x.pages /\ x.pages \cap m.vbits[Kernel] = {}
    /\ x.pc = "map" =>
        /\ x.frame \in PoolOf(Kernel) \ m.pbits
        /\ x.pages \subseteq m.vbits[Kernel]
        /\ \A page \in x.pages \ x.left : m.pte[Kernel][page] # NoFrame
    /\ x.pc = "unmap" => \A page \in x.pages \ x.left : m.pte[Kernel][page] = NoFrame

LoadingSound ==
    "programs above the heap" \in Habits =>
        \A p \in Process : \A page \in loading[p] : page # 0 /\ mem.arena[p][page] = NoArena

StateOK ==
    /\ mem \in Memory
    /\ at \in Point
    /\ held \in Process \cup {Nobody}
    /\ loading \in [Process -> SUBSET Image]

TablesThere ==
    "room for page tables" \in Habits => \A p \in Process, r \in Region : NoFrame \notin mem.table[p][r]

(* First the pages, which stay sound when the machine stops in a fork.     *)
PagesInv ==
    /\ StateOK /\ PagesSound(mem, Half(at)) /\ MainSound(mem, at) /\ TablesThere
    /\ mem.own[init] # {} /\ \A p \in Process : loading[p] # {} => mem.own[p] # {}

(* Then the heap, as long as the machine runs; where the kernel's bitmap   *)
(* ends also afterwards.                                                   *)
Inv ==
    /\ PagesInv
    /\ stopped = "" => Balanced(mem, Kernel, Busy(at)) /\ LoadingSound
    /\ Whole(mem.vbits[Kernel], KernelPages)
    /\ NoPanic
=============================================================================
