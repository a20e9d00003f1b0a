# GlowOS in TLA+

A verification development for GlowOS, a teaching kernel for the x86: one
processor, kernel threads and user processes under a preemptive scheduler, an
IDE driver, a file system and a shell. The modules here are translated from the
C code; line numbers below are lines of the repository.

Run everything inside this directory: `tlc -config locks.cfg MCLocks.tla`,
`tlapm LocksProofs.tla`.

## 1. Inventory

GlowOS has no tests and no documents; what it promises is in its comments and
in its `ASSERT`s. A failing `ASSERT` or `PANIC` stops the machine
(`kernel/debug.c`, `panic_spin`), so "no ASSERT fails" is the first property of
every component.

The system runs these threads: `main` (a kernel thread, interrupts on, which
also writes the first file to disk), `init` (the first user process, which
forks), the shell (its child) with the processes it forks, and `idle`. A
process enters the kernel by `int 0x80` through an interrupt gate, so system
calls run with interrupts off and give up the processor only when they block or
yield. `main`, and `init` inside `start_process`, run kernel code with
interrupts on, so they can be preempted between any two instructions. That is
where nearly all of the interleavings come from.

| component | state it keeps | operations | talks to | hard behaviours | what makes it correct |
|---|---|---|---|---|---|
| scheduler (`thread/thread.c`, `device/timer.c`) | ready list, each PCB's status and slice | `schedule`, `thread_block`, `thread_unblock`, `thread_yield`, `thread_start`, timer interrupt, `idle` | called by all that sleeps or wakes | preemption anywhere, the empty ready list, idle's window before `hlt` | a PCB is in one list at most and its status says which; no ASSERT fails; a ready thread runs |
| locks (`thread/sync.c`) | semaphore value and waiters, holder, nesting count | `sema_down`, `sema_up`, `lock_acquire`, `lock_release` | scheduler | stores to the lock outside of masked code; a wakeup does not hand over | mutual exclusion, exact nesting, no lost wakeup |
| I/O queue and keyboard (`device/ioqueue.c`, `keyboard.c`) | ring of characters, consumer and producer slots, the queue's lock, modifier keys | `ioq_getchar`, `ioq_putchar`, keyboard interrupt | scheduler, locks | several readers, a full ring, an interrupt that must not sleep | FIFO without loss below capacity, nobody sleeps on characters |
| IDE driver (`device/ide.c`) | channel lock, `expecting_intr`, `disk_done`, the device's registers | `ide_read`, `ide_write`, `intr_hd_handler`, `busy_wait` | scheduler, locks, disk | early, late and spurious interrupts; time limit | one request at a time, each answered by its own interrupt |
| bitmap (`lib/kernel/bitmap.c`) | bits | `bitmap_scan`, `bitmap_set` | memory, file system | off-by-one at the end | the range returned is free and inside |
| memory (`kernel/memory.c`) | page bitmaps, page tables, arenas and free lists | `malloc_page`, `sys_malloc`, `sys_free`, `get_a_page`, `get_kernel_pages` | locks, bitmap | unlocked callers, failure half-way, fork's copies | a page has one owner; a block is free or used, never both |
| processes (`userprog/`) | PCB fields, page directory | `process_execute`, `sys_fork`, `sys_execv` | memory, file system, scheduler | what the child shares | the child is independent where the code says so |
| open files (`fs/inode.c`, `fs/file.c`) | open-inode list and counts, global file table, per-process descriptors, `write_deny` | `inode_open`, `inode_close`, `file_open`, `file_close`, `file_create`, fork's count update | memory, IDE (blocks) | sleeping between search and insert, sharing after fork | one inode per number, counts equal users, one writer |
| file blocks (`fs/file.c`) | size and block pointers of an inode, block bitmap | `file_write`, `file_read` | bitmap, IDE | the 12/128 boundary, failure half-way | what is read is what was written, a block has one file |
| directories and paths (`fs/dir.c`, `fs/fs.c`) | directory entries, both bitmaps, working directory | `search_file`, `sys_open`, `sys_mkdir`, `sys_rmdir`, `sys_unlink`, `sys_getcwd`, format | inodes, files, IDE | rollback after partial failure | the tree stays a tree, bitmaps agree with it |
| shell (`shell/`) | command line, argument vector, path buffer | `readline`, `cmd_parse`, `wash_path`, built-ins | system calls | limits of fixed arrays | an absolute path without dots names the same file |
| interrupts and system calls (`kernel/interrupt.c`, `kernel.S`) | interrupt flag, IDT, PIC masks | gates, `intr_disable`, `intr_set_status` | all | nesting of disable and restore | the flag is restored on every path |
| boot, screen output, strings, formatted output | registers, cursor | straight-line code | | | not modelled |

## 2. Modules

    Scheduler ── Semaphores ── Threads ── WholeLocks ─┬─ Locks ── MCLocks
                                              │        │    └── Mutex      (INSTANCE, refinement)
                                              │        ├─ IoQueue ── MCIoQueue
                                              │        │    └── Fifo       (refinement)
                                              │        └─ Ide ── MCIde
                                              │             └── DiskStore  (refinement)
                                              └── WholeLocksProofs ─┬─ LocksProofs (of Locks)
                                                                    ├─ IoQueueProofs (of IoQueue)
                                                                    └─ IdeProofs (of Ide)

    FileBlocks ─┬─ MCFileBlocks
                └─ FileBlocksProofs
    OpenFiles ──┬─ MCOpenFiles
                └─ OpenFilesProofs

    Directories ── Shell ─┬─ MCShell
                          ├─ DirectoryTree  (refinement)
                          └─ ShellProofs
    Memory ─────┬─ MCMemory
                └─ MemoryProofs

**Scheduler** holds the functions of `thread.c` as operators from scheduler
state to scheduler state, one operator per C function (`schedule` in its three
parts). They run with interrupts off, so each is atomic up to and including the
context switch. The state is a record: `cur` (what `running_thread()` returns),
`ready` (`thread_ready_list` from head to tail), `status`, `ticks`, `panic`. A
PCB stands for its two list tags as well: `general_tag` is the node for the
ready list and for every waiters list, which is why "in one list at a time" is
a property of the whole system and not of a list.

**Semaphores** adds `sema_down` and `sema_up` on a pair of scheduler state and
semaphore. `sema_down_turn` is one turn of the `while` loop: pass, or queue and
block; the thread comes back to the loop's condition when it runs again.

**Threads** is the processor: `pc[t]` is where `t` stands, `intr[t]` the
interrupt flag its code runs with, and its actions are the steps that belong to
no component: timer and device interrupts, a thread's first instructions, the
idle loop, entering and leaving a system call, fork, yield, sleep. It has no
behaviour of its own; a component's module extends it.

**Locks** is one `struct lock` used by all threads. `sema_down` and `sema_up`
are atomic; every other access to the lock is an action of its own, because
`lock_acquire` and `lock_release` do not mask interrupts:

| label of `pc[t]` | about to execute |
|---|---|
| `run` | code outside of `sync.c` |
| `again` | `++holder_repeat_nr` (line 72) |
| `down`, `wait` | the loop condition of `sema_down`, for the first time or after `thread_block` |
| `own`, `count` | `holder = running_thread()` (68), `holder_repeat_nr = 1` (69-70) |
| `unnest` | `--holder_repeat_nr` (86) |
| `clear`, `zero`, `up` | `holder = 0` (92), `holder_repeat_nr = 0` (93), `sema_up` (94) |

`depth[t]` is not in the code: it counts the acquires that `t` has not yet
released, and the properties compare the lock's fields with it.

**Mutex** is what the lock promises: a reentrant mutex (`Request`, `Grant`,
`Nest`, `Leave`) in which a mutex that stays free is granted to one of the
waiting threads. `Locks` implements it under the mapping *owner* = the thread
between `sema_down`'s decrement and `sema_up`'s increment (not the field
`holder`, which lags behind), *nesting* = its `depth`, *waiting* = the threads
inside of `sema_down`.

**WholeLocks** has `lock_acquire` and `lock_release` as one step each, for
components that do not nest their lock. Locks, and its refinement to Mutex,
is the justification. Locks extends it for the lock's fields only.

**IoQueue** is the keyboard's queue: `ioq_getchar` as `sys_read` calls it, in a
system call and so with interrupts off, and the keyboard's interrupt, which puts
a character into a queue that is not full. `wait` is the sleep inside of
`lock_acquire`, `slept` the one in `ioq_wait`. The variable `readers` is chosen at
the start, so that one run covers one reader and two. **Fifo** is what the queue
promises: a bounded sequence from which each character goes to one reader.

**Ide** is one channel with two disks. A request of `ide_read` or `ide_write` goes
through the labels

| label | about to execute |
|---|---|
| `select` | `select_disk`, `select_sector` (ide.c:52-80) |
| `flag`, `command` | `expecting_intr = true` (89), the command byte (90) |
| `down` | `sema_down(&disk_done)` (162, 207); `wait` after its `thread_block` |
| `poll` | `busy_wait` (165, 197) |
| `transfer` | `read_from_sector`, `write2sector` (172, 204), then `secs_done` |
| `release` | `lock_release` (175, 210) |

and back to `select` for the next command of the request. `main` runs it with
interrupts on and can be preempted at every label; a process runs it with
interrupts off, so the disk's interrupt stays pending until another thread
runs. The disk is external: it seeks or stores for as long as it likes, raises
one interrupt per sector of a command, and takes its request back when the
status register is read or a command is written. A pending request is served
before the next instruction of code that has interrupts on (`NoneToServe`).
**DiskStore** is what the driver promises: each request takes effect at one
moment, as a whole. The refinement mapping puts that moment at the first
transfer.

**FileBlocks** is `file_write` and `file_read` (`fs/file.c`) for processes, which run
them with interrupts off: another process runs only where this one sleeps for the
disk. It stands alone, since what it needs of the scheduler is just that. A call is
cut where the code reads or writes a sector:

| label | about to do |
|---|---|
| `run` | the next system call |
| `plan` | count the blocks to add; for a crossing write allocate the table (file.c:294-371) |
| `alloc` | allocate and note the next block, or write the table when there are enough (328-424) |
| `data`, `put`, `grow` | fetch the first block, store a block, raise `i_size` (427-453); after the last block also `inode_sync` and the return |
| `fetch` | read the next block (548-564) |

Byte number i that is written to file f is the pair `<<f, i>>`, so that a byte in the
wrong place, of the wrong file or never written shows. A block holds bytes or, as a
table, the addresses of blocks; `local[p]` are the variables of the call, among them
`all_blocks`, which decides where bytes go. What the code reads before it sleeps
and uses afterwards (`all_blocks` of a reader, the size a write was planned for) is
in `local`, the inode is shared. `ReadAsserts` are the ASSERTs of `file_read` before it sleeps, on the
number of blocks (494) and, on both branches that look into the table at once, that there is one (509, 538);
`ReadReturns` has the last one, that the bytes copied add up (565). `RegularWrite` names the writes that the code
handles; `AnyCall = TRUE` admits all.

**OpenFiles** is the other half of the file system's memory: the list of open inodes,
the blocks of the heap they lie in, the file table, each task's descriptors, and the
three places a file exists in (a directory, the inode bitmap, the inode table). Calls
are cut at the disk as in FileBlocks:

| label | asleep in |
|---|---|
| `reading` | `ide_read` of `inode_open` (inode.c:107-117), for an open, a search, a stat or an unlink |
| `using` | the reads of a directory between `dir_open` and `dir_close`, or `inode_release` |
| `unnaming`, `deleting` | `delete_dir_entry`, `inode_delete` |
| `naming`, `syncing`, `pushing` | `sync_dir_entry`, `inode_sync`, `bitmap_sync` of `file_create` |

`main` creates its file with interrupts on, so one more cut is not at the disk: at `counting` it has done
`list_push` (file.c:169) and not yet stored `i_open_cnts = 1` (170).

`Walk` follows the list as the search does. It is kept as links in the heap's blocks,
because a freed inode stays in the list: the heap's free list overwrites its number
(`Link`), and handing the block out again zeroes its link. The variable `alone`,
chosen at the start, is whether one task at a time is in the file system and forks
only without open files, which is how the shell uses it; the properties that need
this say so. `Reuse` hands out the blocks of freed inodes again, and `StaleForks` lets a
process fork that has a descriptor of the slot that `file_create` is filling, and `LateCounts` lets it open, search or
stat the file while `main` is at `counting`; section 3 says what goes wrong with each. `inode_locate` is where
`inode_sync` writes the inode: by eight bits of its number (inode.c:38), `SyncNumbers` of them.

**Directories** is `dir.c` and the half of `fs.c` that deals with paths: each system
call is an operator from the file system's state to a result (did it succeed, the
state after it, does it stop the machine). Only the shell and what it starts use
paths, with interrupts off, and the shell waits for each call; so calls do not
overlap here. What does overlap, on inodes and descriptors, is in OpenFiles. The
state `fs` has everything twice where the code has: the bitmaps in memory and on the
disk, the inode table on the disk and the open inodes in memory, so that a missing
`bitmap_sync` or `inode_sync` shows after a reboot. A place of a directory entry is a
pair of block index and slot, and a missing block is 0, as in `i_sectors`:
`sync_dir_entry` fills the first missing block or free slot, `delete_dir_entry` frees
a block that has become empty, and the hole stays; it stops the machine when two entries of the
block have the number it looks for (dir.c:273, `NamedTwice`). `search_file` goes over
the names of the path (`walk`) with the code's two early ends: a name that is missing, and a
regular file, whatever names are left. `inode_sync` puts an inode where `inode_locate` finds eight bits of its number
(inode.c:38), while all else, `inode_open` and `inode_release` included, go by the whole number: `SyncNumbers` is 256, or less in a run.

**Shell** is the loop of `my_shell` and its commands on paths, over Directories:

| action | code |
|---|---|
| `buildin_mkdir`, `buildin_rmdir`, `buildin_rm`, `buildin_cd`, `buildin_ls` | `make_clear_abs_path` (a `getcwd` for a relative path, then `wash_path`), then the system call |
| `CdWithoutArgument`, `buildin_pwd` | the same without a path |
| `ExternalCommand`, `ProgramCreates` | `fork` and `execv` (shell.c:155-186): the parent turns in `while (1)`, the program may create files |
| `print_prompt` | the next turn of the loop: the answer has been read |
| `Reboot` | the switch, at any prompt; then `filesys_init` mounts what is on the disk |

`cwd` is the kernel's `cwd_inode_nr` and `cwd_cache` the shell's own idea of the
path; `turn = "nobody"` is a machine that stands still, by an ASSERT or an endless
loop. **DirectoryTree** is what all this promises: a function from paths to "dir" or
"file", a current directory, and for each command exactly when it succeeds, what it
changes and what it prints. `reply` names the command as well as its path, so that each is held to its own
rule: `cd`, `rmdir`, `rm` and `ls` succeed exactly when the tree says so, `pwd` always. Only `mkdir` and a program
that creates a file may also be refused for no reason a user can
see (the disk is full). The refinement mapping reads the tree off the disk
(`TreeOnDisk`), starting at the root; so the reboot's step says that
nothing is lost.

**Memory** is `memory.c` with its users in `userprog/`. A process's call is one step,
since it runs with interrupts off. `main` runs `sys_malloc` and `sys_free` with
interrupts on and holds `kernel_pool.lock`, which keeps out nobody that matters:
`get_kernel_pages` and `page_table_add` take no lock. Its calls are cut where
another thread could see the difference:

| `at.pc` | `main` has |
|---|---|
| `run` | no call under way |
| `mark` | found a free range of addresses, and not marked it (memory.c:46-51) |
| `map` | marked it and found a free frame, and not marked that (91-95) |
| `unmap` | cleared a frame's bit, and not the page's entry (452-475) |

A page of the model is a page of the kernel's heap (space "kernel") or of a process;
the last page of a process is its stack. Every address space has `vbits` (its bitmap), `pte`
(its page table), and a heap: headers of arenas (`arena`), the free list (`free`) and
the blocks in use (`live`). `own` are the pages `get_kernel_pages` gave to a process
(PCB, bitmap, page directory), `lost` what a call that failed half-way leaves marked.
`bitmap_scan` takes the first of the positions that fit, the one past the end included where
the code's count is one too large. The loops over pages (`malloc_page`, `mfree_page`, fork's
copy) are written in closed form: `palloc` gives the k-th of the pages the k-th of the unused
frames (`FrameFor`), and the list without an arena's blocks is the k-th of the others (`Without`),
so that what they do for any number of pages can be proved. `repeat` is raised when `page_table_add` meets an entry
that is present (memory.c:112, 119), whoever calls it, and `Halt` stops the machine with it; the check in line 131 reads a table
that was cleared in the line before. `FreesFrames` are the ASSERTs of `mfree_page` (506-543), for `sys_free`, fork's
buffer and the buffer of `segment_load`. `loading` are the pages that a
process in `sys_execv` has to load yet: other threads run while the disk reads each of them.

## 3. Runs

| run | question | bounds | result |
|---|---|---|---|
| `locks` | Do the safety properties and the safety half of the refinement hold under every interleaving? | `main`, `init`, one forked child, `idle`; slices of two ticks; nesting up to 2 | holds, 204 668 states |
| `locks_progress` | Does every ready thread run, and is a free lock granted? | the same threads; slices of one tick; no nesting | holds, 21 599 states |
| `ioqueue` | Is the ring a FIFO that loses nothing below its capacity, does no ASSERT fail, and does a single reader get its character? | one or two readers, ring of 3 slots, two characters | holds, 309 962 states |
| `ide` | Does each command get its own answer, does each request take effect as a whole and end? | `main` and one process, two disks of three sectors, two sectors to a command | holds, 29 486 states |
| `fileblocks` | With regular writes, is every byte where it belongs, are reads exact while the file grows, has each block one owner, also when the disk is full half-way? | two processes, two files, five data blocks; blocks of two bytes, two direct blocks, a table of two; counts 1 and 3 | holds, 283 882 states |
| `openfiles` | Is no inode freed under a user, does every search end; and one at a time, does a descriptor keep its slot and a number its one inode? | shell, child, `main`; a directory, a file, a number for a new one; three heap blocks, two slots, one descriptor each | holds, 122 022 states |
| `openfiles_reuse` | Does every search end (`inode.c:71`) when heap blocks are handed out again? | the same | violated, see below |
| `fileblocks_any` | Does any write put its bytes into the file (`file.c:238`)? | as `fileblocks`, six data blocks | violated, see below |
| `shell` | Do the directories stay a tree, does each block have one owner, is the disk current, do the shell's commands do what those of a directory tree do, also when the disk is full and over reboots? | two names, depth two; four inodes, three blocks and the one past the end; two direct blocks of three entries; a removed directory stays open once | holds, 50 447 states |
| `shell_removed_cwd` | Does every command come back (`fs.c:821`)? | the same, no habits | violated, see below |
| `memory` | Has each frame one place, each marked page a purpose, is each block free or in use, when memory runs out and `main` is preempted in its calls? | `main`, `init`, one child; 11 and 4 frames, 7 and 3 pages, two blocks to an arena, large blocks of two pages, two small blocks or a large one in use, and their copies after a fork | holds, 152 986 states |
| `memory_exec` | Is a page that is missing allocated, whichever it is (`exec.c:41`)? | as `memory` with 10 frames, a program from the first page on | violated, see below |

Three clients are the fewest with a holder, a woken waiter and a queued waiter
at once, which is what `NoLostWakeup` and the order of the waiters list are
about. A slice of two ticks has the ticks that do not reschedule as well as
those that do; nesting to depth 2 takes both branches of acquire and release. The
progress run drops these two because a liveness check's cost is exponential in the
number of fairness conditions; preemption at every statement remains.

A ring of three slots holds two characters: empty, one and full are all there, and
the indices wrap. A request of three sectors with two to a command takes a
command with several interrupts, one with a single interrupt, and the 0 in the
count register that stands for the largest count.

In `fileblocks` a count of 3 bytes takes two blocks, or three when it starts at the
end of one, and a count of 1 stays in a block or just fills it. With two direct blocks there are
the first block, the last direct one, and both table entries. Five data
blocks are fewer than the two files want (five each, with the table), so that an
allocation fails at each of its places. Each file has one writer at most, which
`write_deny` is there for (but see below).

In `openfiles` a block of the heap is handed out once, so that two inodes are read or
created besides the root's; with 31 to an arena that is how the system starts. Two
slots are enough for two openers to choose one slot, and for a slot that is lost
with a refused writer. One descriptor to a task makes `pcb_fd_install` fail after the
slot is taken. No number gets past `SyncNumbers` here. `i_open_cnts` wraps at 16 in place of 2^32. Processes are interchangeable (any of them may be
the shell), so TLC reduces by symmetry; with a third one, which takes longer than a run should, these
properties and `Inv` have been checked with one slot.

In `shell` two names make two levels of directories with a sibling on each; they are
interchangeable, so TLC reduces by symmetry. Four inodes and three blocks (and the one
past the end that the format leaves free) run out at every place that takes one. The
first of a directory's blocks has one entry besides "." and "..", so the second name
takes the second block, and removing frees it in one order and leaves it half used
in the other. A hole, which takes three blocks to a directory, is not reached; see the last habit of
Shell below.
`TypedPaths` are absolute paths of two different names, through a file too, and relative ones
with "." and ".."; with `cd` they reach every name of the root, and one name in each of its
directories. `SyncNumbers` is 4 too, so that the four inodes are like the first 256 of the partition's 4096. `rmdir` of a directory that is not empty leaves it open
(fs.c:792), without end; `MaxOpen` says how often.

In `memory` eleven frames of the kernel's pool are two processes (three pages and up to two
page tables each) and one page, the fewest with which a process that has a heap can fork: the
fork's buffer, heap pages and page tables compete for the last ones; seven kernel pages, the
fewest with which a child is made at all, run out as well, at every one of fork's four
requests. A large block counts as its pages
towards `MaxLive`: two small ones fill an arena and come back in either order, and a large one is
in use by itself. Larger instances take longer than a run should; with blocks of both kinds at once
(1 184 057 states with ten frames), and with three blocks and no child, the properties have been
checked too. Four user
frames are fewer than the six two processes can map. A process has two heap pages, the
fewest for a large block, and its stack. Blocks of two pages are where `bitmap_scan`
reaches past the end. The kernel has seven sizes of small blocks; one is enough, since
they share nothing but pages.

**Habits.** Shell and Memory have more flaws than a run can step around. What
a careful user of the machine does not do is a *habit*, a conjunct of an action's guard that
the constant `Habits` switches on:

| habit | without it |
|---|---|
| "keep the current directory" (never `rmdir` it) | `pwd` hangs, see `shell_removed_cwd` |
| "no path through a file" (`rm /f/x` with a file `f`) | the search ends at `f` and reports it found (fs.c:334-338), so `rm` deletes `f`; `ImplementsTree` fails |
| "no open number twice" (make something when the lowest free inode number belongs to a directory that `rmdir` left open) | `inode_open` finds the old inode in `open_inodes` and not the new one on the disk; `DiskIsCurrent` fails, against the comment in inode.h:24 |
| "no number past a byte" (make something when the lowest free inode number does not fit into the `uint8_t` of inode.c:38) | `inode_sync` writes the new inode over another, 256 over the root's; `DiskIsCurrent` and, after a reboot, `TreeIsSound` fail |
| "no hole in a directory" (take the last entry out of a block while a later block is in use) | `get_child_dir_name` never gets past the missing block (fs.c:846), so `pwd` and relative paths hang in a directory whose entry is in a later one; `NoPanic` fails |
| "main undisturbed" (no process takes memory while `main` is in a call) | both take one frame or one range; `PagesHaveOneOwner` fails |
| "room for page tables" | `page_table_add` uses `palloc`'s NULL as a table (memory.c:126): physical page 0 |
| "programs above the heap" (the first page of user space is no part of a program) | `execv` stops the machine, see `memory_exec` |

"main undisturbed" makes the `mark`, `map` and `unmap` steps in `memory` uninterrupted, as they
are when `main` has its slice to itself; without it (`Habits <- BusyMain`) TLC finds the
collision in a few steps. To see another, take its habit out of the set in the MC module.
There are two exceptions. "no number past a byte" matters when there are more inodes than `SyncNumbers`: with four
inodes and `SyncNumbers = 3` TLC finds `DiskIsCurrent` violated without it in seven states (two `mkdir`, and a program that creates
a file: its inode, the fourth, is written over the root's), and `TreeIsSound` one state later, after a reboot. "no hole in a directory" never keeps `shell` from a step: the hole matters with
three blocks to a directory, when a fifth name is in the third and the second loses both of its entries. With five
names, `Direct = 3`, six inodes and eight blocks TLC finds `NoPanic` violated without it (five `mkdir`, two `rmdir`, `cd`
into the fifth, `pwd`), in more time than a run should take.

**Fairness.** `TimerArrives`: the PIC keeps a timer request until interrupts are
enabled, so the timer is served although system calls mask it again and again
(strong fairness, since the action is enabled only while they are on).
`ThreadsGoOn`: a slice is milliseconds and a statement of `sync.c` nanoseconds,
so a thread that gets the processor again and again finishes its function, and
a critical section and a system call come to their end. Nothing
is assumed about acquire, yield, fork or sleep: threads need not do them.

`IoQueue` and `Ide` assume the same of the timer and of threads in the kernel. `Ide`
adds that the disk does what it is told (weak fairness of `DiskSeeks` and
`DiskStores`) and that its request, which the PIC keeps, is served (strong
fairness of the handler).

**`fileblocks_any`.** A write that needs the table and starts before the last direct
block adds direct blocks too. Lines 386-387 then index `i_sectors` with `block_lba`,
the block's address, in place of `block_idx`: the entries of the direct blocks stay
0, and what was written there is looked for in sector 0. `main` makes such a write:
15340 bytes into an empty file (`main.c:34`). `RegularWrite` leaves out this, and

- a write that adds blocks to a file that has a table already: lines 398-423 write
  the table from a buffer that was never read, so the older entries become 0, and the
  first block is fetched from and stored to sector 0;
- a write that fills the file to its limit: line 241 admits 140 full blocks, and the
  ASSERT in line 298 counts one more.

`file_read`'s ASSERT (494) stops reads of the last block, and reads of a short file
with a large count, since it looks at `count` and not at what the file still holds.

**`openfiles_reuse`.** `inode_close` frees an inode and leaves it in `open_inodes`. When
its block is handed out again, `list_push` links it in front of the list it is still
part of. The list becomes a ring without what lay behind it, the root's inode
included, and the search for any other number never ends, with interrupts off. One
task is enough; it takes about 31 stats or searches of files that are not open.
Until then the list is sound, since a freed inode's number matches no search.

**Forks over a file that is being created.** A descriptor that two processes share outlives its slot: the first
close empties it, and `file_create` may take it next. A fork of the other process then adds
one to the count of the inode that `main` is creating, which is 0 until `file_create`
sets it to 1 as its last act. A close takes that one away and frees the block under `main`; another
file's inode is read into it, and is opened and used, until `main`'s assignment sets the count back to 1,
under its users. With `StaleForks = TRUE`, three processes, one slot and four blocks TLC finds `CountsCoverUsers`
violated after 14 steps; two processes are too few for it. The runs and theorems leave out this step only
(`~StaleForks`); other forks over shared descriptors are in them.

**Opening a file that is being created.** `file_create` puts the inode into `open_inodes` (file.c:169) and stores its
count after it (170). `main` can lose the processor in between. A process that opens the file then finds
the inode and counts it, and `main`'s store makes the two users one: the first close frees the inode under the other.
A `stat` there takes the count from 0 to 1 and back and frees the inode at once. With `LateCounts = TRUE` TLC finds `CountsCoverUsers`
violated after seven states. The runs and theorems leave out the open, search or `stat` of that file at that moment (`~LateCounts`).

With several tasks at once more goes wrong, and `DescriptorsAreLive` and
`InodesAreShared` claim nothing there: two opens that sleep at the same time choose
one slot (`file.c:195`) or read one inode twice (`inode.c:111`), a file is opened after
it has its name and before its inode is on disk (`file.c:153-164`), an unlink that has
found the file unused sleeps while it is opened (`fs.c:554-579`), and the first
close of a shared descriptor empties its slot. What holds there too is in
`CountsCoverUsers` and `SearchesEnd`.

**`shell_removed_cwd`.** `mkdir a`, `cd a`, `rmdir ../a`, then `pwd` or any command on a
relative path: nothing keeps the current directory from being removed. Its inode on the disk is cleared, and
`get_child_dir_name` looks in the parent for an entry that is gone. Its loop (fs.c:846-865)
advances only past blocks that are there: at the first 0 in `all_blocks` it stays, with
interrupts off. The comment at fs.c:821 has it return the name or -1.

**`memory_exec`.** A program linked to 0x8048000, which is `USER_VADDR_START` (process.h:16)
and where ELF programs for the x86 usually start, has its first page at bit 0 of the
process's bitmap. `segment_load` asks `get_a_page` for it, whose `ASSERT(bit_idx > 0)`
(memory.c:217) fails; exec.c:41 says that a missing page is allocated. When
the process's heap has taken this page already, the file is loaded over the arena's
header instead, and the `sys_free` of `file_read`'s buffer follows the overwritten pointer.

More that came up, and no run shows:

- *A lock may starve its waiters.* The comment at sync.c:66 says that a `sema_down` comes back
  sooner or later. The thread that releases the lock keeps the processor and may take it again
  before the woken thread runs, each time. So `ImplementsMutex` promises that a free lock is
  granted to one of those who wait, not to each.
- *Two readers of the keyboard.* `ioq_wait` has one slot for the sleeping consumer, and
  the lock that guards it (ioqueue.c:56-59). A character may arrive for a reader that still waits
  for the lock while another sleeps or has taken it; `OneConsumerMeansEmpty` and `OneReaderIsServed`
  are stated for one reader.
- *A slow disk.* When a disk is still busy, `busy_wait` calls `mtime_sleep(10)` (ide.c:129). The
  macros of timer.c and global.h lack parentheses, so that this computes 0 ticks and its ASSERT
  fails; the time limit (124), which is counted down by 1 in place of 10, never matters.
  `SlowData = TRUE` makes `NoPanic` of Ide fail.
- *Two writers of one file.* `file_create` sets no `write_deny` (file.c:143) and the first
  close of a file clears it (231), whoever else writes.
- *Lost blocks.* A `mkdir` that cannot enter the new directory in its parent returns the inode and
  keeps the block (case 2 of the rollback, fs.c:705): `fs.lost`. An `opendir` that finds nothing
  leaves the parent open (737). A `getcwd` of the root leaks its buffer (884-889).
- *One block too many.* The format clears one bit past the last block's (fs.c:103).
- *Memory runs out.* `get_a_page` returns with the pool's lock held (memory.c:232), so that every
  other process waits for ever: `held`. `malloc_page` gives up half-way and keeps what it has
  (165): `mem.lost`; a later fork of such a process copies from a page that is not mapped
  and faults. Fork does not look at its `get_a_page` for the child either.
- *Blocks of before a fork.* The child's arenas name the parent's descriptors (fork.c:29), so the
  child's `sys_free` of such a block would put it on the parent's list at the same address;
  Memory leaves the child these blocks for ever.

## 4. Proofs

Each proof module has its inductive invariant `Inv` in the component's own module, where TLC
can check it; `Invariance` is the theorem that it is one, and the others follow from it.

| module | proved of every instance | under |
|---|---|---|
| `LocksProofs` | `TypeOK`, `NoPanic`, `OneListPerThread`, `MutualExclusion`, `HolderIsExact`, `NoLostWakeup`, the steps of `Mutex` | `Spec` |
| `IoQueueProofs` | `NoPanic`, `WaitersHaveAWaker`, `OneConsumerMeansEmpty`, the refinement of `Fifo` | `Spec` |
| `IdeProofs` | `TypeOK`, `NoPanic`, `CommandsFindDiskIdle`, `NothingIsLeftOver`, the refinement of `DiskStore` | `~SlowData /\ Spec` |
| `FileBlocksProofs` | `NoPanic`, `FileHoldsItsBytes`, `ReadsAreExact`, `BlocksHaveOneOwner` | `~AnyCall /\ Spec` |
| `OpenFilesProofs` | `SearchesEnd`, `CountsCoverUsers`, `DescriptorsAreLive`, `InodesAreShared` | `Careful /\ Spec`: `~Reuse`, `~StaleForks`, `~LateCounts`, numbers below `SyncNumbers` |
| | `TypeOK` | the same with `MostUsers < Counts` |
| `MemoryProofs` | `PagesHaveOneOwner` | `Spec` with "main undisturbed", "room for page tables" |
| | `TypeOK`, `NoPanic`, `NothingIsForgotten`, `HeapIsExact` | `Spec` with "main undisturbed", "programs above the heap" |
| `ShellProofs` | `TreeIsSound`, `BlocksHaveOneOwner`, `DiskIsCurrent`, `WashedPathsAgree` | `Spec` with "no open number twice", "no number past a byte" |
| | the refinement of `DirectoryTree` | `Spec` with these two, "keep the current directory", "no path through a file" |
| | `NoPanic` | `Spec` with these and "no hole in a directory" |

`WholeLocksProofs` holds the lemmas on the functions of `thread.c` and `sync.c` that the
first three share.

**Assumptions.** They are those of the modules. Of the threads: `idle` and `main` are no user
processes, `init` is, priorities are naturals, 0 is no PCB's address. `IdeAssumption` says of a
request what the ASSERTs `lba <= max_lba` and `sec_cnt > 0` (ide.c:137-138, 180-181) say, and that
its sectors exist. `FileBlocksAssumption` says that blocks have bytes, inodes have direct blocks,
and block 0 is no data block. `~SlowData` is a disk that has its data ready when its interrupt
comes: with a slower one `busy_wait` reaches the ASSERT of `mtime_sleep`, and `NoPanic` is false
(section 3). `~AnyCall` are the writes of `RegularWrite` and the reads that `file_read`'s ASSERT admits; with others
`FileHoldsItsBytes` and `NoPanic` are false, as run `fileblocks_any` shows of the first. `~Reuse` is a system that has not
used up its first arena of inodes yet, `~StaleForks` one whose processes do not fork over a file that is being
created, and `~LateCounts` one whose processes do not open it between the two stores of file.c:169-170;
without them `SearchesEnd` and `CountsCoverUsers` are false (section 3). `Careful` is these three and that the
inodes of files are numbered below 256: past that `inode_sync` writes over another one's place (inode.c:38).
`OpenFilesAssumption` says that numbers of inodes are positive (0 is the root's), and that processes and
numbers are finitely many. `MostUsers < Counts` compares the slots, blocks for inodes, processes and
descriptors with 2^32: an inode takes 128 bytes of memory and a process a page and more, and the tables have 32 and 8 entries. `MemoryAssumption` says that the kernel and a process have more than two pages, a program lies
below the stack, and an arena has two blocks or more (the code's largest small blocks, of 1024 bytes, have three). The habits of
Memory (section 3) are hypotheses of its theorems, each where it is needed: without "main undisturbed" `PagesHaveOneOwner` and
`NoPanic` are false (and the invariants from which the others follow are), without "room for page tables" a table is physical page 0 and so belongs to many, and
without "programs above the heap" `execv` stops the machine or overwrites a header. What a fork does when there
is no memory for its child is no hypothesis: the machine may stop there, and `NoPanic` names it.

**Locks.** `WholeLocksProofs` shows that each function of `thread.c`, called in
a *consistent* state (the ready list holds exactly the ready threads, each once,
and exactly `cur` runs), fails no ASSERT and leaves a consistent state, and says
which threads' sleep it touches (`OnlyThese`). `schedule` needs more: when the
ready list is empty, idle must be asleep. That holds because idle sleeps
nowhere but in its own loop, which the invariant has to say. The lock's own
properties are not inductive either: mutual exclusion needs that the semaphore
counts the owner (`LockIsConsistent`), and that in turn needs what each label
inside of `lock_acquire` and `lock_release` knows of the fields already written
and not yet written (`LabelKnows`). `Inv` is the conjunction; `Invariance`
proves it inductive action by action. `NoLostWakeup` is then inductive relative
to `Inv`: `sema_up` on a non-empty list wakes one waiter, and only that waiter's
own turn, which takes the value or finds it 0, ends its way.

**IoQueue.** `ioq_wait`'s ASSERT that the slot is empty holds because only the lock's holder
sleeps there: `SlotIsHolders` says that the holder is the reader at `slept`, and that it sleeps
exactly as long as its PCB is in the slot. That a waiter of the lock has a waker needs
`WaitersAreListed`: the list holds exactly the readers asleep at `wait`, and a free lock with
waiters has a woken one outside of the list. `SingleReaderFits` carries the claim on a single
reader: it is never refused the lock, and is taken out of the slot by the interrupt that brings
the first character. For the refinement the ring is read as a sequence from `tail` to `head`, modulo
`bufsize`; the lemmas on `%` say what one more or one less character does to it.

**Ide.** The properties speak of one command; the invariant has to know where its interrupt is.
`Awaits` is the core: from the command byte to `sema_down`'s return the disk is still at work,
or asks for an interrupt, or the handler has put 1 into `disk_done`, and never two of these, so that no
interrupt is answered twice or by the wrong request. `CommandFits` says so for every
label, `RequestFits` ties the disk's registers to what `secs_done` counts, and `ChannelFits` that only the
lock's holder is inside of a request. One interrupt is special: the last one of a write of several
sectors may still be pending when the next command sets `expecting_intr`. It cannot be served there,
since a thread with interrupts on would have served it before it went on, and a process has them off
until the command takes it back. The refinement maps the store of sectors to what it will be at the end of the
writes begun; there is one such write at most for a disk, the holder's (`ChannelFits` again), and a
transfer moves exactly the sectors that the registers name (`RequestFits`).

**FileBlocks.** `FileHoldsItsBytes` by itself does not survive a step: a write may go to a block that
another file has, or that the inode does not name. `Ownership` (every address in an inode or a table
is marked in the bitmap and is there once; free blocks are empty) and `Hands` (what a write has allocated
and not entered into its table belongs to nobody else) keep files apart: a step of one writer leaves
every other file `Untouched`. `WriteFits` says for each label what `all_blocks` holds: `Allocating` while blocks are added,
`Ready` once bytes move, so that the block written to is the one that `BlockAt` finds. `Holds`
keeps the earlier bytes of the block through the buffer, and `ReadFits` what a reader looked up before it slept, which stays
true since files only grow (`Kept`). The ASSERTs that an entry to be filled is empty
need `NothingAhead`: behind the blocks that a file's size and the writes on their way account for, its
inode has none. After a write that failed there may be some, and they are harmless for one reason
only: the disk is full then, blocks are never freed by these calls, and the ASSERTs come after an allocation. The lemmas on
`\div` and `%` (`SameBlock`, `NextBlock`, `OffsetsDiffer`) carry bytes to blocks. `BlocksHaveOneOwner`
is `Ownership` and `Hands` in terms of owners.

**OpenFiles.** `Inv` has two halves. `Sound` holds whatever tasks do at once. `ListIsWhole` says
that the blocks with a link are exactly those of a list from `first` to the tail, each there once:
then the search, the recursive function `Walk`, meets each of them and the tail. (`Walk` is shown to follow
the list by a least counterexample, in place of an induction.) `OwnBlock` says that the block of an inode that is being read or made is
in no list, nobody else's, and without users (`main`'s own, at `counting`, is in the list and not yet counted); `Shares` that the count of every other inode covers its slots and calls,
with `Claims` a sum of cardinalities that a step changes by one. A freed block stays in the list with the number
`Link`, which no search looks for, and is not handed out, so it needs no more. `StepSound` says once what
is left to show of a step that writes to one block; each action's lemma rests on it.
`Orderly` is what one task at a time adds: counts are exact, named files are on the disk
(`Numbers`, but for the file whose inode `main` is about to sync), slots hold named files, descriptors have
slots of their own, and what each call knows of its number (`AloneFits`). Only with it can a close of the last user be
told from a close that leaves one; that an unlinked file has no slot when its number is freed is part of `AloneFits`.
That no count gets past a `uint32_t` (`TypeOK`) needs a bound from above, where `Shares` gives one from below: `LeaksAreFew`.
A count exceeds its inode's shares only by what the interleavings leave behind: an open whose slot another open
took while it slept in `inode_open`, which stays counted for ever, and a fork, which counts its parent's descriptors again while the
child shares their slots. Each of the first brings an inode into the list, from which none is ever removed, or ends `main`'s one
`file_create`; each of the others is the birth of a process. So `Leaks`, made of the length of the list
and the number of processes, only grows, and by enough in each such step. One count goes below zero: a stale
descriptor may close the inode that `file_create` makes, before its count is set to 1 (file.c:170). It wraps to 2^32 - 1, and it
stays there or is set, since such an inode has no shares left and so nothing that counts or closes it.

**Memory.** There are two inductive invariants, because the pages stay sound where the heap does not. `PagesInv` says
that every entry of a page table and every page table has a frame of its own from the right pool, marked in the pools' bitmap, and
that its page is marked in the space's (`PagesSound`). While `main` is half-way through a call that is false of one page, whose
frame is given back and whose entry is not cleared yet: `Half`. `MainSound` says what `main` knows at each cut: the range it found is still
free, so is the frame, and the pages it has mapped so far have frames. That is why "main undisturbed" is needed, and
where it enters. `Inv` adds the heap. `HeapIsExact` by itself is not inductive: that a block given back can be put into the list
needs the arena's header to be the header of its own pages (`Laid`: no two blocks share a page, and none is past the end), that an
arena's page can go needs it to be in nobody else's hands, and that `malloc_page` returns pages without a header needs every header's
pages to be marked. `Divided` says so with sets: the marked pages of a space are its heap, the processes' own pages, what a failed
call keeps, stack and program, and the pages of `main`'s call (`Busy`); the heap meets none of the others.
`Balanced` is that for every space, while one of them is in the middle of a call. The bit past the end of a bitmap is the delicate
part: `bitmap_scan` reaches it, so that `Size(s)` may be marked, and `Whole` says that it never is without the last page, since a
range that ends there has two pages at least. For `sys_fork` the copy has the parent's headers and none of its lists (`desc` names the parent), so that
the copy's blocks are either in use or in no list. The lemmas on `Rank` and `Nth` (the k-th of a set is in it, and different for different k)
carry the closed forms: distinct pages get distinct unused frames, as many as there are. Those on `Without` say that an injective list stays
one. That `page_table_add` never meets a present entry is no separate invariant: an entry's page is marked (`EntriesSound`), and
what a scan returns is not; and what `sys_free`, fork and `segment_load` give back is mapped, since all of the heap is (`Mapped`) and
a page of the kernel stays mapped while others are taken (`PageStays`). That a small block's arena has at least one block in use (`NoneIdle`) is what makes the count in `HeapIsExact` say that `sys_free` gives
a page back at once.

**Shell.** `Inv` says of the disk alone what the three properties say of the disk and the open inodes
together (`CacheIsCurrent` is the bridge): every marked block stands at one place of one inode (`BlocksAreOwned`), and
every inode in use but the root is named by one entry of one directory, which its ".." names (`DirsFormTree`). That what `inode_sync` writes is what the others read needs every number in use to be one that eight bits
hold (`Located`, in `FileSystem`), which the habit "no number past a byte" keeps: a new number is below `SyncNumbers`.
Inside of a call neither is true: an inode is in use before it has its name or after it has lost it, a block is marked before
an inode has it. So `Sound` has two parameters, the inodes without a name and the blocks without an owner, and a call is a
composition of small changes, each with a lemma that takes `Sound` from one pair of them to another: a block is taken, an inode is
born, an entry is put, an entry is dropped, an inode is released. `sys_mkdir` is three of them, in an order of its own, and its
rollback is the first without the others, which is where `fs.lost` comes from. The search is a recursive function over the prefixes of
the path; that it ends in a directory or at a named file is shown by a least counterexample among the
prefixes, in place of an induction. "no open number twice" is needed since a new inode of a number that is still in
`open_inodes` is not looked at by `inode_open` (section 3).
`WashedPathsAgree` speaks of two recursive functions over the same path, the kernel's walk (`Walked`) and the shell's washing
(`Wash`). That a washed prefix leads where the prefix leads is shown by adding one name at a time (`WalkedUnfolds`,
`WashUnfolds`, `AllSequences`): for ".." the washed prefix loses its last name, and the directory walked to before that
name is the one its ".." names, since it is the only one with an entry for it (`DirsFormTree`).

`ImplementsTree` compares the tree read off the disk before a step and after it. `TreeOn` collects paths
level by level; the proof shows once that it is the set of paths that lead somewhere (`Leads`: the walk over the path takes
all of its names), so that a step is about links, an entry of a directory on the disk (`Linked`). A system call either keeps all links, or
makes one to an inode that has none of its own yet, or takes one away from such an inode (`Makes`, `Removes`, `Entered`), and
then the tree gains or loses one path: a path that goes on below it would need a link from the new inode. To these calls the
first three habits belong: a directory that is removed is not the current one, a search that stops early at a file does not find
another file than the path says, and a new inode is not taken for an old one. The invariant is `RInv`: `Sound`; that the prompt's path
leads to the current directory; that paths are no longer than `MaxDepth`, so that the tree on the disk has them all (`Bounded`); and that a directory's
blocks, but for its first, hold a name (`BlocksAreUsed`), without which a directory with no entries might keep a block and
`sys_rmdir`, which asserts that it has none, stop the machine.
What `ls` prints is the directory's entries, each once, since `dir_read` meets the used places in their order (`Before`).
What `pwd` prints needs the climb of `sys_getcwd`: from the directory that the first n names of the prompt's path lead to, it comes
back with these n names, by induction on n. It takes at most as many steps as there are inodes, because the directories on a
path are different ones (`PathsAreShort` counts them). The refinement promises nothing of a machine that stands still;
`NoPanic` says that it does not, from `RInv` and `NoHoles`, which the last habit keeps (`Calm`): on each rung the entry is in a block
before which none is missing.

`NoPanic` of FileBlocks is for disks on which nothing is deleted meanwhile; freeing blocks is in Directories.

**Model-checked only.** The liveness properties (`ReadyThreadRuns`, `ImplementsMutex`'s fairness,
`OneReaderIsServed`, `RequestsEnd`), since liveness under fairness is out of the prover's reach.
The runs that expect a violation, of course, and what the habits' absence does.

## 5. What the model leaves out

- Which lock: the kernel has one per pool, channel, queue and for the console and
  pids. One lock is modelled; threads that wait for another one are asleep for a
  device as far as this lock is concerned.
- `init` in user mode: the model lets `init` take the lock with interrupts on at
  any time, since it does so in `start_process`. Any other process does so only in
  a system call. Both are supersets of what runs.
- The producer's side of the I/O queue: its only writer is the interrupt handler,
  which never waits. Sleeps of readers for anything but the keyboard.
- A disk that raises an interrupt for each sector of a write and has not stored the
  last when the first interrupt comes: `ide_write` takes the first interrupt for the
  answer to the whole command. The model's disk has stored all sectors of a
  command of several by its interrupt, as the driver's single `outsw` presumes.
- `ide_init`, `identify_disk` and `partition_scan`, which run before a second
  thread uses a disk; the second channel, which shares nothing with the first.
- In FileBlocks: the inode's copy on disk (`inode_sync`), which is read only by `inode_open`;
  `sys_malloc` failing in `file_write` and `file_read`. Freeing a file's blocks is in Directories.
- `main` runs `file_write` with interrupts on and could be preempted between
  `bitmap_scan` and `bitmap_set`; here every writer is a process. The word
  outside of `i_sectors` that line 387 overwrites is not modelled.
- Inodes that a process creates: `file_create` takes them from the process's own heap,
  where no other process finds them. Other uses of the heap's 128-byte blocks: the kernel
  has none. A path's parent directory that `sys_open` leaves open. The descriptor
  of a directory (`sys_opendir`) kept across calls. A close of a descriptor that is
  not open fails the ASSERT in `fd_local2global`.
- A failing `sys_fork` changes nothing in OpenFiles; what it leaks is in Memory.
  `thread_all_list` is only ever appended to and printed. `allocate_pid` always runs with
  interrupts off, so its lock is never contended.
- The table of indirect blocks of a directory, which needs 252 entries (dir.c:163-190): its first
  deletion would not come back, since the loop that counts the blocks (304) never
  advances its index.
- The line editor and the parser of the command line (shell.c:57, 101, 143): the limits of `cmd_line`,
  of `argv` (compared after the store) and of `final_path` (160 characters, against paths of 512).
  Shell starts from a parsed command. `ps` and `clear`, and the keyboard's modifier
  keys, change nothing that is modelled.
- Path calls of `main`, which creates its file while the shell may be running already: in Directories
  calls do not overlap. OpenFiles has this interleaving for inodes and descriptors.
- In Memory: the TLB (an entry that is cleared in memory may be used until memory.c:474);
  a process that is rescheduled in `inode_open` or `inode_close` while its `pgdir` is
  NULL; six of the seven block sizes; bitmaps of a process larger than a page (23 pages); the PCB pages of `main` and
  `idle`, which are never freed; page tables, which stay when their last page goes. `bitmap_set` is one
  step, although it loads and stores a byte; `init`'s `start_process` is one step, although
  it runs with interrupts on.
- `vaddr_get`'s ASSERT that a process's pages start below its stack (memory.c:67): the stack's page is the last one
  of the bitmap and marked before the process makes a call, so that no scan returns it. That a new arena's blocks are not in the free list yet (424) is
  `HeapIsExact`, which has no block there twice and only blocks of arenas. Nothing is said of the ASSERTs on alignment, on the range of an
  argument (148, 506, 555, 563) and on `large` (578); line 224 is for a caller that the kernel does not have.
- `value` is a `uint8_t` and `holder_repeat_nr` a `uint32_t`; the invariant bounds
  the first by 1, and the second by a nesting depth of the stack.

## 6. Plan

In this order; each line is a module (or a few), its composition, its runs.

1. *Done*: Scheduler, Semaphores, Threads, Locks, Mutex, and their proofs.
2. *Done*: IoQueue with the keyboard's interrupt, against Fifo, and its proofs.
3. *Done*: Ide against DiskStore, and its proofs.
4. *Done*: FileBlocks, and its proofs.
5. *Done*: OpenFiles, and its proofs. To state: an abstract specification in
   which a descriptor refers to an open file until it is closed, for one task at a time.
6. *Done*: Memory with `bitmap_scan`, and its proofs.
7. *Done*: Directories and Shell against DirectoryTree, and the proofs of Shell's invariants, of
   `NoPanic` and of the refinement, call by call.
8. The line editor and `cmd_parse`, on fixed arrays.
