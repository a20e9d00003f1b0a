-------------------------------- MODULE Ide --------------------------------
(***************************************************************************)
(* One channel of the IDE driver (device/ide.c) with its two disks.        *)
(* ide_read and ide_write hold the channel's lock and cut a request into   *)
(* commands; the disk's interrupt raises disk_done once per command.       *)
(* Processes run this in a system call, with interrupts off; main runs it  *)
(* with interrupts on, so an interrupt or another thread may come between  *)
(* any two of its steps.                                                   *)
(*                                                                         *)
(* The disk is not part of the code: it is modelled from the registers     *)
(* that the driver uses.  Reading the status register or writing a command *)
(* takes the disk's interrupt request back.                                *)
(***************************************************************************)
EXTENDS WholeLocks, SectorRuns

CONSTANTS
    none,     \* no request
    Disk,     \* the disks of the channel
    Sector,   \* the sectors of a disk
    Datum,    \* what a sector holds
    Chunk,    \* the most sectors of one command: 256 in the code
    Request,  \* the calls of ide_read and ide_write
    SlowData  \* is the disk still busy after a write command, before its data?

ASSUME IdeAssumption ==
    /\ Chunk \in Nat \ {0}
    /\ none \notin Request \cup Seq(Datum)
    /\ SlowData \in BOOLEAN
    /\ 0 \in Sector
    /\ \A r \in Request :
          /\ r.op \in {"read", "write"}
          /\ r.disk \in Disk
          /\ r.lba \in Nat
          /\ r.cnt \in Nat \ {0}
          /\ r.lba .. r.lba + r.cnt - 1 \subseteq Sector
          /\ r.op = "write" => r.data \in [1 .. r.cnt -> Datum]

VARIABLES
    chan,   \* the channel
    dev,    \* the disks' registers and what they are doing
    store,  \* what the disks hold
    io,     \* io[t]: the arguments of t's ide_read or ide_write
    done,   \* done[t]: secs_done
    buf     \* buf[t]: what ide_read has put into the caller's buffer

ide == <<chan, dev, store, io, done, buf>>
vars == <<threads, chan, dev, store, io, done, buf>>

(* The labels of a request, in order; "wait" is in sema_down, of the lock  *)
(* or, for the lock's holder, of disk_done.                                *)
RequestLabels == {"select", "flag", "command", "down", "poll", "transfer", "release"}

Labels == Masked \cup IdleLabels \cup {"run"} \cup RequestLabels

Channel == [lock : Lock, expecting_intr : BOOLEAN, disk_done : Semaphore]

Goto(t, label) == pc' = [pc EXCEPT ![t] = label]

---------------------------------------------------------------------------
(* The disk.                                                               *)

Phases == {"idle", "seek", "drq", "store"}

Busy(d) == d.phase \in {"seek", "store"}

(* Mutant: the sector count is written as it is.                           *)
CountIsNotCut(n) == n

(* The register of the sector count is too narrow for Chunk, and 0 in it   *)
(* means Chunk.                                                            *)
RegisterOf(n) == n % Chunk
Sectors(register) == IF register = 0 THEN Chunk ELSE register

(* A read command makes the disk seek.  A write command wants its data     *)
(* first, at once unless the disk is slow to accept data.                  *)
Start(d, op) ==
    {[d EXCEPT !.op = op, !.irq = FALSE, !.phase = p] :
        p \in IF op = "read" THEN {"seek"}
              ELSE IF SlowData THEN {"seek", "drq"} ELSE {"drq"}}

(* All sectors of a command go through the data register in one go, with   *)
(* an interrupt for each: before it when reading, after it when writing.   *)
(* Storing takes time for a single sector; of several sectors the disk is  *)
(* taken to have stored the last one together with those before it.        *)
TakeData(d) ==
    LET several == Sectors(d.cnt) > 1
    IN  [d EXCEPT !.phase = IF d.op = "write" /\ ~several THEN "store" ELSE "idle",
                  !.irq = several]

DiskSeeks ==
    /\ dev.phase = "seek"
    /\ dev' = [dev EXCEPT !.phase = "drq", !.irq = dev.op = "read"]
    /\ UNCHANGED <<threads, chan, store, io, done, buf>>

DiskStores ==
    /\ dev.phase = "store"
    /\ dev' = [dev EXCEPT !.phase = "idle", !.irq = TRUE]
    /\ UNCHANGED <<threads, chan, store, io, done, buf>>

(* A request of the disk waits in the interrupt controller while           *)
(* interrupts are off, and is served before the next instruction otherwise. *)
NoneToServe == ~(dev.irq /\ InterruptsOn)

---------------------------------------------------------------------------
(* Interrupts are still off and no request has been made since the         *)
(* partitions were scanned.                                                *)
Init ==
    /\ ThreadsInit
    /\ chan = [lock |-> lock_init, expecting_intr |-> FALSE, disk_done |-> sema_init(0)]
    /\ \E d \in Datum, disk \in Disk :
          /\ dev = [op |-> "read", disk |-> disk, lba |-> 0, cnt |-> 0,
                    phase |-> "idle", irq |-> FALSE]
          /\ store = [k \in Disk |-> [s \in Sector |-> d]]
    /\ io = [t \in Thread |-> none]
    /\ done = [t \in Thread |-> 0]
    /\ buf = [t \in Thread |-> <<>>]

(* A turn in lock_acquire.                                                 *)
LockChannel(t) ==
    LET turn == acquire_turn(sched, chan.lock)
    IN  /\ sched' = turn.sched
        /\ chan' = [chan EXCEPT !.lock = turn.lock]
        /\ Goto(t, IF IsFree(chan.lock) THEN "select" ELSE "wait")

(* Mutant: the channel is used without its lock when somebody has it.      *)
EnterUnlocked(t, r) ==
    /\ Running(t, "run")
    /\ t # idle_thread
    /\ t \in Process => ~intr[t]
    /\ io' = [io EXCEPT ![t] = r]
    /\ Goto(t, "select")
    /\ UNCHANGED <<sched, chan, intr, dev, store, done, buf>>

(* ide_read or ide_write is called; its ASSERTs are IdeAssumption.         *)
ide_request(t, r) ==
    /\ Running(t, "run")
    /\ t # idle_thread
    /\ t \in Process => ~intr[t]
    /\ io' = [io EXCEPT ![t] = r]
    /\ LockChannel(t)
    /\ UNCHANGED <<intr, dev, store, done, buf>>

GetChannel(t) ==
    /\ Running(t, "wait")
    /\ chan.lock.holder # t
    /\ LockChannel(t)
    /\ UNCHANGED <<intr, dev, store, io, done, buf>>

secs_op(t) ==
    IF done[t] + Chunk <= io[t].cnt THEN Chunk ELSE io[t].cnt - done[t]

(* Mutant: every command of a request starts at its first sector.          *)
SelectFirst(t) ==
    /\ Running(t, "select")
    /\ dev' = [dev EXCEPT !.disk = io[t].disk, !.lba = io[t].lba, !.cnt = RegisterOf(secs_op(t))]
    /\ Goto(t, "flag")
    /\ UNCHANGED <<sched, intr, chan, store, io, done, buf>>

(* select_disk and select_sector.                                          *)
select_sector(t) ==
    /\ Running(t, "select")
    /\ dev' = [dev EXCEPT !.disk = io[t].disk,
                          !.lba = io[t].lba + done[t],
                          !.cnt = RegisterOf(secs_op(t))]
    /\ Goto(t, "flag")
    /\ UNCHANGED <<sched, intr, chan, store, io, done, buf>>

ExpectInterrupt(t) ==
    /\ Running(t, "flag")
    /\ chan' = [chan EXCEPT !.expecting_intr = TRUE]
    /\ Goto(t, "command")
    /\ UNCHANGED <<sched, intr, dev, store, io, done, buf>>

(* Mutant: the flag is taken back with the command.                        *)
FlagIsLost(t) ==
    /\ Running(t, "command")
    /\ dev' \in Start(dev, io[t].op)
    /\ chan' = [chan EXCEPT !.expecting_intr = FALSE]
    /\ Goto(t, IF io[t].op = "read" THEN "down" ELSE "poll")
    /\ UNCHANGED <<sched, intr, store, io, done, buf>>

cmd_out(t) ==
    /\ Running(t, "command")
    /\ dev' \in Start(dev, io[t].op)
    /\ Goto(t, IF io[t].op = "read" THEN "down" ELSE "poll")
    /\ UNCHANGED <<sched, intr, chan, store, io, done, buf>>

(* Where the loop goes on after a command for t.                           *)
AfterCommand(t, n) == IF n < io[t].cnt THEN "select" ELSE "release"

(* A turn in sema_down(&disk_done).                                        *)
WaitForDisk(t) ==
    /\ \/ Running(t, "down")
       \/ Running(t, "wait") /\ chan.lock.holder = t
    /\ LET turn == sema_down_turn(sched, chan.disk_done)
       IN  /\ sched' = turn.sched
           /\ chan' = [chan EXCEPT !.disk_done = turn.sem]
    /\ Goto(t, IF ~MayPass(chan.disk_done) THEN "wait"
               ELSE IF io[t].op = "read" THEN "poll" ELSE AfterCommand(t, done[t]))
    /\ UNCHANGED <<intr, dev, store, io, done, buf>>

(* mtime_sleep(10)'s ticks: DIV_ROUND_UP(X, STEP) is                       *)
(* ((X + STEP - 1) / STEP), mil_second_per_init is 1000 / 100, and neither *)
(* parameter has parentheses.                                              *)
sleep_ticks(m_seconds) ==
    (((m_seconds + (1000 \div 100)) - 1) \div 1000) \div 100

(* The sleep is a loop of thread_yield until that many ticks have come.    *)
mtime_sleep(s, m_seconds) ==
    Assert_(s, sleep_ticks(m_seconds) > 0, thread_yield(s))

(* busy_wait's look at the status register, which also takes back    *)
(* the disk's request.  A busy disk puts the caller to sleep for 10 ms; a  *)
(* disk that is neither busy nor ready for data is the caller's PANIC.     *)
busy_wait(t) ==
    /\ Running(t, "poll")
    /\ dev' = [dev EXCEPT !.irq = FALSE]
    /\ sched' = IF Busy(dev) THEN mtime_sleep(sched, 10)
                ELSE Assert_(sched, dev.phase = "drq", sched)
    /\ Goto(t, IF Busy(dev) THEN "poll" ELSE "transfer")
    /\ UNCHANGED <<intr, chan, store, io, done, buf>>

(* read_from_sector or write2sector, with the step of secs_done.           *)
Transfer(t) ==
    /\ Running(t, "transfer")
    /\ LET n == Sectors(dev.cnt)
       IN  /\ IF io[t].op = "read"
              THEN /\ buf' = [buf EXCEPT ![t] = @ \o Slice(store[dev.disk], dev.lba, n)]
                   /\ UNCHANGED store
                   /\ Goto(t, AfterCommand(t, done[t] + n))
              ELSE /\ store' = [store EXCEPT ![dev.disk] =
                        Overwrite(@, dev.lba, SubSeq(io[t].data, done[t] + 1, done[t] + n))]
                   /\ UNCHANGED buf
                   /\ Goto(t, "down")
           /\ done' = [done EXCEPT ![t] = @ + n]
    /\ dev' = TakeData(dev)
    /\ UNCHANGED <<sched, intr, chan, io>>

(* lock_release, and the return to the caller.                             *)
ide_return(t) ==
    /\ Running(t, "release")
    /\ LET freed == release(sched, chan.lock)
       IN  sched' = freed.sched /\ chan' = [chan EXCEPT !.lock = freed.lock]
    /\ io' = [io EXCEPT ![t] = none]
    /\ done' = [done EXCEPT ![t] = 0]
    /\ buf' = [buf EXCEPT ![t] = <<>>]
    /\ Goto(t, "run")
    /\ UNCHANGED <<intr, dev, store>>

(* Mutant: the handler does not look whether anybody expects it.           *)
HandleUnexpected ==
    /\ InterruptsOn
    /\ dev.irq
    /\ LET up == sema_up(sched, chan.disk_done)
       IN  /\ sched' = up.sched
           /\ chan' = [chan EXCEPT !.expecting_intr = FALSE, !.disk_done = up.sem]
    /\ dev' = [dev EXCEPT !.irq = FALSE]
    /\ pc' = LeaveHalt
    /\ UNCHANGED <<intr, store, io, done, buf>>

(* Mutant: the flag is not taken back.                                     *)
HandlerKeepsFlag ==
    /\ InterruptsOn
    /\ dev.irq
    /\ chan.expecting_intr
    /\ LET up == sema_up(sched, chan.disk_done)
       IN  sched' = up.sched /\ chan' = [chan EXCEPT !.disk_done = up.sem]
    /\ dev' = [dev EXCEPT !.irq = FALSE]
    /\ pc' = LeaveHalt
    /\ UNCHANGED <<intr, store, io, done, buf>>

intr_hd_handler ==
    /\ InterruptsOn
    /\ dev.irq
    /\ IF chan.expecting_intr
       THEN LET up == sema_up(sched, chan.disk_done)
            IN  /\ sched' = up.sched
                /\ chan' = [chan EXCEPT !.expecting_intr = FALSE, !.disk_done = up.sem]
       ELSE UNCHANGED <<sched, chan>>
    /\ dev' = [dev EXCEPT !.irq = FALSE]
    /\ pc' = LeaveHalt
    /\ UNCHANGED <<intr, store, io, done, buf>>

RequestStep(t) ==
    \/ GetChannel(t)
    \/ select_sector(t)
    \/ ExpectInterrupt(t)
    \/ cmd_out(t)
    \/ WaitForDisk(t)
    \/ busy_wait(t)
    \/ Transfer(t)
    \/ ide_return(t)

OtherStep(t) ==
    /\ \/ kernel_thread(t)
       \/ SyscallEnter(t)
       \/ SyscallReturn(t)
       \/ \E child \in Process : sys_fork(t, child)
    /\ UNCHANGED ide

TimerStep == intr_timer_handler /\ UNCHANGED ide

ThreadStep ==
    /\ NoneToServe
    /\ \/ (IdleBlock \/ IdleHalt) /\ UNCHANGED ide
       \/ \E t \in Thread :
            RequestStep(t) \/ OtherStep(t) \/ \E r \in Request : ide_request(t, r)

Next == ThreadStep \/ TimerStep \/ intr_hd_handler \/ DiskSeeks \/ DiskStores

Spec == Init /\ [][Next]_vars

---------------------------------------------------------------------------
(* Safety                                                                  *)

(* Types of the channel, the disks' registers and the requests.            *)
TypeOK ==
    /\ sched \in SchedulerState
    /\ pc \in [Thread -> Labels]
    /\ intr \in [Thread -> BOOLEAN]
    /\ chan \in Channel
    /\ dev \in [op : {"read", "write"}, disk : Disk, lba : Sector, cnt : 0 .. Chunk - 1,
                phase : Phases, irq : BOOLEAN]
    /\ store \in [Disk -> [Sector -> Datum]]
    /\ io \in [Thread -> Request \cup {none}]
    /\ done \in [Thread -> Nat]
    /\ buf \in [Thread -> Seq(Datum)]

(* No ASSERT fails and busy_wait finds the disk ready: above all, sema_up  *)
(* in the handler never finds disk_done raised already.                    *)
NoPanic == ~sched.panic

(* The registers are written and a command is sent only while the disk     *)
(* does nothing: whatever was asked before has been waited for.            *)
CommandsFindDiskIdle ==
    \A t \in Thread : pc[t] \in {"select", "flag", "command"} => dev.phase = "idle"

(* Between two commands nothing is left over of the last one that could be *)
(* taken for the answer to the next: no interrupt is expected, and         *)
(* disk_done is 0.                                                         *)
NothingIsLeftOver ==
    \/ ~chan.expecting_intr /\ chan.disk_done = sema_init(0)
    \/ \E t \in Thread : /\ chan.lock.holder = t
                         /\ pc[t] \in {"command", "poll", "transfer", "down", "wait"}

(* Requests take effect as a whole.  The moment is the first transfer: the *)
(* sectors that are still to come are already known then.                  *)
Begun(t) == done[t] > 0

Writers(d) == {t \in Thread : Begun(t) /\ io[t].op = "write" /\ io[t].disk = d}

StoreAfter(t) ==
    Overwrite(store[io[t].disk], io[t].lba + done[t],
              SubSeq(io[t].data, done[t] + 1, io[t].cnt))

AnswerOf(t) ==
    IF ~Begun(t) THEN none
    ELSE IF io[t].op = "write" THEN <<>>
    ELSE buf[t] \o Slice(store[io[t].disk], io[t].lba + done[t], io[t].cnt - done[t])

D == INSTANCE DiskStore WITH
        store  <- [d \in Disk |-> IF Writers(d) = {} THEN store[d]
                                  ELSE StoreAfter(CHOOSE t \in Writers(d) : TRUE)],
        answer <- [t \in Thread |-> AnswerOf(t)]

ImplementsDiskStore == D!DiskStoreSpec

---------------------------------------------------------------------------
(* The inductive invariant behind the safety properties, for a disk that   *)
(* takes data at once                                                      *)

(* The channel is in one thread's request at most, from "select" to        *)
(* "release"; the others wait for it asleep, or have been woken.           *)
ChannelFits ==
    /\ LockIsExact(chan.lock)
    /\ \A t \in Thread :
          /\ pc[t] \in RequestLabels => chan.lock.holder = t
          /\ chan.lock.holder = t => pc[t] \in RequestLabels \cup {"wait"}
          /\ elem_find(chan.lock.semaphore.waiters, t)
                => pc[t] = "wait" /\ chan.lock.holder # t /\ Asleep(sched, t)
          /\ elem_find(chan.disk_done.waiters, t)
                => pc[t] = "wait" /\ chan.lock.holder = t /\ Asleep(sched, t)
    /\ IsInjective(chan.disk_done.waiters)

(* Nothing is under way between the disk and the driver.                   *)
Quiet == /\ ~chan.expecting_intr
         /\ chan.disk_done.value = 0
         /\ dev.phase = "idle"

(* The disk is still in a phase, or has left it and asks for an interrupt, *)
(* or the handler has passed the news on.                                  *)
Awaits(before, after) ==
    \/ chan.expecting_intr /\ chan.disk_done.value = 0 /\ dev.phase = before /\ ~dev.irq
    \/ chan.expecting_intr /\ chan.disk_done.value = 0 /\ dev.phase = after /\ dev.irq
    \/ ~chan.expecting_intr /\ chan.disk_done.value = 1 /\ dev.phase = after /\ ~dev.irq

(* How far the command of the holder t is.  A request of the last command  *)
(* that is left over when the flag is set cannot be served before the next *)
(* command takes it back: code with interrupts on would have served it.    *)
CommandFits(t) ==
    /\ pc[t] \in {"select", "flag", "release"} => Quiet
    /\ pc[t] = "command" => /\ chan.expecting_intr
                            /\ chan.disk_done.value = 0
                            /\ dev.phase = "idle"
                            /\ dev.irq => sched.cur = t /\ ~intr[t]
    /\ pc[t] \in {"down", "wait"} => IF io[t].op = "read" THEN Awaits("seek", "drq")
                                                          ELSE Awaits("store", "idle")
    /\ pc[t] \in {"poll", "transfer"}
         => /\ chan.disk_done.value = 0
            /\ dev.phase = "drq"
            /\ IF io[t].op = "read" THEN ~chan.expecting_intr
                                    ELSE chan.expecting_intr /\ ~dev.irq
    /\ pc[t] \in {"down", "wait", "poll", "transfer"} => dev.op = io[t].op

(* The holder's next command still has to move its sectors, and moves      *)
(* those that the registers name.                                          *)
BeforeData(t) == \/ pc[t] \in {"flag", "command", "poll", "transfer"}
                 \/ pc[t] \in {"down", "wait"} /\ io[t].op = "read"

RequestFits(t) ==
    /\ done[t] <= io[t].cnt
    /\ pc[t] = "select" \/ BeforeData(t) => done[t] < io[t].cnt
    /\ pc[t] = "release" => done[t] = io[t].cnt
    /\ BeforeData(t) => /\ dev.disk = io[t].disk
                        /\ dev.lba = io[t].lba + done[t]
                        /\ dev.cnt = RegisterOf(secs_op(t))
    /\ done[t] = 0 => buf[t] = <<>>

Inv ==
    /\ ~SlowData
    /\ Consistent(sched)
    /\ LabelsFit
    /\ TypeOK
    /\ ChannelFits
    /\ chan.lock.holder = nobody => Quiet
    /\ \A t \in Thread :
          /\ io[t] # none <=> pc[t] \in RequestLabels \cup {"wait"}
          /\ IF chan.lock.holder = t THEN CommandFits(t) /\ RequestFits(t)
                                     ELSE done[t] = 0 /\ buf[t] = <<>>

---------------------------------------------------------------------------
(* Liveness                                                                *)

(* The timer and the disk's interrupt are served although system calls     *)
(* mask them again and again, the disk does what it is told, and a thread  *)
(* that gets the processor again and again gets on with its request and    *)
(* returns to user mode.                                                   *)
FairSpec ==
    /\ Spec
    /\ SF_vars(TimerStep)
    /\ SF_vars(intr_hd_handler)
    /\ WF_vars(DiskSeeks \/ DiskStores)
    /\ \A t \in Thread :
          /\ WF_vars(NoneToServe /\ kernel_thread(t) /\ UNCHANGED ide)
          /\ SF_vars(NoneToServe /\ (RequestStep(t) \/ (SyscallReturn(t) /\ UNCHANGED ide)))

(* Every request comes to its end once it has the channel.                 *)
RequestsEnd ==
    \A t \in Thread : chan.lock.holder = t ~> chan.lock.holder # t
=============================================================================
