------------------------------ MODULE IoQueue ------------------------------
(***************************************************************************)
(* The keyboard's queue (device/ioqueue.c, the queue of keyboard.c) under  *)
(* the scheduler.  Readers call ioq_getchar from sys_read, in a system     *)
(* call and so with interrupts off: a reader's step goes on until it       *)
(* sleeps or returns.  The only writer is the keyboard's interrupt, which  *)
(* calls ioq_putchar when the queue is not full; the producer side of the  *)
(* queue (its slot, and the sleep of a writer) has no user.                *)
(***************************************************************************)
EXTENDS WholeLocks

CONSTANTS
    bufsize,  \* 64 in the code
    Char      \* the characters of the keyboard

ASSUME IoQueueAssumption ==
    /\ bufsize \in Nat \ {0}
    /\ Char # {}

VARIABLES
    ioq,     \* kb_buf
    retchr,  \* retchr[t]: what t's last ioq_getchar returned
    typed,   \* history: the parity of the number of characters typed so far
    readers  \* the processes that ever read the keyboard; it never changes

vars == <<threads, ioq, retchr, typed, readers>>

Goto(t, label) == pc' = [pc EXCEPT ![t] = label]

---------------------------------------------------------------------------
next_pos(pos) == (pos + 1) % bufsize

(* Mutant: the ring counts as full while one more character has room, so   *)
(* that the handler drops it.                                              *)
FullTooEarly(q) == q.tail \in {next_pos(q.head), next_pos(next_pos(q.head))}

ioq_full(q) == next_pos(q.head) = q.tail

ioq_empty(q) == q.head = q.tail

(* The null pointer is the only value that ioq_wait accepts in the slot.   *)
ioq_wait(s, q) ==
    [ sched |-> Assert_(s, q.consumer = nobody, thread_block(s, "TASK_BLOCKED")),
      ioq   |-> [q EXCEPT !.consumer = s.cur] ]

wakeup(s, q) ==
    [ sched |-> thread_unblock(s, q.consumer),
      ioq   |-> [q EXCEPT !.consumer = nobody] ]

(* Mutant: the slot is used without the lock.                              *)
WaitWithoutLock(s, q) == ioq_wait(s, q)

(* lock_acquire and ioq_wait, the body of the loop as far as it goes       *)
(* without a sleep in between.                                             *)
AcquireAndWait(s, q) ==
    LET turn == acquire_turn(s, q.lock)
        next == [q EXCEPT !.lock = turn.lock]
    IN  IF IsFree(q.lock)
        THEN ioq_wait(turn.sched, next) ELSE [sched |-> turn.sched, ioq |-> next]

WaitingFor(q) == IF IsFree(q.lock) THEN "slept" ELSE "wait"

(* The loop of ioq_getchar from its condition on.                          *)
GetChar(t, s, q) ==
    \/ /\ ~ioq_empty(q)
       /\ sched' = s
       /\ ioq' = [q EXCEPT !.tail = next_pos(@)]
       /\ retchr' = [retchr EXCEPT ![t] = q.buf[q.tail]]
       /\ Goto(t, "run")
    \/ /\ ioq_empty(q)
       /\ LET asleep == AcquireAndWait(s, q)
          IN  sched' = asleep.sched /\ ioq' = asleep.ioq
       /\ Goto(t, WaitingFor(q))
       /\ UNCHANGED retchr

PutChar(q, c) == [q EXCEPT !.buf[q.head] = c, !.head = next_pos(@)]

---------------------------------------------------------------------------
Init ==
    /\ ThreadsInit
    /\ \E c \in Char :
          /\ ioq = [ lock      |-> lock_init,
                     consumer  |-> nobody,
                     buf       |-> [i \in 0 .. bufsize - 1 |-> c],
                     head      |-> 0,
                     tail      |-> 0 ]
          /\ retchr = [t \in Thread |-> c]
    /\ typed = 0
    /\ readers \in SUBSET Process \ {{}}

(* A process asks for a character: sys_read on stdin_no.                   *)
ioq_getchar(t) ==
    /\ t \in readers
    /\ Running(t, "run")
    /\ ~intr[t]
    /\ GetChar(t, sched, ioq)
    /\ UNCHANGED <<intr, typed, readers>>

(* Back from sema_down's thread_block: lock_acquire goes on.               *)
GetLock(t) ==
    /\ Running(t, "wait")
    /\ LET asleep == AcquireAndWait(sched, ioq)
       IN  sched' = asleep.sched /\ ioq' = asleep.ioq
    /\ Goto(t, WaitingFor(ioq))
    /\ UNCHANGED <<intr, retchr, typed, readers>>

(* Back from ioq_wait: release the lock and look at the queue again.       *)
WakeUp(t) ==
    /\ Running(t, "slept")
    /\ LET freed == release(sched, ioq.lock)
       IN  GetChar(t, freed.sched, [ioq EXCEPT !.lock = freed.lock])
    /\ UNCHANGED <<intr, typed, readers>>

(* Mutant: the character is stored and the consumer left asleep.           *)
PutAndLeaveAsleep(c) ==
    /\ InterruptsOn
    /\ ioq' = IF ioq_full(ioq) THEN ioq ELSE PutChar(ioq, c)
    /\ typed' = 1 - typed
    /\ pc' = LeaveHalt
    /\ UNCHANGED <<sched, intr, retchr, readers>>

(* intr_keyboard_handler, when a key gives a character: ioq_putchar on a   *)
(* queue that is not full, nothing on one that is.                         *)
intr_keyboard_handler(c) ==
    /\ InterruptsOn
    /\ IF ioq_full(ioq)
       THEN UNCHANGED <<sched, ioq>>
       ELSE LET filled == PutChar(ioq, c)
                woken  == IF ioq.consumer = nobody
                          THEN [sched |-> sched, ioq |-> filled]
                          ELSE wakeup(sched, filled)
            IN  sched' = woken.sched /\ ioq' = woken.ioq
    /\ typed' = 1 - typed
    /\ pc' = LeaveHalt
    /\ UNCHANGED <<intr, retchr, readers>>

QueueStep(t) == ioq_getchar(t) \/ GetLock(t) \/ WakeUp(t)

(* The steps of the threads that have nothing to do with the queue.        *)
OtherStep(t) ==
    /\ \/ kernel_thread(t)
       \/ SyscallEnter(t)
       \/ SyscallReturn(t)
       \/ \E child \in Process : sys_fork(t, child)
       \/ Yield(t)
    /\ UNCHANGED <<ioq, retchr, typed, readers>>

ProcessorStep ==
    /\ \/ intr_timer_handler
       \/ IdleBlock
       \/ IdleHalt
    /\ UNCHANGED <<ioq, retchr, typed, readers>>

Next ==
    \/ ProcessorStep
    \/ \E c \in Char : intr_keyboard_handler(c)
    \/ \E t \in Thread : QueueStep(t) \/ OtherStep(t)

Spec == Init /\ [][Next]_vars

---------------------------------------------------------------------------
(* Safety                                                                  *)

(* No ASSERT fails: the slot is free when a reader goes to sleep in it,    *)
(* whoever is woken sleeps, and only the lock's holder releases it, however *)
(* many processes read.                                                    *)
NoPanic == ~sched.panic

(* Nobody queues for the lock without somebody who will release it: the    *)
(* sleeper in the slot, whom the next character wakes, or a thread that is *)
(* already awake on its way through the lock.                              *)
WaitersHaveAWaker ==
    ioq.lock.semaphore.waiters # <<>>
        => \/ ioq.consumer # nobody
           \/ \E t \in readers :
                 /\ pc[t] \in {"wait", "slept"}
                 /\ sched.status[t] \in {"TASK_READY", "TASK_RUNNING"}

(* ioqueue.h:15: the consumer is the thread that waits while the buffer is *)
(* empty.  It is, as long as one process reads.                            *)
OneConsumerMeansEmpty ==
    \A t \in Process :
        readers = {t} /\ ioq.consumer # nobody => ioq_empty(ioq)

(* The ring implements the bounded queue: order, no loss and no duplicate. *)
(* Every character typed is a step of Fifo, which accepts it unless        *)
(* bufsize - 1 are waiting: the handler (keyboard.c:181) drops none on a   *)
(* ring with room.                                                         *)
Contents == [ i \in 1 .. (ioq.head + bufsize - ioq.tail) % bufsize |->
                  ioq.buf[(ioq.tail + i - 1) % bufsize] ]

F == INSTANCE Fifo WITH
        Reader <- Thread, Capacity <- bufsize - 1,
        queue <- Contents, delivered <- retchr

ImplementsFifo == F!FifoSpec

---------------------------------------------------------------------------
(* The inductive invariant behind the safety properties, of a scheduler s, *)
(* the threads' labels p and a queue q                                     *)

Labels == Masked \cup IdleLabels \cup {"run", "slept"}

Queue == [ lock     : Lock,
           consumer : Thread \cup {nobody},
           buf      : [0 .. bufsize - 1 -> Char],
           head     : 0 .. bufsize - 1,
           tail     : 0 .. bufsize - 1 ]

(* The lock's holder is the reader past ioq_wait, of whom there is one at  *)
(* most; it sleeps exactly as long as its PCB is in the slot.              *)
SlotIsHolders(s, p, q) ==
    /\ LockIsExact(q.lock)
    /\ \A t \in Thread : /\ q.lock.holder = t <=> p[t] = "slept"
                         /\ p[t] = "slept" => (Asleep(s, t) <=> q.consumer = t)
    /\ q.consumer # nobody => q.consumer = q.lock.holder

(* The other readers sleep in the lock's list, and when the lock is free   *)
(* one of them has been taken out of it.                                   *)
WaitersAreListed(s, p, q) ==
    /\ \A t \in Thread : elem_find(q.lock.semaphore.waiters, t)
                             <=> p[t] = "wait" /\ Asleep(s, t)
    /\ q.lock.holder = nobody /\ q.lock.semaphore.waiters # <<>>
         => \E t \in Thread : p[t] = "wait" /\ ~Asleep(s, t)

(* A single reader never meets a held lock, and is woken by the first      *)
(* character.                                                              *)
SingleReaderFits(p, q) ==
    \A t \in Thread :
        readers = {t} => /\ p[t] # "wait"
                         /\ q.lock.semaphore.waiters = <<>>
                         /\ q.consumer # nobody => ioq_empty(q)

QueueIsConsistent(s, p, q) ==
    /\ q \in Queue
    /\ SlotIsHolders(s, p, q)
    /\ WaitersAreListed(s, p, q)
    /\ SingleReaderFits(p, q)
    /\ \A t \in Thread : p[t] \in {"wait", "slept"} => t \in readers

Inv ==
    /\ Consistent(sched)
    /\ LabelsFit
    /\ pc \in [Thread -> Labels]
    /\ readers \subseteq Process
    /\ retchr \in [Thread -> Char]
    /\ QueueIsConsistent(sched, pc, ioq)

---------------------------------------------------------------------------
(* Liveness                                                                *)

(* The timer keeps coming, and a reader that is in the kernel and gets the *)
(* processor again and again gets on and returns to user mode.             *)
FairSpec ==
    /\ Spec
    /\ SF_vars(intr_timer_handler /\ UNCHANGED <<ioq, retchr, typed, readers>>)
    /\ \A t \in Process :
          /\ WF_vars(kernel_thread(t) /\ UNCHANGED <<ioq, retchr, typed, readers>>)
          /\ SF_vars(GetLock(t) \/ WakeUp(t) \/ (SyscallReturn(t) /\ UNCHANGED <<ioq, retchr, typed, readers>>))

(* A single reader that sleeps gets a character once one has been typed.   *)
OneReaderIsServed ==
    \A t \in Process :
        readers = {t} /\ pc[t] = "slept" /\ ~ioq_empty(ioq) ~> pc[t] = "run"
=============================================================================
