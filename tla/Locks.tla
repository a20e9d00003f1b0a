------------------------------- MODULE Locks -------------------------------
(***************************************************************************)
(* lock_acquire and lock_release of thread/sync.c on one lock, under the   *)
(* scheduler.  A thread in the kernel may be preempted between any two     *)
(* accesses to the lock outside sema_down and sema_up, so every such       *)
(* access is a step of its own.  Threads hold the lock for as long as they *)
(* like, nested as deep as MaxDepth, and may sleep, yield or be preempted  *)
(* while they hold it.                                                     *)
(***************************************************************************)
EXTENDS WholeLocks

CONSTANT
    MaxDepth   \* bound of this model: how deep a thread nests the lock

ASSUME LocksAssumption == MaxDepth \in Nat

VARIABLES
    semaphore,         \* lock.semaphore
    holder,            \* lock.holder
    holder_repeat_nr,  \* lock.holder_repeat_nr
    depth              \* depth[t]: acquires of t that it has not released

lockVars == <<semaphore, holder, holder_repeat_nr, depth>>

vars == <<threads, lockVars>>

Labels == Masked \cup IdleLabels
          \cup {"run", "again", "down", "own", "count", "unnest", "clear", "zero",
                "up"}

Init ==
    /\ ThreadsInit
    /\ semaphore = sema_init(1)
    /\ holder = nobody
    /\ holder_repeat_nr = 0
    /\ depth = [t \in Thread |-> 0]

Goto(t, label) == pc' = [pc EXCEPT ![t] = label]

---------------------------------------------------------------------------
(* lock_acquire                                                            *)

(* Mutant: the holder is written before the semaphore is had.              *)
HolderTooEarly(t) ==
    /\ Running(t, "run")
    /\ InKernel(t)
    /\ depth[t] < MaxDepth
    /\ Goto(t, IF holder = t THEN "again" ELSE "down")
    /\ holder' = t
    /\ UNCHANGED <<sched, intr, semaphore, holder_repeat_nr, depth>>

lock_acquire(t) ==
    /\ Running(t, "run")
    /\ InKernel(t)
    /\ depth[t] < MaxDepth
    /\ Goto(t, IF holder = t THEN "again" ELSE "down")
    /\ UNCHANGED <<sched, intr, lockVars>>

AcquireAgain(t) ==
    /\ Running(t, "again")
    /\ holder_repeat_nr' = holder_repeat_nr + 1
    /\ depth' = [depth EXCEPT ![t] = @ + 1]
    /\ Goto(t, "run")
    /\ UNCHANGED <<sched, intr, semaphore, holder>>

(* Mutant: "if" for "while": a woken waiter does not look at value again.  *)
WaitOnlyOnce(t) ==
    /\ \/ Running(t, "down")
       \/ Running(t, "wait")
    /\ LET passes == pc[t] = "wait" \/ MayPass(semaphore)
           turn   == IF passes THEN PassSemaphore(sched, semaphore)
                               ELSE WaitForSemaphore(sched, semaphore)
       IN  /\ sched' = turn.sched
           /\ semaphore' = turn.sem
           /\ Goto(t, IF passes THEN "own" ELSE "wait")
    /\ UNCHANGED <<intr, holder, holder_repeat_nr, depth>>

sema_down(t) ==
    /\ \/ Running(t, "down")
       \/ Running(t, "wait")
    /\ LET turn == sema_down_turn(sched, semaphore)
       IN  /\ sched' = turn.sched
           /\ semaphore' = turn.sem
    /\ Goto(t, IF MayPass(semaphore) THEN "own" ELSE "wait")
    /\ UNCHANGED <<intr, holder, holder_repeat_nr, depth>>

SetHolder(t) ==
    /\ Running(t, "own")
    /\ holder' = t
    /\ Goto(t, "count")
    /\ UNCHANGED <<sched, intr, semaphore, holder_repeat_nr, depth>>

SetCount(t) ==
    /\ Running(t, "count")
    /\ sched' = Assert_(sched, holder_repeat_nr = 0, sched)
    /\ holder_repeat_nr' = 1
    /\ depth' = [depth EXCEPT ![t] = 1]
    /\ Goto(t, "run")
    /\ UNCHANGED <<intr, semaphore, holder>>

---------------------------------------------------------------------------
(* lock_release: the holder is cleared before the semaphore is given up.   *)

(* Mutant: a nested release is not told from the last one.                 *)
ReleaseAtOnce(t) ==
    /\ Running(t, "run")
    /\ depth[t] > 0
    /\ sched' = Assert_(sched, holder = t /\ holder_repeat_nr >= 1, sched)
    /\ Goto(t, "clear")
    /\ UNCHANGED <<intr, lockVars>>

lock_release(t) ==
    /\ Running(t, "run")
    /\ depth[t] > 0
    /\ sched' = Assert_(sched, holder = t /\ holder_repeat_nr >= 1, sched)
    /\ Goto(t, IF holder_repeat_nr > 1 THEN "unnest" ELSE "clear")
    /\ UNCHANGED <<intr, lockVars>>

ReleaseNested(t) ==
    /\ Running(t, "unnest")
    /\ holder_repeat_nr' = holder_repeat_nr - 1
    /\ depth' = [depth EXCEPT ![t] = @ - 1]
    /\ Goto(t, "run")
    /\ UNCHANGED <<sched, intr, semaphore, holder>>

ClearHolder(t) ==
    /\ Running(t, "clear")
    /\ holder' = nobody
    /\ Goto(t, "zero")
    /\ UNCHANGED <<sched, intr, semaphore, holder_repeat_nr, depth>>

ClearCount(t) ==
    /\ Running(t, "zero")
    /\ holder_repeat_nr' = 0
    /\ Goto(t, "up")
    /\ UNCHANGED <<sched, intr, semaphore, holder, depth>>

ReleaseSemaphore(t) ==
    /\ Running(t, "up")
    /\ LET up == sema_up(sched, semaphore)
       IN  /\ sched' = up.sched
           /\ semaphore' = up.sem
    /\ depth' = [depth EXCEPT ![t] = 0]
    /\ Goto(t, "run")
    /\ UNCHANGED <<intr, holder, holder_repeat_nr>>

---------------------------------------------------------------------------
LockStep(t) ==
    \/ AcquireAgain(t)
    \/ sema_down(t)
    \/ SetHolder(t)
    \/ SetCount(t)
    \/ ReleaseNested(t)
    \/ ClearHolder(t)
    \/ ClearCount(t)
    \/ ReleaseSemaphore(t)

(* A device wakes only threads that sleep for it, never idle or a waiter.  *)
WaitsForDevice(t) ==
    /\ t # idle_thread
    /\ sched.status[t] \in Sleeping
    /\ ~elem_find(semaphore.waiters, t)

(* User code holds no lock: a process enters and leaves the kernel without *)
(* one.                                                                    *)
KernelStep(t) ==
    /\ \/ kernel_thread(t)
       \/ SyscallEnter(t) /\ depth[t] = 0
       \/ SyscallReturn(t) /\ depth[t] = 0
       \/ \E child \in Process : sys_fork(t, child)
       \/ Yield(t)
       \/ Sleep(t)
       \/ DeviceInterrupt(t) /\ WaitsForDevice(t)
    /\ UNCHANGED lockVars

ProcessorStep ==
    /\ \/ intr_timer_handler
       \/ IdleBlock
       \/ IdleHalt
    /\ UNCHANGED lockVars

Next ==
    \/ ProcessorStep
    \/ \E t \in Thread :
          \/ KernelStep(t)
          \/ LockStep(t)
          \/ lock_acquire(t)
          \/ lock_release(t)

Spec == Init /\ [][Next]_vars

---------------------------------------------------------------------------
(* Safety                                                                  *)

(* Types of the state of sync.c and thread.c.                              *)
TypeOK ==
    /\ sched \in SchedulerState
    /\ pc \in [Thread -> Labels]
    /\ intr \in [Thread -> BOOLEAN]
    /\ semaphore \in Semaphore
    /\ holder \in Thread \cup {nobody}
    /\ holder_repeat_nr \in Nat
    /\ depth \in [Thread -> Nat]

(* t is between sema_down's decrement and sema_up's increment.             *)
Owns(t) == depth[t] > 0 \/ pc[t] \in {"own", "count"}

(* No ASSERT and no PANIC of thread.c or sync.c ever fails: a thread is    *)
(* never queued twice, never woken while ready, the semaphore is 0 when it *)
(* is given up and 1 afterwards, only the holder releases.                 *)
NoPanic == ~sched.panic

(* general_tag is one pair of pointers for the ready list and for every    *)
(* waiters list: a thread is in at most one of them, once, and exactly the *)
(* ready threads are in the ready list.                                    *)
OneListPerThread ==
    /\ IsInjective(sched.ready)
    /\ IsInjective(semaphore.waiters)
    /\ \A t \in Thread :
          /\ sched.status[t] = "TASK_RUNNING" <=> t = sched.cur
          /\ sched.status[t] = "TASK_READY" <=> elem_find(sched.ready, t)
          /\ elem_find(semaphore.waiters, t) => sched.status[t] \in Sleeping

(* lock_acquire returns to one thread at a time.                           *)
MutualExclusion ==
    \A t, u \in Thread : Owns(t) /\ Owns(u) => t = u

(* Whatever a preempted release or acquire has left in holder and          *)
(* holder_repeat_nr, a thread that holds the lock and is outside of both   *)
(* functions finds itself there with its own nesting depth, so its next    *)
(* lock_acquire nests and its last lock_release really releases.           *)
HolderIsExact ==
    \A t \in Thread :
        pc[t] = "run" => /\ (holder = t <=> depth[t] > 0)
                         /\ (depth[t] > 0 => holder_repeat_nr = depth[t])

(* sema_up pops one waiter before it raises value, and the woken thread    *)
(* may find value taken again: still, a free semaphore with threads in its *)
(* waiters list always has one more thread on its way to take it.          *)
NoLostWakeup ==
    semaphore.value = 1 /\ semaphore.waiters # <<>>
        => \E t \in Thread :
              /\ pc[t] = "wait"
              /\ sched.status[t] \in {"TASK_READY", "TASK_RUNNING"}

---------------------------------------------------------------------------
(* The inductive invariant behind the safety properties                    *)

(* What each label inside of lock_acquire and lock_release knows of the    *)
(* lock.                                                                   *)
LabelKnows(t) ==
    /\ pc[t] \in {"first", "down", "wait"} \cup IdleLabels => depth[t] = 0
    /\ pc[t] = "own" => depth[t] = 0 /\ holder = nobody /\ holder_repeat_nr = 0
    /\ pc[t] = "count" => depth[t] = 0 /\ holder = t /\ holder_repeat_nr = 0
    /\ pc[t] \in {"run", "again", "unnest", "clear"} /\ depth[t] > 0
          => holder = t /\ holder_repeat_nr = depth[t]
    /\ pc[t] = "again" => depth[t] > 0
    /\ pc[t] = "unnest" => depth[t] > 1
    /\ pc[t] \in {"clear", "zero", "up"} => depth[t] = 1
    /\ pc[t] \in {"zero", "up"} => holder = nobody
    /\ pc[t] = "up" => holder_repeat_nr = 0

(* The semaphore counts the owner, and a lock without an owner is as       *)
(* lock_init left it.                                                      *)
LockIsConsistent ==
    /\ MutualExclusion
    /\ semaphore.value \in {0, 1}
    /\ \A t \in Thread : LabelKnows(t)
    /\ \A t \in Thread : Owns(t) => semaphore.value = 0
    /\ semaphore.value = 1 => holder = nobody /\ holder_repeat_nr = 0
    /\ holder # nobody => Owns(holder)

(* Waiters sleep inside of sema_down; idle never gets there, and is always *)
(* asleep when the ready list runs empty; a PCB that does not exist yet    *)
(* has run nothing.                                                        *)
ThreadsAreConsistent ==
    /\ \A t \in Thread : elem_find(semaphore.waiters, t) => pc[t] = "wait"
    /\ LabelsFit
    /\ ~Unborn(idle_thread)

Inv ==
    /\ TypeOK
    /\ NoPanic
    /\ OneListPerThread
    /\ LockIsConsistent
    /\ ThreadsAreConsistent

---------------------------------------------------------------------------
(* Fairness                                                                *)

(* A thread inside of lock_acquire or lock_release gets on, and a critical *)
(* section comes to its end, however often the thread is preempted: a tick *)
(* is much longer than a statement.  System calls end too.                 *)
ThreadsGoOn ==
    /\ \A t \in Thread : WF_vars(kernel_thread(t) /\ UNCHANGED lockVars)
    /\ \A t \in Thread \ {idle_thread} : SF_vars(LockStep(t) \/ lock_release(t))
    /\ \A t \in Process : SF_vars(SyscallReturn(t) /\ depth[t] = 0 /\ UNCHANGED lockVars)

(* The interrupt controller keeps a request until the processor accepts    *)
(* interrupts, so the timer is served although they are off again and      *)
(* again.                                                                  *)
TimerArrives == SF_vars(intr_timer_handler /\ UNCHANGED lockVars)

TimedSpec == Spec /\ ThreadsGoOn /\ TimerArrives

---------------------------------------------------------------------------
(* Liveness                                                                *)

(* No thread is starved of the processor, although every wakeup goes to    *)
(* the front of the ready list and thread_block and thread_yield leave a   *)
(* thread the rest of its slice.                                           *)
ReadyThreadRuns ==
    \A t \in Thread \ {idle_thread} :
        sched.status[t] = "TASK_READY" ~> sched.status[t] = "TASK_RUNNING"

(* The lock implements a reentrant mutex that is granted whenever it stays *)
(* free: the owner is the thread that has taken the semaphore and not yet  *)
(* given it up.                                                            *)
Owner == IF \E t \in Thread : Owns(t)
         THEN CHOOSE t \in Thread : Owns(t) ELSE nobody

Nesting == IF Owner = nobody THEN 0
           ELSE IF depth[Owner] = 0 THEN 1 ELSE depth[Owner]

M == INSTANCE Mutex WITH
        owner   <- Owner,
        nesting <- Nesting,
        waiting <- {t \in Thread : pc[t] \in {"down", "wait"}}

(* The safety half: every step of the lock is a step of the mutex or none. *)
StepsOfMutex == M!MutexInit /\ [][M!MutexNext]_(M!mutex)

(* The mutex whole: besides, a lock that stays free is granted to one of   *)
(* the threads that wait for it.                                           *)
ImplementsMutex == M!MutexSpec
===========================================================================
