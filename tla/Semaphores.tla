---------------------------- MODULE Semaphores ----------------------------
(***************************************************************************)
(* sema_down and sema_up of thread/sync.c as operators on the pair of a    *)
(* scheduler state and a semaphore [value, waiters].  Both disable         *)
(* interrupts, so each is atomic up to the context switch in thread_block. *)
(***************************************************************************)
EXTENDS Scheduler

Semaphore == [value : Nat, waiters : Seq(Thread)]

sema_init(value) == [value |-> value, waiters |-> <<>>]

(* One turn of sema_down's loop.  Either the caller takes the semaphore    *)
(* and returns, or it queues itself, gives up the processor, and comes     *)
(* back to the loop's condition when it runs again.                        *)
MayPass(sem) == sem.value # 0

(* Mutant: value is not lowered.                                           *)
PassKeepsValue(s, sem) == [sched |-> Assert_(s, sem.value = 1, s), sem |-> sem]

PassSemaphore(s, sem) ==
    [ sched |-> Assert_(s, sem.value = 1, s),
      sem   |-> [sem EXCEPT !.value = @ - 1] ]

WaitForSemaphore(s, sem) ==
    [ sched |-> Assert_(s, ~elem_find(sem.waiters, s.cur),
                        thread_block(s, "TASK_BLOCKED")),
      sem   |-> [sem EXCEPT !.waiters = Append(@, s.cur)] ]

sema_down_turn(s, sem) ==
    IF MayPass(sem) THEN PassSemaphore(s, sem) ELSE WaitForSemaphore(s, sem)

(* Mutant: the waiter is popped but never woken.                           *)
WakeNobody(s, sem) == s

(* sema_up wakes the first waiter, which becomes ready but does not yet    *)
(* own the semaphore: it still has to find value # 0 when it runs.         *)
WakeFirst(s, sem) ==
    IF sem.waiters = <<>> THEN s ELSE thread_unblock(s, Head(sem.waiters))

sema_up(s, sem) ==
    [ sched |-> Assert_(s, sem.value = 0, WakeFirst(s, sem)),
      sem   |-> [ value   |-> sem.value + 1,
                  waiters |-> IF sem.waiters = <<>>
                              THEN <<>> ELSE Tail(sem.waiters) ] ]
===========================================================================
