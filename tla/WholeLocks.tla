----------------------------- MODULE WholeLocks -----------------------------
(***************************************************************************)
(* lock_acquire and lock_release of thread/sync.c as one step each, for    *)
(* components that hold a lock without nesting it.  Module Locks has their *)
(* single statements, and shows that the lock is a mutex all the same.     *)
(***************************************************************************)
EXTENDS Threads

CONSTANT nobody  \* the null pointer

ASSUME WholeLocksAssumption == nobody \notin Thread

Lock == [semaphore : Semaphore, holder : Thread \cup {nobody}]

lock_init == [semaphore |-> sema_init(1), holder |-> nobody]

IsFree(lock) == MayPass(lock.semaphore)

(* A turn of the caller in lock_acquire: it gets a free lock, or it waits  *)
(* for another one and comes back here.                                    *)
acquire_turn(s, lock) ==
    LET turn == sema_down_turn(s, lock.semaphore)
    IN  [ sched |-> turn.sched,
          lock  |-> [ semaphore |-> turn.sem,
                      holder    |-> IF IsFree(lock) THEN s.cur ELSE lock.holder ] ]

(* Mutant: the lock is given up and nobody is woken.                       *)
ReleaseWakesNobody(s, lock) == [sched |-> s, lock |-> [lock EXCEPT !.holder = nobody, !.semaphore.value = 1]]

release(s, lock) ==
    LET up == sema_up(s, lock.semaphore)
    IN  [ sched |-> Assert_(s, lock.holder = s.cur, up.sched),
          lock  |-> [semaphore |-> up.sem, holder |-> nobody] ]

---------------------------------------------------------------------------
(* A lock is exact when its semaphore is 1 without a holder and 0 with one. *)
LockIsExact(lock) ==
    /\ lock \in Lock
    /\ lock.semaphore.value = IF lock.holder = nobody THEN 1 ELSE 0
    /\ IsInjective(lock.semaphore.waiters)
=============================================================================
