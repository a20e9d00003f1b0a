------------------------------- MODULE Mutex -------------------------------
(***************************************************************************)
(* What lock_acquire and lock_release of thread/sync.c promise, whatever   *)
(* the scheduler does: a reentrant lock with at most one owner, which is   *)
(* granted to some waiting thread whenever it stays free.                  *)
(***************************************************************************)
EXTENDS Naturals

CONSTANTS Thread, nobody

VARIABLES
    owner,    \* the thread that lock_acquire has let in, or nobody
    nesting,  \* how many lock_release calls the owner still owes
    waiting   \* the threads inside of lock_acquire

mutex == <<owner, nesting, waiting>>

MutexInit == owner = nobody /\ nesting = 0 /\ waiting = {}

Request(t) ==
    /\ owner # t
    /\ t \notin waiting
    /\ waiting' = waiting \cup {t}
    /\ UNCHANGED <<owner, nesting>>

Grant(t) ==
    /\ t \in waiting
    /\ owner = nobody
    /\ owner' = t
    /\ nesting' = 1
    /\ waiting' = waiting \ {t}

Nest(t) ==
    /\ owner = t
    /\ nesting' = nesting + 1
    /\ UNCHANGED <<owner, waiting>>

Leave(t) ==
    /\ owner = t
    /\ nesting' = nesting - 1
    /\ owner' = IF nesting = 1 THEN nobody ELSE t
    /\ UNCHANGED waiting

GrantSome == \E t \in Thread : Grant(t)

MutexNext ==
    \E t \in Thread : Request(t) \/ Grant(t) \/ Nest(t) \/ Leave(t)

MutexSpec == MutexInit /\ [][MutexNext]_mutex /\ WF_mutex(GrantSome)
===========================================================================
