---------------------------- MODULE IoQueueProofs ----------------------------
(***************************************************************************)
(* The keyboard's queue for any number of readers, any ring and any        *)
(* characters: Inv of module IoQueue is inductive, the safety properties   *)
(* follow from it, and the ring implements the bounded queue Fifo.         *)
(***************************************************************************)
EXTENDS IoQueue, WholeLocksProofs

USE DEF Running, Goto, threads, vars

Parts(s, p, q) ==
    /\ Consistent(s)
    /\ p \in [Thread -> Labels]
    /\ p[idle_thread] \in {"first"} \cup IdleLabels
    /\ QueueIsConsistent(s, p, q)

---------------------------------------------------------------------------
(* The pieces of the steps                                                 *)

(* Steps that move only threads outside of the queue keep it consistent.   *)
LEMMA Undisturbed ==
    ASSUME NEW s, NEW r, NEW p, NEW n, NEW q, QueueIsConsistent(s, p, q),
           OutsideMoves(p, n), InsideSleepsOn(s, r, p)
    PROVE  QueueIsConsistent(r, n, q)
<1>1. \A t \in Thread : /\ n[t] = "wait" <=> p[t] = "wait"
                        /\ n[t] = "slept" <=> p[t] = "slept"
                        /\ p[t] \in {"wait", "slept"} => (Asleep(r, t) <=> Asleep(s, t))
  BY DEF OutsideMoves, InsideSleepsOn, Plain, IdleLabels
<1>2. SlotIsHolders(r, n, q)
  BY <1>1 DEF QueueIsConsistent, SlotIsHolders
<1>3. WaitersAreListed(r, n, q)
  BY <1>1 DEF QueueIsConsistent, WaitersAreListed
<1>4. SingleReaderFits(n, q)
  BY <1>1 DEF QueueIsConsistent, SingleReaderFits
<1> QED BY <1>1, <1>2, <1>3, <1>4 DEF QueueIsConsistent

(* The ring's positions stay inside of it.                                 *)
LEMMA NextPos ==
    ASSUME NEW pos \in 0 .. bufsize - 1
    PROVE  /\ next_pos(pos) \in 0 .. bufsize - 1
           /\ next_pos(pos) = IF pos = bufsize - 1 THEN 0 ELSE pos + 1
<1>1. bufsize \in Nat \ {0}
  BY IoQueueAssumption
<1>2. CASE pos = bufsize - 1
  BY <1>1, <1>2 DEF next_pos
<1>3. CASE pos # bufsize - 1
  <2>1. pos + 1 \in 0 .. bufsize - 1
    BY <1>1, <1>3
  <2>2. (pos + 1) % bufsize = pos + 1
    BY <1>1, <2>1
  <2> QED BY <1>3, <2>1, <2>2 DEF next_pos
<1> QED BY <1>2, <1>3

(* A character that is put into the ring, when nobody sleeps for it.       *)
LEMMA PutFits ==
    ASSUME NEW s, NEW p, NEW q, QueueIsConsistent(s, p, q), NEW c \in Char,
           q.consumer = nobody
    PROVE  QueueIsConsistent(s, p, PutChar(q, c))
<1> DEFINE r == PutChar(q, c)
<1>1. q \in Queue
  BY DEF QueueIsConsistent
<1>2. /\ r \in Queue
      /\ r.lock = q.lock /\ r.consumer = q.consumer
  BY <1>1, NextPos DEF Queue, PutChar
<1> HIDE DEF r
<1>3. QueueIsConsistent(s, p, r)
  BY <1>2
  DEF QueueIsConsistent, SlotIsHolders, WaitersAreListed, SingleReaderFits
<1> QED BY <1>3 DEF r

(* The same when a reader sleeps in the slot: it is woken.                 *)
LEMMA PutWakes ==
    ASSUME NEW s, NEW p, NEW q, Parts(s, p, q), NEW c \in Char,
           q.consumer # nobody
    PROVE  LET r == wakeup(s, PutChar(q, c))
           IN  /\ Parts(r.sched, p, r.ioq)
               /\ OnlyThese(s, r.sched, {q.consumer})
<1> DEFINE t == q.consumer
           f == PutChar(q, c)
           r == wakeup(s, f)
<1>1. q \in Queue
  BY DEF Parts, QueueIsConsistent
<1>2. /\ f \in Queue
      /\ f.lock = q.lock /\ f.consumer = t
  BY <1>1, NextPos DEF Queue, PutChar
<1>3. /\ t \in Thread /\ t = q.lock.holder
      /\ p[t] = "slept" /\ Asleep(s, t)
  BY <1>1 DEF Parts, QueueIsConsistent, SlotIsHolders, Queue
<1> HIDE DEF f
<1>4. /\ r.sched = thread_unblock(s, t)
      /\ r.ioq \in Queue
      /\ r.ioq.lock = q.lock
      /\ r.ioq.consumer = nobody
  BY <1>2 DEF wakeup, Queue
<1>5. /\ Consistent(r.sched)
      /\ ~Asleep(r.sched, t)
      /\ OnlyThese(s, r.sched, {t})
  <2> HIDE DEF r, t
  <2> QED BY <1>3, <1>4, UnblockRunning DEF Parts, Asleep, Sleeping
<1> HIDE DEF r, t
<1>6. \A u \in Thread \ {t} : Asleep(r.sched, u) <=> Asleep(s, u)
  BY <1>5 DEF OnlyThese
<1>7. SlotIsHolders(r.sched, p, r.ioq)
  BY <1>3, <1>4, <1>5, <1>6, WholeLocksAssumption
  DEF Parts, QueueIsConsistent, SlotIsHolders
<1>8. WaitersAreListed(r.sched, p, r.ioq)
  BY <1>3, <1>4, <1>6 DEF Parts, QueueIsConsistent, WaitersAreListed
<1>9. SingleReaderFits(p, r.ioq)
  BY <1>4 DEF Parts, QueueIsConsistent, SingleReaderFits
<1> QED BY <1>4, <1>5, <1>7, <1>8, <1>9 DEF Parts, QueueIsConsistent, r, t, f

(* A reader t that is in the kernel with the lock free or held by another  *)
(* goes to sleep: in the slot, or in the lock's list.                      *)
LEMMA SleepFits ==
    ASSUME NEW s, NEW p, NEW q, Parts(s, p, q),
           NEW t \in Thread, s.cur = t, t # idle_thread, t \in readers,
           p[t] \in {"run", "wait"},
           p[t] = "run" => ioq_empty(q)
    PROVE  LET r == AcquireAndWait(s, q)
           IN  /\ Parts(r.sched, [p EXCEPT ![t] = WaitingFor(q)], r.ioq)
               /\ OnlyThese(s, r.sched, {t, idle_thread})
<1> DEFINE turn == acquire_turn(s, q.lock)
           next == [q EXCEPT !.lock = turn.lock]
           r    == AcquireAndWait(s, q)
           n    == [p EXCEPT ![t] = WaitingFor(q)]
<1>1. /\ q \in Queue /\ LockIsExact(q.lock)
      /\ Consistent(s) /\ ~Asleep(s, t) /\ ~s.panic
      /\ ~elem_find(q.lock.semaphore.waiters, t)
      /\ q.lock.holder # t
      /\ p[idle_thread] \in {"first"} \cup IdleLabels
  BY DEF Parts, QueueIsConsistent, SlotIsHolders, WaitersAreListed,
         Consistent, Asleep, Sleeping
<1>2. /\ n \in [Thread -> Labels]
      /\ n[t] = WaitingFor(q)
      /\ \A u \in Thread \ {t} : n[u] = p[u]
  BY DEF Parts, WaitingFor, Labels, Masked
<1>3. CASE IsFree(q.lock)
  <2>1. /\ turn.sched = s
        /\ LockIsExact(turn.lock)
        /\ turn.lock.holder = t
        /\ turn.lock.semaphore.waiters = q.lock.semaphore.waiters
        /\ q.lock.holder = nobody
    BY <1>1, <1>3, AcquireFree
  <2>2. q.consumer = nobody
    BY <2>1 DEF Parts, QueueIsConsistent, SlotIsHolders
  <2> HIDE DEF turn
  <2>3. next \in Queue /\ next.consumer = nobody /\ next.lock = turn.lock
        /\ (ioq_empty(next) <=> ioq_empty(q))
    BY <1>1, <2>1, <2>2 DEF Queue, LockIsExact, ioq_empty
  <2>4. r = ioq_wait(s, next)
    BY <1>3, <2>1 DEF AcquireAndWait, turn
  <2> HIDE DEF next
  <2>5. /\ r.sched = thread_block(s, "TASK_BLOCKED")
        /\ r.ioq \in Queue
        /\ r.ioq.lock = turn.lock
        /\ r.ioq.consumer = t
        /\ ioq_empty(r.ioq) <=> ioq_empty(q)
    BY <1>1, <2>3, <2>4 DEF ioq_wait, Assert_, Queue, ioq_empty
  <2> HIDE DEF r
  <2>6. /\ Consistent(r.sched) /\ Asleep(r.sched, t)
        /\ OnlyThese(s, r.sched, {t, idle_thread})
    BY <1>1, <2>5, BlockConsistent DEF Sleeping
  <2>7. \A u \in Thread \ {t, idle_thread} : Asleep(r.sched, u) <=> Asleep(s, u)
    BY <2>6 DEF OnlyThese
  <2>8. n[t] = "slept"
    BY <1>2, <1>3 DEF WaitingFor
  <2>9. n[idle_thread] \in {"first"} \cup IdleLabels
    BY <1>1, <1>2, SchedulerAssumption
  <2> HIDE DEF n
  <2>10. SlotIsHolders(r.sched, n, r.ioq)
    BY <1>1, <1>2, <2>1, <2>5, <2>6, <2>7, <2>8, WholeLocksAssumption
    DEF Parts, QueueIsConsistent, SlotIsHolders
  <2>11. WaitersAreListed(r.sched, n, r.ioq)
    BY <1>1, <1>2, <2>1, <2>5, <2>7, <2>8, <2>9, WholeLocksAssumption
    DEF Parts, QueueIsConsistent, WaitersAreListed, IdleLabels, elem_find
  <2>12. SingleReaderFits(n, r.ioq)
    BY <1>2, <2>1, <2>5, <2>8
    DEF Parts, QueueIsConsistent, SingleReaderFits
  <2>13. \A u \in Thread : n[u] \in {"wait", "slept"} => u \in readers
    BY <1>2 DEF Parts, QueueIsConsistent
  <2>14. Parts(r.sched, n, r.ioq)
    BY <1>2, <2>5, <2>6, <2>9, <2>10, <2>11, <2>12, <2>13
    DEF Parts, QueueIsConsistent
  <2> QED BY <2>6, <2>14 DEF r, n
<1>4. CASE ~IsFree(q.lock)
  <2>1. /\ Consistent(turn.sched)
        /\ Asleep(turn.sched, t)
        /\ OnlyThese(s, turn.sched, {t, idle_thread})
        /\ LockIsExact(turn.lock)
        /\ turn.lock.holder = q.lock.holder
        /\ turn.lock.semaphore.waiters = Append(q.lock.semaphore.waiters, t)
        /\ Range(turn.lock.semaphore.waiters)
             = Range(q.lock.semaphore.waiters) \cup {t}
        /\ q.lock.holder # nobody
    BY <1>1, <1>4, AcquireHeld
  <2>2. r = [sched |-> turn.sched, ioq |-> next]
    BY <1>4 DEF AcquireAndWait
  <2> HIDE DEF turn
  <2>3. /\ next \in Queue /\ next.consumer = q.consumer /\ next.lock = turn.lock
    BY <1>1, <2>1 DEF Queue, LockIsExact
  <2>4. r.sched = turn.sched /\ r.ioq = next
    BY <2>2
  <2> HIDE DEF next, r
  <2>5. \A u \in Thread \ {t, idle_thread} : Asleep(r.sched, u) <=> Asleep(s, u)
    BY <2>1, <2>4 DEF OnlyThese
  <2>6. n[t] = "wait"
    BY <1>2, <1>4 DEF WaitingFor
  <2>7. n[idle_thread] \in {"first"} \cup IdleLabels
    BY <1>1, <1>2, SchedulerAssumption
  <2>8. q.lock.holder \in readers \ {t}
    BY <1>1, <2>1 DEF Parts, QueueIsConsistent, SlotIsHolders, Queue, Lock
  <2> HIDE DEF n
  <2>9. SlotIsHolders(r.sched, n, r.ioq)
    BY <1>1, <1>2, <2>1, <2>3, <2>4, <2>5, <2>6, <2>7
    DEF Parts, QueueIsConsistent, SlotIsHolders, IdleLabels
  <2>10. WaitersAreListed(r.sched, n, r.ioq)
    BY ZenonT(120), <1>1, <1>2, <2>1, <2>3, <2>4, <2>5, <2>6, <2>7
    DEF Parts, QueueIsConsistent, WaitersAreListed, IdleLabels, elem_find
  <2>11. SingleReaderFits(n, r.ioq)
    BY <2>8 DEF SingleReaderFits
  <2>12. \A u \in Thread : n[u] \in {"wait", "slept"} => u \in readers
    BY <1>2 DEF Parts, QueueIsConsistent
  <2>13. Parts(r.sched, n, r.ioq)
    BY <1>2, <2>1, <2>3, <2>4, <2>7, <2>9, <2>10, <2>11, <2>12
    DEF Parts, QueueIsConsistent
  <2> QED BY <2>1, <2>4, <2>13 DEF r, n
<1> QED BY <1>3, <1>4

(* The holder wakes up and releases the lock.                              *)
LEMMA ReleaseFits ==
    ASSUME NEW s, NEW p, NEW q, Parts(s, p, q),
           NEW t \in Thread, s.cur = t, p[t] = "slept"
    PROVE  LET freed == release(s, q.lock)
           IN  /\ Parts(freed.sched, [p EXCEPT ![t] = "run"],
                        [q EXCEPT !.lock = freed.lock])
               /\ freed.sched.cur = t
               /\ OnlyThese(s, freed.sched, Thread)
<1> DEFINE freed == release(s, q.lock)
           r == [q EXCEPT !.lock = freed.lock]
           n == [p EXCEPT ![t] = "run"]
           old == q.lock.semaphore.waiters
           first == Head(old)
<1>1. /\ q \in Queue /\ LockIsExact(q.lock)
      /\ Consistent(s) /\ ~Asleep(s, t)
      /\ q.lock.holder = t
      /\ \A u \in Thread : elem_find(old, u) <=> p[u] = "wait" /\ Asleep(s, u)
  BY DEF Parts, QueueIsConsistent, SlotIsHolders, WaitersAreListed,
         Consistent, Asleep, Sleeping
<1>2. /\ Consistent(freed.sched)
      /\ freed.sched.cur = t
      /\ LockIsExact(freed.lock)
      /\ freed.lock.holder = nobody
      /\ old = <<>> => freed.sched = s /\ freed.lock.semaphore.waiters = <<>>
      /\ old # <<>> => /\ first \in Thread
                       /\ elem_find(old, first)
                       /\ ~Asleep(freed.sched, first)
                       /\ OnlyThese(s, freed.sched, {first})
                       /\ Range(freed.lock.semaphore.waiters) = Range(old) \ {first}
  <2>1. \A u \in Thread : elem_find(q.lock.semaphore.waiters, u) => Asleep(s, u)
    BY <1>1
  <2>2. LockIsExact(q.lock) /\ q.lock.holder = s.cur /\ Consistent(s)
    BY <1>1
  <2> QED BY <2>1, <2>2, ReleaseHeld, Zenon DEF elem_find
<1> HIDE DEF freed
<1>3. /\ r \in Queue
      /\ r.lock = freed.lock
      /\ r.consumer = q.consumer
      /\ ioq_empty(r) <=> ioq_empty(q)
  BY <1>1, <1>2 DEF Queue, LockIsExact, ioq_empty
<1>4. /\ n \in [Thread -> Labels]
      /\ n[t] = "run"
      /\ \A u \in Thread \ {t} : n[u] = p[u]
  BY DEF Parts, Labels
<1>5. OnlyThese(s, freed.sched, Thread)
  BY <1>2 DEF OnlyThese
<1>6. \A u \in Thread : p[u] = "slept" => u = t
  BY <1>1 DEF Parts, QueueIsConsistent, SlotIsHolders
<1>7. q.consumer = nobody
  BY <1>1 DEF Parts, QueueIsConsistent, SlotIsHolders
<1>8. n[idle_thread] \in {"first"} \cup IdleLabels
  BY <1>4, SchedulerAssumption DEF Parts, IdleLabels
<1> HIDE DEF n, r, first, old
<1>9. SlotIsHolders(freed.sched, n, r)
  BY <1>2, <1>3, <1>4, <1>6, <1>7, WholeLocksAssumption DEF SlotIsHolders
<1>10. WaitersAreListed(freed.sched, n, r)
  <2>1. CASE old = <<>>
    <3>1. \A u \in Thread : ~elem_find(freed.lock.semaphore.waiters, u)
      BY <1>2, <2>1 DEF elem_find, Range
    <3>2. \A u \in Thread : ~elem_find(old, u)
      BY <2>1 DEF elem_find, Range
    <3> QED BY <1>1, <1>2, <1>3, <1>4, <2>1, <3>1, <3>2 DEF WaitersAreListed
  <2>2. CASE old # <<>>
    <3>1. \A u \in Thread \ {first} : Asleep(freed.sched, u) <=> Asleep(s, u)
      BY <1>2, <2>2 DEF OnlyThese
    <3>2. p[first] = "wait" /\ n[first] = "wait"
      BY <1>1, <1>2, <1>4, <2>2
    <3>3. \A u \in Thread : elem_find(freed.lock.semaphore.waiters, u)
                               <=> n[u] = "wait" /\ Asleep(freed.sched, u)
      BY <1>1, <1>2, <1>4, <2>2, <3>1, <3>2 DEF elem_find
    <3> QED BY <1>2, <1>3, <2>2, <3>2, <3>3 DEF WaitersAreListed
  <2> QED BY <2>1, <2>2
<1>11. SingleReaderFits(n, r)
  BY <1>2, <1>3, <1>4, <1>7 DEF Parts, QueueIsConsistent, SingleReaderFits, old
<1>12. \A u \in Thread : n[u] \in {"wait", "slept"} => u \in readers
  BY <1>4 DEF Parts, QueueIsConsistent
<1>13. Parts(freed.sched, n, r)
  BY <1>2, <1>3, <1>4, <1>8, <1>9, <1>10, <1>11, <1>12 DEF Parts, QueueIsConsistent
<1> QED BY <1>2, <1>5, <1>13 DEF freed, r, n

(* A reader that is awake and outside of the lock takes a character.       *)
LEMMA TakeFits ==
    ASSUME NEW s, NEW p, NEW q, Parts(s, p, q),
           NEW t \in Thread, t \in readers, p[t] = "run"
    PROVE  /\ Parts(s, p, [q EXCEPT !.tail = next_pos(@)])
           /\ q.buf[q.tail] \in Char
<1> DEFINE r == [q EXCEPT !.tail = next_pos(q.tail)]
<1>1. q \in Queue
  BY DEF Parts, QueueIsConsistent
<1>2. /\ r \in Queue
      /\ r.lock = q.lock /\ r.consumer = q.consumer
      /\ q.buf[q.tail] \in Char
  BY <1>1, NextPos DEF Queue
<1> HIDE DEF r
<1>3. \A u \in Thread : readers = {u} => q.consumer = nobody
  BY <1>1 DEF Parts, QueueIsConsistent, SlotIsHolders, Queue
<1>4. SlotIsHolders(s, p, r) /\ WaitersAreListed(s, p, r) /\ SingleReaderFits(p, r)
  BY <1>2, <1>3
  DEF Parts, QueueIsConsistent, SlotIsHolders, WaitersAreListed, SingleReaderFits
<1>5. Parts(s, p, r)
  BY <1>2, <1>4 DEF Parts, QueueIsConsistent
<1> QED BY <1>2, <1>5 DEF r

---------------------------------------------------------------------------
(* The inductive invariant                                                 *)

(* Inv regrouped, in this state and the next.                              *)
LEMMA InvParts ==
    /\ Inv <=> /\ Parts(sched, pc, ioq)
               /\ LabelsFit
               /\ readers \subseteq Process
               /\ retchr \in [Thread -> Char]
    /\ Parts(sched', pc', ioq') /\ LabelsFit' /\ readers' = readers
         /\ readers \subseteq Process /\ retchr' \in [Thread -> Char]
       => Inv'
<1>1. LabelsFit => pc[idle_thread] \in {"first"} \cup IdleLabels
  BY DEF LabelsFit
<1>2. ASSUME Parts(sched', pc', ioq'), readers' = readers
      PROVE  QueueIsConsistent(sched, pc, ioq)'
  BY <1>2 DEF Parts, QueueIsConsistent, SlotIsHolders, WaitersAreListed,
              SingleReaderFits
<1> QED BY <1>1, <1>2 DEF Inv, Parts

(* The loop of ioq_getchar from its condition on, by a reader t that runs  *)
(* outside of the lock: in the state (s, q) in which it gets there.        *)
LEMMA GetCharFits ==
    ASSUME NEW s, NEW q, NEW t \in Thread,
           pc \in [Thread -> Labels],
           Parts(s, [pc EXCEPT ![t] = "run"], q),
           s.cur = t, t # idle_thread, t \in readers,
           retchr \in [Thread -> Char],
           GetChar(t, s, q)
    PROVE  /\ Parts(sched', pc', ioq')
           /\ OnlyThese(s, sched', Thread)
           /\ retchr' \in [Thread -> Char]
           /\ \E l : pc' = [pc EXCEPT ![t] = l]
<1> DEFINE p == [pc EXCEPT ![t] = "run"]
<1>1. p[t] = "run"
  OBVIOUS
<1>2. CASE ~ioq_empty(q)
  <2>1. /\ sched' = s
        /\ ioq' = [q EXCEPT !.tail = next_pos(@)]
        /\ retchr' = [retchr EXCEPT ![t] = q.buf[q.tail]]
        /\ pc' = p
    BY <1>2 DEF GetChar
  <2> HIDE DEF p
  <2>2. Parts(s, p, [q EXCEPT !.tail = next_pos(@)]) /\ q.buf[q.tail] \in Char
    BY <1>1, TakeFits DEF p
  <2> QED BY <2>1, <2>2 DEF OnlyThese, p
<1>3. CASE ioq_empty(q)
  <2> DEFINE r == AcquireAndWait(s, q)
  <2>1. /\ sched' = r.sched
        /\ ioq' = r.ioq
        /\ retchr' = retchr
        /\ pc' = [pc EXCEPT ![t] = WaitingFor(q)]
    BY <1>3 DEF GetChar
  <2>2. [p EXCEPT ![t] = WaitingFor(q)] = [pc EXCEPT ![t] = WaitingFor(q)]
    OBVIOUS
  <2> HIDE DEF p
  <2>3. /\ Parts(r.sched, [p EXCEPT ![t] = WaitingFor(q)], r.ioq)
        /\ OnlyThese(s, r.sched, {t, idle_thread})
    BY <1>1, <1>3, SleepFits DEF p
  <2> HIDE DEF r
  <2> QED BY <2>1, <2>2, <2>3 DEF OnlyThese
<1> QED BY <1>2, <1>3

(* The readers' steps preserve the invariant.                              *)
LEMMA QueueStepInv ==
    ASSUME Inv, NEW t \in Thread, QueueStep(t)
    PROVE  Inv'
<1>1. /\ Parts(sched, pc, ioq) /\ LabelsFit
      /\ pc \in [Thread -> Labels]
      /\ retchr \in [Thread -> Char]
      /\ Consistent(sched)
      /\ sched.cur = t
      /\ readers' = readers /\ readers \subseteq Process
  BY InvParts DEF QueueStep, ioq_getchar, GetLock, WakeUp, Parts
<1>2. t \in readers /\ t # idle_thread
  BY <1>1, ThreadsAssumption
  DEF QueueStep, ioq_getchar, GetLock, WakeUp, Parts, QueueIsConsistent
<1>3. CASE ioq_getchar(t)
  <2>1. [pc EXCEPT ![t] = "run"] = pc
    BY <1>1, <1>3 DEF ioq_getchar
  <2>2. /\ Parts(sched', pc', ioq')
        /\ OnlyThese(sched, sched', Thread)
        /\ retchr' \in [Thread -> Char]
        /\ \E l : pc' = [pc EXCEPT ![t] = l]
    BY <1>1, <1>2, <1>3, <2>1, GetCharFits DEF ioq_getchar
  <2>3. LabelsFit'
    BY <1>1, <1>2, <2>2, RunnerMoves DEF OnlyThese
  <2> QED BY <1>1, <2>2, <2>3, InvParts
<1>4. CASE GetLock(t)
  <2>1. /\ sched' = AcquireAndWait(sched, ioq).sched
        /\ ioq' = AcquireAndWait(sched, ioq).ioq
        /\ pc' = [pc EXCEPT ![t] = WaitingFor(ioq)]
        /\ retchr' = retchr
        /\ pc[t] = "wait"
    BY <1>4 DEF GetLock
  <2>2. /\ Parts(sched', pc', ioq')
        /\ OnlyThese(sched, sched', {t, idle_thread})
    BY <1>1, <1>2, <2>1, SleepFits
  <2>3. LabelsFit'
    BY <1>1, <1>2, <2>1, <2>2, RunnerMoves DEF OnlyThese
  <2> QED BY <1>1, <2>1, <2>2, <2>3, InvParts
<1>5. CASE WakeUp(t)
  <2> DEFINE freed == release(sched, ioq.lock)
             q == [ioq EXCEPT !.lock = freed.lock]
  <2>1. /\ pc[t] = "slept"
        /\ GetChar(t, freed.sched, q)
    BY <1>5 DEF WakeUp
  <2>2. /\ Parts(freed.sched, [pc EXCEPT ![t] = "run"], q)
        /\ freed.sched.cur = t
        /\ OnlyThese(sched, freed.sched, Thread)
    <3>1. Parts(sched, pc, ioq) /\ sched.cur = t /\ pc[t] = "slept"
      BY <1>1, <2>1
    <3> QED BY <3>1, ReleaseFits
  <2> HIDE DEF freed, q
  <2>3. /\ Parts(sched', pc', ioq')
        /\ OnlyThese(freed.sched, sched', Thread)
        /\ retchr' \in [Thread -> Char]
        /\ \E l : pc' = [pc EXCEPT ![t] = l]
    BY <1>1, <1>2, <2>1, <2>2, GetCharFits DEF GetChar
  <2>4. LabelsFit'
    BY <1>1, <1>2, <2>2, <2>3, RunnerMoves DEF OnlyThese
  <2> QED BY <1>1, <2>3, <2>4, InvParts
<1> QED BY <1>3, <1>4, <1>5 DEF QueueStep

(* The keyboard's interrupt preserves the invariant.                       *)
LEMMA KeyboardInv ==
    ASSUME Inv, NEW c \in Char, intr_keyboard_handler(c)
    PROVE  Inv'
<1> USE DEF intr_keyboard_handler
<1>1. /\ Parts(sched, pc, ioq) /\ LabelsFit
      /\ pc \in [Thread -> Labels] /\ Consistent(sched)
      /\ readers' = readers /\ retchr' = retchr
      /\ readers \subseteq Process /\ retchr \in [Thread -> Char]
  BY InvParts DEF Parts
<1>2. /\ pc' \in [Thread -> Labels]
      /\ OutsideMoves(pc, pc')
      /\ pc'[idle_thread] \in {"first"} \cup IdleLabels
      /\ \A t \in Thread \ {idle_thread} : pc'[t] = pc[t]
  BY <1>1, LeaveHaltMoves DEF Plain, Labels, Masked, IdleLabels
<1>3. Parts(sched, pc', ioq)
  BY <1>1, <1>2, Undisturbed DEF Parts, InsideSleepsOn
<1>4. Parts(sched', pc', ioq') /\ OnlyThese(sched, sched', Thread)
  <2>1. CASE ioq_full(ioq)
    BY <1>3, <2>1 DEF OnlyThese
  <2>2. CASE ~ioq_full(ioq) /\ ioq.consumer = nobody
    <3>1. sched' = sched /\ ioq' = PutChar(ioq, c)
      BY <2>2
    <3>2. QueueIsConsistent(sched, pc', ioq')
      BY <1>3, <2>2, <3>1, PutFits DEF Parts
    <3> QED BY <1>3, <3>1, <3>2 DEF Parts, OnlyThese
  <2>3. CASE ~ioq_full(ioq) /\ ioq.consumer # nobody
    <3>1. /\ sched' = wakeup(sched, PutChar(ioq, c)).sched
          /\ ioq' = wakeup(sched, PutChar(ioq, c)).ioq
      BY <2>3
    <3>2. Parts(sched', pc', ioq') /\ OnlyThese(sched, sched', {ioq.consumer})
      BY <1>3, <2>3, <3>1, PutWakes
    <3> QED BY <3>2 DEF OnlyThese
  <2> QED BY <2>1, <2>2, <2>3
<1>5. LabelsFit'
  BY <1>1, <1>2, <1>4, FitAfter DEF Parts
<1> QED BY <1>1, <1>4, <1>5, InvParts

(* Whatever the other threads do preserves the invariant.                  *)
LEMMA OtherInv ==
    ASSUME Inv, ProcessorStep \/ \E t \in Thread : OtherStep(t)
    PROVE  Inv'
<1>1. /\ Parts(sched, pc, ioq) /\ LabelsFit
      /\ pc \in [Thread -> Labels] /\ Consistent(sched)
      /\ readers' = readers /\ retchr' = retchr /\ ioq' = ioq
      /\ readers \subseteq Process /\ retchr \in [Thread -> Char]
  BY InvParts DEF Parts, ProcessorStep, OtherStep
<1>2. ElsewhereStep
  BY DEF ProcessorStep, OtherStep, ElsewhereStep
<1>3. /\ Consistent(sched')
      /\ LabelsFit'
      /\ pc' \in [Thread -> Labels]
      /\ OutsideMoves(pc, pc')
      /\ InsideSleepsOn(sched, sched', pc)
  BY <1>1, <1>2, Elsewhere DEF Plain, Labels, Masked, IdleLabels
<1>4. QueueIsConsistent(sched', pc', ioq')
  BY <1>1, <1>3, Undisturbed DEF Parts
<1>5. Parts(sched', pc', ioq')
  BY <1>3, <1>4 DEF Parts, LabelsFit
<1> QED BY <1>1, <1>3, <1>5, InvParts

(* init_ioqueue, thread_init.                                              *)
LEMMA InitInv == Init => Inv
<1> SUFFICES ASSUME Init PROVE Inv
  OBVIOUS
<1>1. /\ Consistent(sched) /\ LabelsFit
      /\ pc = [t \in Thread |-> "first"]
  BY ThreadsInitFits DEF Init, ThreadsInit
<1>2. PICK c \in Char :
        /\ ioq = [ lock |-> lock_init, consumer |-> nobody,
                   buf |-> [i \in 0 .. bufsize - 1 |-> c], head |-> 0, tail |-> 0 ]
        /\ retchr = [t \in Thread |-> c]
  BY DEF Init
<1>3. LockIsExact(lock_init) /\ lock_init.holder = nobody
      /\ lock_init.semaphore.waiters = <<>>
  BY DEF LockIsExact, lock_init, sema_init, Lock, Semaphore, IsInjective
<1>4. ioq \in Queue
  BY <1>2, <1>3, IoQueueAssumption DEF Queue, LockIsExact
<1>5. \A t : ~elem_find(<<>>, t)
  BY DEF elem_find, Range
<1>6. QueueIsConsistent(sched, pc, ioq)
  BY <1>1, <1>2, <1>3, <1>4, <1>5, WholeLocksAssumption
  DEF QueueIsConsistent, SlotIsHolders, WaitersAreListed, SingleReaderFits
<1> QED BY <1>1, <1>2, <1>6 DEF Inv, Init, Labels, Masked

---------------------------------------------------------------------------
(* Safety                                                                  *)

(* Inv is inductive.                                                       *)
LEMMA NextInv == Inv /\ [Next]_vars => Inv'
<1> SUFFICES ASSUME Inv, [Next]_vars PROVE Inv'
  OBVIOUS
<1>1. CASE ProcessorStep \/ \E t \in Thread : OtherStep(t)
  BY <1>1, OtherInv
<1>2. ASSUME NEW c \in Char, intr_keyboard_handler(c) PROVE Inv'
  BY <1>2, KeyboardInv
<1>3. ASSUME NEW t \in Thread, QueueStep(t) PROVE Inv'
  BY <1>3, QueueStepInv
<1>4. CASE UNCHANGED vars
  <2>1. Parts(sched', pc', ioq')
    BY <1>4, InvParts
  <2>2. LabelsFit'
    BY <1>4, InvParts DEF LabelsFit, Unborn
  <2> QED BY <1>4, <2>1, <2>2, InvParts
<1> QED BY <1>1, <1>2, <1>3, <1>4 DEF Next

(* However many readers there are and however they and the keyboard are    *)
(* interleaved, the invariant of the queue holds.                          *)
THEOREM Invariance == Spec => []Inv
BY InitInv, NextInv, PTL DEF Spec

(* No ASSERT of ioqueue.c, sync.c and thread.c fails: the slot is free     *)
(* when a reader goes to sleep in it, whoever is woken sleeps, and only    *)
(* the lock's holder releases it.                                          *)
THEOREM NoPanicEver == Spec => []NoPanic
<1>1. Inv => NoPanic
  BY DEF Inv, Consistent, NoPanic
<1> QED BY <1>1, Invariance, PTL

(* A reader never queues for the lock of ioq_getchar without a thread that *)
(* will release it.                                                        *)
THEOREM WaitersAreWoken == Spec => []WaitersHaveAWaker
<1>1. Inv => WaitersHaveAWaker
  <2> SUFFICES ASSUME Inv, ioq.lock.semaphore.waiters # <<>>, ioq.consumer = nobody
               PROVE  \E t \in readers :
                         /\ pc[t] \in {"wait", "slept"}
                         /\ sched.status[t] \in {"TASK_READY", "TASK_RUNNING"}
    BY DEF WaitersHaveAWaker
  <2>1. PICK t \in Thread : pc[t] \in {"wait", "slept"} /\ ~Asleep(sched, t)
    <3>1. CASE ioq.lock.holder = nobody
      BY <3>1 DEF Inv, QueueIsConsistent, WaitersAreListed
    <3>2. CASE ioq.lock.holder # nobody
      <4>1. ioq.lock.holder \in Thread
        BY <3>2 DEF Inv, QueueIsConsistent, Queue, Lock
      <4> QED BY <4>1, WholeLocksAssumption DEF Inv, QueueIsConsistent, SlotIsHolders
    <3> QED BY <3>1, <3>2
  <2>2. t \in readers
    BY <2>1 DEF Inv, QueueIsConsistent
  <2>3. sched.status[t] \in Status \ (Sleeping \cup {"unborn"})
    BY <2>1 DEF Inv, Consistent, SchedulerState, Asleep, LabelsFit, Unborn
  <2> QED BY <2>1, <2>2, <2>3 DEF Status
<1> QED BY <1>1, Invariance, PTL

(* As long as one process reads, the consumer in the slot is a thread that *)
(* waits for an empty queue.                                               *)
THEOREM SingleConsumer == Spec => []OneConsumerMeansEmpty
<1>1. Inv => OneConsumerMeansEmpty
  BY ThreadsAssumption
  DEF Inv, QueueIsConsistent, SingleReaderFits, OneConsumerMeansEmpty
<1> QED BY <1>1, Invariance, PTL

---------------------------------------------------------------------------
(* The ring implements the bounded queue                                   *)

(* A position that has run past the end of the ring by less than a ring.   *)
LEMMA Wrap ==
    ASSUME NEW x \in 0 .. 2 * bufsize - 1
    PROVE  x % bufsize = IF x < bufsize THEN x ELSE x - bufsize
<1>1. bufsize \in Nat \ {0}
  BY IoQueueAssumption
<1>2. CASE x < bufsize
  BY <1>1, <1>2
<1>3. CASE x >= bufsize
  <2>1. x - bufsize \in 0 .. bufsize - 1
    BY <1>1, <1>3
  <2>2. (x - bufsize) % bufsize = x - bufsize
    BY <1>1, <2>1
  <2>3. x % bufsize = (x - bufsize) % bufsize
    BY <1>1, <1>3
  <2> QED BY <1>1, <1>3, <2>1, <2>2, <2>3
<1> QED BY <1>1, <1>2, <1>3

(* The number of characters in the ring, and the i-th of them.             *)
Filled(q) == (q.head + bufsize - q.tail) % bufsize

At(q, i) == q.buf[(q.tail + i - 1) % bufsize]

ContentsOf(q) == [i \in 1 .. Filled(q) |-> At(q, i)]

LEMMA FilledIs ==
    ASSUME NEW q \in Queue
    PROVE  /\ Filled(q) \in 0 .. bufsize - 1
           /\ Filled(q) = IF q.head < q.tail THEN q.head + bufsize - q.tail
                                             ELSE q.head - q.tail
           /\ ioq_empty(q) <=> Filled(q) = 0
           /\ ~ioq_full(q) <=> Filled(q) < bufsize - 1
<1>1. /\ bufsize \in Nat \ {0}
      /\ q.head \in 0 .. bufsize - 1 /\ q.tail \in 0 .. bufsize - 1
  BY IoQueueAssumption DEF Queue
<1>2. q.head + bufsize - q.tail \in 0 .. 2 * bufsize - 1
  BY <1>1
<1>3. Filled(q) = IF q.head < q.tail THEN q.head + bufsize - q.tail
                                     ELSE q.head - q.tail
  BY <1>1, <1>2, Wrap DEF Filled
<1>4. next_pos(q.head) = IF q.head = bufsize - 1 THEN 0 ELSE q.head + 1
  BY <1>1, NextPos
<1> QED BY <1>1, <1>3, <1>4 DEF ioq_empty, ioq_full

LEMMA AtIs ==
    ASSUME NEW q \in Queue, NEW i \in 1 .. bufsize
    PROVE  /\ At(q, i) = q.buf[IF q.tail + i - 1 < bufsize THEN q.tail + i - 1
                               ELSE q.tail + i - 1 - bufsize]
           /\ At(q, i) \in Char
<1>1. /\ bufsize \in Nat \ {0}
      /\ q.tail \in 0 .. bufsize - 1
      /\ q.buf \in [0 .. bufsize - 1 -> Char]
  BY IoQueueAssumption DEF Queue
<1> DEFINE x == q.tail + i - 1
<1>2. x \in 0 .. 2 * bufsize - 1
  BY <1>1
<1>3. x % bufsize = IF x < bufsize THEN x ELSE x - bufsize
  <2> HIDE DEF x
  <2> QED BY <1>2, Wrap
<1>4. (IF x < bufsize THEN x ELSE x - bufsize) \in 0 .. bufsize - 1
  BY <1>1, <1>2
<1>5. At(q, i) = q.buf[x % bufsize]
  BY DEF At
<1>6. At(q, i) \in Char
  <2> HIDE DEF x
  <2> QED BY <1>1, <1>3, <1>4, <1>5
<1>7. At(q, i) = q.buf[IF x < bufsize THEN x ELSE x - bufsize]
  <2> HIDE DEF x
  <2> QED BY <1>3, <1>5
<1> QED BY <1>1, <1>6, <1>7

LEMMA ContentsAre ==
    ASSUME NEW q \in Queue
    PROVE  /\ ContentsOf(q) \in Seq(Char)
           /\ Len(ContentsOf(q)) = Filled(q)
           /\ \A i \in 1 .. Filled(q) : ContentsOf(q)[i] = At(q, i)
<1>1. Filled(q) \in 0 .. bufsize - 1 /\ bufsize \in Nat \ {0}
  BY FilledIs, IoQueueAssumption
<1>2. \A i \in 1 .. Filled(q) : At(q, i) \in Char
  BY <1>1, AtIs
<1>3. ContentsOf(q) \in [1 .. Filled(q) -> Char]
  BY <1>2 DEF ContentsOf
<1>4. Filled(q) \in Nat
  BY <1>1
<1> QED BY <1>3, <1>4, SeqDef DEF ContentsOf

(* ioq_putchar on a ring that is not full appends.                         *)
LEMMA PutAppends ==
    ASSUME NEW q \in Queue, NEW c \in Char, ~ioq_full(q)
    PROVE  /\ ContentsOf(PutChar(q, c)) = Append(ContentsOf(q), c)
           /\ Len(ContentsOf(q)) < bufsize - 1
<1> DEFINE r == PutChar(q, c)
           old == ContentsOf(q)
           new == ContentsOf(r)
           n == Filled(q)
<1>0. /\ bufsize \in Nat \ {0}
      /\ q.head \in 0 .. bufsize - 1 /\ q.tail \in 0 .. bufsize - 1
      /\ q.buf \in [0 .. bufsize - 1 -> Char]
  BY IoQueueAssumption DEF Queue
<1>1. /\ r \in Queue
      /\ r.tail = q.tail
      /\ r.head = next_pos(q.head)
      /\ r.buf = [q.buf EXCEPT ![q.head] = c]
  BY NextPos DEF Queue, PutChar
<1> HIDE DEF r
<1>2. next_pos(q.head) = IF q.head = bufsize - 1 THEN 0 ELSE q.head + 1
  BY <1>0, NextPos
<1>3. /\ n \in 0 .. bufsize - 2
      /\ n = IF q.head < q.tail THEN q.head + bufsize - q.tail ELSE q.head - q.tail
  BY <1>0, FilledIs
<1>4. Filled(r) = n + 1
  <2>1. Filled(r) = IF r.head < r.tail THEN r.head + bufsize - r.tail
                                       ELSE r.head - r.tail
    BY <1>1, FilledIs
  <2>2. q.tail # r.head
    BY <1>1 DEF ioq_full
  <2>3. r.tail = q.tail /\ r.head = next_pos(q.head)
    BY <1>1
  <2>4. CASE q.head = bufsize - 1
    BY <1>0, <1>2, <1>3, <2>1, <2>2, <2>3, <2>4
  <2>5. CASE q.head # bufsize - 1
    BY <1>0, <1>2, <1>3, <2>1, <2>2, <2>3, <2>5
  <2> QED BY <2>4, <2>5
<1> HIDE DEF n
<1> DEFINE at(i) == IF q.tail + i - 1 < bufsize THEN q.tail + i - 1
                    ELSE q.tail + i - 1 - bufsize
<1>a. ASSUME NEW i \in 1 .. n
      PROVE  at(i) \in 0 .. bufsize - 1 /\ at(i) # q.head
  <2>1. CASE q.head < q.tail
    BY <1>0, <1>3, <2>1
  <2>2. CASE ~(q.head < q.tail)
    BY <1>0, <1>3, <2>2
  <2> QED BY <2>1, <2>2
<1>b. at(n + 1) = q.head
  <2>1. CASE q.head < q.tail
    BY <1>0, <1>3, <2>1
  <2>2. CASE ~(q.head < q.tail)
    BY <1>0, <1>3, <2>2
  <2> QED BY <2>1, <2>2
<1>c. ASSUME NEW i \in 1 .. n + 1
      PROVE  At(q, i) = q.buf[at(i)] /\ At(r, i) = r.buf[at(i)]
  <2>1. i \in 1 .. bufsize /\ r.tail = q.tail
    BY <1>0, <1>1, <1>3
  <2> QED BY <1>1, <2>1, AtIs
<1> HIDE DEF at
<1>5. ASSUME NEW i \in 1 .. n PROVE At(r, i) = At(q, i)
  <2>1. i \in 1 .. n + 1
    BY <1>3
  <2>2. r.buf[at(i)] = q.buf[at(i)]
    BY <1>0, <1>1, <1>a
  <2> QED BY <1>c, <2>1, <2>2
<1>6. At(r, n + 1) = c
  BY <1>0, <1>1, <1>3, <1>a, <1>b, <1>c
<1>7. /\ old \in Seq(Char) /\ Len(old) = n
      /\ \A i \in 1 .. n : old[i] = At(q, i)
      /\ new \in Seq(Char) /\ Len(new) = n + 1
      /\ \A i \in 1 .. n + 1 : new[i] = At(r, i)
  BY <1>1, <1>4, ContentsAre DEF n
<1> HIDE DEF old, new
<1>8. new = Append(old, c)
  <2>1. /\ Append(old, c) \in Seq(Char)
        /\ Len(Append(old, c)) = n + 1
        /\ \A i \in 1 .. n : Append(old, c)[i] = old[i]
        /\ Append(old, c)[n + 1] = c
    BY <1>3, <1>7
  <2>2. \A i \in 1 .. n + 1 : new[i] = Append(old, c)[i]
    BY <1>3, <1>5, <1>6, <1>7, <2>1
  <2> QED BY <1>7, <2>1, <2>2, SeqEqual
<1> QED BY <1>0, <1>3, <1>7, <1>8 DEF r, old, new

(* ioq_getchar on a ring that is not empty takes the head of the queue.    *)
LEMMA TakeHead ==
    ASSUME NEW q \in Queue, ~ioq_empty(q)
    PROVE  /\ ContentsOf(q) # <<>>
           /\ Head(ContentsOf(q)) = q.buf[q.tail]
           /\ ContentsOf([q EXCEPT !.tail = next_pos(@)]) = Tail(ContentsOf(q))
<1> DEFINE r == [q EXCEPT !.tail = next_pos(q.tail)]
           old == ContentsOf(q)
           new == ContentsOf(r)
           n == Filled(q)
<1>0. /\ bufsize \in Nat \ {0}
      /\ q.head \in 0 .. bufsize - 1 /\ q.tail \in 0 .. bufsize - 1
  BY IoQueueAssumption DEF Queue
<1>1. /\ r \in Queue
      /\ r.tail = next_pos(q.tail)
      /\ r.head = q.head
      /\ r.buf = q.buf
  BY NextPos DEF Queue
<1> HIDE DEF r
<1>2. next_pos(q.tail) = IF q.tail = bufsize - 1 THEN 0 ELSE q.tail + 1
  BY <1>0, NextPos
<1>3. /\ n \in 1 .. bufsize - 1
      /\ n = IF q.head < q.tail THEN q.head + bufsize - q.tail ELSE q.head - q.tail
  BY <1>0, FilledIs
<1>4. Filled(r) = n - 1
  <2>1. Filled(r) = IF r.head < r.tail THEN r.head + bufsize - r.tail
                                       ELSE r.head - r.tail
    BY <1>1, FilledIs
  <2> QED BY <1>0, <1>1, <1>2, <1>3, <2>1 DEF ioq_empty
<1> HIDE DEF n
<1>5. \A i \in 1 .. n - 1 : At(r, i) = At(q, i + 1)
  BY <1>0, <1>1, <1>2, <1>3, AtIs
<1>6. At(q, 1) = q.buf[q.tail]
  BY <1>0, AtIs
<1>7. /\ old \in Seq(Char) /\ Len(old) = n
      /\ \A i \in 1 .. n : old[i] = At(q, i)
      /\ new \in Seq(Char) /\ Len(new) = n - 1
      /\ \A i \in 1 .. n - 1 : new[i] = At(r, i)
  BY <1>1, <1>4, ContentsAre DEF n
<1> HIDE DEF old, new
<1>8. old # <<>> /\ Head(old) = q.buf[q.tail]
  BY <1>3, <1>6, <1>7
<1>9. new = Tail(old)
  <2>1. /\ Tail(old) \in Seq(Char)
        /\ Len(Tail(old)) = n - 1
        /\ \A i \in 1 .. n - 1 : Tail(old)[i] = old[i + 1]
    BY <1>3, <1>7, <1>8, HeadTailProperties
  <2>2. \A i \in 1 .. n - 1 : i + 1 \in 1 .. n
    BY <1>0, <1>3
  <2>3. \A i \in 1 .. n - 1 : new[i] = Tail(old)[i]
    BY <1>5, <1>7, <2>1, <2>2
  <2> QED BY <1>7, <2>1, <2>3, SeqEqual
<1> QED BY <1>8, <1>9 DEF r, old, new

(* The contents depend only on the ring.                                   *)
SameRing(q, r) == r.buf = q.buf /\ r.head = q.head /\ r.tail = q.tail

LEMMA SameContents ==
    ASSUME NEW q, NEW r, SameRing(q, r)
    PROVE  ContentsOf(r) = ContentsOf(q)
BY DEF SameRing, ContentsOf, Filled, At

(* A full ring holds one character less than it has places.                *)
LEMMA FullIsCapacity ==
    ASSUME NEW q \in Queue, ioq_full(q)
    PROVE  Len(ContentsOf(q)) = bufsize - 1
<1>1. Filled(q) \in 0 .. bufsize - 1 /\ ~(Filled(q) < bufsize - 1) /\ bufsize \in Nat
  BY FilledIs, IoQueueAssumption
<1>2. Filled(q) = bufsize - 1
  BY <1>1
<1> QED BY <1>2, ContentsAre

(* A reader that goes to sleep, whether for the lock or for a character,   *)
(* leaves the ring alone.                                                  *)
LEMMA SleepKeepsRing ==
    ASSUME NEW s, NEW q \in Queue
    PROVE  SameRing(q, AcquireAndWait(s, q).ioq)
BY DEF Queue, AcquireAndWait, ioq_wait, SameRing

(* The loop of ioq_getchar takes the head of the queue or leaves it alone. *)
LEMMA GetCharIsFifo ==
    ASSUME NEW t \in Thread, NEW s, NEW q \in Queue, SameRing(ioq, q), GetChar(t, s, q),
           typed' = typed
    PROVE  [F!FifoNext]_(F!fifo)
<1>1. Contents = ContentsOf(q)
  BY SameContents DEF Contents, ContentsOf, Filled, At
<1>2. Contents' = ContentsOf(ioq')
  BY DEF Contents, ContentsOf, Filled, At
<1>3. CASE ioq_empty(q)
  <2>1. ioq' = AcquireAndWait(s, q).ioq /\ retchr' = retchr
    BY <1>3 DEF GetChar
  <2>2. ContentsOf(ioq') = ContentsOf(q)
    BY <2>1, SleepKeepsRing, SameContents
  <2> QED BY <1>1, <1>2, <2>1, <2>2 DEF F!fifo
<1>4. CASE ~ioq_empty(q)
  <2>1. /\ ioq' = [q EXCEPT !.tail = next_pos(@)]
        /\ retchr' = [retchr EXCEPT ![t] = q.buf[q.tail]]
    BY <1>4 DEF GetChar
  <2>2. /\ Contents # <<>>
        /\ retchr' = [retchr EXCEPT ![t] = Head(Contents)]
        /\ Contents' = Tail(Contents)
    BY <1>1, <1>2, <1>4, <2>1, TakeHead
  <2>3. F!Get(t)
    BY <2>2 DEF F!Get
  <2> QED BY <2>3 DEF F!FifoNext
<1> QED BY <1>3, <1>4

(* The keyboard's interrupt appends a character, or finds the queue at its *)
(* capacity.                                                               *)
LEMMA KeyboardIsFifo ==
    ASSUME Inv, NEW c \in Char, intr_keyboard_handler(c)
    PROVE  F!FifoNext
<1>1. ioq \in Queue /\ retchr' = retchr /\ typed' = 1 - typed
  BY DEF Inv, QueueIsConsistent, intr_keyboard_handler
<1>2. Contents = ContentsOf(ioq) /\ Contents' = ContentsOf(ioq')
  BY DEF Contents, ContentsOf, Filled, At
<1>3. CASE ioq_full(ioq)
  <2>1. ioq' = ioq
    BY <1>3 DEF intr_keyboard_handler
  <2>2. Len(Contents) = bufsize - 1
    BY <1>1, <1>2, <1>3, FullIsCapacity
  <2> QED BY <1>1, <1>2, <2>1, <2>2 DEF F!FifoNext, F!Refuse
<1>4. CASE ~ioq_full(ioq)
  <2>1. PutChar(ioq, c) \in Queue
    BY <1>1, NextPos DEF PutChar, Queue
  <2>2. \/ ioq' = PutChar(ioq, c)
        \/ ioq' = [PutChar(ioq, c) EXCEPT !.consumer = nobody]
    BY <1>4 DEF intr_keyboard_handler, wakeup
  <2>3. SameRing(PutChar(ioq, c), ioq')
    <3> DEFINE q == PutChar(ioq, c)
    <3> HIDE DEF q
    <3>1. SameRing(q, q) /\ (q \in Queue => SameRing(q, [q EXCEPT !.consumer = nobody]))
      BY DEF SameRing, Queue
    <3> QED BY <2>1, <2>2, <3>1 DEF q
  <2>4. /\ Contents' = Append(Contents, c)
        /\ Len(Contents) < bufsize - 1
    BY <1>1, <1>2, <1>4, <2>3, PutAppends, SameContents
  <2>5. F!Put(c)
    BY <1>1, <2>4 DEF F!Put
  <2> QED BY <2>5 DEF F!FifoNext
<1> QED BY <1>3, <1>4

(* Whatever the interleaving of readers and keyboard, characters come out  *)
(* of the ring in the order in which they were typed, each of them once,   *)
(* and every step of the keyboard's handler puts its character into the    *)
(* ring or finds bufsize - 1 waiting.                                      *)
THEOREM RefinesFifo == Spec => ImplementsFifo
<1>1. Init => F!FifoInit
  <2> SUFFICES ASSUME Init PROVE F!FifoInit
    OBVIOUS
  <2>0. Inv
    BY InitInv
  <2>1. Inv /\ ioq.head = 0 /\ ioq.tail = 0 /\ typed = 0
    BY <2>0 DEF Init
  <2>2. ioq \in Queue /\ retchr \in [Thread -> Char]
    BY <2>1 DEF Inv, QueueIsConsistent
  <2>3. Filled(ioq) = 0
    BY <2>1, <2>2, FilledIs
  <2>4. Contents = ContentsOf(ioq)
    BY DEF Contents, ContentsOf, Filled, At
  <2>5. Contents = <<>>
    BY <2>2, <2>3, <2>4, ContentsAre
  <2> QED BY <2>1, <2>2, <2>5 DEF F!FifoInit
<1>2. Inv /\ [Next]_vars => [F!FifoNext]_(F!fifo)
  <2> SUFFICES ASSUME Inv, [Next]_vars PROVE [F!FifoNext]_(F!fifo)
    OBVIOUS
  <2>1. ioq \in Queue
    BY DEF Inv, QueueIsConsistent
  <2>2. ASSUME ioq' = ioq, retchr' = retchr, typed' = typed PROVE [F!FifoNext]_(F!fifo)
    <3>1. Contents' = Contents
      BY <2>2 DEF Contents
    <3> QED BY <2>2, <3>1 DEF F!fifo
  <2>3. CASE ProcessorStep \/ \E t \in Thread : OtherStep(t)
    BY <2>2, <2>3 DEF ProcessorStep, OtherStep
  <2>4. ASSUME NEW c \in Char, intr_keyboard_handler(c)
        PROVE  [F!FifoNext]_(F!fifo)
    BY <2>4, KeyboardIsFifo
  <2>5. ASSUME NEW t \in Thread, QueueStep(t)
        PROVE  [F!FifoNext]_(F!fifo)
    <3>1. CASE ioq_getchar(t)
      BY <2>1, <3>1, GetCharIsFifo DEF ioq_getchar, GetChar, SameRing
    <3>2. CASE GetLock(t)
      <4>1. SameRing(ioq, ioq') /\ retchr' = retchr /\ typed' = typed
        BY <2>1, <3>2, SleepKeepsRing DEF GetLock
      <4>2. Contents' = Contents
        BY <4>1, SameContents DEF Contents, ContentsOf, Filled, At
      <4> QED BY <4>1, <4>2 DEF F!fifo
    <3>3. CASE WakeUp(t)
      <4> DEFINE freed == release(sched, ioq.lock)
                 q == [ioq EXCEPT !.lock = freed.lock]
      <4>1. GetChar(t, freed.sched, q) /\ typed' = typed
        BY <3>3 DEF WakeUp
      <4>2. q \in Queue /\ SameRing(ioq, q)
        <5>1. Parts(freed.sched, [pc EXCEPT ![t] = "run"], q)
          <6>1. Parts(sched, pc, ioq) /\ sched.cur = t /\ pc[t] = "slept"
            BY <3>3, InvParts DEF WakeUp
          <6> QED BY <6>1, ReleaseFits
        <5> QED BY <2>1, <5>1 DEF Parts, QueueIsConsistent, Queue, SameRing
      <4> HIDE DEF freed, q
      <4> QED BY <4>1, <4>2, GetCharIsFifo DEF GetChar
    <3> QED BY <2>5, <3>1, <3>2, <3>3 DEF QueueStep
  <2>6. CASE UNCHANGED vars
    BY <2>2, <2>6
  <2> QED BY <2>3, <2>4, <2>5, <2>6 DEF Next
<1> QED BY <1>1, <1>2, Invariance, PTL DEF Spec, ImplementsFifo, F!FifoSpec
=============================================================================
