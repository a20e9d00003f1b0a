-------------------------- MODULE WholeLocksProofs --------------------------
(***************************************************************************)
(* What every component that runs under the scheduler or uses whole locks  *)
(* needs.  Each function of thread.c and sync.c that is called as it       *)
(* should be, in a consistent state, leaves a consistent state, fails no   *)
(* ASSERT and keeps its lists exact; the steps of other threads leave a    *)
(* component's labels and sleep alone.                                     *)
(***************************************************************************)
EXTENDS WholeLocks, SequenceTheorems, TLAPS

---------------------------------------------------------------------------
(* Lists without repetition                                                *)

(* list_append of an element that is not in the list.                      *)
LEMMA AppendList ==
    ASSUME NEW S, NEW list \in Seq(S), NEW e \in S
    PROVE  /\ Append(list, e) \in Seq(S)
           /\ Range(Append(list, e)) = Range(list) \cup {e}
           /\ IsInjective(list) /\ e \notin Range(list)
                => IsInjective(Append(list, e))
<1>1. /\ Append(list, e) \in Seq(S)
      /\ Len(Append(list, e)) = Len(list) + 1
      /\ DOMAIN Append(list, e) = 1 .. (Len(list) + 1)
      /\ DOMAIN list = 1 .. Len(list)
      /\ Len(list) \in Nat
      /\ \A i \in 1 .. Len(list) : Append(list, e)[i] = list[i]
      /\ Append(list, e)[Len(list) + 1] = e
  OBVIOUS
<1>2. Range(Append(list, e)) = Range(list) \cup {e}
  BY <1>1 DEF Range
<1>3. ASSUME IsInjective(list), e \notin Range(list)
      PROVE  IsInjective(Append(list, e))
  BY <1>1, <1>3 DEF Range, IsInjective
<1> QED BY <1>1, <1>2, <1>3

(* list_push of an element that is not in the list.                        *)
LEMMA PushList ==
    ASSUME NEW S, NEW list \in Seq(S), NEW e \in S
    PROVE  /\ list_push(list, e) \in Seq(S)
           /\ list_push(list, e) # <<>>
           /\ Range(list_push(list, e)) = Range(list) \cup {e}
           /\ IsInjective(list) /\ e \notin Range(list)
                => IsInjective(list_push(list, e))
<1> DEFINE new == list_push(list, e)
<1>1. /\ new \in Seq(S)
      /\ Len(new) = Len(list) + 1
      /\ Len(list) \in Nat
      /\ new[1] = e
      /\ \A i \in 1 .. Len(list) : new[i + 1] = list[i]
  <2>1. <<e>> \in Seq(S) /\ Len(<<e>>) = 1 /\ <<e>>[1] = e
    OBVIOUS
  <2>2. Len(list) \in Nat
    OBVIOUS
  <2>3. /\ new \in Seq(S)
        /\ Len(new) = 1 + Len(list)
        /\ \A i \in 1 .. 1 + Len(list) :
              new[i] = IF i <= 1 THEN <<e>>[i] ELSE list[i - 1]
    BY <2>1, ConcatProperties DEF list_push
  <2> QED BY <2>1, <2>2, <2>3
<1>2. DOMAIN new = 1 .. Len(list) + 1 /\ DOMAIN list = 1 .. Len(list)
  BY <1>1
<1>3. \A i \in 2 .. Len(list) + 1 : i - 1 \in 1 .. Len(list) /\ new[i] = list[i - 1]
  BY <1>1
<1>4. Range(new) = Range(list) \cup {e}
  <2>1. Range(new) \subseteq Range(list) \cup {e}
    <3> SUFFICES ASSUME NEW i \in DOMAIN new, i # 1
                 PROVE  new[i] \in Range(list)
      BY <1>1 DEF Range
    <3>1. i \in 2 .. Len(list) + 1
      BY <1>1, <1>2
    <3> QED BY <1>2, <1>3, <3>1 DEF Range
  <2>2. Range(list) \cup {e} \subseteq Range(new)
    BY <1>1, <1>2 DEF Range
  <2> QED BY <2>1, <2>2
<1>5. ASSUME IsInjective(list), e \notin Range(list)
      PROVE  IsInjective(new)
  <2> SUFFICES ASSUME NEW i \in DOMAIN new, NEW j \in DOMAIN new,
                      new[i] = new[j], i < j
               PROVE  FALSE
    BY <1>2 DEF IsInjective
  <2>1. j - 1 \in DOMAIN list /\ new[j] = list[j - 1]
    BY <1>2, <1>3
  <2>2. CASE i = 1
    BY <1>1, <1>5, <2>1, <2>2 DEF Range
  <2>3. CASE i # 1
    <3>1. i - 1 \in DOMAIN list /\ new[i] = list[i - 1]
      BY <1>2, <1>3, <2>3
    <3> QED BY <1>2, <1>5, <2>1, <3>1 DEF IsInjective
  <2> QED BY <2>2, <2>3
<1>6. new # <<>>
  BY <1>1
<1> QED BY <1>1, <1>4, <1>5, <1>6

(* list_pop of a list without repetition.                                  *)
LEMMA PopList ==
    ASSUME NEW S, NEW list \in Seq(S), list # <<>>, IsInjective(list)
    PROVE  /\ Head(list) \in S
           /\ Tail(list) \in Seq(S)
           /\ IsInjective(Tail(list))
           /\ Head(list) \in Range(list)
           /\ Range(Tail(list)) = Range(list) \ {Head(list)}
<1>1. /\ Head(list) = list[1]
      /\ Len(list) \in Nat \ {0}
      /\ DOMAIN list = 1 .. Len(list)
      /\ Head(list) \in S
      /\ Tail(list) \in Seq(S)
      /\ Len(Tail(list)) = Len(list) - 1
      /\ DOMAIN Tail(list) = 1 .. Len(list) - 1
      /\ \A i \in 1 .. Len(list) - 1 : Tail(list)[i] = list[i + 1]
  BY HeadTailProperties, EmptySeq
<1>2. IsInjective(Tail(list))
  BY <1>1 DEF IsInjective
<1>3. Head(list) \in Range(list)
  BY <1>1 DEF Range
<1>4. Range(Tail(list)) \subseteq Range(list) \ {Head(list)}
  BY <1>1 DEF Range, IsInjective
<1>5. Range(list) \ {Head(list)} \subseteq Range(Tail(list))
  <2> SUFFICES ASSUME NEW i \in DOMAIN list, list[i] # Head(list)
               PROVE  list[i] \in Range(Tail(list))
    BY DEF Range
  <2>1. i - 1 \in DOMAIN Tail(list) /\ Tail(list)[i - 1] = list[i]
    BY <1>1
  <2> QED BY <2>1 DEF Range
<1> QED BY <1>1, <1>2, <1>3, <1>4, <1>5

---------------------------------------------------------------------------
(* Consistent states of the scheduler                                      *)

(* Between the thread that leaves the processor and the one that gets it.  *)
NobodyRuns(s) ==
    /\ s \in SchedulerState
    /\ ~s.panic
    /\ ReadyListExact(s)
    /\ \A t \in Thread : s.status[t] # "TASK_RUNNING"
    /\ s.status[idle_thread] # "unborn"

(* From s to r only the threads of T may have fallen asleep or woken up.   *)
OnlyThese(s, r, T) ==
    \A t \in Thread :
        /\ r.status[t] = "unborn" <=> s.status[t] = "unborn"
        /\ t \notin T => (Asleep(r, t) <=> Asleep(s, t))

(* thread_unblock inside of schedule, where nobody runs: the woken thread  *)
(* is queued, and no ASSERT fails.                                         *)
LEMMA UnblockQuiet ==
    ASSUME NEW s, NobodyRuns(s), NEW t \in Thread, Asleep(s, t)
    PROVE  LET r == thread_unblock(s, t)
           IN  /\ NobodyRuns(r)
               /\ r.ready # <<>>
               /\ r.cur = s.cur
               /\ OnlyThese(s, r, {t})
<1> DEFINE r == [s EXCEPT !.ready = list_push(@, t), !.status[t] = "TASK_READY"]
<1> USE DEF Asleep, Sleeping
<1>1. /\ s.ready \in Seq(Thread)
      /\ s.status \in [Thread -> Status]
      /\ t \notin Range(s.ready)
  BY DEF NobodyRuns, SchedulerState, ReadyListExact, elem_find
<1>2. thread_unblock(s, t) = r
  BY <1>1 DEF thread_unblock, Assert_, NobodyRuns, elem_find
<1>3. /\ r.ready = list_push(s.ready, t)
      /\ r.status = [s.status EXCEPT ![t] = "TASK_READY"]
      /\ r.cur = s.cur /\ r.panic = s.panic /\ r.ticks = s.ticks
      /\ DOMAIN r = DOMAIN s
  BY DEF NobodyRuns, SchedulerState
<1>4. r \in SchedulerState
  BY <1>1, <1>3, PushList DEF NobodyRuns, SchedulerState, Status
<1>5. ReadyListExact(r)
  <2>1. /\ Range(r.ready) = Range(s.ready) \cup {t}
        /\ IsInjective(r.ready)
    BY <1>1, <1>3, PushList DEF NobodyRuns, ReadyListExact
  <2> QED BY <1>1, <1>3, <2>1 DEF NobodyRuns, ReadyListExact, elem_find
<1>6. NobodyRuns(r)
  BY <1>1, <1>3, <1>4, <1>5 DEF NobodyRuns
<1>7. OnlyThese(s, r, {t})
  BY <1>1, <1>3 DEF OnlyThese
<1> QED BY <1>1, <1>2, <1>3, <1>6, <1>7, PushList

(* thread_unblock called by a running thread or by an interrupt handler    *)
(* keeps the state consistent, and the thread that runs keeps running.     *)
LEMMA UnblockRunning ==
    ASSUME NEW s, Consistent(s), NEW t \in Thread, Asleep(s, t)
    PROVE  LET r == thread_unblock(s, t)
           IN  /\ Consistent(r)
               /\ r.cur = s.cur
               /\ r.status[t] = "TASK_READY"
               /\ OnlyThese(s, r, {t})
<1> DEFINE r == [s EXCEPT !.ready = list_push(@, t), !.status[t] = "TASK_READY"]
<1> USE DEF Asleep, Sleeping
<1>1. /\ s.ready \in Seq(Thread)
      /\ s.status \in [Thread -> Status]
      /\ t \notin Range(s.ready)
  BY DEF Consistent, SchedulerState, ReadyListExact, elem_find
<1>2. thread_unblock(s, t) = r
  BY <1>1 DEF thread_unblock, Assert_, Consistent, elem_find
<1>3. /\ r.ready = list_push(s.ready, t)
      /\ r.status = [s.status EXCEPT ![t] = "TASK_READY"]
      /\ r.cur = s.cur /\ r.panic = s.panic /\ r.ticks = s.ticks
      /\ DOMAIN r = DOMAIN s
  BY DEF Consistent, SchedulerState
<1>4. r \in SchedulerState
  BY <1>1, <1>3, PushList DEF Consistent, SchedulerState, Status
<1>5. ReadyListExact(r)
  <2>1. /\ Range(r.ready) = Range(s.ready) \cup {t}
        /\ IsInjective(r.ready)
    BY <1>1, <1>3, PushList DEF Consistent, ReadyListExact
  <2> QED BY <1>1, <1>3, <2>1 DEF Consistent, ReadyListExact, elem_find
<1>6. Consistent(r)
  BY <1>1, <1>3, <1>4, <1>5 DEF Consistent
<1>7. OnlyThese(s, r, {t})
  BY <1>1, <1>3 DEF OnlyThese
<1> QED BY <1>1, <1>2, <1>3, <1>6, <1>7

(* A running thread that is preempted is queued at the tail.               *)
LEMMA RequeueRunning ==
    ASSUME NEW s, Consistent(s)
    PROVE  LET r == Requeue(s)
           IN  /\ NobodyRuns(r)
               /\ OnlyThese(s, r, {})
<1> DEFINE r == [s EXCEPT !.ready = Append(@, s.cur),
                          !.status[s.cur] = "TASK_READY",
                          !.ticks[s.cur] = Priority[s.cur]]
<1>1. /\ s.ready \in Seq(Thread)
      /\ s.status \in [Thread -> Status]
      /\ s.cur \in Thread
      /\ s.status[s.cur] = "TASK_RUNNING"
      /\ s.cur \notin Range(s.ready)
  BY DEF Consistent, SchedulerState, ReadyListExact, elem_find
<1>2. Requeue(s) = r
  BY <1>1 DEF Requeue, Assert_, Consistent, elem_find
<1>3. /\ r.ready = Append(s.ready, s.cur)
      /\ r.status = [s.status EXCEPT ![s.cur] = "TASK_READY"]
      /\ r.ticks = [s.ticks EXCEPT ![s.cur] = Priority[s.cur]]
      /\ r.cur = s.cur /\ r.panic = s.panic
      /\ DOMAIN r = DOMAIN s
  BY DEF Consistent, SchedulerState
<1>4. /\ Range(r.ready) = Range(s.ready) \cup {s.cur}
      /\ IsInjective(r.ready)
      /\ r.ready \in Seq(Thread)
  BY <1>1, <1>3, AppendList DEF Consistent, ReadyListExact
<1>5. r \in SchedulerState
  BY <1>1, <1>3, <1>4, SchedulerAssumption DEF Consistent, SchedulerState, Status
<1>6. ReadyListExact(r)
  BY <1>1, <1>3, <1>4 DEF Consistent, ReadyListExact, elem_find
<1>7. NobodyRuns(r)
  BY <1>1, <1>3, <1>5, <1>6 DEF Consistent, NobodyRuns
<1>8. OnlyThese(s, r, {})
  BY <1>1, <1>3 DEF OnlyThese, Asleep, Sleeping
<1> QED BY <1>2, <1>7, <1>8

(* Nothing to do for a thread that has left the running state by itself.   *)
LEMMA RequeueQuiet ==
    ASSUME NEW s, NobodyRuns(s)
    PROVE  Requeue(s) = s
BY DEF Requeue, NobodyRuns, SchedulerState

(* An empty ready list means that idle is asleep: it can be woken.         *)
LEMMA WakeIdleQuiet ==
    ASSUME NEW s, NobodyRuns(s)
    PROVE  LET r == WakeIdle(s)
           IN  /\ NobodyRuns(r)
               /\ r.ready # <<>>
               /\ OnlyThese(s, r, {idle_thread})
<1>1. CASE s.ready # <<>>
  BY <1>1 DEF WakeIdle, OnlyThese
<1>2. CASE s.ready = <<>>
  <2>1. s.status[idle_thread] # "TASK_READY"
    BY <1>2, SchedulerAssumption DEF NobodyRuns, ReadyListExact, elem_find, Range
  <2>2. Asleep(s, idle_thread)
    BY <2>1, SchedulerAssumption
    DEF NobodyRuns, SchedulerState, Status, Asleep
  <2> QED BY <1>2, <2>2, UnblockQuiet, SchedulerAssumption DEF WakeIdle
<1> QED BY <1>1, <1>2

(* The last part of schedule gives the processor to exactly one ready      *)
(* thread.                                                                 *)
LEMMA SwitchToHeadQuiet ==
    ASSUME NEW s, NobodyRuns(s), s.ready # <<>>
    PROVE  LET r == SwitchToHead(s)
           IN  /\ Consistent(r)
               /\ OnlyThese(s, r, {})
<1> DEFINE r == [s EXCEPT !.cur = Head(s.ready),
                          !.ready = Tail(s.ready),
                          !.status[Head(s.ready)] = "TASK_RUNNING"]
<1>1. /\ s.ready \in Seq(Thread)
      /\ s.status \in [Thread -> Status]
      /\ IsInjective(s.ready)
  BY DEF NobodyRuns, SchedulerState, ReadyListExact
<1>2. SwitchToHead(s) = r
  BY DEF SwitchToHead, Assert_, NobodyRuns
<1>3. /\ r.ready = Tail(s.ready)
      /\ r.status = [s.status EXCEPT ![Head(s.ready)] = "TASK_RUNNING"]
      /\ r.cur = Head(s.ready)
      /\ r.ticks = s.ticks /\ r.panic = s.panic
      /\ DOMAIN r = DOMAIN s
  BY DEF NobodyRuns, SchedulerState
<1>4. /\ Head(s.ready) \in Thread
      /\ Head(s.ready) \in Range(s.ready)
      /\ r.ready \in Seq(Thread)
      /\ IsInjective(r.ready)
      /\ Range(r.ready) = Range(s.ready) \ {Head(s.ready)}
  BY <1>1, <1>3, PopList
<1>5. r \in SchedulerState
  BY <1>1, <1>3, <1>4 DEF NobodyRuns, SchedulerState, Status
<1>6. ReadyListExact(r)
  BY <1>1, <1>3, <1>4 DEF NobodyRuns, ReadyListExact, elem_find
<1>7. Consistent(r)
  BY <1>1, <1>3, <1>4, <1>5, <1>6 DEF Consistent, NobodyRuns
<1>8. s.status[Head(s.ready)] = "TASK_READY"
  BY <1>4 DEF NobodyRuns, ReadyListExact, elem_find
<1>9. OnlyThese(s, r, {})
  BY <1>1, <1>3, <1>4, <1>8 DEF OnlyThese, Asleep, Sleeping
<1> QED BY <1>2, <1>7, <1>9

(* schedule, called by a thread that no longer runs.                       *)
LEMMA ScheduleQuiet ==
    ASSUME NEW s, NobodyRuns(s)
    PROVE  /\ Consistent(schedule(s))
           /\ OnlyThese(s, schedule(s), {idle_thread})
<1> DEFINE w == WakeIdle(s)
<1>1. /\ NobodyRuns(w)
      /\ w.ready # <<>>
      /\ OnlyThese(s, w, {idle_thread})
  BY WakeIdleQuiet
<1>2. schedule(s) = SwitchToHead(w)
  BY RequeueQuiet DEF schedule
<1> HIDE DEF w
<1>3. /\ Consistent(SwitchToHead(w))
      /\ OnlyThese(w, SwitchToHead(w), {})
  BY <1>1, SwitchToHeadQuiet
<1> QED BY <1>1, <1>2, <1>3 DEF OnlyThese

(* schedule, called by the timer for a running thread.                     *)
LEMMA ScheduleRunning ==
    ASSUME NEW s, Consistent(s)
    PROVE  /\ Consistent(schedule(s))
           /\ OnlyThese(s, schedule(s), {idle_thread})
<1> DEFINE q == Requeue(s)
<1>1. NobodyRuns(q) /\ OnlyThese(s, q, {})
  BY RequeueRunning
<1>2. schedule(s) = schedule(q)
  BY <1>1, RequeueQuiet DEF schedule
<1> HIDE DEF q
<1>3. /\ Consistent(schedule(q))
      /\ OnlyThese(q, schedule(q), {idle_thread})
  BY <1>1, ScheduleQuiet
<1> QED BY <1>1, <1>2, <1>3 DEF OnlyThese

---------------------------------------------------------------------------
(* The functions other modules call                                        *)

(* thread_block puts the caller, and perhaps wakes idle.                   *)
LEMMA BlockConsistent ==
    ASSUME NEW s, Consistent(s), NEW stat \in Sleeping
    PROVE  LET r == thread_block(s, stat)
           IN  /\ Consistent(r)
               /\ s.cur # idle_thread => Asleep(r, s.cur)
               /\ OnlyThese(s, r, {s.cur, idle_thread})
<1> DEFINE b == [s EXCEPT !.status[s.cur] = stat]
<1>1. /\ s.status \in [Thread -> Status]
      /\ s.cur \in Thread
      /\ s.status[s.cur] = "TASK_RUNNING"
  BY DEF Consistent, SchedulerState
<1>2. /\ b.status = [s.status EXCEPT ![s.cur] = stat]
      /\ b.ready = s.ready /\ b.cur = s.cur
      /\ b.ticks = s.ticks /\ b.panic = s.panic
      /\ b \in SchedulerState
  BY <1>1 DEF Consistent, SchedulerState, Status
<1>3. NobodyRuns(b)
  <2>1. ReadyListExact(b)
    BY <1>1, <1>2 DEF Consistent, ReadyListExact, Sleeping
  <2> QED BY <1>1, <1>2, <2>1 DEF Consistent, NobodyRuns, Sleeping
<1>4. /\ Asleep(b, s.cur)
      /\ OnlyThese(s, b, {s.cur})
  BY <1>1, <1>2 DEF OnlyThese, Asleep, Sleeping
<1> HIDE DEF b
<1>5. /\ Consistent(schedule(b))
      /\ OnlyThese(b, schedule(b), {idle_thread})
  BY <1>3, ScheduleQuiet
<1>6. thread_block(s, stat) = schedule(b)
  BY DEF thread_block, b
<1> QED BY <1>1, <1>4, <1>5, <1>6 DEF OnlyThese

(* thread_yield fails no ASSERT and touches the sleep of no thread but     *)
(* idle.                                                                   *)
LEMMA YieldConsistent ==
    ASSUME NEW s, Consistent(s)
    PROVE  LET r == thread_yield(s)
           IN  Consistent(r) /\ OnlyThese(s, r, {idle_thread})
<1> DEFINE b == [s EXCEPT !.ready = Append(@, s.cur),
                          !.status[s.cur] = "TASK_READY"]
<1>1. /\ s.ready \in Seq(Thread)
      /\ s.status \in [Thread -> Status]
      /\ s.cur \in Thread
      /\ s.status[s.cur] = "TASK_RUNNING"
      /\ s.cur \notin Range(s.ready)
  BY DEF Consistent, SchedulerState, ReadyListExact, elem_find
<1>2. thread_yield(s) = schedule(b)
  BY <1>1 DEF thread_yield, Assert_, Consistent, elem_find
<1>3. /\ b.ready = Append(s.ready, s.cur)
      /\ b.status = [s.status EXCEPT ![s.cur] = "TASK_READY"]
      /\ b.ticks = s.ticks /\ b.cur = s.cur /\ b.panic = s.panic
      /\ DOMAIN b = DOMAIN s
  BY DEF Consistent, SchedulerState
<1>4. /\ Range(b.ready) = Range(s.ready) \cup {s.cur}
      /\ IsInjective(b.ready)
      /\ b.ready \in Seq(Thread)
  BY <1>1, <1>3, AppendList DEF Consistent, ReadyListExact
<1>5. b \in SchedulerState
  BY <1>1, <1>3, <1>4 DEF Consistent, SchedulerState, Status
<1>6. ReadyListExact(b)
  BY <1>1, <1>3, <1>4 DEF Consistent, ReadyListExact, elem_find
<1>7. NobodyRuns(b)
  BY <1>1, <1>3, <1>5, <1>6 DEF Consistent, NobodyRuns
<1>8. OnlyThese(s, b, {})
  BY <1>1, <1>3 DEF OnlyThese, Asleep, Sleeping
<1> HIDE DEF b
<1>9. /\ Consistent(schedule(b))
      /\ OnlyThese(b, schedule(b), {idle_thread})
  BY <1>7, ScheduleQuiet
<1> QED BY <1>2, <1>8, <1>9 DEF OnlyThese

(* The timer fails no ASSERT, whether it reschedules or only counts.       *)
LEMMA TickConsistent ==
    ASSUME NEW s, Consistent(s)
    PROVE  LET r == timer_tick(s)
           IN  Consistent(r) /\ OnlyThese(s, r, {idle_thread})
<1>1. CASE s.ticks[s.cur] = 0
  BY <1>1, ScheduleRunning DEF timer_tick
<1>2. CASE s.ticks[s.cur] # 0
  <2> DEFINE r == [s EXCEPT !.ticks[s.cur] = @ - 1]
  <2>0. /\ s.cur \in Thread
        /\ s.ticks \in [Thread -> Nat]
        /\ s.ticks[s.cur] - 1 \in Nat
    BY <1>2 DEF Consistent, SchedulerState
  <2>1. /\ r.ready = s.ready /\ r.status = s.status
        /\ r.cur = s.cur /\ r.panic = s.panic
        /\ r.ticks = [s.ticks EXCEPT ![s.cur] = s.ticks[s.cur] - 1]
        /\ r \in SchedulerState
    BY <2>0 DEF Consistent, SchedulerState
  <2>2. timer_tick(s) = r
    BY <1>2 DEF timer_tick
  <2> QED BY <2>1, <2>2 DEF Consistent, ReadyListExact, OnlyThese, Asleep
<1> QED BY <1>1, <1>2

(* A new PCB becomes ready; nothing else changes.                          *)
LEMMA StartConsistent ==
    ASSUME NEW s, Consistent(s), NEW t \in Thread, s.status[t] = "unborn"
    PROVE  LET r == start_thread(s, t)
           IN  /\ Consistent(r)
               /\ r.cur = s.cur
               /\ \A u \in Thread \ {t} : r.status[u] = s.status[u]
               /\ r.status[t] = "TASK_READY"
<1> DEFINE r == [s EXCEPT !.ready = Append(@, t),
                          !.status[t] = "TASK_READY",
                          !.ticks[t] = Priority[t]]
<1>1. /\ s.ready \in Seq(Thread)
      /\ s.status \in [Thread -> Status]
      /\ t \notin Range(s.ready)
  BY DEF Consistent, SchedulerState, ReadyListExact, elem_find
<1>2. start_thread(s, t) = r
  BY <1>1 DEF start_thread, Assert_, Consistent, elem_find
<1>3. /\ r.ready = Append(s.ready, t)
      /\ r.status = [s.status EXCEPT ![t] = "TASK_READY"]
      /\ r.ticks = [s.ticks EXCEPT ![t] = Priority[t]]
      /\ r.cur = s.cur /\ r.panic = s.panic
      /\ DOMAIN r = DOMAIN s
  BY DEF Consistent, SchedulerState
<1>4. /\ Range(r.ready) = Range(s.ready) \cup {t}
      /\ IsInjective(r.ready)
      /\ r.ready \in Seq(Thread)
  BY <1>1, <1>3, AppendList DEF Consistent, ReadyListExact
<1>5. r \in SchedulerState
  BY <1>1, <1>3, <1>4, SchedulerAssumption DEF Consistent, SchedulerState, Status
<1>6. ReadyListExact(r)
  BY <1>1, <1>3, <1>4 DEF Consistent, ReadyListExact, elem_find
<1>7. Consistent(r)
  BY <1>1, <1>3, <1>5, <1>6 DEF Consistent
<1> QED BY <1>1, <1>2, <1>3, <1>7

USE DEF Running

---------------------------------------------------------------------------
(* Threads outside of a component                                          *)

(* The steps of module Threads that components leave as they are.          *)
ElsewhereStep ==
    \/ intr_timer_handler
    \/ IdleBlock
    \/ IdleHalt
    \/ \E t \in Thread :
          \/ kernel_thread(t)
          \/ SyscallEnter(t)
          \/ SyscallReturn(t)
          \/ \E child \in Process : sys_fork(t, child)
          \/ Yield(t)

(* Labels that belong to no component.                                     *)
Plain == {"first", "run"} \cup IdleLabels

(* From p to r only threads outside of the component have moved, inside of *)
(* the threads' own labels.                                                *)
OutsideMoves(p, r) ==
    \A t \in Thread : \/ r[t] = p[t]
                      \/ p[t] \in {"first"} \cup IdleLabels /\ r[t] \in Plain

(* From s to r no thread inside of the component (at labels p) has fallen  *)
(* asleep or woken up.                                                     *)
InsideSleepsOn(s, r, p) ==
    \A t \in Thread : p[t] \notin Plain => (Asleep(r, t) <=> Asleep(s, t))

(* thread_init leaves a consistent scheduler: main runs, init and idle are *)
(* queued in this order.                                                   *)
LEMMA ThreadsInitFits ==
    ASSUME ThreadsInit
    PROVE  /\ Consistent(sched)
           /\ LabelsFit
           /\ \A t \in Thread : ~Asleep(sched, t)
<1> USE SchedulerAssumption, ThreadsAssumption DEF ThreadsInit
<1>1. /\ sched.ready = <<init_process, idle_thread>>
      /\ sched.cur = main_thread
      /\ sched.panic = FALSE
      /\ sched.ticks = Priority
      /\ sched.status = [t \in Thread |->
              IF t = main_thread THEN "TASK_RUNNING"
              ELSE IF t \in {init_process, idle_thread}
                   THEN "TASK_READY" ELSE "unborn"]
  OBVIOUS
<1>2. /\ init_process \in Thread /\ idle_thread \in Thread
      /\ init_process # idle_thread /\ main_thread # idle_thread
      /\ init_process # main_thread
  OBVIOUS
<1>3. sched \in SchedulerState
  BY <1>1, <1>2 DEF SchedulerState, Status
<1>4. /\ IsInjective(sched.ready)
      /\ Range(sched.ready) = {init_process, idle_thread}
  BY <1>1, <1>2 DEF IsInjective, Range
<1>5. Consistent(sched)
  BY <1>1, <1>2, <1>3, <1>4 DEF Consistent, ReadyListExact, elem_find
<1>6. LabelsFit
  BY DEF LabelsFit
<1>7. \A t \in Thread : ~Asleep(sched, t)
  BY <1>1 DEF Asleep, Sleeping
<1> QED BY <1>5, <1>6, <1>7

(* LeaveHalt only moves idle from one of its labels to another.            *)
LEMMA LeaveHaltMoves ==
    ASSUME LabelsFit, NEW Labels, Plain \subseteq Labels, pc \in [Thread -> Labels],
           pc' = LeaveHalt
    PROVE  /\ pc' \in [Thread -> Labels]
           /\ OutsideMoves(pc, pc')
           /\ pc'[idle_thread] \in {"first"} \cup IdleLabels
           /\ \A t \in Thread \ {idle_thread} : pc'[t] = pc[t]
BY SchedulerAssumption DEF LeaveHalt, LabelsFit, OutsideMoves, IdleLabels, Plain

(* A step that moves no label but idle's keeps the labels fit.             *)
LEMMA FitAfter ==
    ASSUME LabelsFit, NEW T, OnlyThese(sched, sched', T),
           pc'[idle_thread] \in {"first"} \cup IdleLabels,
           \A t \in Thread \ {idle_thread} : pc'[t] = pc[t],
           Consistent(sched')
    PROVE  LabelsFit'
<1>1. \A t \in Thread : Unborn(t)' => t # idle_thread /\ pc'[t] = "first"
  BY DEF LabelsFit, OnlyThese, Unborn, Consistent
<1> QED BY <1>1 DEF LabelsFit

(* A step of the running thread that starts no thread and moves only its   *)
(* own label keeps the labels fit.                                         *)
LEMMA RunnerMoves ==
    ASSUME Consistent(sched), LabelsFit, NEW t \in Thread, sched.cur = t, t # idle_thread,
           NEW l, pc' = [pc EXCEPT ![t] = l],
           \A u \in Thread : sched'.status[u] = "unborn" <=> sched.status[u] = "unborn"
    PROVE  LabelsFit'
<1>1. ~Unborn(t)
  BY DEF Consistent, Unborn
<1>2. \A u \in Thread \ {t} : pc'[u] = pc[u]
  OBVIOUS
<1> QED BY <1>1, <1>2, SchedulerAssumption DEF LabelsFit, Unborn

(* Whatever happens elsewhere disturbs no thread inside of the component.  *)
LEMMA Elsewhere ==
    ASSUME Consistent(sched), LabelsFit,
           NEW Labels, Plain \subseteq Labels, pc \in [Thread -> Labels],
           ElsewhereStep
    PROVE  /\ Consistent(sched')
           /\ LabelsFit'
           /\ pc' \in [Thread -> Labels]
           /\ OutsideMoves(pc, pc')
           /\ InsideSleepsOn(sched, sched', pc)
<1> USE SchedulerAssumption DEF Plain
<1>0. pc[idle_thread] \in {"first"} \cup IdleLabels
  BY DEF LabelsFit
<1>1. CASE intr_timer_handler
  <2>1. Consistent(sched') /\ OnlyThese(sched, sched', {idle_thread})
    BY <1>1, TickConsistent DEF intr_timer_handler
  <2>2. InsideSleepsOn(sched, sched', pc)
    BY <1>0, <2>1 DEF OnlyThese, InsideSleepsOn
  <2> QED BY <1>1, <2>1, <2>2, LeaveHaltMoves, FitAfter DEF intr_timer_handler
<1>2. CASE IdleBlock
  <2>1. /\ Consistent(sched') /\ OnlyThese(sched, sched', {idle_thread})
        /\ pc' = [pc EXCEPT ![idle_thread] = "woken"]
    BY <1>2, BlockConsistent DEF IdleBlock, Sleeping
  <2>2. InsideSleepsOn(sched, sched', pc)
    BY <1>0, <2>1 DEF OnlyThese, InsideSleepsOn
  <2>3. OutsideMoves(pc, pc') /\ pc' \in [Thread -> Labels]
    BY <1>2, <2>1 DEF OutsideMoves, IdleLabels, IdleBlock
  <2>4. LabelsFit'
    BY <2>1, FitAfter DEF IdleLabels
  <2> QED BY <2>1, <2>2, <2>3, <2>4
<1>3. CASE IdleHalt
  <2>1. sched' = sched /\ pc' = [pc EXCEPT ![idle_thread] = "hlt"]
    BY <1>3 DEF IdleHalt
  <2>2. InsideSleepsOn(sched, sched', pc) /\ OnlyThese(sched, sched', {})
    BY <2>1 DEF InsideSleepsOn, OnlyThese
  <2>3. OutsideMoves(pc, pc') /\ pc' \in [Thread -> Labels]
    BY <1>3, <2>1 DEF OutsideMoves, IdleLabels, IdleHalt
  <2>4. LabelsFit'
    BY <2>1, <2>2, FitAfter DEF IdleLabels
  <2> QED BY <2>1, <2>2, <2>3, <2>4
<1>4. ASSUME NEW t \in Thread, kernel_thread(t)
      PROVE  /\ Consistent(sched')
             /\ LabelsFit'
             /\ pc' \in [Thread -> Labels]
             /\ OutsideMoves(pc, pc')
             /\ InsideSleepsOn(sched, sched', pc)
  <2>1. /\ sched' = sched /\ pc[t] = "first" /\ sched.cur = t
        /\ pc' = [pc EXCEPT ![t] = IF t = idle_thread THEN "loop" ELSE "run"]
    BY <1>4 DEF kernel_thread
  <2>2. OutsideMoves(pc, pc') /\ pc' \in [Thread -> Labels]
    BY <2>1 DEF OutsideMoves, IdleLabels
  <2>3. sched.status[t] = "TASK_RUNNING"
    BY <2>1 DEF Consistent
  <2>4. LabelsFit'
    BY <2>1, <2>3 DEF LabelsFit, Unborn, IdleLabels
  <2> QED BY <2>1, <2>2, <2>4 DEF InsideSleepsOn
<1>5. ASSUME NEW t \in Thread, SyscallEnter(t) \/ SyscallReturn(t)
      PROVE  /\ sched' = sched /\ pc' = pc
  BY <1>5 DEF SyscallEnter, SyscallReturn
<1>6. ASSUME NEW t \in Thread, NEW child \in Process, sys_fork(t, child)
      PROVE  /\ Consistent(sched')
             /\ LabelsFit'
             /\ pc' = pc
             /\ InsideSleepsOn(sched, sched', pc)
  <2>1. child \in Thread /\ sched.status[child] = "unborn" /\ pc' = pc
    BY <1>6, ThreadsAssumption DEF Unborn, sys_fork
  <2>2. /\ Consistent(sched')
        /\ \A u \in Thread \ {child} : sched'.status[u] = sched.status[u]
        /\ sched'.status[child] = "TASK_READY"
    BY <1>6, <2>1, StartConsistent DEF sys_fork
  <2>3. LabelsFit'
    BY <2>1, <2>2 DEF LabelsFit, Unborn
  <2>4. InsideSleepsOn(sched, sched', pc)
    BY <2>1, <2>2 DEF InsideSleepsOn, Asleep, Sleeping
  <2> QED BY <2>1, <2>2, <2>3, <2>4
<1>7. ASSUME NEW t \in Thread, Yield(t)
      PROVE  /\ Consistent(sched')
             /\ LabelsFit'
             /\ pc' = pc
             /\ InsideSleepsOn(sched, sched', pc)
  <2>1. /\ Consistent(sched') /\ OnlyThese(sched, sched', {idle_thread})
        /\ pc' = pc
    BY <1>7, YieldConsistent DEF Yield
  <2>2. InsideSleepsOn(sched, sched', pc)
    BY <1>0, <2>1 DEF OnlyThese, InsideSleepsOn
  <2> QED BY <1>0, <2>1, <2>2, FitAfter
<1>8. pc' = pc => OutsideMoves(pc, pc')
  BY DEF OutsideMoves
<1>9. sched' = sched /\ pc' = pc => LabelsFit' /\ InsideSleepsOn(sched, sched', pc)
  BY DEF LabelsFit, Unborn, InsideSleepsOn
<1> QED BY <1>1, <1>2, <1>3, <1>4, <1>5, <1>6, <1>7, <1>8, <1>9 DEF ElsewhereStep

---------------------------------------------------------------------------
(* Semaphores                                                              *)

(* sema_down of a semaphore that is 1 takes it, and nothing else happens.  *)
LEMMA SemaPass ==
    ASSUME NEW s, Consistent(s), NEW sem \in Semaphore, sem.value = 1
    PROVE  LET turn == sema_down_turn(s, sem)
           IN  /\ turn.sched = s
               /\ turn.sem \in Semaphore
               /\ turn.sem.value = 0
               /\ turn.sem.waiters = sem.waiters
<1>1. sema_down_turn(s, sem) = [sched |-> s, sem |-> [sem EXCEPT !.value = @ - 1]]
  BY DEF sema_down_turn, MayPass, PassSemaphore, Assert_, Consistent
<1> QED BY <1>1 DEF Semaphore

(* sema_down of a semaphore that is 0 puts its caller to sleep in the      *)
(* list of waiters.                                                        *)
LEMMA SemaWait ==
    ASSUME NEW s, Consistent(s), s.cur # idle_thread,
           NEW sem \in Semaphore, sem.value = 0,
           ~elem_find(sem.waiters, s.cur)
    PROVE  LET turn == sema_down_turn(s, sem)
           IN  /\ Consistent(turn.sched)
               /\ Asleep(turn.sched, s.cur)
               /\ OnlyThese(s, turn.sched, {s.cur, idle_thread})
               /\ turn.sem \in Semaphore
               /\ turn.sem.value = 0
               /\ turn.sem.waiters = Append(sem.waiters, s.cur)
               /\ Range(turn.sem.waiters) = Range(sem.waiters) \cup {s.cur}
               /\ IsInjective(sem.waiters) => IsInjective(turn.sem.waiters)
<1>1. sema_down_turn(s, sem) = [ sched |-> thread_block(s, "TASK_BLOCKED"),
                                 sem |-> [sem EXCEPT !.waiters = Append(@, s.cur)] ]
  BY DEF sema_down_turn, MayPass, WaitForSemaphore, Assert_, Consistent
<1>2. s.cur \in Thread /\ sem.waiters \in Seq(Thread)
  BY DEF Consistent, SchedulerState, Semaphore
<1>3. /\ Append(sem.waiters, s.cur) \in Seq(Thread)
      /\ Range(Append(sem.waiters, s.cur)) = Range(sem.waiters) \cup {s.cur}
      /\ IsInjective(sem.waiters) => IsInjective(Append(sem.waiters, s.cur))
  BY <1>2, AppendList DEF elem_find
<1>4. LET r == thread_block(s, "TASK_BLOCKED")
      IN  Consistent(r) /\ Asleep(r, s.cur) /\ OnlyThese(s, r, {s.cur, idle_thread})
  BY BlockConsistent DEF Sleeping
<1> DEFINE after == [sem EXCEPT !.waiters = Append(sem.waiters, s.cur)]
<1>5. /\ after.waiters = Append(sem.waiters, s.cur)
      /\ after.value = 0
      /\ after \in Semaphore
  BY <1>3 DEF Semaphore
<1>6. /\ sema_down_turn(s, sem).sched = thread_block(s, "TASK_BLOCKED")
      /\ sema_down_turn(s, sem).sem = after
  BY <1>1
<1> HIDE DEF after
<1> QED BY <1>3, <1>4, <1>5, <1>6

(* sema_up of a semaphore that is 0 with sleeping waiters wakes the first. *)
LEMMA SemaUp ==
    ASSUME NEW s, Consistent(s), NEW sem \in Semaphore, sem.value = 0,
           IsInjective(sem.waiters),
           \A t \in Thread : elem_find(sem.waiters, t) => Asleep(s, t)
    PROVE  LET up == sema_up(s, sem)
           IN  /\ Consistent(up.sched)
               /\ up.sched.cur = s.cur
               /\ up.sem \in Semaphore
               /\ up.sem.value = 1
               /\ IsInjective(up.sem.waiters)
               /\ sem.waiters = <<>>
                    => up.sched = s /\ up.sem.waiters = <<>>
               /\ sem.waiters # <<>>
                    => /\ Head(sem.waiters) \in Range(sem.waiters)
                       /\ Head(sem.waiters) \in Thread
                       /\ ~Asleep(up.sched, Head(sem.waiters))
                       /\ OnlyThese(s, up.sched, {Head(sem.waiters)})
                       /\ Range(up.sem.waiters) = Range(sem.waiters) \ {Head(sem.waiters)}
<1>1. /\ sem.waiters \in Seq(Thread)
      /\ ~s.panic
  BY DEF Semaphore, Consistent
<1>2. CASE sem.waiters = <<>>
  <2>1. sema_up(s, sem) = [sched |-> s, sem |-> [value |-> sem.value + 1, waiters |-> <<>>]]
    BY <1>1, <1>2 DEF sema_up, Assert_, WakeFirst
  <2>2. IsInjective(<<>>)
    BY DEF IsInjective
  <2> QED BY <1>2, <2>1, <2>2 DEF Semaphore
<1>3. CASE sem.waiters # <<>>
  <2> DEFINE first == Head(sem.waiters)
  <2>1. sema_up(s, sem) = [ sched |-> thread_unblock(s, first),
                            sem   |-> [value |-> sem.value + 1, waiters |-> Tail(sem.waiters)] ]
    BY <1>1, <1>3 DEF sema_up, Assert_, WakeFirst
  <2>2. /\ first \in Thread
        /\ first \in Range(sem.waiters)
        /\ Tail(sem.waiters) \in Seq(Thread)
        /\ IsInjective(Tail(sem.waiters))
        /\ Range(Tail(sem.waiters)) = Range(sem.waiters) \ {first}
    BY <1>1, <1>3, PopList
  <2>3. Asleep(s, first)
    BY <2>2 DEF elem_find
  <2>4. LET r == thread_unblock(s, first)
        IN  /\ Consistent(r) /\ r.cur = s.cur
            /\ ~Asleep(r, first)
            /\ OnlyThese(s, r, {first})
    <3> HIDE DEF first
    <3> QED BY <2>2, <2>3, UnblockRunning DEF Asleep, Sleeping
  <2>5. LET up == sema_up(s, sem)
        IN  /\ up.sched = thread_unblock(s, first)
            /\ up.sem.waiters = Tail(sem.waiters)
            /\ up.sem.value = 1
            /\ up.sem \in Semaphore
    BY <2>1, <2>2 DEF Semaphore
  <2> QED BY <1>3, <2>2, <2>4, <2>5
<1> QED BY <1>2, <1>3

---------------------------------------------------------------------------
(* Locks                                                                   *)

(* lock_acquire of a free lock.                                            *)
LEMMA AcquireFree ==
    ASSUME NEW s, Consistent(s), NEW lock, LockIsExact(lock), IsFree(lock)
    PROVE  LET turn == acquire_turn(s, lock)
           IN  /\ turn.sched = s
               /\ LockIsExact(turn.lock)
               /\ turn.lock.holder = s.cur
               /\ turn.lock.semaphore.waiters = lock.semaphore.waiters
               /\ lock.holder = nobody
<1>1. lock.semaphore \in Semaphore /\ lock.semaphore.value = 1 /\ lock.holder = nobody
  BY DEF LockIsExact, Lock, IsFree, MayPass
<1>2. s.cur \in Thread
  BY DEF Consistent, SchedulerState
<1> QED BY <1>1, <1>2, SemaPass, WholeLocksAssumption DEF acquire_turn, LockIsExact, Lock

(* lock_acquire of a lock that somebody holds.                             *)
LEMMA AcquireHeld ==
    ASSUME NEW s, Consistent(s), s.cur # idle_thread,
           NEW lock, LockIsExact(lock), ~IsFree(lock),
           ~elem_find(lock.semaphore.waiters, s.cur)
    PROVE  LET turn == acquire_turn(s, lock)
           IN  /\ Consistent(turn.sched)
               /\ Asleep(turn.sched, s.cur)
               /\ OnlyThese(s, turn.sched, {s.cur, idle_thread})
               /\ LockIsExact(turn.lock)
               /\ turn.lock.holder = lock.holder
               /\ turn.lock.semaphore.waiters = Append(lock.semaphore.waiters, s.cur)
               /\ Range(turn.lock.semaphore.waiters)
                    = Range(lock.semaphore.waiters) \cup {s.cur}
               /\ lock.holder # nobody
<1>1. lock.semaphore \in Semaphore /\ lock.semaphore.value = 0 /\ lock.holder # nobody
  BY DEF LockIsExact, Lock, IsFree, MayPass
<1> QED BY <1>1, SemaWait DEF acquire_turn, LockIsExact, Lock

(* lock_release by the holder wakes the first waiter.                      *)
LEMMA ReleaseHeld ==
    ASSUME NEW s, Consistent(s), NEW lock, LockIsExact(lock), lock.holder = s.cur,
           \A t \in Thread : elem_find(lock.semaphore.waiters, t) => Asleep(s, t)
    PROVE  LET freed == release(s, lock)
           IN  /\ Consistent(freed.sched)
               /\ freed.sched.cur = s.cur
               /\ LockIsExact(freed.lock)
               /\ freed.lock.holder = nobody
               /\ lock.semaphore.waiters = <<>>
                    => freed.sched = s /\ freed.lock.semaphore.waiters = <<>>
               /\ lock.semaphore.waiters # <<>>
                    => LET first == Head(lock.semaphore.waiters)
                       IN  /\ first \in Thread
                           /\ elem_find(lock.semaphore.waiters, first)
                           /\ ~Asleep(freed.sched, first)
                           /\ OnlyThese(s, freed.sched, {first})
                           /\ Range(freed.lock.semaphore.waiters)
                                = Range(lock.semaphore.waiters) \ {first}
<1>1. /\ lock.semaphore \in Semaphore
      /\ lock.semaphore.value = 0
      /\ IsInjective(lock.semaphore.waiters)
      /\ s.cur \in Thread /\ ~s.panic
  BY WholeLocksAssumption DEF LockIsExact, Lock, Consistent, SchedulerState
<1> DEFINE up == sema_up(s, lock.semaphore)
<1>2. release(s, lock) = [sched |-> up.sched,
                          lock |-> [semaphore |-> up.sem, holder |-> nobody]]
  BY <1>1 DEF release, Assert_
<1> HIDE DEF up
<1>3. /\ Consistent(up.sched)
      /\ up.sched.cur = s.cur
      /\ up.sem \in Semaphore
      /\ up.sem.value = 1
      /\ IsInjective(up.sem.waiters)
  BY <1>1, SemaUp DEF up, elem_find
<1>4. LockIsExact([semaphore |-> up.sem, holder |-> nobody])
  BY <1>3 DEF LockIsExact, Lock
<1>5. CASE lock.semaphore.waiters = <<>>
  <2>1. up.sched = s /\ up.sem.waiters = <<>>
    BY <1>1, <1>5, SemaUp DEF up, elem_find
  <2> QED BY <1>2, <1>3, <1>4, <1>5, <2>1
<1>6. CASE lock.semaphore.waiters # <<>>
  <2> DEFINE first == Head(lock.semaphore.waiters)
  <2>1. /\ first \in Thread
        /\ elem_find(lock.semaphore.waiters, first)
        /\ ~Asleep(up.sched, first)
        /\ OnlyThese(s, up.sched, {first})
        /\ Range(up.sem.waiters) = Range(lock.semaphore.waiters) \ {first}
    BY <1>1, <1>6, SemaUp DEF up, elem_find
  <2> QED BY <1>2, <1>3, <1>4, <1>6, <2>1
<1> QED BY <1>5, <1>6
=============================================================================
