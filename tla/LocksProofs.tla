---------------------------- MODULE LocksProofs ----------------------------
(***************************************************************************)
(* The safety of lock_acquire and lock_release for any number of threads,  *)
(* processes and nesting levels.  Inv of module Locks is inductive; the    *)
(* properties follow from it.                                              *)
(***************************************************************************)
EXTENDS Locks, WholeLocksProofs

(* The conjuncts of Inv, regrouped by the component they belong to.        *)
Types ==
    /\ pc \in [Thread -> Labels]
    /\ intr \in [Thread -> BOOLEAN]
    /\ semaphore \in Semaphore
    /\ holder \in Thread \cup {nobody}
    /\ holder_repeat_nr \in Nat
    /\ depth \in [Thread -> Nat]

WaitersSleep ==
    /\ IsInjective(semaphore.waiters)
    /\ \A t \in Thread : elem_find(semaphore.waiters, t)
                            => pc[t] = "wait" /\ Asleep(sched, t)

Parts ==
    /\ Types
    /\ Consistent(sched)
    /\ WaitersSleep
    /\ LabelsFit
    /\ LockIsConsistent

USE DEF Parts, Running, Goto, threads, lockVars, vars

(* The inductive invariant regrouped by the parts that the steps disturb.  *)
LEMMA InvParts == (Inv <=> Parts) /\ (Inv' <=> Parts')
<1> USE DEF Inv, TypeOK, NoPanic, OneListPerThread, ThreadsAreConsistent,
            Unborn, Types, Consistent, ReadyListExact, WaitersSleep, LabelsFit,
            Asleep, elem_find
<1>1. Inv <=> Parts
  OBVIOUS
<1>2. Inv' <=> Parts'
  OBVIOUS
<1> QED BY <1>1, <1>2

---------------------------------------------------------------------------
(* lock_init and thread_init                                               *)
LEMMA InitInv == Init => Inv
<1> SUFFICES ASSUME Init PROVE Inv
  OBVIOUS
<1> USE SchedulerAssumption, ThreadsAssumption, WholeLocksAssumption DEF Init, ThreadsInit
<1>1. Types
  BY DEF Types, Labels, Masked, IdleLabels, sema_init, Semaphore
<1>2. Consistent(sched)
  <2>1. /\ sched.ready = <<init_process, idle_thread>>
        /\ sched.cur = main_thread
        /\ sched.panic = FALSE
        /\ sched.ticks = Priority
        /\ sched.status = [t \in Thread |->
                IF t = main_thread THEN "TASK_RUNNING"
                ELSE IF t \in {init_process, idle_thread}
                     THEN "TASK_READY" ELSE "unborn"]
    OBVIOUS
  <2>2. /\ init_process \in Thread /\ idle_thread \in Thread
        /\ init_process # idle_thread /\ main_thread # idle_thread
        /\ init_process # main_thread
    OBVIOUS
  <2>3. sched \in SchedulerState
    BY <2>1, <2>2 DEF SchedulerState, Status
  <2>4. /\ IsInjective(sched.ready)
        /\ Range(sched.ready) = {init_process, idle_thread}
    BY <2>1, <2>2 DEF IsInjective, Range
  <2> QED BY <2>1, <2>2, <2>3, <2>4 DEF Consistent, ReadyListExact, elem_find
<1>3. WaitersSleep
  BY DEF WaitersSleep, sema_init, elem_find, Range, IsInjective
<1>4. LabelsFit
  BY DEF LabelsFit
<1>5. LockIsConsistent
  BY DEF LockIsConsistent, MutualExclusion, Owns, LabelKnows, sema_init, IdleLabels
<1> QED BY <1>1, <1>2, <1>3, <1>4, <1>5, InvParts

---------------------------------------------------------------------------
(* What the running thread is, and is not.                                 *)
LEMMA RunningThread ==
    ASSUME Inv, NEW t \in Thread, sched.cur = t
    PROVE  /\ sched.status[t] = "TASK_RUNNING"
           /\ ~Asleep(sched, t)
           /\ ~Unborn(t)
           /\ ~elem_find(semaphore.waiters, t)
           /\ pc[t] \notin {"first"} \cup IdleLabels => t # idle_thread
BY InvParts DEF Consistent, Asleep, Sleeping, Unborn, WaitersSleep, LabelsFit,
                IdleLabels

(* A step of the running thread inside of lock_acquire and lock_release    *)
(* that leaves the scheduler and the waiters alone moves nothing but the   *)
(* lock itself.                                                            *)
LEMMA LocalStep ==
    ASSUME Inv, NEW t \in Thread, sched.cur = t,
           NEW l \in Labels, pc' = [pc EXCEPT ![t] = l],
           t = idle_thread => l \in {"first"} \cup IdleLabels,
           sched' = sched,
           semaphore'.waiters = semaphore.waiters
    PROVE  Consistent(sched)' /\ WaitersSleep' /\ LabelsFit'
BY InvParts, RunningThread
DEF Types, WaitersSleep, LabelsFit, Unborn, elem_find, Asleep

(* A step that leaves the lock alone keeps it consistent.                  *)
LEMMA LockUntouched ==
    ASSUME Inv, UNCHANGED lockVars,
           \A t \in Thread :
              \/ pc'[t] = pc[t]
              \/ /\ pc[t] \in {"first"} \cup IdleLabels
                 /\ pc'[t] \in {"run"} \cup IdleLabels
    PROVE  LockIsConsistent'
<1>1. \A t \in Thread : LabelKnows(t)' /\ (Owns(t)' <=> Owns(t))
  BY InvParts DEF LockIsConsistent, Owns, LabelKnows, IdleLabels
<1> QED BY <1>1, InvParts DEF LockIsConsistent, MutualExclusion, Types

---------------------------------------------------------------------------
(* Steps of the processor and of threads outside of the lock               *)

(* LeaveHalt only moves idle from one of its labels to another.            *)
LEMMA LeaveHaltLabels ==
    ASSUME Inv, pc' = LeaveHalt
    PROVE  /\ pc' \in [Thread -> Labels]
           /\ \A t \in Thread :
                 \/ pc'[t] = pc[t]
                 \/ t = idle_thread /\ pc[t] = "hlt" /\ pc'[t] = "loop"
BY InvParts, SchedulerAssumption
DEF LeaveHalt, Types, Labels, IdleLabels

(* A step after which only idle and threads outside of the waiters list    *)
(* may sleep otherwise than before keeps the waiters asleep.               *)
LEMMA WaitersStaySleeping ==
    ASSUME Inv, NEW T, OnlyThese(sched, sched', T),
           \A t \in T : t = idle_thread \/ ~elem_find(semaphore.waiters, t),
           semaphore' = semaphore,
           \A t \in Thread : pc[t] \notin {"first"} \cup IdleLabels => pc'[t] = pc[t]
    PROVE  WaitersSleep'
BY InvParts DEF WaitersSleep, OnlyThese, Asleep, LabelsFit, IdleLabels, elem_find

(* An interrupt lets idle leave hlt and moves no other label.              *)
LEMMA LabelsStayFit ==
    ASSUME Inv, pc' = LeaveHalt, NEW T, OnlyThese(sched, sched', T)
    PROVE  LabelsFit'
<1>1. /\ pc[idle_thread] \in {"first"} \cup IdleLabels
      /\ \A t \in Thread : Unborn(t)' => Unborn(t)
      /\ \A t \in Thread : Unborn(t) => pc[t] = "first"
  BY InvParts DEF LabelsFit, OnlyThese, Unborn
<1>2. pc'[idle_thread] \in {"first"} \cup IdleLabels
  BY <1>1, LeaveHaltLabels, SchedulerAssumption DEF IdleLabels
<1>3. \A t \in Thread : Unborn(t)' => pc'[t] = "first"
  BY <1>1, LeaveHaltLabels
<1> QED BY <1>2, <1>3 DEF LabelsFit

(* The timer interrupt preserves the invariant.                            *)
LEMMA TimerInv ==
    ASSUME Inv, intr_timer_handler, UNCHANGED lockVars
    PROVE  Inv'
<1> USE DEF intr_timer_handler
<1>1. Consistent(sched)' /\ OnlyThese(sched, sched', {idle_thread})
  BY InvParts, TickConsistent
<1>2. Types'
  BY InvParts, LeaveHaltLabels DEF Types
<1>3. WaitersSleep'
  BY <1>1, LeaveHaltLabels, WaitersStaySleeping DEF IdleLabels
<1>4. LabelsFit'
  BY <1>1, LabelsStayFit DEF IdleLabels
<1>5. LockIsConsistent'
  BY LeaveHaltLabels, LockUntouched DEF IdleLabels
<1> QED BY <1>1, <1>2, <1>3, <1>4, <1>5, InvParts

(* The steps of idle preserve the invariant.                               *)
LEMMA IdleInv ==
    ASSUME Inv, IdleBlock \/ IdleHalt, UNCHANGED lockVars
    PROVE  Inv'
<1>1. /\ Types'
      /\ LockIsConsistent'
      /\ pc'[idle_thread] \in IdleLabels
      /\ \A t \in Thread \ {idle_thread} : pc'[t] = pc[t]
      /\ pc[idle_thread] \in IdleLabels
  <2>1. /\ pc' \in [Thread -> Labels]
        /\ pc'[idle_thread] \in IdleLabels
        /\ \A t \in Thread \ {idle_thread} : pc'[t] = pc[t]
        /\ pc[idle_thread] \in IdleLabels
    BY InvParts, SchedulerAssumption
    DEF Types, IdleBlock, IdleHalt, Labels, IdleLabels
  <2> QED BY <2>1, InvParts, LockUntouched DEF Types, IdleBlock, IdleHalt
<1>2. Consistent(sched)' /\ OnlyThese(sched, sched', {idle_thread})
  <2>1. CASE IdleBlock
    BY <2>1, InvParts, BlockConsistent DEF IdleBlock, Sleeping
  <2>2. CASE IdleHalt
    BY <2>2, InvParts DEF IdleHalt, OnlyThese
  <2> QED BY <2>1, <2>2
<1>3. WaitersSleep'
  BY <1>1, <1>2, WaitersStaySleeping DEF IdleLabels
<1>4. LabelsFit'
  BY <1>1, <1>2, InvParts
  DEF LabelsFit, OnlyThese, Unborn, IdleLabels, Consistent
<1> QED BY <1>1, <1>2, <1>3, <1>4, InvParts

(* The steps that do not touch the lock preserve the invariant: the first  *)
(* steps of a thread, system calls, fork, yield, sleep and device          *)
(* interrupts.                                                             *)
LEMMA KernelStepInv ==
    ASSUME Inv, NEW t \in Thread, KernelStep(t)
    PROVE  Inv'
<1> USE DEF KernelStep
<1>1. CASE kernel_thread(t)
  <2>1. pc'[t] \in {"run"} \cup IdleLabels
    BY <1>1, InvParts DEF kernel_thread, Types, IdleLabels
  <2>2. Types'
    BY <1>1, InvParts DEF kernel_thread, Types, Labels, IdleLabels
  <2>3. LockIsConsistent'
    BY <1>1, <2>1, InvParts, LockUntouched DEF kernel_thread, Types
  <2>4. Consistent(sched)' /\ WaitersSleep' /\ LabelsFit'
    BY <1>1, InvParts, RunningThread
    DEF kernel_thread, Types, WaitersSleep, LabelsFit, Unborn, elem_find,
        Asleep, IdleLabels
  <2> QED BY <2>2, <2>3, <2>4, InvParts
<1>2. CASE SyscallEnter(t) \/ SyscallReturn(t)
  <2>1. Types' /\ Consistent(sched)' /\ WaitersSleep' /\ LabelsFit'
    BY <1>2, InvParts
    DEF SyscallEnter, SyscallReturn, Types, WaitersSleep, LabelsFit, Unborn,
        elem_find, Asleep
  <2>2. LockIsConsistent'
    BY <1>2, LockUntouched DEF SyscallEnter, SyscallReturn
  <2> QED BY <2>1, <2>2, InvParts
<1>3. ASSUME NEW child \in Process, sys_fork(t, child) PROVE Inv'
  <2> USE <1>3 DEF sys_fork
  <2>1. child \in Thread /\ sched.status[child] = "unborn"
    BY ThreadsAssumption DEF Unborn
  <2>2. /\ Consistent(sched)'
        /\ \A u \in Thread \ {child} : sched'.status[u] = sched.status[u]
        /\ sched'.status[child] = "TASK_READY"
    BY <2>1, InvParts, StartConsistent
  <2>3. ~elem_find(semaphore.waiters, child)
    BY <2>1, InvParts DEF WaitersSleep, Asleep, Sleeping
  <2>4. WaitersSleep' /\ LabelsFit' /\ Types'
    BY <2>1, <2>2, <2>3, InvParts
    DEF WaitersSleep, LabelsFit, Types, Unborn, Asleep, elem_find
  <2>5. LockIsConsistent'
    BY LockUntouched
  <2> QED BY <2>2, <2>4, <2>5, InvParts
<1>4. CASE Yield(t)
  <2>1. Consistent(sched)' /\ OnlyThese(sched, sched', {idle_thread})
    BY <1>4, InvParts, YieldConsistent DEF Yield
  <2>2. LockIsConsistent'
    BY <1>4, LockUntouched DEF Yield
  <2>3. WaitersSleep'
    BY <1>4, <2>1, WaitersStaySleeping DEF Yield
  <2>4. LabelsFit' /\ Types'
    BY <1>4, <2>1, InvParts DEF Yield, LabelsFit, Types, OnlyThese, Unborn
  <2> QED BY <2>1, <2>2, <2>3, <2>4, InvParts
<1>5. CASE Sleep(t)
  <2>1. /\ Consistent(sched)'
        /\ OnlyThese(sched, sched', {t, idle_thread})
    BY <1>5, InvParts, BlockConsistent DEF Sleep, Sleeping
  <2>2. LockIsConsistent'
    BY <1>5, LockUntouched DEF Sleep
  <2>3. ~elem_find(semaphore.waiters, t)
    BY <1>5, RunningThread DEF Sleep
  <2>4. WaitersSleep'
    BY <1>5, <2>1, <2>3, WaitersStaySleeping DEF Sleep
  <2>5. LabelsFit' /\ Types'
    BY <1>5, <2>1, InvParts DEF Sleep, LabelsFit, Types, OnlyThese, Unborn
  <2> QED BY <2>1, <2>2, <2>4, <2>5, InvParts
<1>6. CASE DeviceInterrupt(t) /\ WaitsForDevice(t)
  <2> USE <1>6 DEF DeviceInterrupt, WaitsForDevice
  <2>1. /\ Consistent(sched)'
        /\ OnlyThese(sched, sched', {t})
    BY InvParts, UnblockRunning DEF Asleep
  <2>2. LockIsConsistent'
    BY LeaveHaltLabels, LockUntouched DEF IdleLabels
  <2>3. WaitersSleep'
    BY <2>1, LeaveHaltLabels, WaitersStaySleeping DEF IdleLabels
  <2>4. Types'
    BY InvParts, LeaveHaltLabels DEF Types
  <2>5. LabelsFit'
    BY <2>1, LabelsStayFit
  <2> QED BY <2>1, <2>2, <2>3, <2>4, <2>5, InvParts
<1> QED BY <1>1, <1>2, <1>3, <1>4, <1>5, <1>6

---------------------------------------------------------------------------
(* Steps of the owner                                                      *)

(* Where a thread may stand that does not own the lock.                    *)
Outside == Masked \cup IdleLabels \cup {"run", "down"}

(* A thread that does not own the lock has depth 0 and stands outside of   *)
(* the section between sema_down and sema_up.                              *)
LEMMA NonOwner ==
    ASSUME Inv, NEW u \in Thread, ~Owns(u)
    PROVE  depth[u] = 0 /\ pc[u] \in Outside
BY InvParts
DEF Owns, LockIsConsistent, LabelKnows, Types, Labels, Outside, Masked, IdleLabels

(* Conversely, a thread that stands outside with depth 0 owns nothing,     *)
(* and its label claims nothing of the lock.                               *)
LEMMA Bystander ==
    ASSUME NEW u \in Thread, depth'[u] = 0, pc'[u] \in Outside
    PROVE  LabelKnows(u)' /\ ~Owns(u)'
BY DEF Owns, LabelKnows, Outside, Masked, IdleLabels

(* A step of the owner t that only has to keep what its own label knows.   *)
LEMMA OwnerStep ==
    ASSUME Inv, NEW t \in Thread, Owns(t),
           \A u \in Thread \ {t} : pc'[u] = pc[u] /\ depth'[u] = depth[u],
           semaphore' = semaphore,
           holder' \in {t, nobody},
           LabelKnows(t)', Owns(t)'
    PROVE  LockIsConsistent'
<1>1. \A u \in Thread \ {t} : LabelKnows(u)' /\ ~Owns(u)'
  BY NonOwner, Bystander, InvParts DEF LockIsConsistent, MutualExclusion
<1>2. semaphore.value = 0
  BY InvParts DEF LockIsConsistent
<1> QED BY <1>1, <1>2 DEF LockIsConsistent, MutualExclusion

(* The steps of lock_acquire and lock_release between sema_down and        *)
(* sema_up.                                                                *)
OwnerAction(t) ==
    \/ AcquireAgain(t)
    \/ SetHolder(t)
    \/ SetCount(t)
    \/ lock_release(t)
    \/ ReleaseNested(t)
    \/ ClearHolder(t)
    \/ ClearCount(t)

(* The steps of OwnerAction are taken by the owner alone, while it runs.   *)
LEMMA OwnerLabels ==
    ASSUME Inv, NEW t \in Thread, OwnerAction(t)
    PROVE  /\ Owns(t) /\ LabelKnows(t)
           /\ pc[t] \in Labels /\ depth[t] \in Nat /\ holder_repeat_nr \in Nat
           /\ t # idle_thread
           /\ sched.cur = t
<1>1. /\ LabelKnows(t)
      /\ pc[t] \in Labels /\ depth[t] \in Nat /\ holder_repeat_nr \in Nat
  BY InvParts DEF LockIsConsistent, Types
<1>2. Owns(t)
  BY <1>1
  DEF OwnerAction, Owns, LabelKnows, AcquireAgain, SetHolder, SetCount,
      lock_release, ReleaseNested, ClearHolder, ClearCount
<1>3. sched.cur = t /\ pc[t] \notin {"first"} \cup IdleLabels
  BY DEF OwnerAction, AcquireAgain, SetHolder, SetCount, lock_release,
         ReleaseNested, ClearHolder, ClearCount, IdleLabels
<1> QED BY <1>1, <1>2, <1>3, RunningThread

(* The steps of the owner between sema_down and sema_up preserve the       *)
(* invariant, whatever fields of the lock they write.                      *)
LEMMA OwnerActionInv ==
    ASSUME Inv, NEW t \in Thread, OwnerAction(t)
    PROVE  Inv'
<1> USE OwnerLabels
<1>1. sched' = sched
  <2>1. CASE SetCount(t)
    BY <2>1, InvParts DEF SetCount, LabelKnows, Assert_, Consistent
  <2>2. CASE lock_release(t)
    BY <2>2, InvParts DEF lock_release, LabelKnows, Assert_, Consistent
  <2> QED BY <2>1, <2>2
          DEF OwnerAction, AcquireAgain, SetHolder, ReleaseNested, ClearHolder,
              ClearCount
<1>2. Types'
  BY InvParts
  DEF OwnerAction, AcquireAgain, SetHolder, SetCount, lock_release,
      ReleaseNested, ClearHolder, ClearCount, Types, Labels, LabelKnows
<1>3. /\ \A u \in Thread \ {t} : pc'[u] = pc[u] /\ depth'[u] = depth[u]
      /\ semaphore' = semaphore
  BY InvParts
  DEF OwnerAction, AcquireAgain, SetHolder, SetCount, lock_release,
      ReleaseNested, ClearHolder, ClearCount, Types
<1>4. LabelKnows(t)' /\ Owns(t)' /\ holder' \in {t, nobody}
  <2> USE InvParts, WholeLocksAssumption DEF Types, LabelKnows, Owns, IdleLabels
  <2>1. CASE AcquireAgain(t)
    BY <2>1 DEF AcquireAgain
  <2>2. CASE SetHolder(t)
    BY <2>2 DEF SetHolder
  <2>3. CASE SetCount(t)
    BY <2>3 DEF SetCount
  <2>4. CASE lock_release(t)
    BY <2>4 DEF lock_release
  <2>5. CASE ReleaseNested(t)
    BY <2>5 DEF ReleaseNested
  <2>6. CASE ClearHolder(t)
    BY <2>6 DEF ClearHolder
  <2>7. CASE ClearCount(t)
    BY <2>7 DEF ClearCount
  <2> QED BY <2>1, <2>2, <2>3, <2>4, <2>5, <2>6, <2>7 DEF OwnerAction
<1>5. LockIsConsistent'
  BY <1>3, <1>4, OwnerStep
<1>6. \E l \in Labels : pc' = [pc EXCEPT ![t] = l]
  BY DEF OwnerAction, AcquireAgain, SetHolder, SetCount, lock_release,
         ReleaseNested, ClearHolder, ClearCount, Labels
<1>7. Consistent(sched)' /\ WaitersSleep' /\ LabelsFit'
  BY <1>1, <1>3, <1>6, LocalStep
<1> QED BY <1>2, <1>5, <1>7, InvParts

---------------------------------------------------------------------------
(* lock_acquire up to sema_down                                            *)
LEMMA AcquireInv ==
    ASSUME Inv, NEW t \in Thread, lock_acquire(t)
    PROVE  Inv'
<1> USE DEF lock_acquire
<1>1. LabelKnows(t) /\ t # idle_thread /\ depth[t] \in Nat
  BY InvParts, RunningThread DEF LockIsConsistent, Types, IdleLabels
<1>2. Types'
  BY InvParts DEF Types, Labels, Masked
<1>3. Consistent(sched)' /\ WaitersSleep' /\ LabelsFit'
  BY <1>1, LocalStep DEF Labels, Masked
<1>4. /\ \A u \in Thread \ {t} : LabelKnows(u)' /\ (Owns(u)' <=> Owns(u))
      /\ LabelKnows(t)' /\ (Owns(t)' <=> Owns(t))
  <2>1. \A u \in Thread \ {t} : LabelKnows(u)' /\ (Owns(u)' <=> Owns(u))
    BY InvParts DEF LockIsConsistent, LabelKnows, Owns, Types
  <2>2. CASE holder = t
    <3>1. depth[t] > 0
      BY <2>2, InvParts, WholeLocksAssumption DEF LockIsConsistent, Owns
    <3> QED BY <1>1, <2>1, <2>2, <3>1, InvParts
            DEF LabelKnows, Owns, Types, IdleLabels
  <2>3. CASE holder # t
    BY <1>1, <2>1, <2>3, InvParts DEF LabelKnows, Owns, Types, IdleLabels
  <2> QED BY <2>2, <2>3
<1>5. LockIsConsistent'
  BY <1>4, InvParts DEF LockIsConsistent, MutualExclusion, Types
<1> QED BY <1>2, <1>3, <1>5, InvParts

---------------------------------------------------------------------------
(* sema_down, one turn of its loop                                         *)
LEMMA DownLabels ==
    ASSUME Inv, NEW t \in Thread, sema_down(t)
    PROVE  /\ sched.cur = t /\ t # idle_thread
           /\ ~Owns(t) /\ depth[t] = 0
           /\ ~elem_find(semaphore.waiters, t)
<1>1. sched.cur = t /\ pc[t] \in {"down", "wait"}
  BY DEF sema_down
<1>2. LabelKnows(t) /\ depth[t] \in Nat
  BY InvParts DEF LockIsConsistent, Types
<1> QED BY <1>1, <1>2, RunningThread DEF LabelKnows, Owns, IdleLabels

(* The semaphore is free: the caller becomes the owner.                    *)
LEMMA PassInv ==
    ASSUME Inv, NEW t \in Thread, sema_down(t), MayPass(semaphore)
    PROVE  Inv'
<1> USE DownLabels
<1>1. /\ semaphore.value = 1
      /\ semaphore \in [value : Nat, waiters : Seq(Thread)]
  BY InvParts DEF MayPass, LockIsConsistent, Types, Semaphore
<1>2. /\ sched' = sched
      /\ semaphore'.value = 0
      /\ semaphore'.waiters = semaphore.waiters
      /\ semaphore' \in Semaphore
  BY <1>1, InvParts
  DEF sema_down, sema_down_turn, PassSemaphore, Assert_, Consistent, Semaphore
<1>3. pc' = [pc EXCEPT ![t] = "own"]
  BY DEF sema_down
<1>4. Types'
  BY <1>2, <1>3, InvParts DEF sema_down, Types, Labels
<1>5. Consistent(sched)' /\ WaitersSleep' /\ LabelsFit'
  BY <1>2, <1>3, LocalStep DEF Labels
<1>6. \A u \in Thread : ~Owns(u)
  BY <1>1, InvParts DEF LockIsConsistent
<1>7. /\ \A u \in Thread \ {t} : LabelKnows(u)' /\ ~Owns(u)'
      /\ LabelKnows(t)' /\ Owns(t)'
  <2>1. /\ depth' = depth /\ holder' = holder /\ holder_repeat_nr' = holder_repeat_nr
        /\ \A u \in Thread \ {t} : pc'[u] = pc[u]
        /\ pc'[t] = "own"
    BY <1>3, InvParts DEF sema_down, Types
  <2>2. \A u \in Thread \ {t} : LabelKnows(u)' /\ ~Owns(u)'
    BY <1>6, <2>1, NonOwner, Bystander
  <2>3. holder = nobody /\ holder_repeat_nr = 0
    BY <1>1, InvParts DEF LockIsConsistent
  <2> QED BY <2>1, <2>2, <2>3 DEF LabelKnows, Owns, IdleLabels
<1>8. LockIsConsistent'
  <2>1. holder' = nobody
    BY <1>1, InvParts DEF LockIsConsistent, sema_down
  <2> QED BY <1>2, <1>7, <2>1 DEF LockIsConsistent, MutualExclusion
<1> QED BY <1>4, <1>5, <1>8, InvParts

(* The semaphore is taken: the caller joins the waiters and sleeps.        *)
LEMMA WaitInv ==
    ASSUME Inv, NEW t \in Thread, sema_down(t), ~MayPass(semaphore)
    PROVE  Inv'
<1> USE DownLabels
<1>1. /\ semaphore.value = 0
      /\ semaphore \in [value : Nat, waiters : Seq(Thread)]
  BY InvParts DEF MayPass, Types, Semaphore
<1>2. /\ sched' = thread_block(sched, "TASK_BLOCKED")
      /\ semaphore' = [semaphore EXCEPT !.waiters = Append(semaphore.waiters, t)]
  BY InvParts
  DEF sema_down, sema_down_turn, WaitForSemaphore, Assert_, Consistent
<1>3. /\ semaphore'.value = 0
      /\ semaphore'.waiters = Append(semaphore.waiters, t)
      /\ semaphore' \in Semaphore
      /\ IsInjective(semaphore'.waiters)
      /\ Range(semaphore'.waiters) = Range(semaphore.waiters) \cup {t}
  <2>1. /\ semaphore.waiters \in Seq(Thread)
        /\ IsInjective(semaphore.waiters)
        /\ t \notin Range(semaphore.waiters)
    BY <1>1, InvParts DEF WaitersSleep, elem_find
  <2>2. /\ Append(semaphore.waiters, t) \in Seq(Thread)
        /\ IsInjective(Append(semaphore.waiters, t))
        /\ Range(Append(semaphore.waiters, t)) = Range(semaphore.waiters) \cup {t}
    BY <2>1, AppendList
  <2>3. /\ semaphore'.value = 0
        /\ semaphore'.waiters = Append(semaphore.waiters, t)
        /\ semaphore' \in Semaphore
    BY <1>1, <1>2, <2>2 DEF Semaphore
  <2> QED BY <2>2, <2>3
<1>4. /\ pc' = [pc EXCEPT ![t] = "wait"]
      /\ UNCHANGED <<intr, holder, holder_repeat_nr, depth>>
  BY DEF sema_down
<1>5. /\ Consistent(sched)'
      /\ Asleep(sched, t)'
      /\ OnlyThese(sched, sched', {t, idle_thread})
  BY <1>2, InvParts, BlockConsistent DEF Sleeping, Asleep
<1>6. Types'
  BY <1>3, <1>4, InvParts DEF Types, Labels, Masked
<1>7. WaitersSleep'
  <2> SUFFICES ASSUME NEW u \in Thread, elem_find(semaphore.waiters, u)'
               PROVE  pc'[u] = "wait" /\ Asleep(sched, u)'
    BY <1>3 DEF WaitersSleep
  <2>1. CASE u = t
    BY <1>4, <1>5, <2>1, InvParts DEF Types
  <2>2. CASE u # t
    <3>1. elem_find(semaphore.waiters, u)
      BY <1>3, <2>2 DEF elem_find
    <3>2. pc[u] = "wait" /\ Asleep(sched, u) /\ u # idle_thread
      BY <3>1, InvParts DEF WaitersSleep, LabelsFit, IdleLabels
    <3> QED BY <1>4, <1>5, <2>2, <3>2, InvParts DEF Types, OnlyThese, Asleep
  <2> QED BY <2>1, <2>2
<1>8. LabelsFit'
  BY <1>4, <1>5, InvParts, RunningThread
  DEF Types, LabelsFit, OnlyThese, Unborn
<1>9. LockIsConsistent'
  <2>1. \A u \in Thread : LabelKnows(u)' /\ (Owns(u)' <=> Owns(u))
    <3>1. \A u \in Thread \ {t} : LabelKnows(u)' /\ (Owns(u)' <=> Owns(u))
      BY <1>4, InvParts DEF LockIsConsistent, LabelKnows, Owns, Types
    <3>2. LabelKnows(t)' /\ ~Owns(t)'
      BY <1>4, InvParts, Bystander DEF Types, Outside, Masked
    <3> QED BY <3>1, <3>2
  <2> QED BY <1>1, <1>3, <1>4, <2>1, InvParts
          DEF LockIsConsistent, MutualExclusion, Types
<1> QED BY <1>5, <1>6, <1>7, <1>8, <1>9, InvParts

---------------------------------------------------------------------------
(* sema_up at the end of lock_release                                      *)
LEMMA ReleaseInv ==
    ASSUME Inv, NEW t \in Thread, ReleaseSemaphore(t)
    PROVE  Inv'
<1>1. /\ LabelKnows(t) /\ pc[t] = "up" /\ depth[t] = 1
      /\ holder = nobody /\ holder_repeat_nr = 0
      /\ Owns(t) /\ semaphore.value = 0
      /\ t # idle_thread /\ sched.cur = t
  BY InvParts, RunningThread
  DEF ReleaseSemaphore, LockIsConsistent, LabelKnows, Owns, IdleLabels
<1>2. /\ sched' = WakeFirst(sched, semaphore)
      /\ semaphore' = [ value   |-> 1,
                        waiters |-> IF semaphore.waiters = <<>>
                                    THEN <<>> ELSE Tail(semaphore.waiters) ]
  BY <1>1, InvParts DEF ReleaseSemaphore, sema_up, Assert_, Consistent
<1>3. /\ pc' = [pc EXCEPT ![t] = "run"]
      /\ depth' = [depth EXCEPT ![t] = 0]
      /\ UNCHANGED <<intr, holder, holder_repeat_nr>>
  BY DEF ReleaseSemaphore
<1>4. semaphore.waiters \in Seq(Thread) /\ IsInjective(semaphore.waiters)
  BY InvParts DEF Types, Semaphore, WaitersSleep
<1>5. /\ Consistent(sched)'
      /\ semaphore'.waiters \in Seq(Thread)
      /\ IsInjective(semaphore'.waiters)
      /\ \A u \in Thread : elem_find(semaphore.waiters, u)'
            => elem_find(semaphore.waiters, u) /\ Asleep(sched, u)'
      /\ \A u \in Thread : Unborn(u)' => Unborn(u)
  <2>1. CASE semaphore.waiters = <<>>
    BY <1>2, <2>1, InvParts
    DEF WakeFirst, elem_find, Range, IsInjective, Unborn
  <2>2. CASE semaphore.waiters # <<>>
    <3> DEFINE first == Head(semaphore.waiters)
    <3>1. /\ first \in Thread
          /\ first \in Range(semaphore.waiters)
          /\ Tail(semaphore.waiters) \in Seq(Thread)
          /\ IsInjective(Tail(semaphore.waiters))
          /\ Range(Tail(semaphore.waiters)) = Range(semaphore.waiters) \ {first}
      BY <1>4, <2>2, PopList
    <3> HIDE DEF first
    <3>2. Asleep(sched, first)
      BY <3>1, InvParts DEF WaitersSleep, elem_find
    <3>3. sched' = thread_unblock(sched, first)
      BY <1>2, <2>2 DEF WakeFirst, first
    <3>4. /\ Consistent(sched)'
          /\ OnlyThese(sched, sched', {first})
      BY <3>1, <3>2, <3>3, InvParts, UnblockRunning
    <3>5. semaphore'.waiters = Tail(semaphore.waiters)
      BY <1>2, <2>2
    <3> QED BY <3>1, <3>4, <3>5, InvParts
            DEF WaitersSleep, elem_find, OnlyThese, Asleep, Unborn
  <2> QED BY <2>1, <2>2
<1>6. Types'
  BY <1>2, <1>3, <1>5, InvParts DEF Types, Labels, Semaphore
<1>7. WaitersSleep'
  <2>1. ~elem_find(semaphore.waiters, t)
    BY <1>1, RunningThread
  <2>2. \A u \in Thread \ {t} : pc'[u] = pc[u]
    BY <1>3, InvParts DEF Types
  <2>3. \A u \in Thread : elem_find(semaphore.waiters, u) => pc[u] = "wait"
    BY InvParts DEF WaitersSleep
  <2> QED BY <1>5, <2>1, <2>2, <2>3 DEF WaitersSleep
<1>8. LabelsFit'
  BY <1>1, <1>3, <1>5, InvParts, RunningThread DEF LabelsFit, Types
<1>9. LockIsConsistent'
  <2>1. \A u \in Thread \ {t} : ~Owns(u)
    BY <1>1, InvParts DEF LockIsConsistent, MutualExclusion
  <2>2. \A u \in Thread : LabelKnows(u)' /\ ~Owns(u)'
    <3>1. \A u \in Thread : depth'[u] = 0 /\ pc'[u] \in Outside
      BY <1>3, <2>1, NonOwner, InvParts DEF Types, Outside
    <3> QED BY <3>1, Bystander
  <2> QED BY <1>1, <1>2, <1>3, <2>2, WholeLocksAssumption
          DEF LockIsConsistent, MutualExclusion
<1> QED BY <1>5, <1>6, <1>7, <1>8, <1>9, InvParts

---------------------------------------------------------------------------
(* Every step of Locks keeps Inv.                                          *)
LEMMA NextInv == Inv /\ [Next]_vars => Inv'
<1> SUFFICES ASSUME Inv, [Next]_vars PROVE Inv'
  OBVIOUS
<1>1. CASE ProcessorStep
  BY <1>1, TimerInv, IdleInv DEF ProcessorStep
<1>2. ASSUME NEW t \in Thread, KernelStep(t) PROVE Inv'
  BY <1>2, KernelStepInv
<1>3. ASSUME NEW t \in Thread, LockStep(t) PROVE Inv'
  <2>1. CASE sema_down(t)
    BY <2>1, PassInv, WaitInv
  <2>2. CASE ReleaseSemaphore(t)
    BY <2>2, ReleaseInv
  <2>3. CASE OwnerAction(t)
    BY <2>3, OwnerActionInv
  <2> QED BY <1>3, <2>1, <2>2, <2>3 DEF LockStep, OwnerAction
<1>4. ASSUME NEW t \in Thread, lock_acquire(t) PROVE Inv'
  BY <1>4, AcquireInv
<1>5. ASSUME NEW t \in Thread, lock_release(t) PROVE Inv'
  BY <1>5, OwnerActionInv DEF OwnerAction
<1>6. CASE UNCHANGED vars
  BY <1>6, InvParts
  DEF Types, WaitersSleep, LabelsFit, Unborn, LockIsConsistent, MutualExclusion,
      LabelKnows, Owns
<1> QED BY <1>1, <1>2, <1>3, <1>4, <1>5, <1>6 DEF Next

(* Inv holds of every reachable state.                                     *)
THEOREM Invariance == Spec => []Inv
BY InitInv, NextInv, PTL DEF Spec

(* Type correctness of the state of sync.c and thread.c.                   *)
THEOREM TypeCorrectness == Spec => []TypeOK
<1>1. Inv => TypeOK
  BY DEF Inv
<1> QED BY Invariance, <1>1, PTL

(* No ASSERT or PANIC of thread.c or sync.c can fail.                      *)
THEOREM NoPanicEver == Spec => []NoPanic
<1>1. Inv => NoPanic
  BY DEF Inv
<1> QED BY Invariance, <1>1, PTL

(* The shared list tag of a PCB is never linked into two lists.            *)
THEOREM OneList == Spec => []OneListPerThread
<1>1. Inv => OneListPerThread
  BY DEF Inv
<1> QED BY Invariance, <1>1, PTL

(* lock_acquire returns to one thread at a time.                           *)
THEOREM Exclusion == Spec => []MutualExclusion
<1>1. Inv => MutualExclusion
  BY DEF Inv, LockIsConsistent
<1> QED BY Invariance, <1>1, PTL

(* Outside of lock_acquire and lock_release the holder field names the     *)
(* thread that owns the lock, with its nesting depth.                      *)
THEOREM HolderExactness == Spec => []HolderIsExact
<1>1. Inv => HolderIsExact
  BY WholeLocksAssumption
  DEF Inv, TypeOK, LockIsConsistent, LabelKnows, Owns, HolderIsExact
<1> QED BY Invariance, <1>1, PTL

---------------------------------------------------------------------------
(* No wakeup is lost                                                       *)

(* A thread that sema_up has woken and that has not looked at value again. *)
OnItsWay(t) == pc[t] = "wait" /\ sched.status[t] \in {"TASK_READY", "TASK_RUNNING"}

(* A thread that exists is awake exactly when it is not asleep.            *)
LEMMA AwakeIs ==
    ASSUME NEW s, s \in SchedulerState, NEW t \in Thread
    PROVE  s.status[t] \in {"TASK_READY", "TASK_RUNNING"}
              <=> ~Asleep(s, t) /\ s.status[t] # "unborn"
BY DEF SchedulerState, Status, Asleep, Sleeping

(* A step that leaves the semaphore alone and puts none of the threads of  *)
(* sema_down to sleep leaves them on their way.                            *)
LEMMA StaysOnItsWay ==
    ASSUME Inv, NoLostWakeup, UNCHANGED semaphore, Consistent(sched)',
           NEW T, OnlyThese(sched, sched', T),
           \A t \in T \cap Thread : pc[t] # "wait" \/ Asleep(sched, t),
           \A t \in Thread : pc[t] = "wait" => pc'[t] = "wait"
    PROVE  NoLostWakeup'
<1>1. \A t \in Thread : OnItsWay(t) => OnItsWay(t)'
  <2> SUFFICES ASSUME NEW t \in Thread, OnItsWay(t) PROVE OnItsWay(t)'
    OBVIOUS
  <2>1. pc'[t] = "wait"
    BY DEF OnItsWay
  <2>2. ~Asleep(sched, t) /\ sched.status[t] # "unborn"
    BY InvParts, AwakeIs DEF OnItsWay, Consistent
  <2>3. ~Asleep(sched', t) /\ sched'.status[t] # "unborn"
    BY <2>2 DEF OnItsWay, OnlyThese
  <2>4. sched' \in SchedulerState
    BY DEF Consistent
  <2>5. sched'.status[t] \in {"TASK_READY", "TASK_RUNNING"}
    BY <2>3, <2>4, AwakeIs
  <2> QED BY <2>1, <2>5 DEF OnItsWay
<1> QED BY <1>1 DEF NoLostWakeup, OnItsWay

(* NoLostWakeup over the timer and the steps of idle.                      *)
LEMMA WokenProcessor ==
    ASSUME Inv, NoLostWakeup, ProcessorStep
    PROVE  NoLostWakeup'
<1>1. Consistent(sched)' /\ UNCHANGED semaphore
  BY InvParts, TimerInv, IdleInv DEF ProcessorStep
<1>2. OnlyThese(sched, sched', {idle_thread})
  <2>1. CASE intr_timer_handler
    BY <2>1, InvParts, TickConsistent DEF intr_timer_handler
  <2>2. CASE IdleBlock
    BY <2>2, InvParts, BlockConsistent DEF IdleBlock, Sleeping
  <2>3. CASE IdleHalt
    BY <2>3 DEF IdleHalt, OnlyThese
  <2> QED BY <2>1, <2>2, <2>3 DEF ProcessorStep
<1>3. pc[idle_thread] # "wait"
  BY InvParts DEF LabelsFit, IdleLabels
<1>4. \A t \in Thread : pc[t] = "wait" => pc'[t] = "wait"
  <2>1. CASE intr_timer_handler
    BY <2>1, LeaveHaltLabels DEF intr_timer_handler
  <2>2. CASE IdleBlock \/ IdleHalt
    BY <1>3, <2>2, InvParts DEF IdleBlock, IdleHalt, Types
  <2> QED BY <2>1, <2>2 DEF ProcessorStep
<1> QED BY <1>1, <1>2, <1>3, <1>4, StaysOnItsWay

(* NoLostWakeup over the steps that do not touch the lock: no device       *)
(* interrupt and no sleep concerns a woken waiter.                         *)
LEMMA WokenKernel ==
    ASSUME Inv, NoLostWakeup, NEW t \in Thread, KernelStep(t)
    PROVE  NoLostWakeup'
<1>1. Consistent(sched)' /\ UNCHANGED semaphore
  BY InvParts, KernelStepInv DEF KernelStep
<1>2. pc[idle_thread] # "wait"
  BY InvParts DEF LabelsFit, IdleLabels
<1>3. CASE kernel_thread(t) \/ SyscallEnter(t) \/ SyscallReturn(t)
  <2>1. OnlyThese(sched, sched', {})
    BY <1>3 DEF kernel_thread, SyscallEnter, SyscallReturn, OnlyThese
  <2>2. \A u \in Thread : pc[u] = "wait" => pc'[u] = "wait"
    BY <1>3, InvParts DEF kernel_thread, SyscallEnter, SyscallReturn, Types
  <2> QED BY <1>1, <2>1, <2>2, StaysOnItsWay
<1>4. ASSUME NEW child \in Process, sys_fork(t, child) PROVE NoLostWakeup'
  <2>1. child \in Thread /\ sched.status[child] = "unborn" /\ pc[child] # "wait"
    BY <1>4, ThreadsAssumption, InvParts DEF sys_fork, Unborn, LabelsFit
  <2>2. \A u \in Thread : OnItsWay(u) => OnItsWay(u)'
    BY <1>4, <2>1, InvParts, StartConsistent DEF sys_fork, OnItsWay
  <2> QED BY <1>1, <2>2 DEF NoLostWakeup, OnItsWay
<1>5. CASE Yield(t)
  <2>1. OnlyThese(sched, sched', {idle_thread}) /\ pc' = pc
    BY <1>5, InvParts, YieldConsistent DEF Yield
  <2> QED BY <1>1, <1>2, <2>1, StaysOnItsWay
<1>6. CASE Sleep(t)
  <2>1. OnlyThese(sched, sched', {t, idle_thread}) /\ pc' = pc /\ pc[t] = "run"
    BY <1>6, InvParts, BlockConsistent DEF Sleep, Sleeping
  <2> QED BY <1>1, <1>2, <2>1, StaysOnItsWay
<1>7. CASE DeviceInterrupt(t) /\ WaitsForDevice(t)
  <2>1. OnlyThese(sched, sched', {t}) /\ Asleep(sched, t)
    BY <1>7, InvParts, UnblockRunning DEF DeviceInterrupt, Asleep
  <2>2. \A u \in Thread : pc[u] = "wait" => pc'[u] = "wait"
    BY <1>7, LeaveHaltLabels DEF DeviceInterrupt
  <2> QED BY <1>1, <2>1, <2>2, StaysOnItsWay
<1> QED BY <1>3, <1>4, <1>5, <1>6, <1>7 DEF KernelStep

(* NoLostWakeup over the steps of lock_acquire and lock_release: sema_up   *)
(* wakes a waiter whenever it leaves others, and the woken thread either   *)
(* takes the value or finds it taken.                                      *)
LEMMA WokenLock ==
    ASSUME Inv, NoLostWakeup, NEW t \in Thread,
           LockStep(t) \/ lock_acquire(t) \/ lock_release(t)
    PROVE  NoLostWakeup'
<1>1. Inv'
  <2>1. Next
    BY DEF Next
  <2> QED BY <2>1, NextInv
<1>2. CASE sema_down(t)
  <2>1. semaphore.value \in {0, 1} /\ semaphore \in Semaphore
    BY InvParts DEF LockIsConsistent, Types
  <2>2. semaphore'.value = 0
    BY <1>2, <2>1
    DEF sema_down, sema_down_turn, MayPass, PassSemaphore, WaitForSemaphore, Semaphore
  <2> QED BY <2>2 DEF NoLostWakeup
<1>3. CASE ReleaseSemaphore(t)
  <2>1. semaphore.waiters \in Seq(Thread) /\ IsInjective(semaphore.waiters)
    BY InvParts DEF Types, Semaphore, WaitersSleep
  <2>2. semaphore'.waiters = IF semaphore.waiters = <<>>
                             THEN <<>> ELSE Tail(semaphore.waiters)
    BY <1>3 DEF ReleaseSemaphore, sema_up
  <2>3. CASE semaphore.waiters = <<>>
    BY <2>2, <2>3 DEF NoLostWakeup
  <2>4. CASE semaphore.waiters # <<>>
    <3> DEFINE first == Head(semaphore.waiters)
    <3>1. first \in Thread /\ elem_find(semaphore.waiters, first)
      BY <2>1, <2>4, PopList DEF elem_find
    <3>2. sched' \in {thread_unblock(sched, first), [sched EXCEPT !.panic = TRUE]}
      BY <1>3, <2>4 DEF ReleaseSemaphore, sema_up, Assert_, WakeFirst
    <3> HIDE DEF first
    <3>3. pc[first] = "wait" /\ Asleep(sched, first)
      BY <3>1, InvParts DEF WaitersSleep
    <3>4. sched' = thread_unblock(sched, first)
      BY <1>1, <3>2, InvParts DEF Consistent, SchedulerState
    <3>5. sched'.status[first] = "TASK_READY"
      BY <3>1, <3>3, <3>4, InvParts, UnblockRunning
    <3>6. pc'[first] = "wait"
      BY <1>3, <3>1, <3>3, InvParts DEF ReleaseSemaphore, Types
    <3> QED BY <3>1, <3>5, <3>6 DEF NoLostWakeup
  <2> QED BY <2>3, <2>4
<1>4. CASE OwnerAction(t) \/ lock_acquire(t)
  <2>1. sched' = sched \/ sched' = [sched EXCEPT !.panic = TRUE]
    BY <1>4
    DEF OwnerAction, AcquireAgain, SetHolder, SetCount, lock_release, Assert_,
        ReleaseNested, ClearHolder, ClearCount, lock_acquire
  <2>2. sched' = sched
    BY <1>1, <2>1, InvParts DEF Consistent, SchedulerState
  <2>3. UNCHANGED semaphore
    BY <1>4
    DEF OwnerAction, AcquireAgain, SetHolder, SetCount, lock_release,
        ReleaseNested, ClearHolder, ClearCount, lock_acquire
  <2>4. \A u \in Thread : pc[u] = "wait" => pc'[u] = "wait"
    BY <1>4, InvParts
    DEF OwnerAction, AcquireAgain, SetHolder, SetCount, lock_release,
        ReleaseNested, ClearHolder, ClearCount, lock_acquire, Types
  <2> QED BY <2>2, <2>3, <2>4 DEF NoLostWakeup
<1> QED BY <1>2, <1>3, <1>4 DEF LockStep, OwnerAction

(* A free semaphore with waiters has one more thread on its way to it.     *)
THEOREM WakeupsAreKept == Spec => []NoLostWakeup
<1>1. Init => NoLostWakeup
  BY DEF Init, NoLostWakeup, sema_init
<1>2. Inv /\ NoLostWakeup /\ [Next]_vars => NoLostWakeup'
  <2>1. CASE UNCHANGED vars
    BY <2>1 DEF NoLostWakeup
  <2> QED BY <2>1, WokenProcessor, WokenKernel, WokenLock DEF Next
<1> QED BY <1>1, <1>2, Invariance, PTL DEF Spec

---------------------------------------------------------------------------
(* The lock implements the abstract reentrant mutex                        *)

Waiting == {t \in Thread : pc[t] \in {"down", "wait"}}

(* Owner and Nesting of the refinement mapping, in terms of Owns.          *)
LEMMA OwnerIs ==
    ASSUME Inv
    PROVE  /\ \A t \in Thread : Owns(t) => Owner = t
           /\ (\A t \in Thread : ~Owns(t)) => Owner = nobody /\ Nesting = 0
           /\ \A t \in Thread : ~Owns(t) => Owner # t
<1>1. \A t \in Thread : Owns(t) => Owner = t
  BY InvParts DEF LockIsConsistent, MutualExclusion, Owner
<1>2. (\A t \in Thread : ~Owns(t)) => Owner = nobody /\ Nesting = 0
  BY DEF Owner, Nesting
<1>3. \A t \in Thread : ~Owns(t) => Owner # t
  BY <1>1, WholeLocksAssumption DEF Owner
<1> QED BY <1>1, <1>2, <1>3

(* The same in the state after a step.                                     *)
LEMMA OwnerIsNext ==
    ASSUME Inv'
    PROVE  /\ \A t \in Thread : Owns(t)' => Owner' = t
           /\ (\A t \in Thread : ~Owns(t)') => Owner' = nobody /\ Nesting' = 0
<1>1. \A t \in Thread : Owns(t)' => Owner' = t
  BY InvParts DEF LockIsConsistent, MutualExclusion, Owner
<1>2. (\A t \in Thread : ~Owns(t)') => Owner' = nobody /\ Nesting' = 0
  BY DEF Owner, Nesting
<1> QED BY <1>1, <1>2

(* The nesting level of an owner.                                          *)
LEMMA NestingIs ==
    ASSUME Inv, NEW t \in Thread, Owns(t)
    PROVE  Nesting = IF depth[t] = 0 THEN 1 ELSE depth[t]
BY OwnerIs, WholeLocksAssumption DEF Nesting

(* Nesting of an owner in the state after a step.                          *)
LEMMA NestingIsNext ==
    ASSUME Inv', NEW t \in Thread, Owns(t)'
    PROVE  Nesting' = IF depth'[t] = 0 THEN 1 ELSE depth'[t]
BY OwnerIsNext, WholeLocksAssumption DEF Nesting

(* A step that changes neither who owns, nor how deep, nor who waits.      *)
LEMMA MutexStutters ==
    ASSUME Inv, Inv', depth' = depth,
           \A t \in Thread : /\ Owns(t)' <=> Owns(t)
                             /\ pc'[t] \in {"down", "wait"} <=> pc[t] \in {"down", "wait"}
    PROVE  UNCHANGED <<Owner, Nesting, Waiting>>
<1>1. Waiting' = Waiting
  BY DEF Waiting
<1>2. Owner' = Owner /\ Nesting' = Nesting
  <2>1. CASE \A t \in Thread : ~Owns(t)
    BY <2>1, OwnerIs, OwnerIsNext
  <2>2. CASE \E t \in Thread : Owns(t)
    BY <2>2, OwnerIs, OwnerIsNext, NestingIs, NestingIsNext
  <2> QED BY <2>1, <2>2
<1> QED BY <1>1, <1>2

(* Steps that only move the processor: nothing of the mutex changes.       *)
LEMMA MutexOutside ==
    ASSUME Inv, Inv', ProcessorStep \/ \E t \in Thread : KernelStep(t)
    PROVE  UNCHANGED <<Owner, Nesting, Waiting>>
<1>1. depth' = depth
  BY DEF ProcessorStep, KernelStep
<1>2. \A t \in Thread :
        \/ pc'[t] = pc[t]
        \/ {pc[t], pc'[t]} \subseteq {"first", "run"} \cup IdleLabels
  <2>1. CASE ProcessorStep
    BY <2>1, LeaveHaltLabels, InvParts
    DEF ProcessorStep, intr_timer_handler, IdleBlock, IdleHalt, IdleLabels, Types
  <2>2. ASSUME NEW t \in Thread, KernelStep(t)
        PROVE \A u \in Thread :
                 \/ pc'[u] = pc[u]
                 \/ {pc[u], pc'[u]} \subseteq {"first", "run"} \cup IdleLabels
    BY <2>2, LeaveHaltLabels, InvParts
    DEF KernelStep, kernel_thread, SyscallEnter, SyscallReturn, sys_fork, Yield,
        Sleep, DeviceInterrupt, IdleLabels, Types
  <2> QED BY <2>1, <2>2
<1>3. \A t \in Thread : /\ Owns(t)' <=> Owns(t)
                        /\ pc'[t] \in {"down", "wait"} <=> pc[t] \in {"down", "wait"}
  BY <1>1, <1>2 DEF Owns, IdleLabels
<1> QED BY <1>1, <1>3, MutexStutters

(* lock_acquire either asks for the lock or turns to nesting it.           *)
LEMMA MutexAcquire ==
    ASSUME Inv, Inv', NEW t \in Thread, lock_acquire(t)
    PROVE  [M!MutexNext]_(M!mutex)
<1>1. /\ depth' = depth
      /\ pc' = [pc EXCEPT ![t] = IF holder = t THEN "again" ELSE "down"]
      /\ pc[t] = "run"
  BY DEF lock_acquire
<1>2. \A u \in Thread : Owns(u)' <=> Owns(u)
  BY <1>1, InvParts DEF Owns, Types
<1>3. Owner' = Owner /\ Nesting' = Nesting
  <2>1. CASE \A u \in Thread : ~Owns(u)
    BY <1>2, <2>1, OwnerIs, OwnerIsNext
  <2>2. CASE \E u \in Thread : Owns(u)
    BY <1>1, <1>2, <2>2, OwnerIs, OwnerIsNext, NestingIs, NestingIsNext
  <2> QED BY <2>1, <2>2
<1>4. CASE holder = t
  <2>1. Waiting' = Waiting
    BY <1>1, <1>4, InvParts DEF Waiting, Types
  <2> QED BY <1>3, <2>1 DEF M!mutex, Waiting
<1>5. CASE holder # t
  <2>1. ~Owns(t)
    BY <1>1, <1>5, InvParts DEF LockIsConsistent, LabelKnows, Owns
  <2>2. Owner # t /\ t \notin Waiting
    BY <1>1, <2>1, OwnerIs DEF Waiting
  <2>3. Waiting' = Waiting \cup {t}
    BY <1>1, <1>5, InvParts DEF Waiting, Types
  <2>4. M!Request(t)
    BY <1>3, <2>2, <2>3 DEF M!Request, Waiting
  <2> QED BY <2>4 DEF M!MutexNext
<1> QED BY <1>4, <1>5

(* sema_down grants the lock when it passes the semaphore.                 *)
LEMMA MutexDown ==
    ASSUME Inv, Inv', NEW t \in Thread, sema_down(t)
    PROVE  [M!MutexNext]_(M!mutex)
<1>1. /\ depth' = depth
      /\ pc' = [pc EXCEPT ![t] = IF MayPass(semaphore) THEN "own" ELSE "wait"]
      /\ pc[t] \in {"down", "wait"}
      /\ ~Owns(t) /\ depth[t] = 0
  BY DownLabels DEF sema_down
<1>2. CASE MayPass(semaphore)
  <2>1. \A u \in Thread : ~Owns(u)
    BY <1>2, InvParts DEF MayPass, LockIsConsistent
  <2>2. Owns(t)'
    BY <1>1, <1>2, InvParts DEF Owns, Types
  <2>3. Owner = nobody /\ Owner' = t /\ Nesting' = 1
    BY <1>1, <2>1, <2>2, OwnerIs, OwnerIsNext, NestingIsNext
  <2>4. t \in Waiting /\ Waiting' = Waiting \ {t}
    BY <1>1, <1>2, InvParts DEF Waiting, Types
  <2>5. M!Grant(t)
    BY <2>3, <2>4 DEF M!Grant, Waiting
  <2> QED BY <2>5 DEF M!MutexNext
<1>3. CASE ~MayPass(semaphore)
  <2>1. \A u \in Thread : /\ Owns(u)' <=> Owns(u)
                          /\ pc'[u] \in {"down", "wait"} <=> pc[u] \in {"down", "wait"}
    BY <1>1, <1>3, InvParts DEF Owns, Types
  <2> QED BY <1>1, <2>1, MutexStutters DEF M!mutex, Waiting
<1> QED BY <1>2, <1>3

(* The steps between sema_down and sema_up nest, unnest, or are internal.  *)
LEMMA MutexOwner ==
    ASSUME Inv, Inv', NEW t \in Thread, OwnerAction(t)
    PROVE  [M!MutexNext]_(M!mutex)
<1>1. /\ Owns(t) /\ Owns(t)'
      /\ LabelKnows(t)
      /\ depth \in [Thread -> Nat]
      /\ pc[t] \notin {"down", "wait"} /\ pc'[t] \notin {"down", "wait"}
      /\ \A u \in Thread \ {t} : pc'[u] = pc[u]
  BY OwnerLabels, InvParts
  DEF OwnerAction, AcquireAgain, SetHolder, SetCount, lock_release, ReleaseNested,
      ClearHolder, ClearCount, Types, LabelKnows, Owns
<1>2. Waiting' = Waiting
  BY <1>1 DEF Waiting
<1>3. /\ Owner = t /\ Owner' = t
      /\ Nesting = IF depth[t] = 0 THEN 1 ELSE depth[t]
      /\ Nesting' = IF depth'[t] = 0 THEN 1 ELSE depth'[t]
  BY <1>1, OwnerIs, OwnerIsNext, NestingIs, NestingIsNext
<1>4. CASE AcquireAgain(t)
  <2>1. depth[t] > 0 /\ depth'[t] = depth[t] + 1
    BY <1>1, <1>4 DEF AcquireAgain, LabelKnows
  <2>2. M!Nest(t)
    BY <1>1, <1>2, <1>3, <2>1 DEF M!Nest, Waiting
  <2> QED BY <2>2 DEF M!MutexNext
<1>5. CASE ReleaseNested(t)
  <2>1. depth[t] > 1 /\ depth'[t] = depth[t] - 1
    BY <1>1, <1>5 DEF ReleaseNested, LabelKnows
  <2>2. M!Leave(t)
    BY <1>1, <1>2, <1>3, <2>1 DEF M!Leave, Waiting
  <2> QED BY <2>2 DEF M!MutexNext
<1>6. CASE SetHolder(t) \/ SetCount(t) \/ lock_release(t) \/ ClearHolder(t) \/ ClearCount(t)
  <2>1. depth'[t] = depth[t] \/ (depth[t] = 0 /\ depth'[t] = 1)
    BY <1>1, <1>6
    DEF SetHolder, SetCount, lock_release, ClearHolder, ClearCount, LabelKnows
  <2> QED BY <1>2, <1>3, <2>1 DEF M!mutex, Waiting
<1> QED BY <1>4, <1>5, <1>6 DEF OwnerAction

(* sema_up leaves the lock.                                                *)
LEMMA MutexRelease ==
    ASSUME Inv, Inv', NEW t \in Thread, ReleaseSemaphore(t)
    PROVE  [M!MutexNext]_(M!mutex)
<1>1. /\ pc[t] = "up" /\ depth[t] = 1
      /\ pc' = [pc EXCEPT ![t] = "run"]
      /\ depth' = [depth EXCEPT ![t] = 0]
  BY InvParts DEF ReleaseSemaphore, LockIsConsistent, LabelKnows
<1>2. Owns(t)
  BY <1>1 DEF Owns
<1>3. \A u \in Thread : ~Owns(u)'
  BY <1>1, <1>2, InvParts DEF LockIsConsistent, MutualExclusion, Owns, Types
<1>4. /\ Owner = t /\ Nesting = 1
      /\ Owner' = nobody /\ Nesting' = 0
  BY <1>1, <1>2, <1>3, OwnerIs, OwnerIsNext, NestingIs
<1>5. Waiting' = Waiting
  BY <1>1, InvParts DEF Waiting, Types
<1>6. M!Leave(t)
  BY <1>4, <1>5 DEF M!Leave, Waiting
<1> QED BY <1>6 DEF M!MutexNext

(* The lock starts as the free mutex, and each of its steps is a step of   *)
(* the mutex or leaves it unchanged.                                       *)
THEOREM Refinement == Spec => StepsOfMutex
<1>1. Init => M!MutexInit
  <2> SUFFICES ASSUME Init PROVE M!MutexInit
    OBVIOUS
  <2>1. \A t \in Thread : ~Owns(t)
    BY DEF Init, ThreadsInit, Owns
  <2>2. Owner = nobody /\ Nesting = 0
    BY <2>1 DEF Owner, Nesting
  <2>3. Waiting = {}
    BY DEF Init, ThreadsInit, Waiting
  <2> QED BY <2>2, <2>3 DEF M!MutexInit, Waiting
<1>2. Inv /\ Inv' /\ [Next]_vars => [M!MutexNext]_(M!mutex)
  <2> SUFFICES ASSUME Inv, Inv', [Next]_vars PROVE [M!MutexNext]_(M!mutex)
    OBVIOUS
  <2>1. CASE ProcessorStep \/ \E t \in Thread : KernelStep(t)
    BY <2>1, MutexOutside DEF M!mutex, Waiting
  <2>2. ASSUME NEW t \in Thread, LockStep(t) \/ lock_acquire(t) \/ lock_release(t)
        PROVE  [M!MutexNext]_(M!mutex)
    <3>1. CASE lock_acquire(t)
      BY <3>1, MutexAcquire
    <3>2. CASE sema_down(t)
      BY <3>2, MutexDown
    <3>3. CASE ReleaseSemaphore(t)
      BY <3>3, MutexRelease
    <3>4. CASE OwnerAction(t)
      BY <3>4, MutexOwner
    <3> QED BY <2>2, <3>1, <3>2, <3>3, <3>4 DEF LockStep, OwnerAction
  <2>3. CASE UNCHANGED vars
    <3>1. UNCHANGED <<Owner, Nesting, Waiting>>
      BY <2>3, MutexStutters DEF Owns
    <3> QED BY <3>1 DEF M!mutex, Waiting
  <2> QED BY <2>1, <2>2, <2>3 DEF Next
<1> QED BY <1>1, <1>2, Invariance, PTL DEF Spec, StepsOfMutex
===========================================================================
