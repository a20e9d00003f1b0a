----------------------------- MODULE Scheduler -----------------------------
(***************************************************************************)
(* The scheduler of thread/thread.c as operators on the scheduler's state. *)
(* Each operator is one C function: it takes the state the function finds  *)
(* and returns the state it leaves.  All of them run with interrupts off,  *)
(* so each is one atomic step up to and including the context switch.      *)
(*                                                                         *)
(* A thread is identified with its PCB, and with both of the PCB's list    *)
(* tags: general_tag is shared by thread_ready_list and by every waiters   *)
(* list.  A failing ASSERT or PANIC stops the machine (panic_spin), which  *)
(* the field "panic" records; nothing runs afterwards.                     *)
(***************************************************************************)
EXTENDS Naturals, Sequences, Functions

CONSTANTS
    Thread,       \* every PCB of the system
    idle_thread,  \* the thread that runs when nothing else is ready
    Priority      \* task_struct.priority: the length of a time slice

ASSUME SchedulerAssumption ==
    /\ idle_thread \in Thread
    /\ Priority \in [Thread -> Nat]

(* The three states that take a thread off the processor until somebody    *)
(* calls thread_unblock.                                                   *)
Sleeping == {"TASK_BLOCKED", "TASK_WAITING", "TASK_HANGING"}

(* A PCB that does not exist yet has no status in the code.                *)
Status == Sleeping \cup {"TASK_RUNNING", "TASK_READY", "unborn"}

SchedulerState ==
    [ cur    : Thread,              \* running_thread()
      ready  : Seq(Thread),         \* thread_ready_list
      status : [Thread -> Status],
      ticks  : [Thread -> Nat],
      panic  : BOOLEAN ]

---------------------------------------------------------------------------
(* Lists (lib/kernel/list.c).  list_append is Append, list_empty is a      *)
(* comparison with <<>>, and list_pop is Head with Tail.                   *)
elem_find(list, e) == e \in Range(list)

list_push(list, e) == <<e>> \o list

(* ASSERT: the code after it runs only when the condition holds.           *)
Assert_(s, condition, next) ==
    IF condition /\ ~s.panic THEN next ELSE [s EXCEPT !.panic = TRUE]

---------------------------------------------------------------------------
thread_unblock(s, t) ==
    Assert_(s, s.status[t] \in Sleeping /\ ~elem_find(s.ready, t),
            [s EXCEPT !.ready = list_push(@, t), !.status[t] = "TASK_READY"])

(* Mutant: list_push in place of list_append.                              *)
RequeueInFront(s) ==
    IF s.status[s.cur] = "TASK_RUNNING"
    THEN [s EXCEPT !.ready = list_push(@, s.cur),
                   !.status[s.cur] = "TASK_READY",
                   !.ticks[s.cur] = Priority[s.cur]]
    ELSE s

(* The first part of schedule: a thread that is still running goes to the  *)
(* tail with a full slice, one that is not has already been queued or put  *)
(* to sleep.                                                               *)
Requeue(s) ==
    IF s.status[s.cur] = "TASK_RUNNING"
    THEN Assert_(s, ~elem_find(s.ready, s.cur),
                 [s EXCEPT !.ready = Append(@, s.cur),
                           !.status[s.cur] = "TASK_READY",
                           !.ticks[s.cur] = Priority[s.cur]])
    ELSE s

(* The last part: pop the head, activate it, switch to it.                 *)
SwitchToHead(s) ==
    Assert_(s, s.ready # <<>>,
            [s EXCEPT !.cur = Head(s.ready),
                      !.ready = Tail(s.ready),
                      !.status[Head(s.ready)] = "TASK_RUNNING"])

(* Mutant: idle is not woken when the ready list has run empty.            *)
LeaveIdleAsleep(s) == s

WakeIdle(s) == IF s.ready = <<>> THEN thread_unblock(s, idle_thread) ELSE s

schedule(s) == SwitchToHead(WakeIdle(Requeue(s)))

(* Mutant: the status is not set, so schedule takes the thread for running. *)
BlockKeepsStatus(s, stat) == schedule(s)

thread_block(s, stat) == schedule([s EXCEPT !.status[s.cur] = stat])

thread_yield(s) ==
    Assert_(s, ~elem_find(s.ready, s.cur),
            schedule([s EXCEPT !.ready = Append(@, s.cur),
                               !.status[s.cur] = "TASK_READY"]))

(* The tail of thread_start and of sys_fork: a new PCB, ready with a full  *)
(* slice, goes to the end of the list.                                     *)
start_thread(s, t) ==
    Assert_(s, ~elem_find(s.ready, t),
            [s EXCEPT !.ready = Append(@, t),
                      !.status[t] = "TASK_READY",
                      !.ticks[t] = Priority[t]])

(* intr_timer_handler: the last tick of a slice reschedules.               *)
timer_tick(s) ==
    IF s.ticks[s.cur] = 0
    THEN schedule(s)
    ELSE [s EXCEPT !.ticks[s.cur] = @ - 1]
---------------------------------------------------------------------------
(* Consistent states of the scheduler, between two of its functions.       *)

Asleep(s, t) == s.status[t] \in Sleeping

(* The ready list holds exactly the ready threads, each once.              *)
ReadyListExact(s) ==
    /\ IsInjective(s.ready)
    /\ \A t \in Thread : s.status[t] = "TASK_READY" <=> elem_find(s.ready, t)

Consistent(s) ==
    /\ s \in SchedulerState
    /\ ~s.panic
    /\ ReadyListExact(s)
    /\ \A t \in Thread : s.status[t] = "TASK_RUNNING" <=> t = s.cur
    /\ s.status[idle_thread] # "unborn"
===========================================================================
