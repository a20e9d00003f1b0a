------------------------------ MODULE Threads ------------------------------
(***************************************************************************)
(* The processor as the threads of the kernel see it: who runs, where each *)
(* thread stands, when an interrupt may come in, and the steps that belong *)
(* to no particular component: the timer and device interrupts, the first  *)
(* steps of a thread, the idle loop, system calls, fork, yield and sleep.  *)
(*                                                                         *)
(* A component's module EXTENDS this one, adds its own labels and steps,   *)
(* and lets these steps leave its own variables alone.                     *)
(***************************************************************************)
EXTENDS Semaphores

CONSTANTS
    main_thread,   \* runs main(), the first thread of the kernel
    init_process,  \* runs init(), the first user process
    Process        \* the user processes: they enter the kernel by int 0x80

ASSUME ThreadsAssumption ==
    /\ main_thread \in Thread \ Process
    /\ init_process \in Process
    /\ Process \subseteq Thread
    /\ idle_thread \notin Process \cup {main_thread}

VARIABLES
    sched,  \* the scheduler's state
    pc,     \* where each thread stands when it does not run
    intr    \* intr[t]: the interrupt flag that t's present code runs with

threads == <<sched, pc, intr>>

(* Labels at which a thread is switched back into code that still has      *)
(* interrupts off: the bottom of switch_to for a new thread, and the loop  *)
(* of sema_down after thread_block.                                        *)
Masked == {"first", "wait"}

(* The idle thread's labels: about to block, past thread_block, halted.    *)
IdleLabels == {"loop", "woken", "hlt"}

Running(t, label) == /\ ~sched.panic
                     /\ sched.cur = t
                     /\ pc[t] = label

InterruptsOn == /\ ~sched.panic
                /\ intr[sched.cur]
                /\ pc[sched.cur] \notin Masked

(* A process runs kernel code with interrupts off, except for the first    *)
(* one: thread_start lets it begin in start_process, with interrupts on.   *)
(* Any other process with interrupts on is in user mode; the model does    *)
(* not say when the first one gets there.                                  *)
InKernel(t) == t \in Process \ {init_process} => ~intr[t]

Unborn(t) == sched.status[t] = "unborn"

---------------------------------------------------------------------------
(* thread_init, seen by main once every driver is initialised: init was    *)
(* queued first and idle second, and interrupts are still off.             *)
ThreadsInit ==
    /\ sched = [ cur    |-> main_thread,
                 ready  |-> <<init_process, idle_thread>>,
                 status |-> [t \in Thread |->
                                IF t = main_thread THEN "TASK_RUNNING"
                                ELSE IF t \in {init_process, idle_thread}
                                     THEN "TASK_READY" ELSE "unborn"],
                 ticks  |-> Priority,
                 panic  |-> FALSE ]
    /\ pc = [t \in Thread |-> "first"]
    /\ intr = [t \in Thread |-> FALSE]

---------------------------------------------------------------------------
(* Any interrupt ends hlt: idle's loop goes round.                         *)
LeaveHalt == IF Running(idle_thread, "hlt")
             THEN [pc EXCEPT ![idle_thread] = "loop"] ELSE pc

intr_timer_handler ==
    /\ InterruptsOn
    /\ sched' = timer_tick(sched)
    /\ pc' = LeaveHalt
    /\ UNCHANGED intr

(* A device's interrupt handler wakes the thread that waits for the device. *)
DeviceInterrupt(t) ==
    /\ InterruptsOn
    /\ sched.status[t] \in Sleeping
    /\ sched' = thread_unblock(sched, t)
    /\ pc' = LeaveHalt
    /\ UNCHANGED intr

(* The first steps of a thread: kernel_thread, main() after init_all, and  *)
(* intr_exit of a forked child all enable interrupts.                      *)
kernel_thread(t) ==
    /\ Running(t, "first")
    /\ intr' = [intr EXCEPT ![t] = TRUE]
    /\ pc' = [pc EXCEPT ![t] = IF t = idle_thread THEN "loop" ELSE "run"]
    /\ UNCHANGED sched

(* idle(): thread_block returns with interrupts on again, and only then    *)
(* come sti and hlt, so an interrupt may fall in between.                  *)
IdleBlock ==
    /\ Running(idle_thread, "loop")
    /\ sched' = thread_block(sched, "TASK_BLOCKED")
    /\ pc' = [pc EXCEPT ![idle_thread] = "woken"]
    /\ UNCHANGED intr

IdleHalt ==
    /\ Running(idle_thread, "woken")
    /\ pc' = [pc EXCEPT ![idle_thread] = "hlt"]
    /\ UNCHANGED <<sched, intr>>

(* int 0x80 goes through an interrupt gate: a process runs its system      *)
(* call with interrupts off and gets them back with iret.                  *)
SyscallEnter(t) ==
    /\ t \in Process
    /\ Running(t, "run")
    /\ intr[t]
    /\ intr' = [intr EXCEPT ![t] = FALSE]
    /\ UNCHANGED <<sched, pc>>

SyscallReturn(t) ==
    /\ t \in Process
    /\ Running(t, "run")
    /\ ~intr[t]
    /\ intr' = [intr EXCEPT ![t] = TRUE]
    /\ UNCHANGED <<sched, pc>>

(* sys_fork, whose caller must be in a system call.                        *)
sys_fork(t, child) ==
    /\ t \in Process
    /\ Running(t, "run")
    /\ ~intr[t]
    /\ child \in Process
    /\ Unborn(child)
    /\ sched' = start_thread(sched, child)
    /\ UNCHANGED <<pc, intr>>

Yield(t) ==
    /\ Running(t, "run")
    /\ InKernel(t)
    /\ sched' = thread_yield(sched)
    /\ UNCHANGED <<pc, intr>>

(* Wait for a device: the driver blocks the thread that started the work.  *)
Sleep(t) ==
    /\ Running(t, "run")
    /\ InKernel(t)
    /\ sched' = thread_block(sched, "TASK_BLOCKED")
    /\ UNCHANGED <<pc, intr>>

---------------------------------------------------------------------------
(* Idle stays in its loop, and a PCB that does not exist yet has run       *)
(* nothing.                                                                *)
LabelsFit ==
    /\ pc[idle_thread] \in {"first"} \cup IdleLabels
    /\ \A t \in Thread : Unborn(t) => pc[t] = "first"
===========================================================================
