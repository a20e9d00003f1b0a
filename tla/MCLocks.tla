------------------------------ MODULE MCLocks ------------------------------
(***************************************************************************)
(* Instances of Locks for TLC: idle, the kernel thread main, and two       *)
(* processes.  A thread keeps the processor for Priority + 1 ticks.        *)
(***************************************************************************)
EXTENDS Locks

CONSTANTS main, init, child, idle, none

ThreeClients == {main, init, child, idle}
TwoProcesses == {init, child}

(* A slice of one tick: every tick reschedules.  A slice of two: a thread  *)
(* is also interrupted without being rescheduled, and blocks or yields     *)
(* with part of its slice left.                                            *)
OneTick == [t \in Thread |-> 0]
TwoTicks == [t \in Thread |-> 1]
===========================================================================
