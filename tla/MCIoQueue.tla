----------------------------- MODULE MCIoQueue -----------------------------
(***************************************************************************)
(* Instances of IoQueue for TLC: idle, main, and two processes, any of     *)
(* which reads.  Two characters fill the ring.                             *)
(***************************************************************************)
EXTENDS IoQueue

CONSTANTS main, init, child, idle, none, a, b

FourThreads == {main, init, child, idle}
TwoProcesses == {init, child}
OneTick == [t \in Thread |-> 0]
TwoTicks == [t \in Thread |-> 1]
=============================================================================
