------------------------------ MODULE MCMemory ------------------------------
(***************************************************************************)
(* Instances of Memory for TLC: init and one process that it forks.         *)
(***************************************************************************)
EXTENDS Memory

CONSTANT child
TwoProcesses == {init, child}
OneLargeSize == {2}
AboveTheHeap == {1}
AsLinked == {0, 1}
AllHabits == {"main undisturbed", "room for page tables", "programs above the heap"}
AnyProgram == {"main undisturbed", "room for page tables"}
BusyMain == {"room for page tables", "programs above the heap"}
=============================================================================
