---------------------------- MODULE MCOpenFiles ----------------------------
(***************************************************************************)
(* Instances of OpenFiles for TLC: the shell and a child, one directory,   *)
(* one file and a number for a new one.                                    *)
(***************************************************************************)
EXTENDS OpenFiles, TLC

CONSTANTS shell, child

(* Init takes any process for the shell, and no action tells them apart.   *)
AnyProcess == Permutations(Process)
=============================================================================
