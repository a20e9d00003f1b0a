------------------------------ MODULE MCShell ------------------------------
(***************************************************************************)
(* Instances of Shell for TLC: a disk of a few inodes and blocks.           *)
(***************************************************************************)
EXTENDS Shell

CONSTANTS bin, doc
TwoNames == {bin, doc}
SameNames == Permutations(TwoNames)

(* Absolute paths of two names, through a file among them, and relative    *)
(* ones with "." and "..", which lead to the names in the root: the root   *)
(* itself is what ".." stands for on top.                                  *)
TypedPaths ==
    [absolute : {TRUE}, path : {<<n, m>> \in Name \X Name : n # m}]
        \cup [absolute : {FALSE}, path : {<<"..">>} \cup ({".."} \X {"."} \X Name)]

AllHabits ==
    {"keep the current directory", "no path through a file", "no open number twice",
     "no number past a byte", "no hole in a directory"}
NoHabits == {}
=============================================================================
