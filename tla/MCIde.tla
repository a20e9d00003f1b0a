------------------------------- MODULE MCIde -------------------------------
(***************************************************************************)
(* Instances of Ide for TLC.  Two sectors to a command, so that three      *)
(* sectors take a command of several and one of a single sector.           *)
(***************************************************************************)
EXTENDS Ide

CONSTANTS main, init, idle, null, a, b, master, slave

ThreeThreads == {main, init, idle}
OneProcess == {init}
OneTick == [t \in Thread |-> 0]

ThreeSectors == 0 .. 2

Call(op, disk, lba, cnt, data) ==
    [op |-> op, disk |-> disk, lba |-> lba, cnt |-> cnt, data |-> data]

TwoDisks == {
    Call("read", master, 0, 3, <<>>),
    Call("write", master, 0, 3, <<b, a, b>>),
    Call("write", slave, 1, 1, <<b>>) }
=============================================================================
