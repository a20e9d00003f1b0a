--------------------------- MODULE DirectoryTree ---------------------------
(***************************************************************************)
(* What the shell's file commands promise: a tree of named directories and *)
(* files, one current directory, and for each command an answer.  Making   *)
(* something may fail although nothing forbids it (the disk may be full);  *)
(* every other command succeeds exactly when it should.                    *)
(***************************************************************************)
EXTENDS SequencesExt

CONSTANTS
    Name,      \* the names a directory entry may have
    MaxDepth   \* the longest path, in names

VARIABLES
    tree,   \* path |-> "dir" or "file"; the root is the empty path
    cwd,    \* the current directory's path
    reply   \* the last command, its path, whether it succeeded, and the paths it printed

treeVars == <<tree, cwd, reply>>

Path == UNION {[1..n -> Name] : n \in 0..MaxDepth}
Nothing == [by |-> "nobody", of |-> <<>>, ok |-> TRUE, paths |-> {}]
Answer(by, p, ok) == [by |-> by, of |-> p, ok |-> ok, paths |-> {}]
Printed(by, p, paths) == [by |-> by, of |-> p, ok |-> TRUE, paths |-> paths]

Children(p) == {q \in DOMAIN tree : Len(q) = Len(p) + 1 /\ Front(q) = p}
IsDir(p) == p \in DOMAIN tree /\ tree[p] = "dir"
IsFile(p) == p \in DOMAIN tree /\ tree[p] = "file"

TreeInit ==
    /\ tree = [p \in {<<>>} |-> "dir"]
    /\ cwd = <<>>
    /\ reply = Nothing

Fail(by, p) == reply' = Answer(by, p, FALSE) /\ UNCHANGED <<cwd, tree>>

Make(by, p, kind) ==
    \/ /\ reply' = Answer(by, p, TRUE) /\ UNCHANGED cwd
       /\ p \notin DOMAIN tree /\ p # <<>> /\ IsDir(Front(p))
       /\ tree' = [q \in DOMAIN tree \cup {p} |-> IF q = p THEN kind ELSE tree[q]]
    \/ Fail(by, p)

Gone(by, p) ==
    /\ reply' = Answer(by, p, TRUE) /\ UNCHANGED cwd
    /\ tree' = [q \in DOMAIN tree \ {p} |-> tree[q]]

IsEmptyDir(p) == p # <<>> /\ IsDir(p) /\ Children(p) = {}
RemoveDir(p) ==
    (Gone("rmdir", p) /\ IsEmptyDir(p)) \/ (Fail("rmdir", p) /\ ~IsEmptyDir(p))
RemoveFile(p) == (Gone("rm", p) /\ IsFile(p)) \/ (Fail("rm", p) /\ ~IsFile(p))

Change(p) ==
    \/ cwd' = p /\ reply' = Answer("cd", p, TRUE) /\ IsDir(p) /\ UNCHANGED tree
    \/ Fail("cd", p) /\ ~IsDir(p)

Where == reply' = Printed("pwd", cwd, {cwd}) /\ UNCHANGED <<tree, cwd>>

List(p) ==
    \/ /\ reply'.ok /\ UNCHANGED <<cwd, tree>>
       /\ \/ IsDir(p) /\ reply' = Printed("ls", p, {<<Last(q)>> : q \in Children(p)})
          \/ IsFile(p) /\ reply' = Printed("ls", p, {p})
    \/ Fail("ls", p) /\ p \notin DOMAIN tree

(* The answer has been read.                                                *)
Acknowledge == reply' = Nothing /\ UNCHANGED <<cwd, tree>>

(* The machine is switched off and on: what is on the disk stays.           *)
Restart == cwd' = <<>> /\ reply' = Nothing /\ UNCHANGED tree

(* The answer says which command it was and which path it was about.       *)
TreeNext ==
    \/ Acknowledge
    \/ Where
    \/ Restart
    \/ \E p \in Path : /\ reply'.of = p
                       /\ \/ Make("mkdir", p, "dir") \/ Make("create", p, "file")
                          \/ RemoveDir(p) \/ RemoveFile(p)
                          \/ Change(p) \/ List(p)

TreeSpec == TreeInit /\ [][TreeNext]_treeVars
=============================================================================
