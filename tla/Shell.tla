------------------------------- MODULE Shell -------------------------------
(***************************************************************************)
(* The shell and its built-in commands (src/shell/shell.c,                 *)
(* src/shell/buildin_cmd.c) over the directories of the file system.  The  *)
(* shell reads a command, makes the path it is given absolute and free of  *)
(* "." and "..", and calls the kernel.  An external command takes the      *)
(* machine over: the shell forks and then turns in its loop for ever, the  *)
(* program may create files, until the machine is switched off and on.     *)
(***************************************************************************)
EXTENDS Directories

CONSTANTS
    MaxDepth,   \* bound of this model: names in a path that reaches the kernel
    Argument,   \* the paths the user types: a word list, absolute or relative
    MaxOpen,    \* bound of this model: how often rmdir leaves one inode open
    Habits      \* what the users of this machine never do, see Careful below

ASSUME ShellAssumption ==
    /\ MaxDepth \in Nat /\ MaxOpen \in Nat
    /\ Argument \subseteq [absolute : BOOLEAN, path : Seq(Name \cup {".", ".."})]
    /\ Habits \subseteq {"keep the current directory", "no path through a file",
                         "no open number twice", "no number past a byte",
                         "no hole in a directory"}

VARIABLES
    fs,          \* the file system, see Directories
    cwd,         \* the shell's cwd_inode_nr
    cwd_cache,   \* the path the prompt shows
    reply,       \* the last command and what it printed
    turn         \* who has the machine: "shell", "program", or "nobody" when it hangs

vars == <<fs, cwd, cwd_cache, reply, turn>>

Nothing == [by |-> "nobody", of |-> <<>>, ok |-> TRUE, paths |-> {}]
Answer(by, path, ok) == [by |-> by, of |-> path, ok |-> ok, paths |-> {}]
Printed(by, path, paths) == [by |-> by, of |-> path, ok |-> TRUE, paths |-> paths]

Path == UNION {[1..n -> Name] : n \in 0..MaxDepth}

(* Mutant of wash_path: ".." is dropped.                                    *)
WashDropsDots(path) == SelectSeq(path, LAMBDA name : name \notin {".", ".."})

(* One turn of wash_path's loop: a name is put behind, ".." takes one away. *)
Wash(washed, name) ==
    CASE name = ".." -> IF washed = <<>> THEN washed ELSE Front(washed)
      [] name = "."  -> washed
      [] OTHER       -> Append(washed, name)

wash_path(path) ==
    LET washed[n \in 0..Len(path)] == IF n = 0 THEN <<>> ELSE Wash(washed[n - 1], path[n])
    IN  washed[Len(path)]

(* A relative path is put behind the current directory's; when getcwd      *)
(* fails it stays relative, and wash_path asserts that it is not.          *)
make_clear_abs_path(arg) ==
    LET here == sys_getcwd(fs, cwd)
    IN  IF arg.absolute THEN [ok |-> TRUE, path |-> wash_path(arg.path)]
        ELSE [ok |-> here.ok, path |-> wash_path(here.path \o arg.path)]

Init ==
    /\ fs = partition_format
    /\ cwd = Root
    /\ cwd_cache = <<>>
    /\ reply = Nothing
    /\ turn = "shell"

-----------------------------------------------------------------------------
(* Careful use.  Each habit keeps the file system away from one of its     *)
(* flaws: a current directory that is removed, a search that ends at a     *)
(* regular file with names left, an inode number given out again while an  *)
(* inode of that number is still in memory or given out although eight     *)
(* bits do not hold it, and a directory that loses a block before its last *)
(* one.                                                                    *)
Leaves(path) ==
    "keep the current directory" \in Habits => search_file(fs, path).no # cwd
WalksDirectories(path) ==
    "no path through a file" \in Habits =>
        \A n \in 1..Len(path) - 1 : search_file(fs, SubSeq(path, 1, n)).kind # "file"
FreshInode ==
    FreeInodes(fs) # {} =>
        /\ "no open number twice" \in Habits => fs.cnt[Min(FreeInodes(fs))] = 0
        /\ "no number past a byte" \in Habits => Min(FreeInodes(fs)) \in Located
LeavesNoHole(result) ==
    "no hole in a directory" \in Habits => NoHoles(result.fs)

AtPrompt == turn = "shell" /\ reply = Nothing

(* A command on the path its argument stands for.                          *)
Command(arg, Do(_)) ==
    LET final_path == make_clear_abs_path(arg)
    IN  /\ turn = "shell"
        /\ IF final_path.ok
           THEN final_path.path \in Path /\ Do(final_path.path)
           ELSE turn' = "nobody" /\ UNCHANGED <<fs, cwd, cwd_cache, reply>>

(* A system call that makes or removes something.                          *)
Call(by, path, result) ==
    /\ fs' = result.fs
    /\ reply' = Answer(by, path, result.ok)
    /\ turn' = IF result.stops THEN "nobody" ELSE turn
    /\ UNCHANGED <<cwd, cwd_cache>>

(* The root is refused before the kernel is called.                        *)
buildin_mkdir(arg) ==
    Command(arg, LAMBDA path :
        /\ FreshInode
        /\ Call("mkdir", path, IF path = <<>> THEN Refuse(fs) ELSE sys_mkdir(fs, path)))

buildin_rmdir(arg) ==
    Command(arg, LAMBDA path :
        /\ Leaves(path) /\ LeavesNoHole(sys_rmdir(fs, path))
        /\ \A no \in Inode \ {Root} : fs.cnt[no] < MaxOpen
        /\ Call("rmdir", path, IF path = <<>> THEN Refuse(fs) ELSE sys_rmdir(fs, path)))

buildin_rm(arg) ==
    Command(arg, LAMBDA path :
        /\ WalksDirectories(path) /\ LeavesNoHole(sys_unlink(fs, path))
        /\ Call("rm", path, IF path = <<>> THEN Refuse(fs) ELSE sys_unlink(fs, path)))

(* cd: the kernel changes the directory, then the shell its cache.         *)
ChangeTo(path) ==
    LET change == sys_chdir(fs, path)
    IN  /\ cwd' = IF change.ok THEN change.no ELSE cwd
        /\ cwd_cache' = IF change.ok THEN path ELSE cwd_cache
        /\ reply' = Answer("cd", path, change.ok)
        /\ UNCHANGED <<fs, turn>>

buildin_cd(arg) == Command(arg, ChangeTo)
CdWithoutArgument == AtPrompt /\ ChangeTo(<<>>)

buildin_pwd ==
    LET here == sys_getcwd(fs, cwd)
    IN  /\ AtPrompt
        /\ reply' = IF here.ok THEN Printed("pwd", here.path, {here.path})
                    ELSE IF here.stops THEN reply
                    ELSE Answer("pwd", cwd_cache, FALSE)
        /\ turn' = IF here.stops THEN "nobody" ELSE turn
        /\ UNCHANGED <<fs, cwd, cwd_cache>>

(* ls: stat, and for a directory opendir, readdir to the end, closedir.    *)
ListPath(path) ==
    LET r == search_file(fs, path)
        names == {dir_read(fs, r.no)[i].name : i \in 1..inode_open(fs, r.no).size}
    IN  /\ WalksDirectories(path)
        /\ IF r.kind = "dir" /\ ~Readable(fs, r.no)
           THEN turn' = "nobody" /\ UNCHANGED reply
           ELSE /\ reply' = CASE r.kind = "dir" ->
                                     Printed("ls", path, {<<n>> : n \in names \ {".", ".."}})
                              [] r.kind = "file" -> Printed("ls", path, {path})
                              [] OTHER           -> Answer("ls", path, FALSE)
                /\ UNCHANGED turn
        /\ UNCHANGED <<fs, cwd, cwd_cache>>

buildin_ls(arg) == Command(arg, ListPath)

(* A name that is no built-in command.  The parent waits in while (1), the *)
(* child replaces itself with the program when the file is there; either   *)
(* way the shell does not read another line.                               *)
ExternalCommand ==
    /\ AtPrompt
    /\ turn' = "program"
    /\ UNCHANGED <<fs, cwd, cwd_cache, reply>>

ProgramCreates(path) ==
    /\ turn = "program" /\ reply = Nothing /\ path # <<>>
    /\ FreshInode /\ WalksDirectories(path)
    /\ Call("create", path, create_file(fs, path))

(* The loop of my_shell, and of the program, goes on.                       *)
print_prompt == reply # Nothing /\ reply' = Nothing /\ UNCHANGED <<fs, cwd, cwd_cache, turn>>

(* The machine has no other way out than its switch.                       *)
Reboot ==
    /\ reply = Nothing
    /\ fs' = mount_partition(fs)
    /\ cwd' = Root /\ cwd_cache' = <<>>
    /\ reply' = Nothing
    /\ turn' = "shell"

Next ==
    \/ \E arg \in Argument : \/ buildin_mkdir(arg) \/ buildin_rmdir(arg) \/ buildin_rm(arg)
                             \/ buildin_cd(arg) \/ buildin_ls(arg)
    \/ CdWithoutArgument
    \/ buildin_pwd
    \/ ExternalCommand
    \/ \E path \in Path : ProgramCreates(path)
    \/ print_prompt
    \/ Reboot

Spec == Init /\ [][Next]_vars

-----------------------------------------------------------------------------
(* What a reader of the disk finds: paths and what they name.               *)
Dirs == {no \in fs.ibits : LET b == inode_open(fs, no).sec[0]
                           IN  b # 0 /\ fs.data[b][1].name = "."}

DiskEntries(f, no) ==
    UNION {{f.data[b][i] : i \in 1..PerSector} : b \in NodeBlocks(f.disk[no])}

Under(f, x) ==
    {[path |-> Append(x.path, e.name), no |-> e.no, kind |-> e.kind] :
        e \in {g \in DiskEntries(f, x.no) : g.name \in Name}}

(* All that is found n directories deep, given what is n - 1 deep.          *)
Deeper(f, found, n) ==
    found \cup UNION {Under(f, x) : x \in {y \in found : y.kind = "dir" /\ Len(y.path) = n - 1}}

TreeOn(f) ==
    LET upTo[n \in 0..MaxDepth] ==
            IF n = 0 THEN {[path |-> <<>>, no |-> Root, kind |-> "dir"]}
            ELSE Deeper(f, upTo[n - 1], n)
        nodes == upTo[MaxDepth]
    IN  [p \in {x.path : x \in nodes} |-> (CHOOSE x \in nodes : x.path = p).kind]

TreeOnDisk == TreeOn(fs)

Tree == INSTANCE DirectoryTree WITH tree <- TreeOnDisk, cwd <- cwd_cache

-----------------------------------------------------------------------------
(* No command stops the machine: no assertion of dir_remove, rmdir, unlink *)
(* or wash_path fails, getcwd comes back (get_child_dir_name, fs.c:846,    *)
(* does not when an entry is missing) and readdir stays in its array.      *)
NoPanic == turn # "nobody"

(* The directories are a tree, for every sequence of commands, failures    *)
(* and reboots: an inode in use is the root or has exactly one entry, an   *)
(* entry names an inode in use, "." and ".." are right, and i_size counts  *)
(* the entries, which dir_is_empty and dir_read rely on.                   *)
TreeIsSound ==
    LET namings == UNION {{<<d, At(fs, d, s)>> : s \in Used(fs, d)} : d \in Dirs}
        named(no) == {x \in namings : x[2].no = no /\ x[2].name \in Name}
    IN  /\ Root \in Dirs
        /\ \A no \in fs.ibits \ {Root} : Cardinality(named(no)) = 1
        /\ \A x \in namings : x[2].no \in fs.ibits /\ (x[2].kind = "dir" <=> x[2].no \in Dirs)
        /\ \A d \in Dirs :
            LET entries == {x[2] : x \in {y \in namings : y[1] = d}}
                up == (CHOOSE e \in entries : e.name = "..").no
            IN  /\ Entry(".", d, "dir") \in entries
                /\ IF d = Root THEN up = Root ELSE \E x \in named(d) : x[1] = up
                /\ inode_open(fs, d).size = Cardinality(Used(fs, d))
                /\ Cardinality({e.name : e \in entries}) = Cardinality(Used(fs, d))

(* Each marked block belongs to one inode in use, or was lost by a mkdir   *)
(* that failed to enter the new directory (rollback case 2, fs.c:705).     *)
BlocksHaveOneOwner ==
    LET owners(b) == {no \in fs.ibits : b \in NodeBlocks(inode_open(fs, no))}
    IN  /\ \A b \in fs.bbits : Cardinality(owners(b)) = IF b \in fs.lost THEN 0 ELSE 1
        /\ \A b \in Block \ fs.bbits : owners(b) = {}

(* Between two commands the disk holds all there is: the bitmaps and every *)
(* inode in open_inodes agree with it, so that a reboot loses nothing and  *)
(* the list of open inodes is the cache that inode.h:24 says it is.        *)
DiskIsCurrent ==
    /\ fs.dibits = fs.ibits /\ fs.dbbits = fs.bbits
    /\ \A no \in fs.ibits : fs.cnt[no] > 0 => fs.core[no] = fs.disk[no]

(* The path the shell washes, "." and ".." taken away word by word, names  *)
(* what the kernel reaches when it follows the "." and ".." entries on the *)
(* disk, from the prompt's directory or the root, wherever those lead.     *)
WashedPathsAgree ==
    AtPrompt =>
        \A arg \in Argument :
            LET words == IF arg.absolute THEN arg.path ELSE cwd_cache \o arg.path
                walked == search_file(fs, words)
            IN  walked.kind = "dir" => search_file(fs, wash_path(words)).no = walked.no

(* The inductive invariant.                                                 *)
Inv == Sound(fs, {}, fs.lost)

(* The shell's commands are those of a plain directory tree: a command     *)
(* that succeeds changes just what it names, one that fails changes        *)
(* nothing, cd, rmdir, rm and ls succeed exactly when they should and pwd  *)
(* always, mkdir and a program's creation only where the tree has room for *)
(* the name, pwd prints the path of the prompt, ls every name once in its  *)
(* directory, and a reboot keeps the tree.                                 *)
ImplementsTree == Tree!TreeSpec
=============================================================================
