------------------------------- MODULE HostFs -------------------------------
(***************************************************************************)
(* The file system calls nfsd makes, as the Unix kernel answers them to    *)
(* root.  A file system is a record: `at' names files and directories,     *)
(* `kind', `data' and `ro' say what they are.  A file's number is never    *)
(* used again, so it is the identity of the file.  Content is abstracted   *)
(* to the value last written.                                              *)
(***************************************************************************)
EXTENDS Naturals, FiniteSets, SequencesExt

CONSTANTS
    TreePath,   \* the absolute paths a file can have here
    Data,       \* what can be written to a file
    Empty,      \* the content of a file just created or truncated
    MaxFiles    \* the inodes of the disk

ASSUME FilesAssumption == MaxFiles \in Nat

Ino == 1 .. MaxFiles

FileSystem ==
    [at : [TreePath -> 0 .. MaxFiles],
     kind : [Ino -> {"none", "file", "dir"}],
     data : [Ino -> Data \cup {Empty}],
     ro : SUBSET Ino]

Status == {"ok", "noent", "exist", "isdir", "notdir", "acces", "io", "nospc",
           "perm", "notsupp", "badhandle", "stale", "inval", "none"}

\* stat(): the file at p, 0 if there is none.
stat(fs, p) == IF p \in TreePath THEN fs.at[p] ELSE 0

IsDir(fs, p) == stat(fs, p) # 0 /\ fs.kind[stat(fs, p)] = "dir"

IsFile(fs, p) == stat(fs, p) # 0 /\ fs.kind[stat(fs, p)] = "file"

NamesOf(fs, f) == {p \in TreePath : fs.at[p] = f}

\* A system call changes the file system and returns 0, or sets errno.
Done(fs) == [fs |-> fs, errno |-> "ok"]
Fail(fs, e) == [fs |-> fs, errno |-> e]

\* Whether a new entry can be made at p, and if not the errno.
Obstacle(fs, p) ==
    IF stat(fs, p) # 0 THEN "exist"
    ELSE IF p = <<>> \/ ~IsDir(fs, Front(p)) THEN "noent"
    ELSE IF p \notin TreePath \/ \A f \in Ino : fs.kind[f] # "none" THEN "nospc"
    ELSE "ok"

NewFile(fs, p, k) ==
    LET f == CHOOSE i \in Ino : fs.kind[i] = "none" /\ \A j \in 1 .. i - 1 : fs.kind[j] # "none"
    IN  [fs EXCEPT !.at = [@ EXCEPT ![p] = f], !.kind = [@ EXCEPT ![f] = k]]

\* open, lseek, write, close.
write(fs, p, d) == [fs EXCEPT !.data = [@ EXCEPT ![stat(fs, p)] = d]]

creat(fs, p) ==
    IF IsFile(fs, p) THEN Done(write(fs, p, Empty))
    ELSE IF IsDir(fs, p) THEN Fail(fs, "isdir")
    ELSE IF Obstacle(fs, p) = "ok" THEN Done(NewFile(fs, p, "file"))
    ELSE Fail(fs, Obstacle(fs, p))

mkdir(fs, p) ==
    IF Obstacle(fs, p) = "ok" THEN Done(NewFile(fs, p, "dir"))
    ELSE Fail(fs, Obstacle(fs, p))

link(fs, p, q) ==
    IF stat(fs, p) = 0 THEN Fail(fs, "noent")
    ELSE IF IsDir(fs, p) THEN Fail(fs, "perm")
    ELSE IF Obstacle(fs, q) \in {"exist", "noent"} THEN Fail(fs, Obstacle(fs, q))
    ELSE IF q \notin TreePath THEN Fail(fs, "nospc")
    ELSE Done([fs EXCEPT !.at = [@ EXCEPT ![q] = fs.at[p]]])

unlink(fs, p) ==
    IF stat(fs, p) = 0 THEN Fail(fs, "noent")
    ELSE IF IsDir(fs, p) THEN Fail(fs, "perm")
    ELSE Done([fs EXCEPT !.at = [@ EXCEPT ![p] = 0]])

chmod(fs, p, readonly) ==
    IF stat(fs, p) = 0 THEN Fail(fs, "noent")
    ELSE Done([fs EXCEPT !.ro = IF readonly THEN @ \cup {stat(fs, p)} ELSE @ \ {stat(fs, p)}])

\* truncate(path, 0); nfsd's own version for UniFLEX opens, seeks and cuts.
truncate(fs, p) ==
    IF IsFile(fs, p) THEN Done(write(fs, p, Empty))
    ELSE Fail(fs, "noent")

=============================================================================
