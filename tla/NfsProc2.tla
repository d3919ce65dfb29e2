------------------------------ MODULE NfsProc2 ------------------------------
(***************************************************************************)
(* The procedures of NFS version 2 in nfsprog, as built for the 4404.      *)
(* Each takes the file system and a request whose handles are resolved to  *)
(* paths, and gives the set of its possible outcomes: the file system      *)
(* left, the status answered ("none" when the reply ends behind the RPC    *)
(* header) and the path of which the reply carries a handle.  READDIR is   *)
(* in Listing.  RENAME makes two changes, so it is two operators.          *)
(***************************************************************************)
EXTENDS HostFs

NoGrant == <<>>

Answer(fs, status) == {[fs |-> fs, status |-> status, grant |-> NoGrant]}

AnswerHandle(fs, p) == {[fs |-> fs, status |-> "ok", grant |-> p]}

\* chmod, chown and truncate, each without a look at its result.
ApplySattr(fs, p, sattr) ==
    LET modes == IF sattr.mode = "keep" THEN fs ELSE chmod(fs, p, sattr.mode = "ro").fs
    IN  IF sattr.size0 THEN truncate(modes, p).fs ELSE modes

GetAttr(fs, rq) == Answer(fs, IF stat(fs, rq.file) # 0 THEN "ok" ELSE "noent")

SetAttr(fs, rq) ==
    LET new == ApplySattr(fs, rq.file, rq.sattr)
    IN  Answer(new, IF stat(new, rq.file) # 0 THEN "ok" ELSE "noent")

Lookup(fs, rq) ==
    LET p == Append(rq.file, rq.name)
    IN  IF stat(fs, p) # 0 THEN AnswerHandle(fs, p) ELSE Answer(fs, "noent")

\* readlink() is missing on the 4404, and so is symlink().
ReadLink(fs, rq) == Answer(fs, "io")
SymLink(fs, rq) == Answer(fs, "io")

\* Files differ in write permission only; everybody may read.
Read(fs, rq) ==
    IF IsFile(fs, rq.file) THEN Answer(fs, "ok")
    ELSE Answer(fs, IF IsDir(fs, rq.file) THEN "isdir" ELSE "noent")

\* A write the disk has no room for fails or is short; a short one counts as
\* the new content here, and is an error all the same.
Write(fs, rq) ==
    IF IsFile(fs, rq.file)
    THEN IF stat(fs, rq.file) \in fs.ro
         THEN Answer(fs, "acces")
         ELSE LET new == write(fs, rq.file, rq.data)
              IN  Answer(new, "ok") \cup Answer(new, "io") \cup Answer(fs, "io")
    ELSE Answer(fs, IF IsDir(fs, rq.file) THEN "isdir" ELSE "noent")

\* creat() empties a file that is there.  Whether it, or any of the calls
\* behind it, succeeded is not looked at: the final stat decides.
Create(fs, rq) ==
    LET p == Append(rq.file, rq.name)
        new == ApplySattr(creat(fs, p).fs, p, rq.sattr)
    IN  IF stat(new, p) # 0 THEN AnswerHandle(new, p) ELSE Answer(new, "noent")

RemoveFile(fs, rq) ==
    LET r == unlink(fs, Append(rq.file, rq.name))
    IN  Answer(r.fs, r.errno)

\* RENAME gives the file its new name and, if that worked, takes the old one.
OldName(rq) == Append(rq.file, rq.name)
NewName(rq) == Append(rq.file2, rq.name2)

\* RENAME that makes room first, as rename(2) does.
RenameLink_Replace(fs, rq) == link(unlink(fs, NewName(rq)).fs, OldName(rq), NewName(rq))

\* RENAME in the wrong order.
RenameLink_UnlinkFirst(fs, rq) == link(unlink(fs, OldName(rq)).fs, OldName(rq), NewName(rq))

RenameLink(fs, rq) == link(fs, OldName(rq), NewName(rq))

RenameUnlink(fs, rq) == Answer(unlink(fs, OldName(rq)).fs, "ok")

Link(fs, rq) ==
    LET r == link(fs, rq.file, NewName(rq))
    IN  IF r.errno = "ok" THEN AnswerHandle(r.fs, NewName(rq)) ELSE Answer(fs, r.errno)

\* The result of mkdir() is not looked at either; when nothing is there
\* afterwards the reply has no body.
MkDir(fs, rq) ==
    LET p == Append(rq.file, rq.name)
        new == mkdir(fs, p).fs
    IN  IF stat(new, p) # 0 THEN AnswerHandle(new, p) ELSE Answer(new, "none")

\* Not implemented: the reply has no body.
RmDir(fs, rq) == Answer(fs, "none")

StatFS(fs, rq) == Answer(fs, "ok")

Procs2 == {"GETATTR", "SETATTR", "LOOKUP", "READLINK", "READ", "WRITE", "CREATE",
           "REMOVE", "RENAME", "LINK", "SYMLINK", "MKDIR", "RMDIR", "STATFS"}

\* nfsprog's switch.  RENAME is served in two steps, by NfsServer.
Serve2(fs, rq) ==
    CASE rq.proc = "GETATTR" -> GetAttr(fs, rq)
      [] rq.proc = "SETATTR" -> SetAttr(fs, rq)
      [] rq.proc = "LOOKUP" -> Lookup(fs, rq)
      [] rq.proc = "READLINK" -> ReadLink(fs, rq)
      [] rq.proc = "READ" -> Read(fs, rq)
      [] rq.proc = "WRITE" -> Write(fs, rq)
      [] rq.proc = "CREATE" -> Create(fs, rq)
      [] rq.proc = "REMOVE" -> RemoveFile(fs, rq)
      [] rq.proc = "LINK" -> Link(fs, rq)
      [] rq.proc = "SYMLINK" -> SymLink(fs, rq)
      [] rq.proc = "MKDIR" -> MkDir(fs, rq)
      [] rq.proc = "RMDIR" -> RmDir(fs, rq)
      [] rq.proc = "STATFS" -> StatFS(fs, rq)

=============================================================================
