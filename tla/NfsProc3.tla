------------------------------ MODULE NfsProc3 ------------------------------
(***************************************************************************)
(* The procedures of NFS version 3 in nfs3prog, in the form of NfsProc2:   *)
(* CREATE, MKDIR and REMOVE look at the directory first, CREATE knows the  *)
(* GUARDED mode, and what the 4404 has no use for is refused or answered   *)
(* without a body.  READDIR and READDIRPLUS are in Listing.                *)
(***************************************************************************)
EXTENDS NfsProc2

GetAttr3(fs, rq) == Answer(fs, IF stat(fs, rq.file) # 0 THEN "ok" ELSE "badhandle")

\* The guard (a ctime to compare with) is read and not used.
SetAttr3(fs, rq) == SetAttr(fs, rq)

Lookup3(fs, rq) == Lookup(fs, rq)

Access3(fs, rq) == GetAttr(fs, rq)

Read3(fs, rq) ==
    IF IsFile(fs, rq.file) THEN Answer(fs, "ok")
    ELSE Answer(fs, IF stat(fs, rq.file) # 0 THEN "inval" ELSE "noent")

\* A short write is a success here: the reply says how much was written.
Write3(fs, rq) ==
    IF IsFile(fs, rq.file) /\ stat(fs, rq.file) \notin fs.ro
    THEN Answer(write(fs, rq.file, rq.data), "ok") \cup Answer(fs, "io")
    ELSE Write(fs, rq)

\* GUARDED taken for UNCHECKED.
Guarded_Ignored(fs, p, rq) == FALSE

\* GUARDED looks whether the name is there and then creates; nothing can come
\* between, the daemon serves one datagram at a time.
Guarded(fs, p, rq) == rq.how = "guarded" /\ stat(fs, p) # 0

Create3(fs, rq) ==
    LET p == Append(rq.file, rq.name)
        new == ApplySattr(creat(fs, p).fs, p, rq.sattr)
    IN  IF stat(fs, rq.file) = 0 THEN Answer(fs, "noent")
        ELSE IF rq.how = "exclusive" THEN Answer(fs, "notsupp")
        ELSE IF Guarded(fs, p, rq) THEN Answer(fs, "exist")
        ELSE IF stat(new, p) # 0 THEN AnswerHandle(new, p)
        ELSE Answer(new, "acces")

MkDir3(fs, rq) ==
    LET p == Append(rq.file, rq.name)
        new == mkdir(fs, p).fs
    IN  IF stat(fs, rq.file) = 0 THEN Answer(fs, "noent")
        ELSE IF stat(new, p) # 0 THEN AnswerHandle(new, p)
        ELSE Answer(new, "acces")

Remove3(fs, rq) ==
    IF stat(fs, rq.file) = 0 \/ stat(fs, Append(rq.file, rq.name)) = 0
    THEN Answer(fs, "noent")
    ELSE RemoveFile(fs, rq)

\* FSSTAT, FSINFO
FsStat3(fs, rq) == GetAttr3(fs, rq)

PathConf3(fs, rq) == Answer(fs, IF stat(fs, rq.file) # 0 THEN "ok" ELSE "stale")

\* READLINK, SYMLINK, MKNOD, COMMIT
NotSupported3(fs, rq) == Answer(fs, "notsupp")

\* RMDIR, RENAME, LINK: the reply ends behind the RPC header.
NoBody3(fs, rq) == Answer(fs, "none")

Procs3 == {"GETATTR3", "SETATTR3", "LOOKUP3", "ACCESS3", "READ3", "WRITE3", "CREATE3",
           "MKDIR3", "REMOVE3", "FSSTAT3", "PATHCONF3", "NOTSUPP3", "NOBODY3"}

\* nfs3prog's switch.
Serve3(fs, rq) ==
    CASE rq.proc = "GETATTR3" -> GetAttr3(fs, rq)
      [] rq.proc = "SETATTR3" -> SetAttr3(fs, rq)
      [] rq.proc = "LOOKUP3" -> Lookup3(fs, rq)
      [] rq.proc = "ACCESS3" -> Access3(fs, rq)
      [] rq.proc = "READ3" -> Read3(fs, rq)
      [] rq.proc = "WRITE3" -> Write3(fs, rq)
      [] rq.proc = "CREATE3" -> Create3(fs, rq)
      [] rq.proc = "MKDIR3" -> MkDir3(fs, rq)
      [] rq.proc = "REMOVE3" -> Remove3(fs, rq)
      [] rq.proc = "FSSTAT3" -> FsStat3(fs, rq)
      [] rq.proc = "PATHCONF3" -> PathConf3(fs, rq)
      [] rq.proc = "NOTSUPP3" -> NotSupported3(fs, rq)
      [] rq.proc = "NOBODY3" -> NoBody3(fs, rq)

=============================================================================
