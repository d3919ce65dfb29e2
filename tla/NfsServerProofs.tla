---------------------------- MODULE NfsServerProofs ----------------------------
(***************************************************************************)
(* Proofs about nfsd's procedures: for any number of clients, names and    *)
(* files, any menu of procedures, and any loss, repetition and order of    *)
(* the calls, files are lost by REMOVE only, handles lead to the file they *)
(* were granted for, and a name is won by one caller.                      *)
(***************************************************************************)
EXTENDS NfsServer, NumberLemmas, FiniteSetTheorems, TLAPS

-----------------------------------------------------------------------------
\* What the host's calls do to the names

\* A name that is there stays for the file it stands for.
Grown(F, G) == G \in FileSystem /\ \A p \in TreePath : F.at[p] # 0 => G.at[p] = F.at[p]

\* Or goes.
Kept(F, G) == G \in FileSystem /\ \A p \in TreePath : F.at[p] # 0 => G.at[p] \in {F.at[p], 0}

\* What is grown has what was there before.
LEMMA GrownIs ==
    ASSUME NEW F \in FileSystem
    PROVE  /\ Grown(F, F)
           /\ \A G, H : Grown(F, G) /\ Grown(G, H) => Grown(F, H)
           /\ \A G : Grown(F, G) => Kept(F, G)
BY DEF Grown, Kept

\* A file system's parts.
LEMMA FileSystemIs ==
    ASSUME NEW F \in FileSystem
    PROVE  /\ F.at \in [TreePath -> 0 .. MaxFiles] /\ F.kind \in [Ino -> {"none", "file", "dir"}]
           /\ F.data \in [Ino -> Data \cup {Empty}] /\ F.ro \in SUBSET Ino
           /\ \A p : stat(F, p) # 0 => p \in TreePath /\ stat(F, p) = F.at[p] /\ F.at[p] \in Ino
           /\ \A p \in TreePath : stat(F, p) = F.at[p]
BY FilesAssumption DEF FileSystem, stat, Ino

\* A new file takes a free inode, and a name that was free.
LEMMA NewFileIs ==
    ASSUME NEW F \in FileSystem, NEW p, Obstacle(F, p) = "ok", NEW k \in {"file", "dir"}
    PROVE  Grown(F, NewFile(F, p, k)) /\ p \in TreePath /\ F.at[p] = 0 /\ NewFile(F, p, k).at[p] # 0
<1>1. p \in TreePath /\ F.at[p] = 0 /\ \E f \in Ino : F.kind[f] = "none"
  BY FileSystemIs DEF Obstacle
<1>2. PICK f : f = CHOOSE i \in Ino : F.kind[i] = "none" /\ \A j \in 1 .. i - 1 : F.kind[j] # "none"
  OBVIOUS
<1>3. f \in Ino
  <2>1. PICK S : S = {i \in Ino : F.kind[i] = "none"}
    OBVIOUS
  <2>2. S # {} /\ S \subseteq Nat
    BY <1>1, <2>1 DEF Ino
  <2>3. PICK m \in S : \A i \in S : m <= i
    BY <2>2, LeastNatural
  <2>4. m \in Ino /\ F.kind[m] = "none" /\ \A j \in 1 .. m - 1 : F.kind[j] # "none"
    BY <2>1, <2>3, FilesAssumption DEF Ino
  <2>5. QED
    BY <1>2, <2>4
<1>4. PICK at : at = [F.at EXCEPT ![p] = f]
  OBVIOUS
<1>5. PICK kind : kind = [F.kind EXCEPT ![f] = k]
  OBVIOUS
<1>6. at \in [TreePath -> 0 .. MaxFiles] /\ kind \in [Ino -> {"none", "file", "dir"}]
      /\ at[p] = f /\ \A q \in TreePath : q # p => at[q] = F.at[q]
  BY <1>1, <1>3, <1>4, <1>5, FileSystemIs, FilesAssumption DEF Ino
<1>7. NewFile(F, p, k) = [F EXCEPT !.at = at, !.kind = kind]
  BY <1>2, <1>4, <1>5, Zenon DEF NewFile
<1>8. NewFile(F, p, k) \in FileSystem /\ NewFile(F, p, k).at = at
  BY <1>6, <1>7 DEF FileSystem
<1>9. f # 0
  BY <1>3 DEF Ino
<1>10. QED
  BY <1>1, <1>6, <1>8, <1>9 DEF Grown

\* Calls that leave the names alone.
LEMMA NamesStay ==
    ASSUME NEW F \in FileSystem, NEW p
    PROVE  /\ \A d \in Data \cup {Empty} : stat(F, p) # 0 => write(F, p, d) \in FileSystem /\ write(F, p, d).at = F.at
           /\ \A readonly \in BOOLEAN : chmod(F, p, readonly).fs \in FileSystem /\ chmod(F, p, readonly).fs.at = F.at
           /\ truncate(F, p).fs \in FileSystem /\ truncate(F, p).fs.at = F.at
<1>1. ASSUME NEW d \in Data \cup {Empty}, stat(F, p) # 0
      PROVE  write(F, p, d) \in FileSystem /\ write(F, p, d).at = F.at
  <2>1. PICK data : data = [F.data EXCEPT ![stat(F, p)] = d]
    OBVIOUS
  <2>2. data \in [Ino -> Data \cup {Empty}]
    BY <1>1, <2>1, FileSystemIs
  <2>3. write(F, p, d) = [F EXCEPT !.data = data]
    BY <2>1, Zenon DEF write
  <2>4. QED
    BY <2>2, <2>3 DEF FileSystem
<1>2. ASSUME NEW readonly \in BOOLEAN
      PROVE  chmod(F, p, readonly).fs \in FileSystem /\ chmod(F, p, readonly).fs.at = F.at
  <2>1. PICK ro : ro = IF readonly THEN F.ro \cup {stat(F, p)} ELSE F.ro \ {stat(F, p)}
    OBVIOUS
  <2>2. stat(F, p) # 0 => ro \in SUBSET Ino
    <3>1. F.ro \in SUBSET Ino /\ (stat(F, p) # 0 => stat(F, p) \in Ino)
      BY FileSystemIs
    <3>2. QED
      BY <2>1, <3>1
  <2>3. chmod(F, p, readonly).fs = IF stat(F, p) = 0 THEN F ELSE [F EXCEPT !.ro = ro]
    <3>1. CASE stat(F, p) = 0
      BY <3>1 DEF chmod, Fail
    <3>2. CASE stat(F, p) # 0
      <4>1. chmod(F, p, readonly) = [fs |-> [F EXCEPT !.ro = ro], errno |-> "ok"]
        BY <2>1, <3>2, Zenon DEF chmod, Done
      <4>2. QED
        BY <3>2, <4>1
    <3>3. QED
      BY <3>1, <3>2
  <2>4. QED
    BY <2>2, <2>3 DEF FileSystem
<1>3. truncate(F, p).fs \in FileSystem /\ truncate(F, p).fs.at = F.at
  <2>1. CASE IsFile(F, p)
    <3>1. truncate(F, p).fs = write(F, p, Empty) /\ stat(F, p) # 0
      BY <2>1 DEF truncate, Done, IsFile
    <3>2. QED
      BY <1>1, <3>1
  <2>2. CASE ~IsFile(F, p)
    BY <2>2 DEF truncate, Fail
  <2>3. QED
    BY <2>1, <2>2
<1>4. QED
  BY <1>1, <1>2, <1>3

\* creat and mkdir only make.
LEMMA MakingGrows ==
    ASSUME NEW F \in FileSystem, NEW p
    PROVE  Grown(F, creat(F, p).fs) /\ Grown(F, mkdir(F, p).fs)
<1>1. Grown(F, F)
  BY GrownIs
<1>2. CASE IsFile(F, p)
  <2>1. creat(F, p).fs = write(F, p, Empty) /\ stat(F, p) # 0 /\ ~(Obstacle(F, p) = "ok")
    BY <1>2 DEF creat, Done, IsFile, Obstacle
  <2>2. creat(F, p).fs \in FileSystem /\ creat(F, p).fs.at = F.at
    BY <2>1, NamesStay
  <2>3. mkdir(F, p).fs = F
    BY <2>1 DEF mkdir, Fail
  <2>4. QED
    BY <1>1, <2>2, <2>3 DEF Grown
<1>3. CASE ~IsFile(F, p) /\ Obstacle(F, p) = "ok"
  <2>1. mkdir(F, p).fs = NewFile(F, p, "dir") /\ ~IsDir(F, p)
    BY <1>3 DEF mkdir, Done, IsDir, Obstacle
  <2>2. creat(F, p).fs = NewFile(F, p, "file")
    BY <1>3, <2>1 DEF creat, Done
  <2>3. QED
    BY <1>3, <2>1, <2>2, NewFileIs
<1>4. CASE ~IsFile(F, p) /\ Obstacle(F, p) # "ok"
  BY <1>1, <1>4 DEF creat, mkdir, Fail
<1>5. QED
  BY <1>2, <1>3, <1>4

\* link gives the file a second name, at a free place.
LEMMA LinkIs ==
    ASSUME NEW F \in FileSystem, NEW p, NEW q
    PROVE  /\ Grown(F, link(F, p, q).fs) /\ link(F, p, q).errno \in Status
           /\ link(F, p, q).errno # "ok" => link(F, p, q).fs = F
           /\ link(F, p, q).errno = "ok" =>
                 /\ p \in TreePath /\ q \in TreePath /\ p # q /\ F.at[p] # 0 /\ F.at[q] = 0
                 /\ link(F, p, q).fs.at[p] = F.at[p] /\ link(F, p, q).fs.at[q] = F.at[p]
<1>1. PICK r : r = link(F, p, q)
  OBVIOUS
<1>2. PICK at : at = [F.at EXCEPT ![q] = F.at[p]]
  OBVIOUS
<1>3. \/ r.fs = F /\ r.errno \in {"noent", "perm", "exist", "nospc"}
      \/ /\ r = [fs |-> [F EXCEPT !.at = at], errno |-> "ok"]
         /\ stat(F, p) # 0 /\ q \in TreePath /\ Obstacle(F, q) \notin {"exist", "noent"}
  <2>1. CASE /\ stat(F, p) # 0 /\ ~IsDir(F, p) /\ Obstacle(F, q) \notin {"exist", "noent"} /\ q \in TreePath
    <3>1. r = [fs |-> [F EXCEPT !.at = at], errno |-> "ok"]
      BY <1>1, <1>2, <2>1, Zenon DEF link, Done
    <3>2. QED
      BY <2>1, <3>1
  <2>2. CASE ~(stat(F, p) # 0 /\ ~IsDir(F, p) /\ Obstacle(F, q) \notin {"exist", "noent"} /\ q \in TreePath)
    BY <1>1, <2>2 DEF link, Fail
  <2>3. QED
    BY <2>1, <2>2
<1>4. CASE r.fs = F /\ r.errno \in {"noent", "perm", "exist", "nospc"}
  BY <1>1, <1>4, GrownIs DEF Status
<1>5. CASE /\ r = [fs |-> [F EXCEPT !.at = at], errno |-> "ok"]
           /\ stat(F, p) # 0 /\ q \in TreePath /\ Obstacle(F, q) \notin {"exist", "noent"}
  <2>1. p \in TreePath /\ F.at[p] # 0 /\ F.at[p] \in 0 .. MaxFiles /\ F.at[q] = 0 /\ p # q
    BY <1>5, FileSystemIs, FilesAssumption DEF Obstacle, Ino
  <2>2. at \in [TreePath -> 0 .. MaxFiles] /\ at[q] = F.at[p] /\ \A x \in TreePath : x # q => at[x] = F.at[x]
    BY <1>2, <1>5, <2>1, FileSystemIs
  <2>3. r.fs \in FileSystem /\ r.fs.at = at /\ r.errno = "ok"
    BY <1>5, <2>2 DEF FileSystem
  <2>4. QED
    BY <1>1, <1>5, <2>1, <2>2, <2>3 DEF Grown, Status
<1>6. QED
  BY <1>3, <1>4, <1>5

\* unlink takes one name, if any.
LEMMA UnlinkIs ==
    ASSUME NEW F \in FileSystem, NEW p
    PROVE  /\ unlink(F, p).fs \in FileSystem /\ unlink(F, p).errno \in Status
           /\ \A q \in TreePath : unlink(F, p).fs.at[q] = F.at[q] \/ (q = p /\ unlink(F, p).fs.at[q] = 0)
<1>1. PICK r : r = unlink(F, p)
  OBVIOUS
<1>2. PICK at : at = [F.at EXCEPT ![p] = 0]
  OBVIOUS
<1>3. CASE stat(F, p) # 0 /\ ~IsDir(F, p)
  <2>1. r = [fs |-> [F EXCEPT !.at = at], errno |-> "ok"]
    BY <1>1, <1>2, <1>3, Zenon DEF unlink, Done
  <2>2. at \in [TreePath -> 0 .. MaxFiles] /\ \A x \in TreePath : at[x] = IF x = p THEN 0 ELSE F.at[x]
    <3>1. F.at \in [TreePath -> 0 .. MaxFiles] /\ p \in TreePath /\ 0 \in 0 .. MaxFiles
      BY <1>3, FileSystemIs, FilesAssumption
    <3>2. QED
      BY <1>2, <3>1
  <2>3. r.fs \in FileSystem /\ r.fs.at = at /\ r.errno = "ok"
    BY <2>1, <2>2 DEF FileSystem
  <2>4. QED
    BY <1>1, <2>2, <2>3 DEF Status
<1>4. CASE ~(stat(F, p) # 0 /\ ~IsDir(F, p))
  BY <1>1, <1>4 DEF unlink, Fail, Status
<1>5. QED
  BY <1>3, <1>4

-----------------------------------------------------------------------------
\* What the procedures do

\* An outcome makes names and answers; a handle is for a file that is there.
Answers(o) ==
    /\ o.fs \in FileSystem /\ o.status \in Status
    /\ o.grant # NoGrant => o.grant \in TreePath /\ o.fs.at[o.grant] # 0

Making(F, o) == Grown(F, o.fs) /\ Answers(o)

\* An answer with and without a handle.
LEMMA AnswerIs ==
    /\ \A F, s : \A o \in Answer(F, s) : o.fs = F /\ o.status = s /\ o.grant = NoGrant
    /\ \A F, p : \A o \in AnswerHandle(F, p) : o.fs = F /\ o.status = "ok" /\ o.grant = p
BY DEF Answer, AnswerHandle

\* What was made can be answered, with a handle if the name is there.
LEMMA MakingIs ==
    ASSUME NEW F \in FileSystem, NEW G, Grown(F, G)
    PROVE  /\ \A s \in Status : \A o \in Answer(G, s) : Making(F, o)
           /\ \A p : stat(G, p) # 0 => \A o \in AnswerHandle(G, p) : Making(F, o)
<1>1. G \in FileSystem
  BY DEF Grown
<1>2. ASSUME NEW s \in Status, NEW o \in Answer(G, s)
      PROVE  Making(F, o)
  BY <1>1, <1>2, AnswerIs DEF Making, Answers
<1>3. ASSUME NEW p, stat(G, p) # 0, NEW o \in AnswerHandle(G, p)
      PROVE  Making(F, o)
  <2>1. o.fs = G /\ o.status = "ok" /\ o.grant = p /\ p \in TreePath /\ G.at[p] # 0
    BY <1>1, <1>3, AnswerIs, FileSystemIs
  <2>2. QED
    BY <1>1, <2>1 DEF Making, Answers, Status
<1>4. QED
  BY <1>2, <1>3

\* An answer that changes nothing.
LEMMA SameIs ==
    ASSUME NEW F \in FileSystem
    PROVE  /\ \A s \in Status : \A o \in Answer(F, s) : Making(F, o)
           /\ \A p : stat(F, p) # 0 => \A o \in AnswerHandle(F, p) : Making(F, o)
BY MakingIs, GrownIs

\* Setting attributes leaves the names alone.
LEMMA ApplySattrIs ==
    ASSUME NEW F \in FileSystem, NEW p, NEW s \in Sattr
    PROVE  ApplySattr(F, p, s) \in FileSystem /\ ApplySattr(F, p, s).at = F.at
<1>1. PICK G : G = IF s.mode = "keep" THEN F ELSE chmod(F, p, s.mode = "ro").fs
  OBVIOUS
<1>2. G \in FileSystem /\ G.at = F.at
  <2>1. (s.mode = "ro") \in BOOLEAN
    OBVIOUS
  <2>2. chmod(F, p, s.mode = "ro").fs \in FileSystem /\ chmod(F, p, s.mode = "ro").fs.at = F.at
    BY <2>1, NamesStay
  <2>3. QED
    BY <1>1, <2>2
<1>3. ApplySattr(F, p, s) = IF s.size0 THEN truncate(G, p).fs ELSE G
  BY <1>1, Zenon DEF ApplySattr
<1>4. truncate(G, p).fs \in FileSystem /\ truncate(G, p).fs.at = G.at
  BY <1>2, NamesStay
<1>5. QED
  BY <1>2, <1>3, <1>4

\* What a request carries to a procedure.
Carries(rq) == rq.data \in Data \cup {Empty} /\ rq.sattr \in Sattr

\* Procedures that look only.
LEMMA LookingMakes ==
    ASSUME NEW F \in FileSystem, NEW rq,
           NEW o \in GetAttr(F, rq) \cup Lookup(F, rq) \cup ReadLink(F, rq) \cup SymLink(F, rq) \cup Read(F, rq)
                 \cup RmDir(F, rq) \cup StatFS(F, rq) \cup GetAttr3(F, rq) \cup Read3(F, rq)
                 \cup PathConf3(F, rq) \cup NotSupported3(F, rq)
    PROVE  Making(F, o)
<1>1. {"ok", "noent", "io", "isdir", "none", "badhandle", "inval", "stale", "notsupp"} \subseteq Status
  BY DEF Status
<1>2. CASE o \in Lookup(F, rq)
  BY <1>1, <1>2, SameIs DEF Lookup
<1>3. CASE o \notin Lookup(F, rq)
  <2>1. \E s \in {"ok", "noent", "io", "isdir", "none", "badhandle", "inval", "stale", "notsupp"} : o \in Answer(F, s)
    BY <1>3 DEF GetAttr, ReadLink, SymLink, Read, RmDir, StatFS, GetAttr3, Read3, PathConf3, NotSupported3
  <2>2. QED
    BY <1>1, <2>1, SameIs
<1>4. QED
  BY <1>2, <1>3

\* WRITE and WRITE3 change content only.
LEMMA WritingMakes ==
    ASSUME NEW F \in FileSystem, NEW rq, Carries(rq), NEW o \in Write(F, rq) \cup Write3(F, rq)
    PROVE  Making(F, o)
<1>1. PICK G : G = write(F, rq.file, rq.data)
  OBVIOUS
<1>2. {"ok", "io", "acces", "isdir", "noent"} \subseteq Status
  BY DEF Status
<1>3. IsFile(F, rq.file) => Grown(F, G)
  <2>1. IsFile(F, rq.file) => G \in FileSystem /\ G.at = F.at
    BY <1>1, NamesStay DEF Carries, IsFile
  <2>2. QED
    BY <2>1 DEF Grown
<1>4. ASSUME NEW u \in Write(F, rq) PROVE Making(F, u)
  <2>1. \/ \E s \in {"io", "acces", "isdir", "noent"} : u \in Answer(F, s)
        \/ IsFile(F, rq.file) /\ \E s \in {"ok", "io"} : u \in Answer(G, s)
    BY <1>1, <1>4 DEF Write
  <2>2. QED
    BY <1>2, <1>3, <2>1, SameIs, MakingIs
<1>5. ASSUME o \in Write3(F, rq), o \notin Write(F, rq) PROVE Making(F, o)
  <2>1. \/ o \in Answer(F, "io")
        \/ IsFile(F, rq.file) /\ o \in Answer(G, "ok")
    BY <1>1, <1>5 DEF Write3
  <2>2. QED
    BY <1>2, <1>3, <2>1, SameIs, MakingIs
<1>6. QED
  BY <1>4, <1>5

\* So do SETATTR, and CREATE, MKDIR and LINK make names.
LEMMA CreatingMakes ==
    ASSUME NEW F \in FileSystem, NEW rq, Carries(rq),
           NEW o \in SetAttr(F, rq) \cup Create(F, rq) \cup MkDir(F, rq) \cup Link(F, rq)
                 \cup Create3(F, rq) \cup MkDir3(F, rq)
    PROVE  Making(F, o)
<1>1. {"ok", "noent", "none", "notsupp", "exist", "acces"} \subseteq Status
  BY DEF Status
<1>2. CASE o \in SetAttr(F, rq)
  <2>1. PICK G : G = ApplySattr(F, rq.file, rq.sattr)
    OBVIOUS
  <2>2. Grown(F, G)
    BY <2>1, ApplySattrIs DEF Carries, Grown
  <2>3. \E s \in {"ok", "noent"} : o \in Answer(G, s)
    BY <1>2, <2>1 DEF SetAttr
  <2>4. QED
    BY <1>1, <2>2, <2>3, MakingIs
<1>3. CASE o \in Create(F, rq) \cup Create3(F, rq)
  <2>1. PICK p : p = Append(rq.file, rq.name)
    OBVIOUS
  <2>2. PICK G : G = ApplySattr(creat(F, p).fs, p, rq.sattr)
    OBVIOUS
  <2>3. Grown(F, G)
    <3>1. Grown(F, creat(F, p).fs)
      BY MakingGrows
    <3>2. G \in FileSystem /\ G.at = creat(F, p).fs.at
      BY <2>2, <3>1, ApplySattrIs DEF Carries, Grown
    <3>3. QED
      BY <3>1, <3>2 DEF Grown
  <2>4. \/ \E s \in {"noent", "notsupp", "exist", "acces"} : o \in Answer(F, s) \cup Answer(G, s)
        \/ stat(G, p) # 0 /\ o \in AnswerHandle(G, p)
    BY <1>3, <2>1, <2>2 DEF Create, Create3
  <2>5. QED
    BY <1>1, <2>3, <2>4, MakingIs, SameIs
<1>4. CASE o \in MkDir(F, rq) \cup MkDir3(F, rq)
  <2>1. PICK p : p = Append(rq.file, rq.name)
    OBVIOUS
  <2>2. PICK G : G = mkdir(F, p).fs
    OBVIOUS
  <2>3. Grown(F, G)
    BY <2>2, MakingGrows
  <2>4. \/ \E s \in {"noent", "none", "acces"} : o \in Answer(F, s) \cup Answer(G, s)
        \/ stat(G, p) # 0 /\ o \in AnswerHandle(G, p)
    BY <1>4, <2>1, <2>2 DEF MkDir, MkDir3
  <2>5. QED
    BY <1>1, <2>3, <2>4, MakingIs, SameIs
<1>5. CASE o \in Link(F, rq)
  <2>1. PICK r : r = link(F, rq.file, NewName(rq))
    OBVIOUS
  <2>2. /\ Grown(F, r.fs) /\ r.errno \in Status
        /\ r.errno = "ok" => NewName(rq) \in TreePath /\ r.fs.at[NewName(rq)] # 0
    BY <2>1, LinkIs
  <2>3. r.errno = "ok" => stat(r.fs, NewName(rq)) # 0
    BY <2>2 DEF stat
  <2>4. \/ r.errno = "ok" /\ o \in AnswerHandle(r.fs, NewName(rq))
        \/ o \in Answer(F, r.errno)
    BY <1>5, <2>1 DEF Link
  <2>5. QED
    BY <2>2, <2>3, <2>4, MakingIs, SameIs
<1>6. QED
  BY <1>2, <1>3, <1>4, <1>5

\* REMOVE takes a name and answers.
LEMMA RemovingTakes ==
    ASSUME NEW F \in FileSystem, NEW rq, NEW o \in RemoveFile(F, rq) \cup Remove3(F, rq)
    PROVE  Kept(F, o.fs) /\ Answers(o)
<1>1. PICK p : p = Append(rq.file, rq.name)
  OBVIOUS
<1>2. PICK r : r = unlink(F, p)
  OBVIOUS
<1>3. r.errno \in Status /\ "noent" \in Status /\ Kept(F, r.fs) /\ Kept(F, F) /\ r.fs \in FileSystem
  BY <1>2, UnlinkIs, GrownIs DEF Kept, Status
<1>4. o \in Answer(r.fs, r.errno) \/ o \in Answer(F, "noent")
  BY <1>1, <1>2 DEF RemoveFile, Remove3
<1>5. QED
  BY <1>3, <1>4, AnswerIs DEF Answers

\* Served in one step: everything but RENAME.
LEMMA ServedIs ==
    ASSUME NEW F \in FileSystem, NEW rq, Carries(rq), rq.proc \in (Procs2 \cup Procs3) \ {"RENAME"},
           NEW o \in IF rq.proc \in Procs2 THEN Serve2(F, rq) ELSE Serve3(F, rq)
    PROVE  /\ Kept(F, o.fs) /\ Answers(o)
           /\ rq.proc \notin {"REMOVE", "REMOVE3"} => Grown(F, o.fs)
           /\ rq.proc = "LINK" => o \in Link(F, rq)
           /\ rq.proc = "CREATE3" => o \in Create3(F, rq)
<1>1. CASE rq.proc \in Procs2
  <2>1. \/ o \in GetAttr(F, rq) \cup Lookup(F, rq) \cup ReadLink(F, rq) \cup SymLink(F, rq) \cup Read(F, rq)
                 \cup RmDir(F, rq) \cup StatFS(F, rq) /\ rq.proc \notin {"REMOVE", "LINK", "CREATE3"}
        \/ o \in Write(F, rq) /\ rq.proc = "WRITE"
        \/ o \in SetAttr(F, rq) \cup Create(F, rq) \cup MkDir(F, rq) /\ rq.proc \notin {"REMOVE", "LINK", "CREATE3"}
        \/ o \in Link(F, rq) /\ rq.proc = "LINK"
        \/ o \in RemoveFile(F, rq) /\ rq.proc = "REMOVE"
    BY <1>1 DEF Procs2, Serve2
  <2>2. QED
    BY <2>1, LookingMakes, WritingMakes, CreatingMakes, RemovingTakes, GrownIs DEF Making
<1>2. CASE rq.proc \notin Procs2
  <2>1. rq.proc \in Procs3 /\ o \in Serve3(F, rq)
    BY <1>2
  <2>2. \/ o \in GetAttr3(F, rq) \cup Lookup3(F, rq) \cup Access3(F, rq) \cup Read3(F, rq) \cup FsStat3(F, rq)
                 \cup PathConf3(F, rq) \cup NotSupported3(F, rq) \cup NoBody3(F, rq)
           /\ rq.proc \notin {"REMOVE3", "LINK", "CREATE3"}
        \/ o \in Write3(F, rq) /\ rq.proc = "WRITE3"
        \/ o \in SetAttr3(F, rq) \cup MkDir3(F, rq) /\ rq.proc \notin {"REMOVE3", "LINK", "CREATE3"}
        \/ o \in Create3(F, rq) /\ rq.proc = "CREATE3"
        \/ o \in Remove3(F, rq) /\ rq.proc = "REMOVE3"
    BY <2>1 DEF Procs3, Serve3
  <2>3. /\ Lookup3(F, rq) = Lookup(F, rq) /\ Access3(F, rq) = GetAttr(F, rq) /\ FsStat3(F, rq) = GetAttr3(F, rq)
        /\ SetAttr3(F, rq) = SetAttr(F, rq) /\ NoBody3(F, rq) = RmDir(F, rq)
    BY DEF Lookup3, Access3, FsStat3, GetAttr3, SetAttr3, NoBody3, RmDir
  <2>4. QED
    BY <2>2, <2>3, LookingMakes, WritingMakes, CreatingMakes, RemovingTakes, GrownIs DEF Making
<1>3. QED
  BY <1>1, <1>2

\* A caller of LINK or of a GUARDED CREATE that is told it succeeded has made
\* a name that was not there.
LEMMA WinningIs ==
    ASSUME NEW F \in FileSystem, NEW rq, Carries(rq), NEW o, o.status = "ok"
    PROVE  /\ o \in Link(F, rq) =>
                 NewName(rq) \in TreePath /\ F.at[NewName(rq)] = 0 /\ o.fs.at[NewName(rq)] # 0
           /\ o \in Create3(F, rq) /\ rq.how = "guarded" =>
                 /\ Append(rq.file, rq.name) \in TreePath /\ F.at[Append(rq.file, rq.name)] = 0
                 /\ o.fs.at[Append(rq.file, rq.name)] # 0
<1>1. ASSUME o \in Link(F, rq)
      PROVE  NewName(rq) \in TreePath /\ F.at[NewName(rq)] = 0 /\ o.fs.at[NewName(rq)] # 0
  <2>1. PICK r : r = link(F, rq.file, NewName(rq))
    OBVIOUS
  <2>2. \/ r.errno = "ok" /\ o \in AnswerHandle(r.fs, NewName(rq))
        \/ r.errno # "ok" /\ o \in Answer(F, r.errno)
    BY <1>1, <2>1 DEF Link
  <2>3. r.errno = "ok" /\ o.fs = r.fs
    BY <2>2, AnswerIs
  <2>4. QED
    BY <2>1, <2>3, LinkIs
<1>2. ASSUME o \in Create3(F, rq), rq.how = "guarded"
      PROVE  /\ Append(rq.file, rq.name) \in TreePath /\ F.at[Append(rq.file, rq.name)] = 0
             /\ o.fs.at[Append(rq.file, rq.name)] # 0
  <2>1. PICK p : p = Append(rq.file, rq.name)
    OBVIOUS
  <2>2. PICK G : G = ApplySattr(creat(F, p).fs, p, rq.sattr)
    OBVIOUS
  <2>3. G \in FileSystem
    <3>1. creat(F, p).fs \in FileSystem
      BY MakingGrows DEF Grown
    <3>2. QED
      BY <2>2, <3>1, ApplySattrIs DEF Carries
  <2>4. \/ \E s \in {"noent", "notsupp", "exist", "acces"} : o \in Answer(F, s) \cup Answer(G, s)
        \/ stat(F, p) = 0 /\ stat(G, p) # 0 /\ o \in AnswerHandle(G, p)
    BY <1>2, <2>1, <2>2 DEF Create3, Guarded
  <2>5. stat(F, p) = 0 /\ stat(G, p) # 0 /\ o.fs = G
    BY <2>4, AnswerIs
  <2>6. QED
    BY <2>1, <2>3, <2>5, FileSystemIs
<1>3. QED
  BY <1>1, <1>2

-----------------------------------------------------------------------------
\* What the pool does to paths

\* The pool is only ever appended to.
Longer(old, new) == Len(old) <= Len(new) /\ \A i \in 1 .. Len(old) : new[i] = old[i]

\* A row of tokens that are all in the pool.
Valid(row, pl) == Len(row) < 10 /\ \A i \in 1 .. Len(row) : row[i] \in 1 .. Len(pl)

\* The row stands for the path.
Stands(row, p, pl) == Valid(row, pl) /\ Len(row) = Len(p) /\ \A i \in 1 .. Len(row) : pl[row[i]] = p[i]

\* A row that is valid is still, and for the same path.
LEMMA LongerIs ==
    ASSUME NEW old \in Seq(Component), NEW new \in Seq(Component), Longer(old, new)
    PROVE  \A row \in Seq(Nat) : Valid(row, old) =>
              Valid(row, new) /\ \A i \in 1 .. Len(row) : new[row[i]] = old[row[i]]
BY DEF Longer, Valid

\* decodepath looks up the tokens of a valid row.
Decodes == \A row \in Seq(Nat) : Valid(row, pool) => Path(row) = [i \in 1 .. Len(row) |-> pool[row[i]]]

\* It stops where the row stops.
LEMMA DecodesNow == Decodes
<1> SUFFICES ASSUME NEW row \in Seq(Nat), Valid(row, pool)
             PROVE  Path(row) = [i \in 1 .. Len(row) |-> pool[row[i]]]
  BY DEF Decodes
<1>1. Len(row) \in Nat /\ Len(row) < 10 /\ \A i \in 1 .. Len(row) : row[i] \in Nat /\ row[i] # 0 /\ row[i] \in 1 .. Len(pool)
  BY DEF Valid
<1>2. PICK w : w = Tokens!Words(row, 0)
  OBVIOUS
<1>3. PICK n : n = CHOOSE k \in 0 .. 10 + 1 : Tokens!Terminated(w, k)
  OBVIOUS
<1>4. \A i \in 1 .. 12 : w[i] = IF i <= Len(row) THEN row[i] ELSE 0
  BY <1>2 DEF Tokens!Words
<1>5. Len(row) \in 0 .. 10 + 1 /\ w[Len(row) + 1] = 0 /\ \A i \in 1 .. Len(row) : w[i] = row[i] /\ w[i] # 0
  <2>1. Len(row) \in 0 .. 10 + 1 /\ Len(row) + 1 \in 1 .. 12 /\ ~(Len(row) + 1 <= Len(row))
    <3>1. \A l \in Nat : l < 10 => l \in 0 .. 10 + 1 /\ l + 1 \in 1 .. 12 /\ ~(l + 1 <= l)
      OBVIOUS
    <3>2. QED
      BY <1>1, <3>1
  <2>2. \A i \in 1 .. Len(row) : i \in 1 .. 12 /\ i <= Len(row)
    BY <1>1
  <2>3. QED
    BY <1>1, <1>4, <2>1, <2>2
<1>6. ASSUME NEW k \in 0 .. 10 + 1, w[k + 1] = 0, \A i \in 1 .. k : w[i] # 0
      PROVE  k = Len(row)
  <2>1. ~(k < Len(row))
    BY <1>1, <1>5, <1>6
  <2>2. ~(Len(row) < k)
    BY <1>1, <1>5, <1>6
  <2>3. QED
    BY <1>1, <2>1, <2>2
<1>7. n = Len(row)
  BY <1>3, <1>5, <1>6 DEF Tokens!Terminated
<1>8. Path(row) = [i \in 1 .. n |-> Tokens!String(w[i])]
  BY <1>2, <1>3 DEF Path, Tokens!decodepath
<1>9. \A i \in 1 .. Len(row) : Tokens!String(w[i]) = pool[row[i]]
  BY <1>1, <1>5 DEF Tokens!String
<1>10. QED
  BY <1>7, <1>8, <1>9

\* In the next state, too.
LEMMA DecodesNext == Decodes'
BY DecodesNow, PTL

\* encodepath leaves a pool that has the old one and all components.
Holds(new, old, p) ==
    /\ new \in Seq(Component) /\ Longer(old, new)
    /\ \A i \in 1 .. Len(p) : \E k \in 1 .. Len(new) : new[k] = p[i]

\* add_subpath for one component after the other.
LEMMA InternedIs ==
    ASSUME pool \in Seq(Component), NEW p \in TreePath
    PROVE  Holds(Interned(p), pool, p)
<1> DEFINE M == Len(p)
           V == Seq(Component)
           Add(s, c) == IF Contains(s, c) THEN s ELSE Append(s, c)
           step == [i \in 1 .. M |-> [s \in V |-> Add(s, p[i])]]
           Body(f) == [i \in 0 .. M |-> IF i = 0 THEN pool
                         ELSE IF Contains(f[i - 1], p[i]) THEN f[i - 1] ELSE Append(f[i - 1], p[i])]
           acc == CHOOSE f : f = Body(f)
<1>1. p \in Seq(Component) /\ M \in Nat /\ pool \in V /\ \A i \in 1 .. M : p[i] \in Component
  BY TreeAssumption
<1>2. \A i \in 1 .. M : \A s \in V : Add(s, p[i]) \in V
  BY <1>1
<1> HIDE DEF M, V, Add
<1>3. \A i \in 1 .. M : [s \in V |-> Add(s, p[i])] \in [V -> V]
  BY <1>2
<1>4. step \in [1 .. M -> [V -> V]] /\ \A i \in 1 .. M : step[i] = [s \in V |-> Add(s, p[i])]
  BY <1>3, Zenon
<1> HIDE DEF step
<1>5. PICK f \in [0 .. M -> V] : f[0] = pool /\ \A i \in 1 .. M : f[i] = step[i][f[i - 1]]
  <2>1. Recursive(M, V)
    BY <1>1, RecursionIs
  <2>2. QED
    BY <1>1, <1>4, <2>1, Zenon DEF Recursive
<1>6. \A i \in 1 .. M : i # 0 /\ i - 1 \in 0 .. M
  BY <1>1
<1>7. \A i \in 1 .. M : f[i] = Add(f[i - 1], p[i])
  BY <1>4, <1>5, <1>6
<1>8. f = Body(f)
  <2>1. \A i \in 0 .. M : i # 0 => i \in 1 .. M
    BY <1>1
  <2>2. \A i \in 0 .. M : f[i] = IF i = 0 THEN pool
                         ELSE IF Contains(f[i - 1], p[i]) THEN f[i - 1] ELSE Append(f[i - 1], p[i])
    BY <1>5, <1>7, <2>1 DEF Add
  <2>3. QED
    BY <1>5, <2>2
<1>9. acc = Body(acc)
  <2>1. \E h : h = Body(h)
    BY <1>8, Zenon
  <2> HIDE DEF Body
  <2>2. QED
    BY <2>1, Zenon
<1>10. Interned(p) = acc[M]
  BY Zenon DEF Interned, M
<1> HIDE DEF acc
<1>11. PICK c : c = acc
  OBVIOUS
<1>12. \A i \in 0 .. M : c[i] = IF i = 0 THEN pool ELSE Add(c[i - 1], p[i])
  <2>1. c = Body(c)
    BY <1>9, <1>11, Zenon
  <2>2. QED
    BY <2>1 DEF Add
<1> DEFINE Has(s, i) == s \in V /\ Longer(pool, s) /\ \A j \in 1 .. i : Contains(s, p[j])
           S == {i \in 0 .. M : Has(c[i], i)}
<1>13. 0 \in S
  <2>1. c[0] = pool /\ 0 \in 0 .. M
    BY <1>1, <1>12
  <2>2. Longer(pool, pool)
    BY <1>1 DEF Longer, V
  <2>3. QED
    BY <1>1, <2>1, <2>2
<1>14. ASSUME NEW i \in 1 .. M, i - 1 \in S PROVE i \in S
  <2>1. PICK s : s = c[i - 1]
    OBVIOUS
  <2>2. c[i] = Add(s, p[i]) /\ i \in 0 .. M
    BY <1>1, <1>12, <2>1
  <2>3. Has(s, i - 1) /\ p[i] \in Component
    BY <1>1, <1>14, <2>1
  <2>4. PICK u : u = Add(s, p[i])
    OBVIOUS
  <2>5. u \in V /\ Longer(s, u) /\ Contains(u, p[i])
    <3>1. CASE Contains(s, p[i])
      BY <2>3, <2>4, <3>1 DEF Add, V, Longer
    <3>2. CASE ~Contains(s, p[i])
      <4>1. u = Append(s, p[i]) /\ s \in Seq(Component)
        BY <2>3, <2>4, <3>2 DEF Add, V
      <4>2. u \in Seq(Component) /\ Len(u) = Len(s) + 1 /\ u[Len(s) + 1] = p[i] /\ \A j \in 1 .. Len(s) : u[j] = s[j]
        BY <2>3, <4>1
      <4>3. QED
        BY <4>1, <4>2 DEF Contains, V, Longer
    <3>3. QED
      BY <3>1, <3>2
  <2>6. Longer(pool, u)
    BY <1>1, <2>3, <2>5 DEF Longer, V
  <2>7. \A x : Contains(s, x) => Contains(u, x)
    BY <2>3, <2>5 DEF Contains, Longer, V
  <2>8. ASSUME NEW j \in 1 .. i PROVE Contains(u, p[j])
    <3>1. j = i \/ j \in 1 .. i - 1
      BY <1>1
    <3>2. QED
      BY <2>3, <2>5, <2>7, <3>1
  <2>9. QED
    BY <2>2, <2>4, <2>5, <2>6, <2>8
<1>15. M \in S
  <2> HIDE DEF S
  <2>1. \A i \in 0 .. M : i \in S
    BY <1>1, <1>13, <1>14, CountUp, Zenon
  <2>2. M \in 0 .. M
    BY <1>1
  <2>3. QED
    BY <2>1, <2>2
<1>16. QED
  BY <1>10, <1>11, <1>15 DEF Holds, Contains, M, V

\* The handle made for a path stands for it.
LEMMA RowIs ==
    ASSUME pool \in Seq(Component), NEW p \in TreePath
    PROVE  Row(p) \in Seq(Nat) /\ Stands(Row(p), p, Interned(p))
<1>1. PICK new : new = Interned(p)
  OBVIOUS
<1>2. PICK row : row = Row(p)
  OBVIOUS
<1>4. p \in Seq(Component) /\ Len(p) \in Nat /\ Len(p) < 10
  BY TreeAssumption
<1>5. new \in Seq(Component) /\ \A i \in 1 .. Len(p) : \E k \in 1 .. Len(new) : new[k] = p[i]
  BY <1>1, InternedIs DEF Holds
<1>3. row = [i \in 1 .. Len(p) |-> CHOOSE k \in 1 .. Len(new) : new[k] = p[i]]
  BY <1>1, <1>2 DEF Row
<1>6. \A i \in 1 .. Len(p) : row[i] \in 1 .. Len(new) /\ new[row[i]] = p[i]
  BY <1>3, <1>5
<1>7. row \in Seq(Nat) /\ Len(row) = Len(p)
  <2>1. row \in [1 .. Len(p) -> Nat]
    BY <1>3, <1>4, <1>5, <1>6
  <2>2. QED
    BY <1>4, <2>1
<1>8. QED
  BY <1>1, <1>2, <1>4, <1>6, <1>7 DEF Stands, Valid

-----------------------------------------------------------------------------
\* The inductive invariant

TypeInv ==
    /\ fs \in FileSystem
    /\ pool \in Seq(Component)
    /\ midway \in sent \cup {NoRequest}
    /\ life \in 1 .. MaxLives
    /\ sent \subseteq Requests
    /\ replies \subseteq [xid : 1 .. MaxCalls, status : Status]
    /\ \A c \in Client : pending[c] \in sent \cup {NoRequest}
    /\ pending = [c \in Client |-> pending[c]]
    /\ granted \subseteq [row : Seq(Nat), path : TreePath, file : Ino, life : 1 .. MaxLives]
    /\ gone \subseteq TreePath

\* A handle of this run stands for its path, and its path for its file.
Leads(h) ==
    /\ h.life <= life /\ Len(h.row) < 10
    /\ h.life = life => /\ Stands(h.row, h.path, pool)
                        /\ h.path \notin gone => fs.at[h.path] = h.file

GrantsInv == \A h \in granted : Leads(h)

\* In the first run every call was made with a handle of that run.
RowsInv == life = 1 => \A q \in sent : Valid(q.row, pool) /\ Valid(q.row2, pool)

\* Calls are numbered, and only calls are answered.
NumbersInv ==
    /\ IsFiniteSet(sent)
    /\ \A q \in sent : q.xid \in 1 .. Cardinality(sent)
    /\ \A q, r \in sent : q.xid = r.xid => q = r
    /\ \A r \in replies : r.xid \in 1 .. Cardinality(sent)

\* Between its halves a RENAME has given the file both names.
MidwayInv ==
    ~Idle =>
        LET old == OldName(Resolved(midway))
            new == NewName(Resolved(midway))
        IN  /\ midway \in sent /\ midway.proc = "RENAME"
            /\ old \in TreePath /\ new \in TreePath /\ old # new
            /\ fs.at[old] # 0 /\ fs.at[old] = fs.at[new]

Won(q) == Exclusive(q) /\ Succeeded(q)

\* Who has won a name has made it, once, and so has a RENAME that is halfway.
WinnersInv ==
    life = 1 =>
        /\ \A q \in sent : Won(q) /\ Target(q) \notin gone => Target(q) \in TreePath /\ fs.at[Target(q)] # 0
        /\ ~Idle => \A q \in sent : Won(q) /\ Target(q) \notin gone /\ Target(q) = Target(midway) => q = midway
        /\ \A q, r \in sent :
              Won(q) /\ Won(r) /\ Target(q) = Target(r) /\ Target(q) \notin gone => q = r

IInv == TypeInv /\ GrantsInv /\ RowsInv /\ NumbersInv /\ MidwayInv /\ WinnersInv

-----------------------------------------------------------------------------
\* What stays while the pool grows

\* With a longer pool a valid row is decoded to the same path.
LEMMA PathsStay ==
    ASSUME TypeInv, pool' \in Seq(Component), Longer(pool, pool'), NEW row \in Seq(Nat), Valid(row, pool)
    PROVE  Valid(row, pool') /\ Path(row)' = Path(row)
<1>1. pool \in Seq(Component)
  BY DEF TypeInv
<1>2. Valid(row, pool') /\ \A i \in 1 .. Len(row) : pool'[row[i]] = pool[row[i]]
  BY <1>1, LongerIs
<1>3. Path(row) = [i \in 1 .. Len(row) |-> pool[row[i]]]
  BY DecodesNow DEF Decodes
<1>4. Path(row)' = [i \in 1 .. Len(row) |-> pool'[row[i]]]
  BY <1>2, DecodesNext DEF Decodes
<1>5. QED
  BY <1>2, <1>3, <1>4

\* So a call of the first run keeps its target.
LEMMA TargetsStay ==
    ASSUME TypeInv, RowsInv, life = 1, pool' \in Seq(Component), Longer(pool, pool'), NEW q \in sent
    PROVE  /\ Valid(q.row, pool') /\ Valid(q.row2, pool')
           /\ Target(q)' = Target(q)
<1>1. q.row \in Seq(Nat) /\ q.row2 \in Seq(Nat)
  BY DEF TypeInv, Requests
<1>2. Valid(q.row, pool) /\ Valid(q.row2, pool)
  BY DEF RowsInv
<1>3. /\ Valid(q.row, pool') /\ Path(q.row)' = Path(q.row)
      /\ Valid(q.row2, pool') /\ Path(q.row2)' = Path(q.row2)
  BY <1>1, <1>2, PathsStay
<1>4. QED
  BY <1>3 DEF Target

\* And any call, when the pool stays.
LEMMA SamePool ==
    ASSUME UNCHANGED pool
    PROVE  \A q : Target(q)' = Target(q) /\ Resolved(q)' = Resolved(q)
<1>1. \A row : Path(row)' = Path(row)
  BY DEF Path, Tokens!decodepath, Tokens!String
<1>2. QED
  BY <1>1 DEF Target, Resolved

\* What a call carries to its procedure.
LEMMA ResolvedIs ==
    ASSUME TypeInv, NEW q \in sent
    PROVE  /\ Carries(Resolved(q)) /\ Resolved(q).proc = q.proc /\ Resolved(q).how = q.how
           /\ q.proc \in Procs2 \cup Procs3 /\ q.xid \in 1 .. MaxCalls
           /\ NewName(Resolved(q)) = Append(Path(q.row2), q.name2)
           /\ Append(Resolved(q).file, Resolved(q).name) = Append(Path(q.row), q.name)
<1>1. q \in Requests
  BY DEF TypeInv
<1>2. q.data \in Data \cup {Empty} /\ q.sattr \in Sattr /\ q.proc \in Procs2 \cup Procs3 /\ q.xid \in 1 .. MaxCalls
  BY <1>1, MenuAssumption DEF Requests
<1>3. QED
  BY <1>2 DEF Resolved, Carries, NewName

-----------------------------------------------------------------------------
\* Handles

\* Names that go are remembered.
Remembers == \A p \in TreePath : fs.at[p] # 0 /\ fs'.at[p] = 0 => p \in gone'

\* The handles granted before lead on.
LEMMA LeadOn ==
    ASSUME TypeInv, GrantsInv, NEW h \in granted, Kept(fs, fs'), gone \subseteq gone', Remembers,
           pool' \in Seq(Component), Longer(pool, pool'), life' = life
    PROVE  Leads(h)'
<1>1. h.row \in Seq(Nat) /\ h.path \in TreePath /\ h.file \in Ino /\ pool \in Seq(Component)
  BY DEF TypeInv
<1>2. Leads(h)
  BY DEF GrantsInv
<1>3. h.life = life => Stands(h.row, h.path, pool')
  BY <1>1, <1>2, LongerIs DEF Leads, Stands
<1>4. ASSUME h.life = life, h.path \notin gone'
      PROVE  fs'.at[h.path] = h.file
  <2>1. fs.at[h.path] = h.file /\ h.file # 0
    BY <1>1, <1>2, <1>4 DEF Leads, Ino
  <2>2. fs'.at[h.path] # 0
    BY <1>1, <1>4, <2>1 DEF Remembers
  <2>3. QED
    BY <1>1, <2>1, <2>2 DEF Kept
<1>5. QED
  BY <1>2, <1>3, <1>4 DEF Leads

\* A grant adds one that leads to its file.
LEMMA GrantIs ==
    ASSUME TypeInv, GrantsInv, NEW p, Grant(p, fs'), Kept(fs, fs'), gone \subseteq gone', Remembers, life' = life,
           p # NoGrant => p \in TreePath /\ fs'.at[p] # 0
    PROVE  /\ pool' \in Seq(Component) /\ Longer(pool, pool')
           /\ granted' \subseteq [row : Seq(Nat), path : TreePath, file : Ino, life : 1 .. MaxLives]
           /\ GrantsInv'
<1>1. pool \in Seq(Component) /\ life \in 1 .. MaxLives /\ fs' \in FileSystem
  BY DEF TypeInv, Kept
<1>2. CASE p = NoGrant
  <2>1. pool' = pool /\ granted' = granted
    BY <1>2 DEF Grant
  <2>2. Longer(pool, pool')
    BY <1>1, <2>1 DEF Longer
  <2>3. \A h \in granted : Leads(h)'
    BY <1>1, <2>1, <2>2, LeadOn
  <2>4. QED
    BY <1>1, <2>1, <2>2, <2>3 DEF TypeInv, GrantsInv
<1>3. CASE p # NoGrant
  <2>1. PICK h : h = [row |-> Row(p), path |-> p, file |-> stat(fs', p), life |-> life]
    OBVIOUS
  <2>2. pool' = Interned(p) /\ granted' = granted \cup {h} /\ p \in TreePath
    BY <1>3, <2>1 DEF Grant
  <2>3. pool' \in Seq(Component) /\ Longer(pool, pool')
    BY <1>1, <2>2, InternedIs DEF Holds
  <2>4. Row(p) \in Seq(Nat) /\ Stands(Row(p), p, pool')
    BY <1>1, <2>2, RowIs
  <2>5. stat(fs', p) = fs'.at[p] /\ stat(fs', p) \in Ino
    BY <1>1, <1>3, FileSystemIs
  <2>6. h \in [row : Seq(Nat), path : TreePath, file : Ino, life : 1 .. MaxLives]
    BY <1>1, <2>1, <2>2, <2>4, <2>5
  <2>7. h.row = Row(p) /\ h.path = p /\ h.file = fs'.at[p] /\ h.life = life
    BY <2>1, <2>5
  <2>8. Leads(h)'
    <3>1. h.life <= life' /\ Len(h.row) < 10
      BY <1>1, <2>4, <2>7 DEF Stands, Valid
    <3>2. Stands(h.row, h.path, pool') /\ fs'.at[h.path] = h.file
      BY <2>4, <2>7
    <3>3. QED
      BY <3>1, <3>2 DEF Leads
  <2>9. \A g \in granted : Leads(g)'
    BY <1>1, <2>3, LeadOn
  <2>10. QED
    BY <2>2, <2>3, <2>6, <2>8, <2>9 DEF TypeInv, GrantsInv
<1>4. QED
  BY <1>2, <1>3

-----------------------------------------------------------------------------
\* Every step keeps the invariant

\* Without a grant the handles lead on.
LEMMA NoGrantIs ==
    ASSUME TypeInv, GrantsInv, UNCHANGED <<pool, granted, life>>, Kept(fs, fs'), gone \subseteq gone', Remembers
    PROVE  GrantsInv'
<1>1. pool' \in Seq(Component) /\ Longer(pool, pool')
  BY DEF TypeInv, Longer
<1>2. \A h \in granted : Leads(h)'
  BY <1>1, LeadOn
<1>3. QED
  BY <1>2 DEF GrantsInv

\* The daemon is started with a file system of its own making.
LEMMA InitInv ==
    ASSUME Init
    PROVE  IInv
<1>1. ExportWith(Present) \in FileSystem
  <2>1. PICK at : at = [p \in TreePath |-> IF p = Export THEN 1
                               ELSE IF Contains(Present, p) THEN 1 + CHOOSE i \in 1 .. Len(Present) : Present[i] = p
                               ELSE 0]
    OBVIOUS
  <2>2. PICK kind : kind = [f \in Ino |-> IF f = 1 THEN "dir" ELSE IF f <= 1 + Len(Present) THEN "file" ELSE "none"]
    OBVIOUS
  <2>3. PICK data : data = [f \in Ino |-> Empty]
    OBVIOUS
  <2>4. Len(Present) \in Nat /\ Len(Present) < MaxFiles /\ MaxFiles \in Nat
    BY PresentAssumption, FilesAssumption
  <2>5. ASSUME NEW p \in TreePath PROVE at[p] \in 0 .. MaxFiles
    <3>1. CASE p = Export \/ ~Contains(Present, p)
      BY <2>1, <2>4, <3>1
    <3>2. CASE p # Export /\ Contains(Present, p)
      <4>1. PICK i : i = CHOOSE j \in 1 .. Len(Present) : Present[j] = p
        OBVIOUS
      <4>2. i \in 1 .. Len(Present)
        BY <3>2, <4>1 DEF Contains
      <4>3. at[p] = 1 + i
        BY <2>1, <3>2, <4>1
      <4>4. QED
        BY <2>4, <4>2, <4>3
    <3>3. QED
      BY <3>1, <3>2
  <2>6. at \in [TreePath -> 0 .. MaxFiles] /\ kind \in [Ino -> {"none", "file", "dir"}]
        /\ data \in [Ino -> Data \cup {Empty}] /\ {} \in SUBSET Ino
    BY <2>1, <2>2, <2>3, <2>5
  <2>7. ExportWith(Present) = [at |-> at, kind |-> kind, data |-> data, ro |-> {}]
    BY <2>1, <2>2, <2>3 DEF ExportWith
  <2>8. QED
    BY <2>6, <2>7 DEF FileSystem
<1>2. /\ fs \in FileSystem /\ pool = <<>> /\ midway = NoRequest /\ life = 1 /\ sent = {} /\ replies = {}
      /\ pending = [c \in Client |-> NoRequest] /\ granted = {} /\ gone = {}
  BY <1>1 DEF Init
<1>3. TypeInv
  <2>1. 1 \in 1 .. MaxLives /\ <<>> \in Seq(Component)
    BY BoundsAssumption
  <2>2. \A c \in Client : pending[c] = NoRequest
    BY <1>2
  <2>3. pending = [c \in Client |-> pending[c]]
    BY <1>2
  <2>4. QED
    BY <1>2, <2>1, <2>2, <2>3 DEF TypeInv
<1>4. NumbersInv
  BY <1>2, FS_EmptySet DEF NumbersInv
<1>5. GrantsInv /\ RowsInv /\ MidwayInv /\ WinnersInv
  BY <1>2 DEF GrantsInv, RowsInv, MidwayInv, WinnersInv, Idle
<1>6. QED
  BY <1>3, <1>4, <1>5 DEF IInv

\* Winners are as before when nothing is answered and no name goes.
LEMMA WinnersStay ==
    ASSUME IInv, UNCHANGED <<sent, replies, gone, midway, life>>, Grown(fs, fs'),
           pool' \in Seq(Component), Longer(pool, pool')
    PROVE  WinnersInv'
<1> SUFFICES ASSUME life = 1
             PROVE  WinnersInv'
  BY DEF WinnersInv
<1>1. \A q \in sent : Target(q)' = Target(q)
  BY TargetsStay DEF IInv
<1>2. \A q \in sent : Won(q)' <=> Won(q)
  BY DEF Won, Exclusive, Succeeded
<1>3. ~Idle => midway \in sent
  BY DEF IInv, MidwayInv
<1>4. \A q \in sent : Won(q) /\ Target(q) \notin gone => Target(q) \in TreePath /\ fs'.at[Target(q)] # 0
  BY DEF IInv, WinnersInv, Grown
<1>5. WinnersInv
  BY DEF IInv
<1>6. QED
  BY <1>1, <1>2, <1>3, <1>4, <1>5 DEF WinnersInv, Idle

\* MNT grants a handle.
LEMMA MountInv ==
    ASSUME IInv, NEW p, Mount(p)
    PROVE  IInv'
<1>1. /\ Idle /\ stat(fs, p) # 0 /\ Grant(p, fs')
      /\ UNCHANGED <<fs, midway, life, sent, replies, pending, gone>>
  BY DEF Mount, Grant
<1>2. p \in TreePath /\ fs'.at[p] # 0 /\ fs \in FileSystem
  BY <1>1, FileSystemIs DEF IInv, TypeInv
<1>3. Grown(fs, fs') /\ Kept(fs, fs') /\ gone \subseteq gone' /\ Remembers
  BY <1>1, <1>2, GrownIs DEF Remembers
<1>4. /\ pool' \in Seq(Component) /\ Longer(pool, pool')
      /\ granted' \subseteq [row : Seq(Nat), path : TreePath, file : Ino, life : 1 .. MaxLives]
      /\ GrantsInv'
  BY <1>1, <1>2, <1>3, GrantIs DEF IInv
<1>5. TypeInv'
  BY <1>1, <1>4 DEF IInv, TypeInv
<1>6. RowsInv'
  BY <1>1, <1>4, TargetsStay DEF IInv, RowsInv
<1>7. NumbersInv' /\ MidwayInv'
  BY <1>1 DEF IInv, NumbersInv, MidwayInv, Idle
<1>8. WinnersInv'
  BY <1>1, <1>3, <1>4, WinnersStay
<1>9. QED
  BY <1>4, <1>5, <1>6, <1>7, <1>8 DEF IInv

\* The arguments of a call name handles that were granted, or none.
Rowed(a) == a.row \in {h.row : h \in granted} \cup {<<>>} /\ a.row2 \in {h.row : h \in granted} \cup {<<>>}

Typed(a) ==
    /\ a.name \in Name \cup {NoRequest} /\ a.name2 \in Name \cup {NoRequest}
    /\ a.data \in Data \cup {Empty} /\ a.sattr \in Sattr /\ a.how \in {"unchecked", "guarded", "exclusive"}

\* Whatever the procedure.
LEMMA ArgumentsAre ==
    ASSUME NEW p, NEW a \in Arguments(p)
    PROVE  Rowed(a) /\ Typed(a)
<1>1. PICK R : R = {h.row : h \in granted} \cup {<<>>}
  OBVIOUS
<1>2. Dirs \subseteq R /\ Files \subseteq R /\ <<>> \in R
  BY <1>1 DEF Dirs, Files, Rows
<1>3. PICK h : h = {"unchecked", "guarded", "exclusive"}
  OBVIOUS
<1>4. /\ Plain.row \in R /\ Plain.row2 \in R /\ Plain.name = NoRequest /\ Plain.name2 = NoRequest
      /\ Plain.data = Empty /\ Plain.sattr \in Sattr /\ Plain.how \in h
      /\ Plain = [row |-> Plain.row, name |-> Plain.name, row2 |-> Plain.row2, name2 |-> Plain.name2,
                  data |-> Plain.data, sattr |-> Plain.sattr, how |-> Plain.how]
  BY <1>2, <1>3 DEF Plain, Sattr
<1>5. \/ \E r \in Dirs, n \in Name, e \in h : a = Named(r, n, e)
      \/ \E r \in Files, d \in Data : a = Filled(r, d)
      \/ \E r \in Files, s \in Sattr : a = Changed(r, s)
      \/ \E r \in Dirs \cup Files, n \in Name \cup {NoRequest}, s \in Dirs, m \in Name : a = FromTo(r, n, s, m)
      \/ \E r \in Dirs \cup Files : a = Of(r)
  BY <1>3 DEF Arguments
<1>6. CASE \E r \in Dirs, n \in Name, e \in h : a = Named(r, n, e)
  BY <1>1, <1>2, <1>3, <1>4, <1>6 DEF Rowed, Typed, Named
<1>7. CASE \E r \in Files, d \in Data : a = Filled(r, d)
  BY <1>1, <1>2, <1>3, <1>4, <1>7 DEF Rowed, Typed, Filled
<1>8. CASE \E r \in Files, s \in Sattr : a = Changed(r, s)
  BY <1>1, <1>2, <1>3, <1>4, <1>8 DEF Rowed, Typed, Changed
<1>9. CASE \E r \in Dirs \cup Files, n \in Name \cup {NoRequest}, s \in Dirs, m \in Name : a = FromTo(r, n, s, m)
  BY <1>1, <1>2, <1>3, <1>4, <1>9 DEF Rowed, Typed, FromTo
<1>10. CASE \E r \in Dirs \cup Files : a = Of(r)
  BY <1>1, <1>2, <1>3, <1>4, <1>10 DEF Rowed, Typed, Of
<1>11. QED
  BY <1>5, <1>6, <1>7, <1>8, <1>9, <1>10

\* A client makes a call, with the next number.
LEMMA CallInv ==
    ASSUME IInv, NEW c \in Client, Call(c)
    PROVE  IInv'
<1>20. PICK p \in Menu : \E a \in Arguments(p) :
         LET rq == Request(Cardinality(sent) + 1, c, p, a)
         IN  /\ sent' = sent \cup {rq}
             /\ pending' = [pending EXCEPT ![c] = rq]
  BY Zenon DEF Call
<1>1. PICK a \in Arguments(p) :
         LET rq == Request(Cardinality(sent) + 1, c, p, a)
         IN  /\ sent' = sent \cup {rq}
             /\ pending' = [pending EXCEPT ![c] = rq]
  BY <1>20, Zenon
<1>2. PICK rq : rq = Request(Cardinality(sent) + 1, c, p, a)
  OBVIOUS
<1>3. sent' = sent \cup {rq} /\ pending' = [pending EXCEPT ![c] = rq]
  BY <1>1, <1>2
<1>4. Cardinality(sent) < MaxCalls /\ UNCHANGED <<fs, pool, midway, life, replies, granted, gone>>
  BY DEF Call
<1>5. IsFiniteSet(sent) /\ Cardinality(sent) \in Nat /\ MaxCalls \in Nat
  BY FS_CardinalityType, BoundsAssumption DEF IInv, NumbersInv
<1>6. Rowed(a) /\ Typed(a)
  BY ArgumentsAre
<1>7. /\ rq.xid = Cardinality(sent) + 1 /\ rq.row = a.row /\ rq.row2 = a.row2 /\ rq.proc = p
      /\ rq = [xid |-> Cardinality(sent) + 1, client |-> c, proc |-> p, row |-> a.row, name |-> a.name,
               row2 |-> a.row2, name2 |-> a.name2, data |-> a.data, sattr |-> a.sattr, how |-> a.how]
  BY <1>2 DEF Request
<1>8. a.row \in Seq(Nat) /\ a.row2 \in Seq(Nat)
  <2>1. \A h \in granted : h.row \in Seq(Nat)
    BY DEF IInv, TypeInv
  <2>2. <<>> \in Seq(Nat)
    OBVIOUS
  <2>3. {h.row : h \in granted} \cup {<<>>} \subseteq Seq(Nat)
    BY <2>1, <2>2
  <2>4. QED
    BY <1>6, <2>3, Zenon DEF Rowed
<1>9. rq \in Requests
  <2>1. Cardinality(sent) + 1 \in 1 .. MaxCalls
    BY <1>4, <1>5
  <2>2. QED
    BY <1>6, <1>7, <1>8, <2>1 DEF Typed, Requests
<1>10. TypeInv'
  <2>1. \A d \in Client : pending'[d] \in sent' \cup {NoRequest}
    BY <1>3 DEF IInv, TypeInv
  <2>2. pending' = [d \in Client |-> pending'[d]]
    <3>1. \A d \in Client : pending[d] = pending[d]
      OBVIOUS
    <3>2. PICK f : f = pending
      OBVIOUS
    <3>3. f = [d \in Client |-> f[d]]
      BY <3>2 DEF IInv, TypeInv
    <3>4. [f EXCEPT ![c] = rq] = [d \in Client |-> [f EXCEPT ![c] = rq][d]]
      BY <3>3
    <3>5. QED
      BY <1>3, <3>2, <3>4
  <2>3. QED
    BY <1>3, <1>4, <1>9, <2>1, <2>2 DEF IInv, TypeInv
<1>11. GrantsInv'
  BY <1>4 DEF IInv, GrantsInv, Leads
<1>12. RowsInv'
  <2> SUFFICES ASSUME life = 1
               PROVE  Valid(rq.row, pool) /\ Valid(rq.row2, pool)
    BY <1>3, <1>4 DEF IInv, RowsInv
  <2>1. \A h \in granted : h.life = 1
    BY BoundsAssumption DEF IInv, TypeInv, GrantsInv, Leads
  <2>2. \A h \in granted : Valid(h.row, pool)
    BY <2>1 DEF IInv, GrantsInv, Leads, Stands
  <2>3. Valid(<<>>, pool)
    BY DEF Valid
  <2>4. QED
    BY <1>6, <1>7, <2>2, <2>3 DEF Rowed
<1>13. rq \notin sent /\ \A q \in sent : q.xid # rq.xid
  BY <1>5, <1>7 DEF IInv, NumbersInv
<1>14. NumbersInv'
  <2>1. IsFiniteSet(sent') /\ Cardinality(sent') = Cardinality(sent) + 1
    BY <1>3, <1>5, <1>13, FS_AddElement
  <2>2. \A q \in sent' : q.xid \in 1 .. Cardinality(sent')
    BY <1>3, <1>5, <1>7, <2>1 DEF IInv, NumbersInv
  <2>3. \A q, r \in sent' : q.xid = r.xid => q = r
    BY <1>3, <1>13 DEF IInv, NumbersInv
  <2>4. \A r \in replies' : r.xid \in 1 .. Cardinality(sent')
    BY <1>4, <1>5, <2>1 DEF IInv, NumbersInv
  <2>5. QED
    BY <2>1, <2>2, <2>3, <2>4 DEF NumbersInv
<1>15. \A q : Target(q)' = Target(q) /\ Resolved(q)' = Resolved(q)
  BY <1>4, SamePool
<1>16. MidwayInv'
  BY <1>3, <1>4, <1>15 DEF IInv, MidwayInv, Idle
<1>17. ~Succeeded(rq)
  BY <1>5, <1>7 DEF IInv, NumbersInv, Succeeded
<1>18. WinnersInv'
  <2>1. \A q : Won(q)' <=> Won(q)
    BY <1>4 DEF Won, Exclusive, Succeeded
  <2>2. ~Won(rq)
    BY <1>17 DEF Won
  <2>3. QED
    BY <1>3, <1>4, <1>15, <2>1, <2>2 DEF IInv, WinnersInv, Idle
<1>19. QED
  BY <1>10, <1>11, <1>12, <1>14, <1>16, <1>18 DEF IInv

\* A client takes its answer.
LEMMA ReceiveInv ==
    ASSUME IInv, NEW c \in Client, Receive(c)
    PROVE  IInv'
<1>1. /\ UNCHANGED <<fs, pool, midway, life, sent, replies, granted, gone>>
      /\ pending' = [pending EXCEPT ![c] = NoRequest]
  BY DEF Receive
<1>2. PICK f : f = pending
  OBVIOUS
<1>3. f = [d \in Client |-> f[d]] /\ \A d \in Client : f[d] \in sent \cup {NoRequest}
  BY <1>2 DEF IInv, TypeInv
<1>4. pending' = [f EXCEPT ![c] = NoRequest]
  BY <1>1, <1>2
<1>5. pending' = [d \in Client |-> pending'[d]] /\ \A d \in Client : pending'[d] \in sent \cup {NoRequest}
  BY <1>3, <1>4
<1>6. TypeInv'
  BY <1>1, <1>5 DEF IInv, TypeInv
<1>7. \A q : Target(q)' = Target(q) /\ Resolved(q)' = Resolved(q)
  BY <1>1, SamePool
<1>8. GrantsInv' /\ RowsInv' /\ NumbersInv'
  BY <1>1 DEF IInv, GrantsInv, Leads, RowsInv, NumbersInv
<1>9. MidwayInv'
  BY <1>1, <1>7 DEF IInv, MidwayInv, Idle
<1>10. WinnersInv'
  <2>1. \A q : Won(q)' <=> Won(q)
    BY <1>1 DEF Won, Exclusive, Succeeded
  <2>2. QED
    BY <1>1, <1>7, <2>1 DEF IInv, WinnersInv, Idle
<1>11. QED
  BY <1>6, <1>8, <1>9, <1>10 DEF IInv

\* The daemon is started again: with an empty pool, and without the RENAME.
LEMMA RestartInv ==
    ASSUME IInv, Restart
    PROVE  IInv'
<1>1. /\ life < MaxLives /\ life' = life + 1 /\ pool' = <<>> /\ midway' = NoRequest
      /\ UNCHANGED <<fs, sent, replies, pending, granted, gone>>
  BY DEF Restart
<1>2. life \in Nat /\ life >= 1 /\ MaxLives \in Nat
  BY BoundsAssumption DEF IInv, TypeInv
<1>3. life' \in 1 .. MaxLives /\ life' # 1
  BY <1>1, <1>2
<1>4. TypeInv'
  <2>1. <<>> \in Seq(Component)
    OBVIOUS
  <2>2. QED
    BY <1>1, <1>3, <2>1 DEF IInv, TypeInv
<1>5. GrantsInv'
  <2>1. \A h \in granted : h.life \in Nat
    BY BoundsAssumption DEF IInv, TypeInv
  <2>2. QED
    BY <1>1, <1>2, <2>1 DEF IInv, GrantsInv, Leads
<1>6. RowsInv' /\ WinnersInv'
  BY <1>3 DEF RowsInv, WinnersInv
<1>7. NumbersInv' /\ MidwayInv'
  BY <1>1 DEF IInv, NumbersInv, MidwayInv, Idle
<1>8. QED
  BY <1>4, <1>5, <1>6, <1>7 DEF IInv

\* An answer that is not a success makes no winner, and any answers a call.
LEMMA RepliedIs ==
    ASSUME IInv, NEW rq \in sent, NEW s \in Status, Reply(rq, s), UNCHANGED sent
    PROVE  /\ replies' \subseteq [xid : 1 .. MaxCalls, status : Status]
           /\ NumbersInv'
           /\ \A q \in sent : Won(q)' => Won(q) \/ (q = rq /\ s = "ok" /\ Exclusive(rq))
<1>1. replies' = replies \cup {[xid |-> rq.xid, status |-> s]}
  BY DEF Reply
<1>2. rq.xid \in 1 .. Cardinality(sent) /\ rq.xid \in 1 .. MaxCalls
  BY ResolvedIs DEF IInv, NumbersInv
<1>3. replies' \subseteq [xid : 1 .. MaxCalls, status : Status]
  BY <1>1, <1>2 DEF IInv, TypeInv
<1>4. \A r \in replies' : r.xid \in 1 .. Cardinality(sent)
  BY <1>1, <1>2 DEF IInv, NumbersInv
<1>5. NumbersInv'
  BY <1>4 DEF IInv, NumbersInv
<1>6. ASSUME NEW q \in sent, Won(q)'
      PROVE  Won(q) \/ (q = rq /\ s = "ok" /\ Exclusive(rq))
  <2>1. Exclusive(q) /\ [xid |-> q.xid, status |-> "ok"] \in replies'
    BY <1>6 DEF Won, Exclusive, Succeeded
  <2>2. CASE [xid |-> q.xid, status |-> "ok"] \in replies
    BY <2>1, <2>2 DEF Won, Succeeded
  <2>3. CASE [xid |-> q.xid, status |-> "ok"] = [xid |-> rq.xid, status |-> s]
    <3>1. q.xid = rq.xid /\ s = "ok"
      BY <2>3
    <3>2. q = rq
      BY <3>1 DEF IInv, NumbersInv
    <3>3. QED
      BY <2>1, <3>1, <3>2
  <2>4. QED
    BY <1>1, <2>1, <2>2, <2>3
<1>7. QED
  BY <1>3, <1>5, <1>6

\* A name that was made and has not gone is there.
LEMMA MadeStays ==
    ASSUME IInv, Kept(fs, fs'), gone \subseteq gone', Remembers, life = 1,
           NEW q \in sent, Won(q), Target(q) \notin gone'
    PROVE  Target(q) \in TreePath /\ fs.at[Target(q)] # 0 /\ fs'.at[Target(q)] # 0
<1>1. Target(q) \in TreePath /\ fs.at[Target(q)] # 0
  BY DEF IInv, WinnersInv
<1>2. QED
  BY <1>1 DEF Remembers

\* RENAME makes the new name, or nothing.
LEMMA ServeRenameInv ==
    ASSUME IInv, NEW rq \in sent, ServeRename(rq)
    PROVE  IInv'
<1>1. PICK r : r = RenameLink(fs, Resolved(rq))
  OBVIOUS
<1>2. /\ Idle /\ rq.proc = "RENAME" /\ fs' = r.fs
      /\ UNCHANGED <<pool, life, sent, pending, granted, gone>>
      /\ r.errno = "ok" => midway' = rq /\ UNCHANGED replies
      /\ r.errno # "ok" => Reply(rq, r.errno) /\ UNCHANGED midway
  BY <1>1, Zenon DEF ServeRename
<1>3. PICK old : old = OldName(Resolved(rq))
  OBVIOUS
<1>4. PICK new : new = NewName(Resolved(rq))
  OBVIOUS
<1>5. /\ Grown(fs, fs') /\ r.errno \in Status
      /\ r.errno # "ok" => fs' = fs
      /\ r.errno = "ok" => /\ old \in TreePath /\ new \in TreePath /\ old # new /\ fs.at[old] # 0 /\ fs.at[new] = 0
                           /\ fs'.at[old] = fs.at[old] /\ fs'.at[new] = fs.at[old]
  BY <1>1, <1>2, <1>3, <1>4, LinkIs DEF RenameLink, IInv, TypeInv
<1>6. fs' \in FileSystem /\ Kept(fs, fs') /\ gone \subseteq gone' /\ Remembers
  <2>1. \A p \in TreePath : fs.at[p] # 0 => fs'.at[p] # 0
    BY <1>5 DEF Grown
  <2>2. QED
    BY <1>2, <1>5, <2>1, GrownIs DEF Grown, Kept, Remembers
<1>7. GrantsInv'
  BY <1>2, <1>6, NoGrantIs DEF IInv
<1>8. RowsInv'
  BY <1>2 DEF IInv, RowsInv
<1>9. /\ replies' \subseteq [xid : 1 .. MaxCalls, status : Status] /\ NumbersInv'
      /\ \A q \in sent : Won(q)' => Won(q)
  <2>1. CASE r.errno = "ok"
    BY <1>2, <2>1 DEF IInv, TypeInv, NumbersInv, Won, Exclusive, Succeeded
  <2>2. CASE r.errno # "ok"
    BY <1>2, <1>5, <2>2, RepliedIs
  <2>3. QED
    BY <2>1, <2>2
<1>10. midway' \in sent' \cup {NoRequest}
  BY <1>2 DEF IInv, TypeInv
<1>11. TypeInv'
  BY <1>2, <1>6, <1>9, <1>10 DEF IInv, TypeInv
<1>12. \A q : Target(q)' = Target(q) /\ Resolved(q)' = Resolved(q)
  BY <1>2, SamePool
<1>13. OldName(Resolved(rq))' = old /\ NewName(Resolved(rq))' = new
  BY <1>3, <1>4, <1>12 DEF OldName, NewName
<1>14. MidwayInv'
  <2>1. CASE r.errno = "ok"
    <3>1. midway' = rq
      BY <1>2, <2>1
    <3>2. (OldName(Resolved(midway)))' = old /\ (NewName(Resolved(midway)))' = new
      BY <1>12, <1>3, <1>4, <3>1 DEF OldName, NewName, Resolved
    <3>3. fs'.at[old] # 0 /\ fs'.at[old] = fs'.at[new] /\ old # new /\ old \in TreePath /\ new \in TreePath
      BY <1>5, <2>1
    <3>4. midway' \in sent' /\ midway'.proc = "RENAME"
      BY <1>2, <3>1
    <3>5. QED
      BY <3>2, <3>3, <3>4 DEF MidwayInv
  <2>2. CASE r.errno # "ok"
    BY <1>2, <2>2 DEF MidwayInv, Idle
  <2>3. QED
    BY <2>1, <2>2
<1>15. WinnersInv'
  <2> SUFFICES ASSUME life = 1
               PROVE  WinnersInv'
    BY <1>2 DEF WinnersInv
  <2>1. ASSUME NEW q \in sent, Won(q)', Target(q) \notin gone
        PROVE  Target(q) \in TreePath /\ fs.at[Target(q)] # 0 /\ fs'.at[Target(q)] # 0
    BY <1>2, <1>6, <1>9, <2>1, MadeStays
  <2>2. Target(rq) = new
    BY <1>2, <1>4, ResolvedIs DEF Target, IInv
  <2>3. ASSUME r.errno = "ok", NEW q \in sent, Won(q)', Target(q) \notin gone, Target(q) = new
        PROVE  FALSE
    BY <1>5, <2>1, <2>3
  <2>4. ASSUME NEW q \in sent, NEW s \in sent, Won(q)', Won(s)', Target(q) = Target(s), Target(q) \notin gone
        PROVE  q = s
    BY <1>9, <2>4 DEF IInv, WinnersInv
  <2>5. ~Idle' => midway' = rq /\ r.errno = "ok"
    BY <1>2 DEF Idle
  <2>6. ASSUME ~Idle', NEW q \in sent, Won(q)', Target(q) \notin gone, Target(q) = Target(midway')
        PROVE  FALSE
    BY <2>2, <2>3, <2>5, <2>6
  <2>7. \A q \in sent : Target(q)' = Target(q)
    BY <1>12
  <2>8. ~Idle' => Target(midway)' = new
    <3>1. ASSUME ~Idle' PROVE Target(midway)' = new
      <4>1. midway' = rq
        BY <2>5, <3>1
      <4>2. Target(rq)' = new
        BY <1>12, <2>2
      <4>3. QED
        BY <4>1, <4>2 DEF Target
    <3>2. QED
      BY <3>1
  <2>9. QED
    BY <1>2, <2>1, <2>2, <2>3, <2>4, <2>5, <2>7, <2>8 DEF WinnersInv
<1>16. QED
  BY <1>7, <1>8, <1>9, <1>11, <1>14, <1>15 DEF IInv

\* RENAME takes the old name; the file keeps the new one.
LEMMA FinishIs ==
    ASSUME IInv, FinishRename
    PROVE  /\ midway \in sent /\ midway.proc = "RENAME" /\ Reply(midway, "ok")
           /\ Kept(fs, fs') /\ gone \subseteq gone' /\ gone' \subseteq TreePath /\ Remembers
           /\ \E old \in TreePath, new \in TreePath :
                 /\ new = NewName(Resolved(midway)) /\ old # new /\ fs.at[old] # 0 /\ fs.at[old] = fs.at[new]
                 /\ \A q \in TreePath : fs'.at[q] = fs.at[q] \/ q = old
<1>1. PICK old : old = OldName(Resolved(midway))
  OBVIOUS
<1>2. PICK new : new = NewName(Resolved(midway))
  OBVIOUS
<1>3. /\ ~Idle /\ midway \in sent /\ midway.proc = "RENAME"
      /\ old \in TreePath /\ new \in TreePath /\ old # new /\ fs.at[old] # 0 /\ fs.at[old] = fs.at[new]
  BY <1>1, <1>2 DEF FinishRename, IInv, MidwayInv
<1>4. PICK o \in RenameUnlink(fs, Resolved(midway)) : fs' = o.fs /\ Reply(midway, o.status)
  BY Zenon DEF FinishRename
<1>5. o.fs = unlink(fs, old).fs /\ o.status = "ok"
  <2>1. o \in Answer(unlink(fs, old).fs, "ok")
    BY <1>1, <1>4, Zenon DEF RenameUnlink
  <2>2. QED
    BY <2>1, AnswerIs
<1>6. fs' \in FileSystem /\ \A q \in TreePath : fs'.at[q] = fs.at[q] \/ (q = old /\ fs'.at[q] = 0)
  BY <1>4, <1>5, UnlinkIs DEF IInv, TypeInv
<1>7. gone' = gone \cup {p \in TreePath : fs.at[p] # 0 /\ fs'.at[p] = 0}
  BY DEF FinishRename
<1>8. Kept(fs, fs') /\ gone \subseteq gone' /\ gone' \subseteq TreePath /\ Remembers
  BY <1>6, <1>7 DEF Kept, Remembers, IInv, TypeInv
<1>9. Reply(midway, "ok")
  BY <1>4, <1>5
<1>10. QED
  BY <1>2, <1>3, <1>6, <1>8, <1>9

\* And so the invariant holds again.
LEMMA FinishRenameInv ==
    ASSUME IInv, FinishRename
    PROVE  IInv'
<1>1. PICK rq : rq = midway
  OBVIOUS
<1>2. /\ ~Idle /\ midway' = NoRequest /\ UNCHANGED <<pool, life, sent, pending, granted>>
  BY DEF FinishRename
<1>3. /\ rq \in sent /\ rq.proc = "RENAME" /\ Reply(rq, "ok")
      /\ Kept(fs, fs') /\ gone \subseteq gone' /\ gone' \subseteq TreePath /\ Remembers
  BY <1>1, FinishIs
<1>4. PICK old \in TreePath, new \in TreePath :
         /\ new = NewName(Resolved(rq)) /\ old # new /\ fs.at[old] # 0 /\ fs.at[old] = fs.at[new]
         /\ \A q \in TreePath : fs'.at[q] = fs.at[q] \/ q = old
  BY <1>1, FinishIs
<1>5. GrantsInv'
  BY <1>2, <1>3, NoGrantIs DEF IInv
<1>6. RowsInv' /\ MidwayInv'
  BY <1>2 DEF IInv, RowsInv, MidwayInv, Idle
<1>7. /\ replies' \subseteq [xid : 1 .. MaxCalls, status : Status] /\ NumbersInv'
      /\ \A q \in sent : Won(q)' => Won(q) \/ q = rq
  <2>1. "ok" \in Status
    BY DEF Status
  <2>2. QED
    BY <1>2, <1>3, <2>1, RepliedIs
<1>8. TypeInv'
  BY <1>2, <1>3, <1>7 DEF IInv, TypeInv, Kept
<1>9. \A q : Target(q)' = Target(q)
  BY <1>2, SamePool
<1>10. WinnersInv'
  <2> SUFFICES ASSUME life = 1
               PROVE  WinnersInv'
    BY <1>2 DEF WinnersInv
  <2>1. Target(rq) = new
    BY <1>3, <1>4, ResolvedIs DEF Target, IInv
  <2>2. ASSUME NEW q \in sent, Won(q)', Target(q) \notin gone'
        PROVE  Target(q) \in TreePath /\ fs'.at[Target(q)] # 0
    <3>1. CASE q = rq
      BY <1>4, <2>1, <3>1
    <3>2. CASE q # rq
      BY <1>3, <1>7, <2>2, <3>2, MadeStays
    <3>3. QED
      BY <3>1, <3>2
  <2>3. ASSUME NEW q \in sent, Won(q), Target(q) \notin gone, Target(q) = Target(rq)
        PROVE  q = rq
    BY <1>1, <1>2, <2>3 DEF IInv, WinnersInv
  <2>4. ASSUME NEW q \in sent, NEW s \in sent, Won(q)', Won(s)', Target(q) = Target(s), Target(q) \notin gone'
        PROVE  q = s
    <3>1. Target(q) \notin gone /\ Target(s) \notin gone
      BY <1>3, <2>4
    <3>2. CASE Won(q) /\ Won(s)
      BY <2>4, <3>1, <3>2 DEF IInv, WinnersInv
    <3>3. CASE q = rq /\ Won(s)
      BY <2>3, <2>4, <3>1, <3>3
    <3>4. CASE s = rq /\ Won(q)
      BY <2>3, <2>4, <3>1, <3>4
    <3>5. QED
      BY <1>7, <2>4, <3>2, <3>3, <3>4
  <2>5. Idle'
    BY <1>2 DEF Idle
  <2>6. QED
    BY <1>2, <1>9, <2>2, <2>4, <2>5 DEF WinnersInv
<1>11. QED
  BY <1>5, <1>6, <1>7, <1>8, <1>10 DEF IInv

\* What serving a call to the end does.
LEMMA ServingIs ==
    ASSUME IInv, NEW rq \in sent, Serve(rq)
    PROVE  /\ Idle /\ UNCHANGED <<midway, life, sent, pending>>
           /\ Kept(fs, fs') /\ gone \subseteq gone' /\ gone' \subseteq TreePath /\ Remembers
           /\ rq.proc \notin {"REMOVE", "REMOVE3"} => Grown(fs, fs')
           /\ \E p : Grant(p, fs') /\ (p # NoGrant => p \in TreePath /\ fs'.at[p] # 0)
           /\ \E s \in Status :
                 /\ Reply(rq, s)
                 /\ s = "ok" /\ Exclusive(rq) =>
                       Target(rq) \in TreePath /\ fs.at[Target(rq)] = 0 /\ fs'.at[Target(rq)] # 0
<1>1. PICK r : r = Resolved(rq)
  OBVIOUS
<1>2. /\ Carries(r) /\ r.proc = rq.proc /\ r.how = rq.how /\ rq.proc \in Procs2 \cup Procs3
      /\ NewName(r) = Append(Path(rq.row2), rq.name2) /\ Append(r.file, r.name) = Append(Path(rq.row), rq.name)
  BY <1>1, ResolvedIs DEF IInv
<1>3. rq.proc # "RENAME" /\ Idle /\ UNCHANGED <<midway, life, sent, pending>>
  BY DEF Serve
<1>4. PICK o \in Outcomes(rq) : fs' = o.fs /\ Grant(o.grant, o.fs) /\ Reply(rq, o.status)
  BY Zenon DEF Serve
<1>5. fs \in FileSystem
  BY DEF IInv, TypeInv
<1>6. o \in IF r.proc \in Procs2 THEN Serve2(fs, r) ELSE Serve3(fs, r)
  BY <1>1, <1>2, <1>4 DEF Outcomes
<1>7. /\ Kept(fs, fs') /\ Answers(o)
      /\ rq.proc \notin {"REMOVE", "REMOVE3"} => Grown(fs, fs')
      /\ rq.proc = "LINK" => o \in Link(fs, r)
      /\ rq.proc = "CREATE3" => o \in Create3(fs, r)
  BY <1>2, <1>3, <1>4, <1>5, <1>6, ServedIs
<1>8. gone' = gone \cup {p \in TreePath : fs.at[p] # 0 /\ fs'.at[p] = 0}
  BY DEF Serve
<1>9. gone \subseteq gone' /\ gone' \subseteq TreePath /\ Remembers
  BY <1>8 DEF Remembers, IInv, TypeInv
<1>10. o.grant # NoGrant => o.grant \in TreePath /\ fs'.at[o.grant] # 0
  BY <1>4, <1>7 DEF Answers
<1>11. o.status \in Status
  BY <1>7 DEF Answers
<1>12. ASSUME o.status = "ok", Exclusive(rq)
       PROVE  Target(rq) \in TreePath /\ fs.at[Target(rq)] = 0 /\ fs'.at[Target(rq)] # 0
  <2>1. CASE rq.proc = "LINK"
    <3>1. Target(rq) = NewName(r) /\ o \in Link(fs, r)
      BY <1>2, <1>7, <2>1 DEF Target
    <3>2. NewName(r) \in TreePath /\ fs.at[NewName(r)] = 0 /\ o.fs.at[NewName(r)] # 0
      BY <1>2, <1>5, <1>12, <3>1, WinningIs, Zenon
    <3>3. QED
      BY <1>4, <3>1, <3>2
  <2>2. CASE rq.proc = "CREATE3" /\ rq.how = "guarded"
    <3>1. Target(rq) = Append(r.file, r.name) /\ o \in Create3(fs, r) /\ r.how = "guarded"
      BY <1>2, <1>7, <2>2 DEF Target
    <3>2. PICK p : p = Append(r.file, r.name)
      OBVIOUS
    <3>3. p \in TreePath /\ fs.at[p] = 0 /\ o.fs.at[p] # 0
      BY <1>2, <1>5, <1>12, <3>1, <3>2, WinningIs, Zenon
    <3>4. QED
      BY <1>4, <3>1, <3>2, <3>3
  <2>3. QED
    BY <1>3, <1>12, <2>1, <2>2 DEF Exclusive
<1>13. \E p : Grant(p, fs') /\ (p # NoGrant => p \in TreePath /\ fs'.at[p] # 0)
  BY <1>4, <1>10, Zenon
<1>14. QED
  BY <1>3, <1>4, <1>7, <1>9, <1>11, <1>12, <1>13

\* A call that succeeds makes a name no earlier winner has.
LEMMA ServeInv ==
    ASSUME IInv, NEW rq \in sent, Serve(rq)
    PROVE  IInv'
<1>1. /\ Idle /\ UNCHANGED <<midway, life, sent, pending>>
      /\ Kept(fs, fs') /\ gone \subseteq gone' /\ gone' \subseteq TreePath /\ Remembers
  BY ServingIs
<1>2. /\ pool' \in Seq(Component) /\ Longer(pool, pool')
      /\ granted' \subseteq [row : Seq(Nat), path : TreePath, file : Ino, life : 1 .. MaxLives]
      /\ GrantsInv'
  <2>1. PICK p : Grant(p, fs') /\ (p # NoGrant => p \in TreePath /\ fs'.at[p] # 0)
    BY ServingIs, Zenon
  <2>2. QED
    BY <1>1, <2>1, GrantIs DEF IInv
<1>3. PICK s \in Status :
         /\ Reply(rq, s)
         /\ s = "ok" /\ Exclusive(rq) => Target(rq) \in TreePath /\ fs.at[Target(rq)] = 0 /\ fs'.at[Target(rq)] # 0
  BY ServingIs, Zenon
<1>4. /\ replies' \subseteq [xid : 1 .. MaxCalls, status : Status] /\ NumbersInv'
      /\ \A q \in sent : Won(q)' => Won(q) \/ (q = rq /\ s = "ok" /\ Exclusive(rq))
  BY <1>1, <1>3, RepliedIs
<1>5. TypeInv'
  BY <1>1, <1>2, <1>4 DEF IInv, TypeInv, Kept
<1>6. RowsInv'
  BY <1>1, <1>2, TargetsStay DEF IInv, RowsInv
<1>7. MidwayInv'
  BY <1>1 DEF MidwayInv, Idle
<1>8. WinnersInv'
  <2> SUFFICES ASSUME life = 1
               PROVE  WinnersInv'
    BY <1>1 DEF WinnersInv
  <2>1. \A q \in sent : Target(q)' = Target(q)
    BY <1>2, TargetsStay DEF IInv
  <2>2. ASSUME NEW q \in sent, Won(q), Target(q) \notin gone'
        PROVE  Target(q) \in TreePath /\ fs.at[Target(q)] # 0 /\ fs'.at[Target(q)] # 0
    BY <1>1, <2>2, MadeStays
  <2>3. ASSUME NEW q \in sent, Won(q)', ~Won(q)
        PROVE  q = rq /\ Target(q) \in TreePath /\ fs.at[Target(q)] = 0 /\ fs'.at[Target(q)] # 0
    BY <1>3, <1>4, <2>3
  <2>4. ASSUME NEW q \in sent, NEW t \in sent, Won(q)', Won(t)', Target(q) = Target(t), Target(q) \notin gone'
        PROVE  q = t
    <3>1. CASE Won(q) /\ Won(t)
      BY <1>1, <2>4, <3>1 DEF IInv, WinnersInv
    <3>2. CASE ~Won(q) /\ ~Won(t)
      BY <2>3, <2>4, <3>2
    <3>3. CASE Won(q) /\ ~Won(t)
      BY <2>2, <2>3, <2>4, <3>3
    <3>4. CASE ~Won(q) /\ Won(t)
      BY <2>2, <2>3, <2>4, <3>4
    <3>5. QED
      BY <3>1, <3>2, <3>3, <3>4
  <2>5. \A q \in sent : Won(q)' /\ Target(q) \notin gone' => Target(q) \in TreePath /\ fs'.at[Target(q)] # 0
    BY <2>2, <2>3
  <2>6. Idle'
    BY <1>1 DEF Idle
  <2>7. QED
    BY <1>1, <2>1, <2>4, <2>5, <2>6 DEF WinnersInv
<1>9. QED
  BY <1>2, <1>4, <1>5, <1>6, <1>7, <1>8 DEF IInv

\* Every step keeps the invariant.
LEMMA NextInv ==
    ASSUME IInv, [Next]_vars
    PROVE  IInv'
<1>1. CASE \E p \in Mounted : Mount(p)
  BY <1>1, MountInv
<1>2. CASE \E c \in Client : Call(c) \/ Receive(c)
  BY <1>2, CallInv, ReceiveInv
<1>3. CASE \E rq \in sent : Serve(rq) \/ ServeRename(rq)
  BY <1>3, ServeInv, ServeRenameInv
<1>4. CASE FinishRename
  BY <1>4, FinishRenameInv
<1>5. CASE Restart
  BY <1>5, RestartInv
<1>6. CASE UNCHANGED vars
  <2>1. UNCHANGED <<fs, pool, midway, life, sent, replies, pending, granted, gone>>
    BY <1>6 DEF vars
  <2>2. \A q : Target(q)' = Target(q) /\ Resolved(q)' = Resolved(q)
    BY <2>1, SamePool
  <2>3. TypeInv' /\ GrantsInv' /\ RowsInv' /\ NumbersInv'
    BY <2>1 DEF IInv, TypeInv, GrantsInv, Leads, RowsInv, NumbersInv
  <2>4. MidwayInv'
    BY <2>1, <2>2 DEF IInv, MidwayInv, Idle
  <2>5. \A q : Won(q)' <=> Won(q)
    BY <2>1 DEF Won, Exclusive, Succeeded
  <2>6. WinnersInv'
    BY <2>1, <2>2, <2>5 DEF IInv, WinnersInv, Idle
  <2>7. QED
    BY <2>3, <2>4, <2>6 DEF IInv
<1>7. QED
  BY <1>1, <1>2, <1>3, <1>4, <1>5, <1>6 DEF Next

\* So it holds in every state the daemon can reach.
LEMMA SpecIInv == Spec => []IInv
<1>1. Init => IInv
  BY InitInv
<1>2. IInv /\ [Next]_vars => IInv'
  BY NextInv
<1>3. QED
  BY <1>1, <1>2, PTL DEF Spec

-----------------------------------------------------------------------------
\* What holds of the daemon

\* File system, pool, calls, replies and handles are what they are taken for,
\* with any number of clients, calls and restarts.
THEOREM TypeCorrect == Spec => []TypeOK
<1>1. IInv => TypeOK
  BY DEF IInv, TypeInv, TypeOK
<1>2. QED
  BY <1>1, SpecIInv, PTL

\* A handle, decoded with the pool there is by now, leads to the file it was
\* granted for: while the run lasts that granted it and until its name goes.
THEOREM HandlesLead == Spec => []HandleLeadsToFile
<1>1. IInv => HandleLeadsToFile
  <2> SUFFICES ASSUME IInv, NEW h \in granted, h.life = life, h.path \notin gone
               PROVE  Path(h.row) = h.path /\ stat(fs, Path(h.row)) = h.file
    BY DEF HandleLeadsToFile
  <2>1. h.row \in Seq(Nat) /\ h.path \in TreePath /\ fs \in FileSystem
    BY DEF IInv, TypeInv
  <2>2. Stands(h.row, h.path, pool) /\ fs.at[h.path] = h.file
    BY DEF IInv, GrantsInv, Leads
  <2>3. Path(h.row) = [i \in 1 .. Len(h.row) |-> pool[h.row[i]]]
    BY <2>1, <2>2, DecodesNow DEF Decodes, Stands
  <2>4. h.path \in Seq(Component)
    BY <2>1, TreeAssumption
  <2>5. h.path = [i \in 1 .. Len(h.path) |-> h.path[i]]
    BY <2>4
  <2>6. Path(h.row) = h.path
    BY <2>2, <2>3, <2>5 DEF Stands
  <2>7. QED
    BY <2>1, <2>2, <2>6, FileSystemIs
<1>2. QED
  BY <1>1, SpecIInv, PTL

\* LINK, RENAME and GUARDED CREATE of one name succeed for one caller, however
\* often the calls are served and whichever RENAME is halfway.
THEOREM OneCallerWins == Spec => []OneWinner
<1>1. IInv => OneWinner
  BY DEF IInv, WinnersInv, Won, OneWinner
<1>2. QED
  BY <1>1, SpecIInv, PTL

\* No step takes a file its last name but REMOVE: not RENAME, served once or
\* twice or cut off in the middle, and not a restart.
THEOREM NoFileLost == Spec => OnlyRemoveLosesFiles
<1> DEFINE Lost(f) == NamesOf(fs, f) # {} /\ NamesOf(fs', f) = {}
           Removed == \E rq \in sent : rq.proc \in {"REMOVE", "REMOVE3"} /\ Serve(rq)
           Loses == \A f \in Ino : Lost(f) => Removed
<1>1. ASSUME IInv, [Next]_vars
      PROVE  Loses \/ UNCHANGED vars
  <2> SUFFICES ASSUME NEW f \in Ino, Lost(f), ~Removed
               PROVE  UNCHANGED vars
    OBVIOUS
  <2>1. PICK p \in TreePath : fs.at[p] = f
    BY DEF NamesOf
  <2>2. f # 0
    BY DEF Ino
  <2>3. \A q \in TreePath : fs'.at[q] # f
    BY DEF NamesOf
  <2>4. ~Grown(fs, fs') /\ fs' # fs
    BY <2>1, <2>2, <2>3 DEF Grown
  <2>5. ASSUME NEW rq \in sent, Serve(rq) PROVE FALSE
    <3>1. Grown(fs, fs')
      BY <1>1, <2>5, ServingIs
    <3>2. QED
      BY <2>4, <3>1
  <2>6. ASSUME NEW rq \in sent, ServeRename(rq) PROVE FALSE
    <3>1. fs' = link(fs, OldName(Resolved(rq)), NewName(Resolved(rq))).fs
      BY <2>6 DEF ServeRename, RenameLink
    <3>2. Grown(fs, fs')
      BY <1>1, <3>1, LinkIs DEF IInv, TypeInv
    <3>3. QED
      BY <2>4, <3>2
  <2>7. ASSUME FinishRename PROVE FALSE
    <3>1. PICK old \in TreePath, new \in TreePath :
             /\ old # new /\ fs.at[old] = fs.at[new]
             /\ \A q \in TreePath : fs'.at[q] = fs.at[q] \/ q = old
      BY <1>1, <2>7, FinishIs
    <3>2. CASE p = old
      BY <2>1, <2>3, <3>1, <3>2
    <3>3. CASE p # old
      BY <2>1, <2>3, <3>1, <3>3
    <3>4. QED
      BY <3>2, <3>3
  <2>8. ~(\E q \in Mounted : Mount(q)) /\ ~(\E c \in Client : Call(c) \/ Receive(c)) /\ ~Restart
    BY <2>4 DEF Mount, Call, Receive, Restart
  <2>9. QED
    BY <1>1, <2>5, <2>6, <2>7, <2>8 DEF Next
<1>2. QED
  BY <1>1, SpecIInv, PTL DEF Spec, OnlyRemoveLosesFiles

=============================================================================
