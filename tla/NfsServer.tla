------------------------------ MODULE NfsServer ------------------------------
(***************************************************************************)
(* nfsd serving NFS over UDP: clients that send calls and send them again, *)
(* a network that loses, repeats and reorders datagrams, the daemon with   *)
(* its token pool and the host's file system, and restarts of the daemon.  *)
(*                                                                         *)
(* A request once sent stays in `sent': it may be served again at any      *)
(* time, or never.  The daemon keeps no record of what it has answered, so *)
(* serving a duplicate is serving the request anew.                        *)
(***************************************************************************)
EXTENDS NfsProc3

CONSTANTS
    Client,
    Menu,       \* the procedures the clients of this instance call
    Name,       \* the names they pass
    Export,     \* the path of the exported directory
    Present,    \* the files in it when the daemon is first started, a sequence
    Mounted,    \* the paths clients mount
    NoRequest,
    MaxCalls,   \* bound of the model: calls the clients make
    MaxLives    \* bound of the model: how often the daemon is started

ASSUME MenuAssumption == Menu \subseteq Procs2 \cup Procs3
ASSUME ExportAssumption == Export \in TreePath
ASSUME PresentAssumption ==
    /\ Present \in Seq(TreePath \ {Export})
    /\ Len(Present) < MaxFiles
ASSUME BoundsAssumption == MaxCalls \in Nat /\ MaxLives \in Nat \ {0}

Component == UNION {Range(p) : p \in TreePath}

ASSUME TreeAssumption == \A p \in TreePath : p \in Seq(Component) /\ Len(p) < 10

VARIABLES
    fs,        \* the host's file system; survives the daemon
    pool,      \* the daemon's path components
    midway,    \* the RENAME that has linked and not yet unlinked
    life,      \* which run of the daemon this is
    sent,      \* every request sent so far
    replies,   \* every reply sent so far
    pending,   \* per client, the call it waits for
    granted,   \* every handle sent so far, with what it stood for
    gone       \* history: paths unlinked so far

vars == <<fs, pool, midway, life, sent, replies, pending, granted, gone>>

\* decodepath, as PathTokens has it.  No path here fills a handle.
Tokens == INSTANCE PathTokens WITH
    Path <- TreePath, MaxDepth <- 10, MaxToken <- 32767, Trailing <- {0},
    Garbage <- NoRequest, busy <- FALSE, path <- <<>>, encoded <- <<>>, issued <- {}

Path(row) == Tokens!decodepath(row, 0)

\* encodepath, all components at once: the pool it leaves and the row.
Interned(p) ==
    LET acc[i \in 0 .. Len(p)] ==
            IF i = 0 THEN pool
            ELSE IF Contains(acc[i - 1], p[i]) THEN acc[i - 1]
            ELSE Append(acc[i - 1], p[i])
    IN  acc[Len(p)]

Row(p) == LET new == Interned(p) IN [i \in 1 .. Len(p) |-> CHOOSE k \in 1 .. Len(new) : new[k] = p[i]]

-----------------------------------------------------------------------------
\* Requests

Sattr == [mode : {"keep", "ro", "rw"}, size0 : BOOLEAN]

Plain == [row |-> <<>>, name |-> NoRequest, row2 |-> <<>>, name2 |-> NoRequest, data |-> Empty,
          sattr |-> [mode |-> "keep", size0 |-> FALSE], how |-> "unchecked"]

Rows(kinds) == {h.row : h \in {g \in granted : fs.kind[g.file] \in kinds}}
Dirs == Rows({"dir"})
Files == Rows({"file"})

OnName == {"LOOKUP", "REMOVE", "MKDIR", "RMDIR", "SYMLINK", "LOOKUP3", "REMOVE3", "MKDIR3"}

\* A call with one handle, and with a name, content, attributes; and with two.
Of(r) == [Plain EXCEPT !.row = r]
Named(r, n, h) == [Plain EXCEPT !.row = r, !.name = n, !.how = h]
Filled(r, d) == [Plain EXCEPT !.row = r, !.data = d]
Changed(r, s) == [Plain EXCEPT !.row = r, !.sattr = s]
FromTo(r, n, s, m) == [Plain EXCEPT !.row = r, !.name = n, !.row2 = s, !.name2 = m]

\* The arguments a client can give procedure p, from the handles it was sent.
Arguments(p) ==
    CASE p \in OnName \cup {"CREATE"} -> {Named(r, n, "unchecked") : r \in Dirs, n \in Name}
      [] p \in {"WRITE", "WRITE3"} -> {Filled(r, d) : r \in Files, d \in Data}
      [] p \in {"SETATTR", "SETATTR3"} -> {Changed(r, s) : r \in Files, s \in Sattr}
      [] p = "CREATE3" -> {Named(r, n, h) : r \in Dirs, n \in Name, h \in {"unchecked", "guarded", "exclusive"}}
      [] p = "LINK" -> {FromTo(r, NoRequest, s, m) : r \in Files, s \in Dirs, m \in Name}
      [] p = "RENAME" -> {FromTo(r, n, s, m) : r \in Dirs, n \in Name, s \in Dirs, m \in Name}
      [] OTHER -> {Of(r) : r \in Dirs \cup Files}

\* The call with its number and who makes it.
Request(x, c, p, a) ==
    [xid |-> x, client |-> c, proc |-> p, row |-> a.row, name |-> a.name, row2 |-> a.row2, name2 |-> a.name2,
     data |-> a.data, sattr |-> a.sattr, how |-> a.how]

\* The daemon resolves the handles of a request against the pool it has now.
Resolved(rq) ==
    [proc |-> rq.proc, name |-> rq.name, name2 |-> rq.name2, data |-> rq.data,
     sattr |-> rq.sattr, how |-> rq.how, file |-> Path(rq.row), file2 |-> Path(rq.row2)]

Outcomes(rq) ==
    IF rq.proc \in Procs2 THEN Serve2(fs, Resolved(rq)) ELSE Serve3(fs, Resolved(rq))

-----------------------------------------------------------------------------

\* The files of the export have the inodes behind its own.
ExportWith(files) ==
    [at |-> [p \in TreePath |-> IF p = Export THEN 1
                               ELSE IF Contains(files, p) THEN 1 + CHOOSE i \in 1 .. Len(files) : files[i] = p
                               ELSE 0],
     kind |-> [f \in Ino |-> IF f = 1 THEN "dir" ELSE IF f <= 1 + Len(files) THEN "file" ELSE "none"],
     data |-> [f \in Ino |-> Empty],
     ro |-> {}]

Init ==
    /\ fs = ExportWith(Present)
    /\ pool = <<>>
    /\ midway = NoRequest
    /\ life = 1
    /\ sent = {}
    /\ replies = {}
    /\ pending = [c \in Client |-> NoRequest]
    /\ granted = {}
    /\ gone = {}

Idle == midway = NoRequest

\* A handle for p, of the file system f: the pool and the rows sent.
Grant(p, f) ==
    IF p = NoGrant THEN UNCHANGED <<pool, granted>>
    ELSE /\ pool' = Interned(p)
         /\ granted' = granted \cup {[row |-> Row(p), path |-> p, file |-> stat(f, p), life |-> life]}

\* MNT of a directory or of a file, by any client and at any time.
Mount(p) ==
    /\ Idle
    /\ stat(fs, p) # 0
    /\ Grant(p, fs)
    /\ UNCHANGED <<fs, midway, life, sent, replies, pending, gone>>

\* A client makes a call.  It waits for the answer before the next one.
Call(c) ==
    /\ pending[c] = NoRequest
    /\ Cardinality(sent) < MaxCalls
    /\ \E p \in Menu : \E a \in Arguments(p) :
          LET rq == Request(Cardinality(sent) + 1, c, p, a)
          IN  /\ sent' = sent \cup {rq}
              /\ pending' = [pending EXCEPT ![c] = rq]
    /\ UNCHANGED <<fs, pool, midway, life, replies, granted, gone>>

\* A daemon that jumps over sendto() on an error.
Reply_OkOnly(rq, status) ==
    replies' = replies \cup {r \in {[xid |-> rq.xid, status |-> status]} : r.status = "ok"}

Reply(rq, status) ==
    replies' = replies \cup {[xid |-> rq.xid, status |-> status]}

\* The daemon takes a datagram from the NFS socket and serves it to the end.
Serve(rq) ==
    /\ Idle
    /\ rq.proc # "RENAME"
    /\ \E o \in Outcomes(rq) :
          /\ fs' = o.fs
          /\ Grant(o.grant, o.fs)
          /\ Reply(rq, o.status)
    /\ gone' = gone \cup {p \in TreePath : fs.at[p] # 0 /\ fs'.at[p] = 0}
    /\ UNCHANGED <<midway, life, sent, pending>>

\* RENAME, first half: the new name is made, or the reason against it sent.
ServeRename(rq) ==
    /\ Idle
    /\ rq.proc = "RENAME"
    /\ LET r == RenameLink(fs, Resolved(rq))
       IN  /\ fs' = r.fs
           /\ IF r.errno = "ok"
              THEN midway' = rq /\ UNCHANGED replies
              ELSE Reply(rq, r.errno) /\ UNCHANGED midway
    /\ UNCHANGED <<pool, life, sent, pending, granted, gone>>

\* RENAME, second half.
FinishRename ==
    /\ ~Idle
    /\ \E o \in RenameUnlink(fs, Resolved(midway)) :
          /\ fs' = o.fs
          /\ Reply(midway, o.status)
    /\ gone' = gone \cup {p \in TreePath : fs.at[p] # 0 /\ fs'.at[p] = 0}
    /\ midway' = NoRequest
    /\ UNCHANGED <<pool, life, sent, pending, granted>>

\* A reply arrives at the client that waits for it.
Receive(c) ==
    /\ pending[c] # NoRequest
    /\ \E r \in replies : r.xid = pending[c].xid
    /\ pending' = [pending EXCEPT ![c] = NoRequest]
    /\ UNCHANGED <<fs, pool, midway, life, sent, replies, granted, gone>>

\* The daemon dies, perhaps between the halves of a RENAME, and is started.
Restart ==
    /\ life < MaxLives
    /\ life' = life + 1
    /\ pool' = <<>>
    /\ midway' = NoRequest
    /\ UNCHANGED <<fs, sent, replies, pending, granted, gone>>

Next ==
    \/ \E p \in Mounted : Mount(p)
    \/ \E c \in Client : Call(c) \/ Receive(c)
    \/ \E rq \in sent : Serve(rq) \/ ServeRename(rq)
    \/ FinishRename
    \/ Restart

Spec == Init /\ [][Next]_vars

-----------------------------------------------------------------------------

Requests ==
    [xid : 1 .. MaxCalls, client : Client, proc : Menu,
     row : Seq(Nat), name : Name \cup {NoRequest}, row2 : Seq(Nat), name2 : Name \cup {NoRequest},
     data : Data \cup {Empty}, sattr : Sattr, how : {"unchecked", "guarded", "exclusive"}]

TypeOK ==
    /\ fs \in FileSystem
    /\ \A i \in 1 .. Len(pool) : pool[i] \in Component
    /\ midway \in sent \cup {NoRequest}
    /\ life \in 1 .. MaxLives
    /\ sent \subseteq Requests
    /\ replies \subseteq [xid : 1 .. MaxCalls, status : Status]
    /\ \A c \in Client : pending[c] \in sent \cup {NoRequest}
    /\ \A h \in granted : h.path \in TreePath /\ h.file \in Ino
    /\ gone \subseteq TreePath

\* A handle carries a path and not a file, and still it leads to the file it
\* was granted for: while the run lasts that granted it and until its name is
\* unlinked, whatever the clients create, link, rename and send twice.
HandleLeadsToFile ==
    \A h \in granted :
        (h.life = life /\ h.path \notin gone)
            => Path(h.row) = h.path /\ stat(fs, Path(h.row)) = h.file

\* Only REMOVE takes a file its last name.  In particular a RENAME does not,
\* served once or twice, or cut off by a crash between link and unlink.
OnlyRemoveLosesFiles ==
    [][\A f \in Ino :
          (NamesOf(fs, f) # {} /\ NamesOf(fs', f) = {})
              => \E rq \in sent : rq.proc \in {"REMOVE", "REMOVE3"} /\ Serve(rq)]_vars

\* LINK, RENAME and GUARDED CREATE of one name succeed for one caller only, as
\* long as nobody takes the name away: clients use them to take a lock.
Exclusive(rq) ==
    \/ rq.proc \in {"LINK", "RENAME"}
    \/ rq.proc = "CREATE3" /\ rq.how = "guarded"

\* The path an exclusive request makes.
Target(rq) ==
    IF rq.proc = "CREATE3" THEN Append(Path(rq.row), rq.name) ELSE Append(Path(rq.row2), rq.name2)

Succeeded(rq) == [xid |-> rq.xid, status |-> "ok"] \in replies

OneWinner ==
    \A q, r \in sent :
        (/\ life = 1
         /\ Exclusive(q) /\ Exclusive(r) /\ Target(q) = Target(r) /\ Target(q) \notin gone
         /\ Succeeded(q) /\ Succeeded(r))
            => q.xid = r.xid

\* The daemon keeps serving, and a call that is sent again and again is
\* served again and again.
Fairness ==
    /\ WF_vars(FinishRename)
    /\ \A x \in 1 .. MaxCalls :
          SF_vars(\E rq \in sent : rq.xid = x /\ (Serve(rq) \/ ServeRename(rq)))
    /\ \A c \in Client : WF_vars(Receive(c))

FairSpec == Spec /\ Fairness

\* Every call is answered, in spite of restarts, and of other clients whose
\* duplicates come in between.
CallsAreAnswered ==
    \A c \in Client : [](pending[c] # NoRequest => <>(pending[c] = NoRequest))

=============================================================================
