-------------------------------- MODULE Tar --------------------------------
(***************************************************************************)
(* tar: an archive is created, perhaps appended to by a second run, and    *)
(* extracted, while the files that are stored change and the user may      *)
(* interrupt.  The tape is a file of blocks, read and written in records   *)
(* of nblock of them.                                                      *)
(*                                                                         *)
(* Left out: which members -w, -F and -u leave out (for u, TarUpdate),     *)
(* owners and modes, and names too long for a header.                      *)
(***************************************************************************)
EXTENDS Naturals, Sequences
LOCAL INSTANCE SequencesExt
LOCAL INSTANCE Functions

CONSTANTS
    Walk,        \* the members in the order putfile meets them, directories before their entries
    Directories, \* those of them that are directories
    Inodes,      \* how files and inodes may be paired: functions from files to numbers
    FileSizes,   \* bytes in a file
    TBLOCK,      \* bytes in a block
    NBLOCK,      \* blocks in a record unless -b says otherwise
    Blockings,   \* what -b says
    Wanted,      \* what the command line of x names: <<>> for everything, or a member
    MaxChanges   \* bound of the model: how often files change

ASSUME BlockAssumption == TBLOCK \in Nat \ {0} /\ NBLOCK \in Nat \ {0} /\ Blockings \subseteq Nat \ {0}
ASSUME WalkAssumption == Directories \subseteq {Walk[i] : i \in 1 .. Len(Walk)}

Files == {Walk[i] : i \in 1 .. Len(Walk)} \ Directories

VARIABLES
    inode,    \* which inode each file is
    contents,  \* version and size of each inode
    oflag,    \* directories get no header
    want,     \* what x names
    mt,       \* the tape and the process's tbuf, recno, nblock, first and offset
    run,      \* what is going on: "idle", "first" and "scan", "store", "extract", "done"
    tapeat,       \* the next member of Walk
    infile,   \* the file being stored: inode, blocks left, blocks read
    ihead,    \* the linkbufs: which name an inode was stored under
    term,
    stored,   \* history: the members put on the tape
    fs,       \* what extraction has made
    tornend,     \* history: the append did not begin at the end mark
    changes,
    runs

tarVars == <<inode, contents, oflag, want, mt, run, tapeat, infile, ihead, term, stored, fs, tornend, changes, runs>>

NoName == 0
NoFile == [inum |-> 0, blocks |-> 0, pos |-> 0]
Empty == [b |-> "empty"]
Junk == [b |-> "junk"]
Header(p, kind, size, to) == [b |-> "head", path |-> p, kind |-> kind, size |-> size, to |-> to]

Blocks(size) == (size + TBLOCK - 1) \div TBLOCK

-----------------------------------------------------------------------------
\* The tape

\* A run of tar opens the archive; 'c' does not truncate what is there.
Opened(tape, n) ==
    [tape |-> tape, off |-> 0, buf |-> [i \in 1 .. n |-> Junk], recno |-> 0, nblock |-> n, first |-> FALSE]

WriteRecord(m) ==
    LET end == m.off + m.nblock
        size == IF end > Len(m.tape) THEN end ELSE Len(m.tape)
    IN  [m EXCEPT !.off = end, !.recno = 0,
           !.tape = [i \in 1 .. size |-> IF i \in m.off + 1 .. end THEN m.buf[i - m.off] ELSE m.tape[i]]]

writetape(m, block) ==
    LET room == IF m.recno >= m.nblock THEN WriteRecord(m) ELSE m
        put == [room EXCEPT !.first = TRUE, !.buf[room.recno + 1] = block, !.recno = @ + 1]
    IN  IF put.recno >= put.nblock THEN WriteRecord(put) ELSE put

Writeall(m, blocks) == FoldLeft(writetape, m, blocks)

\* How much a read of a record gets, and the record that is then in tbuf: the
\* rest of a short one is what was there before.
Got(m) == IF Len(m.tape) - m.off < m.nblock THEN Len(m.tape) - m.off ELSE m.nblock

Load(m) ==
    [m EXCEPT !.off = @ + Got(m), !.recno = 0, !.nblock = IF m.first THEN @ ELSE Got(m), !.first = TRUE,
              !.buf = [i \in DOMAIN @ |-> IF i <= Got(m) THEN m.tape[m.off + i] ELSE @[i]]]

Loads(m) == m.recno >= m.nblock \/ ~m.first

\* readtape: the tape afterwards, and the block.
readtape(acc, i) ==
    LET m == IF Loads(acc.m) THEN Load(acc.m) ELSE acc.m
    IN  [m |-> [m EXCEPT !.recno = @ + 1], read |-> Append(acc.read, m.buf[m.recno + 1]),
         short |-> acc.short \/ (Loads(acc.m) /\ acc.m.first /\ Got(acc.m) < acc.m.nblock)]

Read(m, n) == FoldLeft(readtape, [m |-> m, read |-> <<>>, short |-> FALSE], [i \in 1 .. n |-> i])

backtape(m) == [m EXCEPT !.off = IF @ >= m.nblock THEN @ - m.nblock ELSE @, !.recno = @ - 1]

flushtape(m) == WriteRecord(m)

-----------------------------------------------------------------------------
\* Creating and appending

Idle == infile = NoFile

\* A run with c or r, each a process of its own.
Start ==
    /\ run = "idle"
    /\ \E n \in Blockings :
         \/ runs = 0 /\ run' = "store" /\ mt' = Opened(mt.tape, n)
         \/ runs = 1 /\ run' = "first" /\ mt' = Opened(mt.tape, n)
    /\ runs' = runs + 1
    /\ tapeat' = 1 /\ ihead' = <<>> /\ term' = FALSE
    /\ UNCHANGED <<inode, contents, oflag, want, infile, stored, fs, tornend, changes>>

\* The blocks that follow a header.
passtape(h) == IF h.b = "head" /\ h.kind # "link" THEN Blocks(h.size) ELSE 0

\* getdir and passtape until the end mark, which may not be the first block;
\* then back over it, unless interrupted.
Scan ==
    /\ run \in {"first", "scan"}
    /\ LET head == Read(mt, 1)
           h == head.read[1]
           past == FoldLeft(readtape, head, [i \in 1 .. passtape(h) |-> i])
       IN  /\ tornend' = (tornend \/ past.short \/ (run = "first" /\ h.b = "empty"))
           /\ CASE h.b \notin {"empty", "head"} -> mt' = head.m /\ run' = "checksum"
                [] run = "scan" /\ h.b = "empty" -> mt' = backtape(head.m) /\ run' = "store"
                [] OTHER -> mt' = past.m /\ run' = IF term THEN "idle" ELSE "scan"
    /\ UNCHANGED <<inode, contents, oflag, want, tapeat, infile, ihead, term, stored, fs, changes, runs>>

Stores(kind, p, size, data, to) == [kind |-> kind, path |-> p, size |-> size, data |-> data, to |-> to]

\* putfile up to the header: a directory, a further name of a file that has
\* been stored, or a file.
PutHeader ==
    /\ run = "store" /\ Idle /\ ~term /\ tapeat <= Len(Walk)
    /\ LET p == Walk[tapeat]
           i == inode[p]
           known == {k \in 1 .. Len(ihead) : ihead[k].inum = i}
           links == {q \in Files : inode[q] = i}
       IN  IF p \in Directories
           THEN /\ mt' = IF oflag THEN mt ELSE writetape(mt, Header(p, "dir", 0, p))
                /\ stored' = IF oflag THEN stored ELSE Append(stored, Stores("dir", p, 0, <<>>, p))
                /\ UNCHANGED <<infile, ihead>>
           ELSE IF known # {}
           THEN LET to == ihead[CHOOSE k \in known : TRUE].pathname
                IN  /\ mt' = writetape(mt, Header(p, "link", contents[i].size, to))
                    /\ stored' = Append(stored, Stores("link", p, 0, <<>>, to))
                    /\ UNCHANGED <<infile, ihead>>
           ELSE /\ mt' = writetape(mt, Header(p, "data", contents[i].size, p))
                /\ stored' = Append(stored, Stores("data", p, contents[i].size, <<>>, p))
                /\ infile' = [inum |-> i, blocks |-> Blocks(contents[i].size), pos |-> 0]
                /\ ihead' = IF links = {p} THEN ihead ELSE Append(ihead, [inum |-> i, pathname |-> p])
    /\ tapeat' = tapeat + 1
    /\ UNCHANGED <<inode, contents, oflag, want, run, term, fs, tornend, changes, runs>>

\* What read() gets at a position of the file as it is now.
Readable(f) == f.pos * TBLOCK < contents[f.inum].size
Datum(f) == [b |-> "data", inum |-> f.inum, ver |-> contents[f.inum].ver, k |-> f.pos + 1]

Noted(blocks) == [stored EXCEPT ![Len(stored)].data = @ \o blocks]

PutBlock ==
    /\ run = "store" /\ ~Idle
    /\ Readable(infile) /\ infile.blocks > 0
    /\ mt' = writetape(mt, Datum(infile))
    /\ stored' = Noted(<<Datum(infile)>>)
    /\ infile' = [infile EXCEPT !.pos = @ + 1, !.blocks = @ - 1]
    /\ UNCHANGED <<inode, contents, oflag, want, run, tapeat, ihead, term, fs, tornend, changes, runs>>

\* A tar that pads with one block less.
Padding_Less(f) == [i \in 1 .. f.blocks - 1 |-> Empty]

\* "file changed size": empty blocks in the place of what is missing.
Padding(f) == [i \in 1 .. f.blocks |-> Empty]

PutEnd ==
    /\ run = "store" /\ ~Idle
    /\ ~(Readable(infile) /\ infile.blocks > 0)
    /\ mt' = Writeall(mt, Padding(infile))
    /\ stored' = Noted([i \in 1 .. infile.blocks |-> Empty])
    /\ infile' = NoFile
    /\ UNCHANGED <<inode, contents, oflag, want, run, tapeat, ihead, term, fs, tornend, changes, runs>>

\* Two empty blocks and the record they are in; then the process is gone.
EndArchive ==
    /\ run = "store" /\ Idle /\ (term \/ tapeat > Len(Walk))
    /\ mt' = flushtape(Writeall(mt, <<Empty, Empty>>))
    /\ run' = "idle"
    /\ UNCHANGED <<inode, contents, oflag, want, tapeat, infile, ihead, term, stored, fs, tornend, changes, runs>>

\* ^C, in a run that writes.
Interrupt ==
    /\ run \in {"first", "scan", "store"} /\ ~term
    /\ term' = TRUE
    /\ UNCHANGED <<inode, contents, oflag, want, mt, run, tapeat, infile, ihead, stored, fs, tornend, changes, runs>>

\* A file is rewritten, longer or shorter.
Change ==
    /\ changes < MaxChanges
    /\ changes' = changes + 1
    /\ run \in {"idle", "store"}
    /\ \E i \in Range(inode), n \in FileSizes : contents' = [contents EXCEPT ![i] = [ver |-> @.ver + 1, size |-> n]]
    /\ UNCHANGED <<inode, oflag, want, mt, run, tapeat, infile, ihead, term, stored, fs, tornend, runs>>

-----------------------------------------------------------------------------
\* Extracting

\* creat, link and mkdir on the directory x runs in: name -> inode, and data.
creat(f, p, data) ==
    IF f.name[p] # NoName THEN [f EXCEPT !.data[f.name[p]] = data]
    ELSE [f EXCEPT !.data = Append(@, data), !.name[p] = Len(f.data) + 1]

link(f, to, p) == [f EXCEPT !.name[p] = IF to = p THEN NoName ELSE f.name[to]]

\* checkdir: the directories above a name are made.
checkdir(f, p) == [f EXCEPT !.dirs = @ \cup {d \in Directories : IsPrefix(d, p)}]

\* The pieces write() is given, each with its length.
Written(size, blocks) ==
    [k \in 1 .. Blocks(size) |-> <<blocks[k], IF size - (k - 1) * TBLOCK > TBLOCK THEN TBLOCK ELSE size - (k - 1) * TBLOCK>>]

\* One member made in the directory.
Made(f, m) ==
    IF ~IsPrefix(want, m.path) THEN f
    ELSE CASE m.kind = "dir" -> checkdir(f, m.path)
           [] m.kind = "link" -> link(checkdir(f, m.path), m.to, m.path)
           [] m.kind = "data" -> creat(checkdir(f, m.path), m.path, Written(m.size, m.data))

StartExtract ==
    /\ run = "idle" /\ runs > 0
    /\ run' = "extract"
    /\ mt' = Opened(mt.tape, NBLOCK)
    /\ UNCHANGED <<inode, contents, oflag, want, tapeat, infile, ihead, term, stored, fs, tornend, changes, runs>>

\* doxtract, one member at a time; dotable reads the tape in the same way.
Extract ==
    /\ run = "extract"
    /\ LET head == Read(mt, 1)
           h == head.read[1]
           body == Read(head.m, passtape(h))
       IN  CASE h.b = "empty" -> run' = "done" /\ mt' = head.m /\ UNCHANGED fs
             [] h.b = "head" -> /\ fs' = Made(fs, Stores(h.kind, h.path, h.size, body.read, h.to))
                                /\ mt' = body.m
                                /\ UNCHANGED run
             [] OTHER -> run' = "checksum" /\ mt' = head.m /\ UNCHANGED fs
    /\ UNCHANGED <<inode, contents, oflag, want, tapeat, infile, ihead, term, stored, tornend, changes, runs>>

NewDir == [name |-> [p \in Files |-> NoName], data |-> <<>>, dirs |-> {}]

\* There may be an older archive of the same name.
TarInit ==
    /\ inode \in Inodes
    /\ contents \in [Range(inode) -> {[ver |-> 1, size |-> n] : n \in FileSizes}]
    /\ oflag \in BOOLEAN
    /\ want \in Wanted
    /\ \E tape \in {<<>>, [i \in 1 .. NBLOCK + 1 |-> Junk]} : mt = Opened(tape, NBLOCK)
    /\ run = "idle" /\ tapeat = 1 /\ infile = NoFile /\ ihead = <<>> /\ term = FALSE
    /\ stored = <<>> /\ fs = NewDir /\ tornend = FALSE /\ changes = 0 /\ runs = 0

TarNext ==
    \/ Start \/ Scan \/ PutHeader \/ PutBlock \/ PutEnd \/ EndArchive
    \/ StartExtract \/ Extract \/ Interrupt \/ Change

-----------------------------------------------------------------------------

\* A reader never takes a block of data for a header, whatever changed size
\* while it was stored, whoever interrupted, and whatever the tape held
\* before.  The exception is an append that does not begin at the end mark:
\* backtape steps back too far when the last record was read short, and one
\* block too little when the archive has no member.
ReaderInStep == ~tornend => run # "checksum"

\* What is extracted is what was stored, member by member: creating,
\* appending and extracting may each use records of another length.
ExtractIsStored == run = "done" /\ ~tornend => fs = FoldLeft(Made, NewDir, stored)

\* Nothing changed and nobody interrupted: the files extracted are those
\* there were, with the same links between them.
LinksSurvive ==
    run = "done" /\ ~tornend /\ ~term /\ changes = 0 /\ want = <<>> =>
        \A p, q \in Files :
            /\ fs.name[p] # NoName
            /\ fs.name[p] = fs.name[q] <=> inode[p] = inode[q]
            /\ LET c == contents[inode[p]]
               IN  fs.data[fs.name[p]] =
                     Written(c.size, [k \in 1 .. Blocks(c.size) |-> [b |-> "data", inum |-> inode[p], ver |-> 1, k |-> k]])

\* What one tar writes another reads: member by member, with its links.
TarIsRight == ReaderInStep /\ ExtractIsStored /\ LinksSurvive

=============================================================================
