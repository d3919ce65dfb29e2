------------------------------- MODULE Defrag -------------------------------
(***************************************************************************)
(* The disk defragmenter: it follows every file's blocks into a map of the *)
(* used ones, looks for files that are spread over far cylinders, and for  *)
(* each of them finds a run of free blocks and moves it there in the map.  *)
(* The device is open for reading only, so no block of the disk changes.   *)
(***************************************************************************)
EXTENDS Integers, FiniteSets, SequencesExt

CONSTANTS
    Disks,          \* the disks looked at (see Fdn and Children below)
    FMSZ, SMSZ,     \* direct blocks of a file, addresses in an indirect block
    MinVld, MaxVld, \* the data blocks
    LastBlk,        \* the block behind the swap space, or behind the data
    Bits,           \* blocks in a byte of the map
    Word,           \* 2^16: fdlayout keeps block addresses as USHORT
    MaxLayout,      \* and as many of them
    CylBlocks, MaxCylinders, MaxExtra, MaxSeek    \* what counts as spread

ASSUME DefragAssumption ==
    /\ {FMSZ, SMSZ, MinVld, MaxVld, LastBlk, Bits, Word, MaxLayout, CylBlocks} \subseteq Nat \ {0}
    /\ MinVld <= MaxVld /\ MaxVld < LastBlk

VARIABLES
    disk,       \* the disk: it does not change
    heap,       \* what lies before and behind mapbuf
    used,       \* the bits set in mapbuf, counted from minvld
    errors,     \* dups_cnt + oors_cnt
    candidates, \* fdns of the files to move
    place,      \* history: the blocks the map holds for each file
    wrong,      \* "findcontiguous wrong"
    phase,      \* "map", "enum", "move" or "done"
    at          \* the next fdn, then the next candidate

defragVars == <<disk, heap, used, errors, candidates, place, wrong, phase, at>>

-----------------------------------------------------------------------------
\* Following the blocks of a file.  A disk has fdns with 3 + FMSZ addresses
\* each, indirect blocks (addresses at an address), blocks that cannot be read
\* and directories (the fdns a directory names, in order).

NoBlocks == [addrs |-> <<>>, data |-> <<>>, oor |-> 0, stop |-> FALSE]

Valid(b) == b \in MinVld .. MaxVld

mapblock(r, b) ==
    IF Valid(b) THEN [r EXCEPT !.addrs = Append(@, b), !.data = Append(@, b)]
    ELSE [r EXCEPT !.oor = @ + 1]

mapindirectblock(r, b) ==
    IF Valid(b) THEN [r EXCEPT !.addrs = Append(@, b)]
    ELSE [r EXCEPT !.oor = @ + 1, !.stop = TRUE]

\* An indirect block: itself, and what `each' makes of its addresses.
Indirect(d, r, b, each(_, _)) ==
    LET q == mapindirectblock(r, b)
    IN  IF q.stop \/ b \in d.unreadable THEN q ELSE FoldLeft(each, q, d.indirect[b])

\* Addresses of indirect blocks are checked against maxvld only.
Checked(r, b, follow(_, _)) ==
    IF r.stop \/ b = 0 THEN r
    ELSE IF b > MaxVld THEN [r EXCEPT !.oor = @ + 1]
    ELSE follow(r, b)

do_sind(d, r, b) ==
    Indirect(d, r, b, LAMBDA q, x : IF x = 0 THEN q ELSE mapblock(q, x))
do_dind(d, r, b) ==
    Indirect(d, r, b, LAMBDA q, x : Checked(q, x, LAMBDA s, y : do_sind(d, s, y)))
do_tind(d, r, b) ==
    Indirect(d, r, b, LAMBDA q, x : Checked(q, x, LAMBDA s, y : do_dind(d, s, y)))

mark_in_map(d, fdn) ==
    LET blk == d.fdns[fdn].blk
        direct == FoldLeft(LAMBDA q, x : IF x = 0 THEN q ELSE mapblock(q, x), NoBlocks, SubSeq(blk, 1, FMSZ))
        single == Checked(direct, blk[FMSZ + 1], LAMBDA s, y : do_sind(d, s, y))
        double == Checked(single, blk[FMSZ + 2], LAMBDA s, y : do_dind(d, s, y))
    IN  Checked(double, blk[FMSZ + 3], LAMBDA s, y : do_tind(d, s, y))

\* currfdlayout.blocks: as many as fit, 16 bits of each.
Layout(d, fdn) ==
    LET a == mark_in_map(d, fdn).addrs
    IN  [i \in 1 .. (IF Len(a) < MaxLayout THEN Len(a) ELSE MaxLayout) |-> a[i] % Word]

-----------------------------------------------------------------------------
\* gfblks: the blocks of an open file one at a time.  n is nxtblk; the state
\* also has the indirect block that was read last.
BgTmsz == SMSZ * SMSZ + SMSZ + FMSZ

\* The first block of addresses from n on that is not missing in the double
\* indirect block; BgTmsz if there is none.
NextSingle(d, blk, n) ==
    LET skip[k \in Nat] ==
            IF k >= BgTmsz \/ d.indirect[blk[FMSZ + 2]][((k - FMSZ - SMSZ) \div SMSZ) + 1] # 0 THEN k
            ELSE skip[k + SMSZ]
    IN  IF blk[FMSZ + 2] = 0 THEN BgTmsz ELSE skip[n]

\* All blocks gfblks returns from nxtblk = n on, up to the end of the file.
gfblks(d, blk) ==
    LET from[n \in Nat] ==
            IF n < FMSZ THEN (IF blk[n + 1] = 0 THEN <<>> ELSE <<blk[n + 1]>>) \o from[n + 1]
            ELSE IF n = FMSZ /\ blk[FMSZ + 1] = 0 THEN from[n + SMSZ]
            ELSE LET m == IF n > FMSZ /\ (n - FMSZ) % SMSZ = 0 /\ n < BgTmsz
                          THEN NextSingle(d, blk, n) ELSE n
                     table == IF m < FMSZ + SMSZ THEN blk[FMSZ + 1]
                              ELSE d.indirect[blk[FMSZ + 2]][((m - FMSZ - SMSZ) \div SMSZ) + 1]
                     b == d.indirect[table][((m - FMSZ) % SMSZ) + 1]
                 IN  IF m >= BgTmsz THEN <<>> ELSE (IF b = 0 THEN <<>> ELSE <<b>>) \o from[m + 1]
    IN  from[0]

-----------------------------------------------------------------------------
\* The map.

mapsize == LastBlk \div Bits

\* A byte of the map is not zero; behind its end are bytes of the heap.
InUse(p) ==
    \/ p >= mapsize /\ ~heap.zeros
    \/ \E k \in p * Bits .. p * Bits + Bits - 1 : k \in used

\* Free blocks at the end of the byte before p.
FreeBefore(p) ==
    IF p = 0 THEN heap.before
    ELSE LET taken == {k \in 0 .. Bits - 1 : p * Bits - 1 - k \in used}
         IN  IF taken = {} THEN 0 ELSE Min(taken)

\* Rounded down, and so a byte too short.
findcontiguous_Short(n) ==
    LET scan[p \in Nat] ==
            LET taken == {j \in 0 .. (n \div Bits) - 1 : InUse(p + j)}
            IN  IF p >= mapsize THEN 0
                ELSE IF taken = {} THEN MinVld + p * Bits - FreeBefore(p)
                ELSE scan[p + Max(taken) + 1]
    IN  scan[0]

\* The address of a run of free bytes with n blocks, packed to what is in use
\* before it; 0 if there is none.
findcontiguous(n) ==
    LET scan[p \in Nat] ==
            LET taken == {j \in 0 .. ((n + Bits - 1) \div Bits) - 1 : InUse(p + j)}
            IN  IF p >= mapsize THEN 0
                ELSE IF taken = {} THEN MinVld + p * Bits - FreeBefore(p)
                ELSE scan[p + Max(taken) + 1]
    IN  scan[0]

BitOf(b) == b - MinVld

-----------------------------------------------------------------------------

DefragInit ==
    /\ disk \in Disks
    /\ heap \in [before : {0, Bits - 1}, zeros : BOOLEAN]
    /\ used = {} /\ errors = 0 /\ candidates = <<>>
    /\ place = [f \in DOMAIN disk.fdns |-> {}]
    /\ wrong = FALSE /\ phase = "map" /\ at = 1

\* builds_fdns_map, for one fdn: a block that is already in the map is a dup.
MapFdn ==
    /\ phase = "map" /\ at <= Len(disk.fdns)
    /\ at' = at + 1
    /\ IF disk.fdns[at].type \notin {"reg", "dir"} THEN UNCHANGED <<used, errors, place>>
       ELSE LET r == mark_in_map(disk, at)
                bits == {BitOf(b) : b \in Range(r.addrs)}
            IN  /\ used' = used \cup bits
                /\ errors' = errors + r.oor + Len(r.addrs) - Cardinality(bits \ used)
                /\ place' = [place EXCEPT ![at] = Range(r.addrs)]
    /\ UNCHANGED <<disk, heap, candidates, wrong, phase>>

\* The disk is not sound: nothing is done.
GiveUp ==
    /\ phase = "map" /\ at > Len(disk.fdns) /\ errors > 0
    /\ phase' = "done"
    /\ UNCHANGED <<disk, heap, used, errors, candidates, place, wrong, at>>

\* Cylinders of a file in the order of their first use, as many as are kept.
Cylinders(d, fdn) ==
    FoldLeft(LAMBDA c, b : IF b \div CylBlocks \in Range(c) \/ Len(c) = MaxCylinders THEN c
                           ELSE Append(c, b \div CylBlocks),
             <<>>, mark_in_map(d, fdn).data)

Spread(d, fdn) ==
    LET c == Cylinders(d, fdn)
    IN  \/ Len(c) - d.fdns[fdn].best > MaxExtra
        \/ \E k \in 2 .. Len(c) : c[k] - c[k - 1] > MaxSeek \/ c[k - 1] - c[k] > MaxSeek

\* Only an executable counts as a file that does not grow.
Worthwhile(d, fdn) == d.fdns[fdn].exec /\ Spread(d, fdn) /\ d.fdns[fdn].big

\* enum_files: regular files in the order a walk of the directories meets
\* them, once for each of their names.
enum_files(d, dir) ==
    LET below[f \in DOMAIN d.fdns] ==
            IF d.fdns[f].type = "reg" THEN <<f>>
            ELSE IF d.fdns[f].type # "dir" THEN <<>>
            ELSE FlattenSeq([i \in DOMAIN d.children[f] |-> below[d.children[f][i]]])
    IN  below[dir]

\* do_defrag up to its loop over the candidates; the swap space is marked, too.
Enumerate ==
    /\ phase = "map" /\ at > Len(disk.fdns) /\ errors = 0
    /\ candidates' = SelectSeq(enum_files(disk, 1), LAMBDA f : Worthwhile(disk, f))
    /\ used' = used \cup {BitOf(b) : b \in disk.swap}
    /\ phase' = "move" /\ at' = 1
    /\ UNCHANGED <<disk, heap, errors, place, wrong>>

Taken(addr, n) == {BitOf(addr + j) : j \in 0 .. n - 1}

\* One candidate: its blocks are freed in the map and the run is taken.  The
\* copy reads block i of the candidate each time (i counts candidates) and
\* writes to a device that is open for reading: nothing of it shows on the disk.
Move ==
    /\ phase = "move" /\ at <= Len(candidates)
    /\ LET f == candidates[at]
           old == Layout(disk, f)
           new == findcontiguous(Len(old))
           freed == used \ {BitOf(b) : b \in Range(old)}
       IN  IF new = 0 THEN UNCHANGED <<used, place, wrong>>
           ELSE /\ used' = freed \cup Taken(new, Len(old))
                /\ wrong' = (wrong \/ freed \cap Taken(new, Len(old)) # {})
                /\ place' = [place EXCEPT ![f] = new .. new + Len(old) - 1]
    /\ at' = at + 1
    /\ UNCHANGED <<disk, heap, errors, candidates, phase>>

Done ==
    /\ phase = "move" /\ at > Len(candidates)
    /\ phase' = "done"
    /\ UNCHANGED <<disk, heap, used, errors, candidates, place, wrong, at>>

DefragNext == MapFdn \/ GiveUp \/ Enumerate \/ Move \/ Done

-----------------------------------------------------------------------------

\* The message "findcontiguous wrong" is never printed: a run that is found is
\* free, whatever lies around the map.
FoundIsFree == ~wrong

\* Addresses that fit in a USHORT and files that fit in the layout.
Fits(d) ==
    \A f \in DOMAIN d.fdns : LET a == mark_in_map(d, f).addrs
                             IN  Len(a) <= MaxLayout /\ \A b \in Range(a) : b < Word

\* While files are moved the map stays true: what it holds is the blocks of
\* the files and of the swap space, and no block is held for two files - on a
\* disk where no candidate has two names and no address is cut off.
MapIsTrue ==
    (phase = "move" /\ IsInjective(candidates) /\ Fits(disk)) =>
        /\ used = {BitOf(b) : b \in disk.swap \cup UNION Range(place)}
        /\ \A f, g \in DOMAIN place : f # g => place[f] \cap place[g] = {}

\* The two ways to read a file's blocks agree: on a disk without errors gfblks
\* returns the data blocks mark_in_map meets, in the same order.
BlocksAgree ==
    (phase = "move" /\ disk.unreadable = {}) =>
        \A f \in DOMAIN disk.fdns :
            (disk.fdns[f].type \in {"reg", "dir"} /\ disk.fdns[f].blk[FMSZ + 3] = 0) => gfblks(disk, disk.fdns[f].blk) = mark_in_map(disk, f).data

\* The moves keep the disk: the runs found are free, the map is that of the
\* blocks in use, and the two walks along a file's blocks agree.
DefragIsRight == FoundIsFree /\ MapIsTrue /\ BlocksAgree

=============================================================================
