------------------------------ MODULE TarUpdate ------------------------------
(***************************************************************************)
(* tar u: a file is stored unless the archive has a copy that is as new.   *)
(* The names and times of the archive's members go to a file of lines,     *)
(* which sort and awk order by name, the newest of each name alone;        *)
(* checkupdate looks a name up in it by bisection, reading N bytes at a    *)
(* place and going on from the next line end.  Bytes are their numbers,    *)
(* and a time is one digit.                                                *)
(*                                                                         *)
(* Names have no blank and are short enough for two lines to fit into N    *)
(* bytes; the archive has a member (its first block may not be the end     *)
(* mark).                                                                  *)
(***************************************************************************)
EXTENDS Integers, Sequences
LOCAL INSTANCE SequencesExt
LOCAL INSTANCE FiniteSetsExt

CONSTANTS
    Names,      \* of members and files: sequences of bytes behind `!'
    Times,      \* when files were changed
    Archives,   \* members in the order of the archive: sequences of a name and a time
    ProbeSize   \* N, which is 200

ASSUME UpdateAssumption ==
    /\ \A s \in Names : s # <<>> /\ \A k \in DOMAIN s : s[k] \in 34 .. 126
    /\ Times \subseteq 0 .. 7
    /\ \A a \in Archives : a # <<>> /\ ToSet(a) \subseteq [name : Names, time : Times]
    /\ \A s, t \in Names : Len(s) + Len(t) + 6 <= ProbeSize

VARIABLES
    members,   \* the archive: names and times, in its order
    tfile,     \* the temporary file, sorted
    sought,    \* the name that is looked up, and the time of the file
    lo, hi,    \* the part of tfile that is left
    stackbuf,  \* bsrch's buffer, on its stack: each fread covers the front of it
    hit,       \* what bsrch returns; -1 for none
    njab,      \* probes
    upd,       \* "sort", "search", "found", "answered"
    answer     \* checkupdate's answer

updateVars == <<members, tfile, sought, lo, hi, stackbuf, hit, njab, upd, answer>>

LineEnd == 10
Space == 32
Excl == 33

\* The first line, put there by u: bsrch, which looks behind line ends, cannot see it.
Dummy == <<Excl, Excl, Space, 48, LineEnd>>

\* The table that sort and awk make of the members: by name, the newest of each.
Line(name, time) == name \o <<Space, 48 + time, LineEnd>>

Precedes(s, t) ==
    \/ IsStrictPrefix(s, t)
    \/ \E k \in DOMAIN s \cap DOMAIN t : s[k] < t[k] /\ \A i \in 1 .. k - 1 : s[i] = t[i]

Newest(name) == Max({members[k].time : k \in {i \in DOMAIN members : members[i].name = name}})

Sorted ==
    LET names == {members[k].name : k \in DOMAIN members}
        order == SetToSortSeq(names, Precedes)
    IN  FoldLeft(LAMBDA f, s : f \o Line(s, Newest(s)), Dummy, order)

\* dorep: the first pass over the archive ends with the table.
SortTable ==
    /\ upd = "sort"
    /\ tfile' = Sorted
    /\ hi' = Len(Sorted)
    /\ upd' = "search"
    /\ UNCHANGED <<members, sought, lo, stackbuf, hit, njab, answer>>

\* A name of the line at p of the buffer, against s: -1 when it comes behind s.
cmp(buf, p, s) ==
    LET at(k) == buf[p + k]
        off == {k \in 1 .. Len(s) : at(k) # s[k]}
    IN  IF off # {} THEN (IF at(Min(off)) > s[Min(off)] THEN -1 ELSE 1)
        ELSE IF at(Len(s) + 1) = Space THEN 0 ELSE -1

\* Half a buffer before the middle, so that the buffer holds a line of either half.
Probe(low, high) ==
    LET middle == low + (high - low) \div 2 - ProbeSize \div 2
    IN  IF middle < low THEN low ELSE middle

Fread(buf, at) == [k \in 1 .. ProbeSize |-> IF at + k <= Len(tfile) THEN tfile[at + k] ELSE buf[k]]

\* One turn of bsrch's loop.
bsrch ==
    /\ upd = "search"
    /\ IF lo >= hi
       THEN /\ hit' = -1 /\ upd' = "found"
            /\ UNCHANGED <<lo, hi, stackbuf, njab>>
       ELSE LET at == Probe(lo, hi)
                buf == Fread(stackbuf, at)
                ends == {k \in 1 .. ProbeSize : buf[k] = LineEnd}
                i == Min(ends)                          \* i - 1 of the code
                further == {k \in ends : k > i}
                place == at + i - 1
                next == place + (IF further = {} THEN ProbeSize - i ELSE Min(further) - i)
                order == cmp(buf, i, sought.name)
            IN  /\ stackbuf' = buf /\ njab' = njab + 1
                /\ IF place >= hi
                   THEN hit' = -1 /\ upd' = "found" /\ UNCHANGED <<lo, hi>>
                   ELSE /\ hi' = IF order < 0 THEN place ELSE hi
                        /\ lo' = IF order > 0 THEN next ELSE lo
                        /\ hit' = IF order = 0 THEN place ELSE hit
                        /\ upd' = IF order = 0 THEN "found" ELSE upd
    /\ UNCHANGED <<members, tfile, sought, answer>>

\* The time on the line that begins behind hit.
TimeAt(p) ==
    LET blank == Min({k \in p + 2 .. Len(tfile) : tfile[k] = Space}) IN tfile[blank + 1] - 48

\* checkupdate: at the end of the file fscanf reads nothing, and mtime is anything.
checkupdate ==
    /\ upd = "found"
    /\ upd' = "answered"
    /\ answer' \in IF hit < 0 THEN {TRUE} ELSE IF hit + 1 = Len(tfile) THEN BOOLEAN ELSE {sought.time > TimeAt(hit)}
    /\ UNCHANGED <<members, tfile, sought, lo, hi, stackbuf, hit, njab>>

UpdateInit ==
    /\ members \in Archives
    /\ sought \in [name : Names, time : Times]
    /\ tfile = <<>> /\ lo = 0 /\ hi = 0 /\ stackbuf = [k \in 1 .. ProbeSize |-> 0] /\ hit = -1 /\ njab = 0
    /\ upd = "sort" /\ answer = FALSE

UpdateNext == SortTable \/ bsrch \/ checkupdate

-----------------------------------------------------------------------------

\* A file is stored when the archive has no copy of it or an older one, whichever
\* copies there are and in whichever order; and the search ends, each probe taking
\* at least a byte of the table away.
UpdateIsRight ==
    /\ upd = "answered" =>
          LET copies == {k \in DOMAIN members : members[k].name = sought.name}
          IN  answer = (\A k \in copies : sought.time > members[k].time)
    /\ njab <= Len(tfile)

=============================================================================
