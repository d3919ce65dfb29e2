-------------------------------- MODULE Tail --------------------------------
(***************************************************************************)
(* tail: the end of a file or pipe, kept in a ring of LBIN characters, by  *)
(* lines, by characters, backwards, or from the beginning; with -f what is *)
(* appended afterwards.  Whoever writes the file goes on writing.          *)
(***************************************************************************)
EXTENDS Integers, Sequences
LOCAL INSTANCE SequencesExt
LOCAL INSTANCE FiniteSetsExt

CONSTANTS
    LBIN,      \* characters in the ring
    BUFSIZ,    \* characters in a read from the beginning
    MaxLength, \* bound of the model: characters in a file
    MaxCount   \* bound of the model: n on the command line

ASSUME RingAssumption == LBIN \in Nat \ {0} /\ BUFSIZ \in Nat \ {0}

NL == "nl"
Chars == {"x", NL}

VARIABLES
    text,    \* the file, to which others append
    piped,
    closed,  \* whoever writes the pipe has gone
    opt,     \* the command line
    off,     \* how far tail has read
    n,       \* lines or characters still to pass over
    ring,    \* bin and i, and whether it is partial
    k,       \* where the search for lines is
    j,       \* how many it has found
    out,     \* what has been written
    doing

tailVars == <<text, piped, closed, opt, off, n, ring, k, j, out, doing>>

Options == [n : 0 .. MaxCount, fromend : BOOLEAN, by : {"lines", "chars"}, bkwds : BOOLEAN, follow : BOOLEAN]

\* Some more of the file, as much as is asked for and there.
More(want) == SubSeq(text, off + 1, Min({Len(text), off + want}))

\* At the end of a pipe a read waits until there is more or nobody to write it.
CanRead == ~piped \/ closed \/ off < Len(text)

\* fexit: the file is followed, or the process ends.
Fexit == IF opt.follow /\ ~piped THEN "follow" ELSE "end"

Newlines(s) == Len(SelectSeq(s, LAMBDA c : c = NL))

Grow ==
    /\ Len(text) < MaxLength /\ ~closed
    /\ \E c \in Chars : text' = Append(text, c)
    /\ UNCHANGED <<piped, closed, opt, off, n, ring, k, j, out, doing>>

CloseWriter ==
    /\ piped /\ ~closed
    /\ closed' = TRUE
    /\ UNCHANGED <<text, piped, opt, off, n, ring, k, j, out, doing>>

-----------------------------------------------------------------------------
\* From the beginning

\* One read of lines that are passed over; what is behind them is written.
SkipLines ==
    /\ doing = "lines" /\ n > 0 /\ CanRead
    /\ LET s == More(BUFSIZ)
           last == {p \in 1 .. Len(s) : s[p] = NL /\ Newlines(SubSeq(s, 1, p)) = n}
       IN  /\ off' = off + Len(s)
           /\ n' = IF last = {} THEN n - Newlines(s) ELSE 0
           /\ out' = out \o (IF last = {} THEN <<>> ELSE SubSeq(s, Min(last) + 1, Len(s)))
           /\ doing' = IF s = <<>> THEN Fexit ELSE doing
    /\ UNCHANGED <<text, piped, closed, opt, ring, k, j>>

\* Characters of a pipe are read, those of a file jumped over.
SkipChars ==
    /\ doing = "chars" /\ n > 0
    /\ IF piped
       THEN /\ CanRead
            /\ LET s == More(Min({n, BUFSIZ}))
               IN  off' = off + Len(s) /\ n' = n - Len(s) /\ doing' = IF s = <<>> THEN Fexit ELSE doing
       ELSE off' = n /\ n' = 0 /\ UNCHANGED doing
    /\ UNCHANGED <<text, piped, closed, opt, ring, k, j, out>>

Skipped ==
    /\ doing \in {"lines", "chars"} /\ n = 0
    /\ doing' = "copy"
    /\ UNCHANGED <<text, piped, closed, opt, off, n, ring, k, j, out>>

Copy ==
    /\ doing \in {"copy", "follow"} /\ CanRead
    /\ LET s == More(BUFSIZ)
       IN  /\ off' = off + Len(s) /\ out' = out \o s
           /\ doing' = IF s = <<>> THEN Fexit ELSE doing
    /\ UNCHANGED <<text, piped, closed, opt, n, ring, k, j>>

-----------------------------------------------------------------------------
\* From the end

\* Of a file the beginning is jumped over; characters are then just copied.
Keep ==
    /\ doing = "keep"
    /\ LET di == IF opt.by = "lines" THEN LBIN - 1 ELSE n
       IN  off' = IF n > 0 /\ ~piped /\ Len(text) > di THEN Len(text) - di ELSE off
    /\ doing' = IF n = 0 THEN Fexit ELSE IF piped \/ opt.by = "lines" THEN "fill" ELSE "copy"
    /\ UNCHANGED <<text, piped, closed, opt, n, ring, k, j, out>>

\* A ring that is called full one character late.
RingFilled_Late(r, to) == [r EXCEPT !.i = to % LBIN, !.partial = @ /\ to <= LBIN]

RingFilled(r, to) == [r EXCEPT !.i = to % LBIN, !.partial = @ /\ to < LBIN]

PutChars(r, s) == [r EXCEPT !.bin = [p \in DOMAIN @ |-> IF p \in r.i .. r.i + Len(s) - 1 THEN s[p - r.i + 1] ELSE @[p]]]

\* One read into the ring.
Fill ==
    /\ doing = "fill" /\ CanRead
    /\ LET s == More(LBIN - ring.i)
       IN  /\ off' = off + Len(s)
           /\ ring' = RingFilled(PutChars(ring, s), ring.i + Len(s))
           /\ doing' = IF s = <<>> THEN "brka" ELSE doing
    /\ UNCHANGED <<text, piped, closed, opt, n, k, j, out>>

\* -r puts a newline behind a last line that has none.
Terminated(r) ==
    IF r.bin[IF r.i = 0 THEN LBIN - 1 ELSE r.i - 1] = NL THEN r ELSE RingFilled(PutChars(r, <<NL>>), r.i + 1)

\* brka: the last n characters begin behind k; lines are looked for from i.
Brka ==
    /\ doing = "brka"
    /\ ring' = IF opt.bkwds THEN Terminated(ring) ELSE ring
    /\ k' = IF opt.by = "lines" THEN ring'.i
            ELSE (IF n <= ring.i THEN ring.i - n
                  ELSE IF ring.partial THEN 0
                  ELSE IF n >= LBIN THEN ring.i + 1 ELSE ring.i - n + LBIN) - 1
    /\ doing' = IF opt.by = "lines" THEN "search" ELSE "write"
    /\ UNCHANGED <<text, piped, closed, opt, off, n, j, out>>

\* What is in the ring from a to b, round its end when b is not behind a.
Piece(a, b) == [p \in 1 .. b - a + 1 |-> ring.bin[a + p - 1]]

\* The steps a search makes from a position, in a direction: to a newline, to
\* i, or in a ring that is not full to before the beginning.
At(p) == (p + 2 * LBIN) % LBIN
Stops(from, way) == {d \in 1 .. LBIN : ring.bin[At(from + way * d)] = NL \/ At(from + way * d) = ring.i}
Before == {d \in 1 .. LBIN : ring.partial /\ k - d < 0}

\* The newline before k.  Backwards, the line behind it is written.
Search ==
    /\ doing = "search"
    /\ LET d == Min(Stops(k, 0 - 1) \cup Before)
           to == At(k - d)
           forth == At(to + Min(Stops(to, 1)))
       IN  IF d \in Before
           THEN /\ out' = out \o (IF opt.bkwds THEN Piece(0, k) ELSE <<>>)
                /\ doing' = IF opt.bkwds THEN "end" ELSE "write"
                /\ k' = 0 - 1
                /\ UNCHANGED j
           ELSE /\ out' = out \o (IF ~opt.bkwds \/ j = 0 THEN <<>>
                                  ELSE IF to < k THEN Piece(to + 1, k) ELSE Piece(to + 1, LBIN - 1) \o Piece(0, k))
                /\ j' = j + 1
                /\ IF j < n /\ to # ring.i
                   THEN k' = to /\ UNCHANGED doing
                   ELSE /\ doing' = IF opt.bkwds THEN "end" ELSE "write"
                        /\ k' = IF to = ring.i THEN forth ELSE to
    /\ UNCHANGED <<text, piped, closed, opt, off, n, ring>>

WriteRing ==
    /\ doing = "write"
    /\ out' = out \o (IF k < ring.i THEN Piece(k + 1, ring.i - 1) ELSE Piece(k + 1, LBIN - 1) \o Piece(0, ring.i - 1))
    /\ doing' = Fexit
    /\ UNCHANGED <<text, piped, closed, opt, off, n, ring, k, j>>

-----------------------------------------------------------------------------

\* +n begins with the nth.
Count(o) == IF ~o.fromend /\ o.n > 0 THEN o.n - 1 ELSE o.n

\* -r is by lines, from the end, and does not follow.
TailInit ==
    /\ text \in UNION {[1 .. m -> Chars] : m \in 0 .. MaxLength}
    /\ piped \in BOOLEAN /\ closed = FALSE
    /\ opt \in {o \in Options : o.bkwds => o.fromend /\ o.by = "lines" /\ ~o.follow}
    /\ off = 0 /\ n = Count(opt)
    /\ ring = [bin |-> [p \in 0 .. LBIN - 1 |-> "0"], i |-> 0, partial |-> TRUE]
    /\ k = 0 /\ j = 0 /\ out = <<>>
    /\ doing = IF opt.fromend THEN "keep" ELSE opt.by

TailNext ==
    \/ Grow \/ CloseWriter
    \/ SkipLines \/ SkipChars \/ Skipped \/ Copy
    \/ Keep \/ Fill \/ Brka \/ Search \/ WriteRing

-----------------------------------------------------------------------------

Seen == SubSeq(text, 1, off)

\* The last m lines, and what is behind the last newline.
LastLines(m) ==
    LET ends == {p \in 1 .. off : text[p] = NL /\ Newlines(SubSeq(text, p, off)) = m + 1}
    IN  IF ends = {} THEN Seen ELSE SubSeq(text, Max(ends) + 1, off)

\* What is written is always the end of what was read, nothing missing,
\* doubled or out of order, however often the ring went round and whatever was
\* appended meanwhile or is followed; and it is the n lines or characters asked
\* for, when they and a newline before them are in the ring.
TheEndOfTheFile ==
    opt.fromend /\ ~opt.bkwds /\ doing \in {"end", "follow"} /\ n > 0 =>
        /\ IsSuffix(out, Seen)
        /\ doing = "end" /\ opt.by = "lines" /\ Len(LastLines(n)) < LBIN - 1 => out = LastLines(n)
        /\ piped /\ opt.by = "chars" /\ n < LBIN => Len(out) = Min({n, off})

\* The lines of a file that fits in the ring, the last one first.
RECURSIVE Reversed(_, _)
Reversed(s, m) ==
    IF s = <<>> \/ m = 0 THEN <<>>
    ELSE LET ends == {p \in 1 .. Len(s) - 1 : s[p] = NL}
             end == IF ends = {} THEN 0 ELSE Max(ends)
         IN  SubSeq(s, end + 1, Len(s)) \o Reversed(SubSeq(s, 1, end), m - 1)

TheLinesBackwards ==
    opt.bkwds /\ doing = "end" /\ n > 0 /\ off \in 1 .. LBIN - 2 =>
        out = Reversed(IF Last(Seen) = NL THEN Seen ELSE Append(Seen, NL), n)

\* +n: everything from the nth line or character on; what is appended to a file
\* that has less is all followed.
TheRest ==
    ~opt.fromend /\ doing \in {"end", "follow"} =>
        LET ends == {p \in 1 .. off : text[p] = NL /\ Newlines(SubSeq(text, 1, p)) = opt.n - 1}
            from == IF opt.n <= 1 THEN 0 ELSE IF opt.by = "chars" THEN opt.n - 1 ELSE IF ends = {} THEN off ELSE Min(ends)
        IN  /\ opt.by = "lines" => IsSuffix(out, Seen)
            /\ doing = "end" => out = SubSeq(text, from + 1, off)

\* What tail prints is the end, the lines backwards, or the rest it was asked for.
TailIsRight == TheEndOfTheFile /\ TheLinesBackwards /\ TheRest

=============================================================================
