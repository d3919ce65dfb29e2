---------------------------- MODULE EscapeParser ----------------------------
(***************************************************************************)
(* How VToutput takes control sequences apart.  A program writes them to   *)
(* its pty, the window manager reads what is there, cut anywhere, and      *)
(* between two reads it may write a line of its own to the console         *)
(* (WindowLog).  Bytes are their numbers; what a sequence does to the      *)
(* buffer is Terminal's.                                                   *)
(*                                                                         *)
(* Programs end their sequences, in 15 bytes, and put no other control     *)
(* character in them.  Focus reports are left out: WindowTop calls VTfocus *)
(* and VTblur with the structure where they expect its address.            *)
(***************************************************************************)
EXTENDS Integers, Sequences
LOCAL INSTANCE SequencesExt
LOCAL INSTANCE FiniteSetsExt

CONSTANTS
    Sentences,   \* what a program may say, see Said
    MaxSentences,
    Longest,     \* the most bytes of one read that have to be told apart
    MaxLogs      \* bound of the model: lines of the window manager

VARIABLES
    said,      \* what the program says, sentences of Sentences
    fed,       \* the bytes of it that were read
    escseq,    \* vt->escseq up to vt->state
    modes,     \* style, hidecursor, wrapping
    acts,      \* history: what VToutput did
    answers,   \* what it wrote to the program
    logs,      \* lines written by the window manager
    mixed      \* history: one of them came in the middle of a sequence

escapeVars == <<said, fed, escseq, modes, acts, answers, logs, mixed>>

ESC == 27
Digit == 48 .. 57
Printing == 32 .. 126
Controls == {8, 9, 10, 12, 13}
Semicolon == 59
Bracket == 91

-----------------------------------------------------------------------------
\* VToutput

\* The number at the front of msg: four digits at most, and defval for none or zero.
asciinum(msg, defval) ==
    LET leading == Max({n \in 0 .. 4 : n <= Len(msg) /\ \A k \in 1 .. n : msg[k] \in Digit})
        value == FoldLeft(LAMBDA i, c : 10 * i + c - 48, 0, SubSeq(msg, 1, leading))
    IN  IF value = 0 THEN defval ELSE value

\* The number behind the first semicolon, which is among the first eight and
\* before any letter.
asciinum2(msg, defval) ==
    LET marks == {n \in 1 .. 8 : n <= Len(msg) /\ (msg[n] = Semicolon \/ msg[n] >= 64)}
        first == Min(marks)
    IN  IF marks = {} \/ msg[first] # Semicolon THEN defval
        ELSE asciinum(SubSeq(msg, first + 1, Len(msg)), defval)

\* VTsetstyle
VTsetstyle(style, i) ==
    CASE i = 0 -> {}
      [] i = 1 -> style \cup {"bold"}
      [] i = 21 -> style \ {"bold"}
      [] i = 7 -> style \cup {"inverted"}
      [] i = 27 -> style \ {"inverted"}
      [] OTHER -> style

\* One thing done: the final byte, whether its parameters are private, and the two
\* numbers that are looked at.
Act(final, mark, i, j) == [final |-> final, mark |-> mark, i |-> i, j |-> j]

\* The final bytes that take a second number: H, f, m, r, t; and J, K, m, for which
\* no number is 0.
TwoNumbers == {72, 102, 109, 114, 116}
ZeroForNone == {74, 75, 109}

\* The case of a final byte c; h and l look behind a `?' or a `='.
Sequence(v, c) ==
    LET msg == SubSeq(v.escseq, 3, Len(v.escseq))
        none == IF c \in ZeroForNone THEN 0 ELSE 1
        mark == IF c \in {104, 108} /\ msg[1] \in {63, 61} THEN msg[1] ELSE 0
        rest == IF mark = 0 THEN msg ELSE Tail(msg)
        i == asciinum(rest, none)
        j == IF c \in TwoNumbers THEN asciinum2(msg, none) ELSE 0
        second == c = 109 /\ Semicolon \in ToSet(msg)
        styled == IF second THEN VTsetstyle(VTsetstyle(v.modes.style, i), j) ELSE VTsetstyle(v.modes.style, i)
        on == c = 104
    IN  [v EXCEPT
            !.escseq = <<>>,
            !.acts = Append(@, Act(c, mark, i, j)),
            !.modes.style = IF c = 109 THEN styled ELSE @,
            !.modes.wrapping = IF mark # 0 /\ i = 7 THEN on ELSE @,
            !.modes.hidecursor = IF mark = 63 /\ i = 25 THEN ~on ELSE @,
            !.answers = IF c = 99 THEN Append(@, "VT100")
                        ELSE IF c = 110 THEN Append(@, CASE i = 5 -> "status" [] i = 6 -> "cursor" [] OTHER -> "empty")
                        ELSE @]

Plain == [style |-> {}, hidecursor |-> FALSE, wrapping |-> FALSE]

\* TwoNumbers bytes; ESC c resets.
Escape(v, c) ==
    [v EXCEPT !.escseq = <<>>, !.acts = Append(@, Act(c, ESC, 0, 0)),
              !.modes = IF c = 99 THEN Plain ELSE @]

\* A byte while a sequence is open.
Collect(v, c) ==
    LET more == [v EXCEPT !.escseq = Append(@, c)]
        second == more.escseq[2]
    IN  IF second = Bracket
        THEN IF c \in 64 .. 126 /\ Len(more.escseq) > 2 THEN Sequence(more, c) ELSE more
        ELSE IF second \in {40, 41}
        THEN IF c \in {48, 65, 66} THEN [more EXCEPT !.escseq = <<>>] ELSE more
        ELSE Escape(more, c)

OutputByte(v, c) ==
    IF v.escseq # <<>> THEN Collect(v, c)
    ELSE IF c = ESC THEN [v EXCEPT !.escseq = <<c>>]
    ELSE IF c \in Printing \cup Controls THEN [v EXCEPT !.acts = Append(@, Act(c, 0, 0, 0))]
    ELSE v

VToutput(v, bytes) == FoldLeft(OutputByte, v, bytes)

-----------------------------------------------------------------------------
\* The program: a sentence is a character, two bytes, a character set, or a
\* sequence with its mark (0 for none) and its parameters, -1 where one is left out.

Digits[k \in Nat] == IF k < 10 THEN <<48 + k>> ELSE Append(Digits[k \div 10], 48 + (k % 10))

Parameters(ps) ==
    LET one(p) == IF p < 0 THEN <<>> ELSE Digits[p]
    IN  IF ps = <<>> THEN <<>>
        ELSE FoldLeft(LAMBDA s, p : s \o <<Semicolon>> \o one(p), one(ps[1]), Tail(ps))

Said(s) ==
    CASE s.kind = "character" -> <<s.final>>
      [] s.kind = "escape" -> <<ESC, s.final>>
      [] s.kind = "charset" -> <<ESC, 40, s.final>>
      [] s.kind = "sequence" -> <<ESC, Bracket>> \o (IF s.mark = 0 THEN <<>> ELSE <<s.mark>>)
                                \o Parameters(s.params) \o <<s.final>>

Stream == FoldLeft(LAMBDA b, s : b \o Said(s), <<>>, said)

View == [escseq |-> escseq, modes |-> modes, acts |-> acts, answers |-> answers]

Becomes(v) == escseq' = v.escseq /\ modes' = v.modes /\ acts' = v.acts /\ answers' = v.answers

EscapesInit ==
    /\ said \in UNION {[1 .. n -> Sentences] : n \in 1 .. MaxSentences}
    /\ fed = 0 /\ escseq = <<>>
    /\ modes = Plain
    /\ acts = <<>> /\ answers = <<>>
    /\ logs = 0 /\ mixed = FALSE

\* The main loop reads what is there and hands it to WindowOutput.
ReadPty ==
    /\ \E n \in 1 .. Longest :
          /\ fed + n <= Len(Stream)
          /\ fed' = fed + n
          /\ Becomes(VToutput(View, SubSeq(Stream, fed + 1, fed + n)))
    /\ UNCHANGED <<said, logs, mixed>>

\* WindowLog: a word in the console.
WindowLog ==
    /\ logs < MaxLogs
    /\ logs' = logs + 1
    /\ mixed' = (mixed \/ escseq # <<>>)
    /\ Becomes(VToutput(View, <<87, 10>>))
    /\ UNCHANGED <<said, fed>>

EscapesNext == ReadPty \/ WindowLog

-----------------------------------------------------------------------------
\* What the program meant.

\* A parameter, or its default: 0 is no number.
Parameter(s, k) ==
    LET p == IF k > Len(s.params) THEN 0 ELSE s.params[k]
    IN  IF p > 0 THEN p ELSE IF s.final \in ZeroForNone THEN 0 ELSE 1

Meant(s) ==
    CASE s.kind = "character" -> <<Act(s.final, 0, 0, 0)>>
      [] s.kind = "escape" -> <<Act(s.final, ESC, 0, 0)>>
      [] s.kind = "charset" -> <<>>
      [] s.kind = "sequence" -> <<Act(s.final, s.mark, Parameter(s, 1), IF s.final \in TwoNumbers THEN Parameter(s, 2) ELSE 0)>>

\* The sentences whose last byte is among the first n bytes.
Whole(n) ==
    LET ends == {k \in 0 .. Len(said) : Len(FoldLeft(LAMBDA b, s : b \o Said(s), <<>>, SubSeq(said, 1, k))) <= n}
    IN  SubSeq(said, 1, Max(ends))

\* What was said since the last reset, the
\* attributes that leaves set, one at a time, and whether the cursor is hidden.
Since(ss) ==
    LET resets == {k \in DOMAIN ss : ss[k].kind = "escape" /\ ss[k].final = 99}
    IN  SubSeq(ss, Max(resets \cup {0}) + 1, Len(ss))
Styled(ss) ==
    LET all == FoldLeft(LAMBDA ps, s : IF s.kind = "sequence" /\ s.final = 109
                                       THEN ps \o (IF s.params = <<>> THEN <<0>> ELSE s.params) ELSE ps, <<>>, ss)
    IN  FoldLeft(VTsetstyle, {}, all)
Hidden(ss) ==
    LET set == SelectSeq(ss, LAMBDA s : s.kind = "sequence" /\ s.mark = 63 /\ s.params = <<25>>)
    IN  set # <<>> /\ Last(set).final = 108

\* However its output is cut into reads, a program's sequences do what it said, with
\* the numbers it gave, each once and in order; the attributes and the cursor
\* are as it set them last, and each question is answered - unless the window manager wrote into the
\* middle of a sequence.
SequencesAreRight ==
    mixed \/
    LET whole == Whole(fed)
        own == SelectSeq(acts, LAMBDA a : a.final \notin {87, 10})
        questions == SelectSeq(whole, LAMBDA s : s.kind = "sequence" /\ s.final \in {99, 110})
        since == Since(whole)
    IN  /\ own = FoldLeft(LAMBDA b, s : b \o Meant(s), <<>>, whole)
        /\ modes.style = Styled(since) /\ modes.hidecursor = Hidden(since)
        /\ Len(answers) = Len(questions)
        /\ fed = Len(Stream) => escseq = <<>>

=============================================================================
