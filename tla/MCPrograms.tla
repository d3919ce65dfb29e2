----------------------------- MODULE MCPrograms -----------------------------
(***************************************************************************)
(* The programs that share nothing, side by side: which of them runs is    *)
(* chosen at the start, and the others stay as they are.  The states are   *)
(* the sum of theirs.                                                      *)
(***************************************************************************)
EXTENDS MCDefrag, Terminal, EscapeParser, Painting, KeyEvents, Tar, TarUpdate, ElfToUniflex, UniflexToElf, Tail, Rcat,
        Arrows, Asteronix

VARIABLE machine

\* The screen: three places of the mouse.
MCPoints == {<<3, 3>>, <<4, 4>>, <<6, 4>>}

\* Characters, two-byte escapes and sequences, with and without numbers.
MCSentences ==
    LET csi(final, mark, params) == [kind |-> "sequence", final |-> final, mark |-> mark, params |-> params]
    IN  {[kind |-> "character", final |-> 97], [kind |-> "escape", final |-> 99], [kind |-> "charset", final |-> 66],
         csi(72, 0, <<>>), csi(72, 0, <<2, 12>>), csi(72, 0, <<-1, 5>>), csi(74, 0, <<>>),
         csi(109, 0, <<>>), csi(109, 0, <<1, 7>>), csi(109, 0, <<27>>),
         csi(104, 63, <<25>>), csi(108, 63, <<25>>), csi(104, 63, <<1049>>), csi(108, 61, <<7>>),
         csi(110, 0, <<6>>), csi(99, 0, <<>>)}

\* tar u: the names a, b, ab, ba, a/b and b/a, each in the archive or not, and the
\* first of them perhaps again, before or behind, changed.
MCNames == {<<97>>, <<98>>, <<97, 98>>, <<98, 97>>, <<97, 47, 98>>, <<98, 47, 97>>}
MCArchives ==
    LET once(s) == [i \in 1 .. Len(s) |-> [name |-> s[i], time |-> 1]]
        again(s) == [name |-> s[1], time |-> 2]
    IN  UNION {{once(s), Append(once(s), again(s)), <<again(s)>> \o once(s)} : s \in {SetToSeq(S) : S \in SUBSET MCNames \ {{}}}}

\* tar: a directory with a file, and another file; the two may be one inode.
MCWalk == << <<"d">>, <<"d", "a">>, <<"b">> >>
MCDirectories == {<<"d">>}
MCInodes == {f \in [{<<"d", "a">>, <<"b">>} -> 1 .. 2] : f[<<"d", "a">>] = 1}
MCWanted == {<<>>, <<"d">>}

\* Objects whose sections are rounded and whose strings may be missing.
MCSizes ==
    {f \in [Sections -> 0 .. 3] :
        /\ f["text"] = 2 /\ f["bss"] = 1
        /\ f["rodata"] \in {0, 1} /\ f["data"] \in {0, 1} /\ f["str"] \in {0, 3}}

\* Executables with text before or behind data, and up to two symbols.
MCProgramFiles ==
    LET syms == [segment : {"TEXT", "DATA", "BSS", "ABS"}, offset : {0}, len : {1, 3}]
    IN  {[textstart |-> t, textsize |-> 3, datastart |-> d, datasize |-> z, bsssize |-> 1,
          symbols |-> y, slack |-> more] :
            t \in {0, 4}, d \in {4, 1}, z \in {0, 2}, more \in {0, 1}, y \in UNION {[1 .. c -> syms] : c \in 0 .. 2}}

\* Compile units with one reference or one symbol.
MCUnits ==
    LET rel == [in : {"TEXT"}, at : {0}, kind : {"TEXT", "DATA", "BSS", "EXT"}, addend : {1}]
               \cup [in : {"DATA"}, at : {0}, kind : {"TEXT", "DATA", "BSS"}, addend : {0}]
        sym == [name : {"f", "g"}, segment : {"TEXT", "BSS"}, offset : {0}]
               \cup [name : {"g"}, segment : {"ABS", "DATA"}, offset : {1}]
    IN  [text : {1, 2}, data : {1}, bss : {1}, relocs : {<<r>> : r \in rel}, symbols : {<<>>}]
        \cup [text : {1}, data : {1, 2}, bss : {1}, relocs : {<<>>}, symbols : {<<>>} \cup {<<s>> : s \in sym}]
MCHash == [f |-> 1, g |-> 2]

files == <<defragVars, tarVars, updateVars, elfVars, uniflexVars, tailVars, rcatVars>>
games == <<arrowsVars, asteronixVars>>
windows == <<terminalVars, escapeVars, paintvars, keyvars>>
programVars == <<machine, files, games, windows>>

\* A program that does not run begins in one of its initial states: for those
\* that have many of them, the one written out here.
TarIdle ==
    /\ inode = [f \in {<<"d", "a">>, <<"b">>} |-> 1] /\ contents = [i \in {1} |-> [ver |-> 1, size |-> 0]]
    /\ oflag = FALSE /\ want = <<>> /\ mt = Opened(<<>>, NBLOCK)
    /\ run = "idle" /\ tapeat = 1 /\ infile = NoFile /\ ihead = <<>> /\ term = FALSE
    /\ stored = <<>> /\ fs = NewDir /\ tornend = FALSE /\ changes = 0 /\ runs = 0

ElfIdle ==
    /\ size = [text |-> 2, bss |-> 1, rodata |-> 0, data |-> 0, str |-> 0]
    /\ symtab = {CHOOSE s \in Symbols : s.section = "none"} /\ rela = {} /\ exportlocals = FALSE
    /\ file = <<>> /\ relocs = <<>> /\ symbols = {} /\ elfstep = "copy"

UniflexIdle ==
    /\ ph = [textstart |-> 0, textsize |-> 3, datastart |-> 4, datasize |-> 0, bsssize |-> 1,
             symbols |-> <<>>, slack |-> 0]
    /\ dataoffset = 0 /\ stringoffset = 1
    /\ sect = <<>> /\ elfsymbols = <<>> /\ toread = 0 /\ written = <<>> /\ step = "headers"

TailIdle ==
    /\ text = <<>> /\ piped = FALSE /\ closed = FALSE
    /\ opt = [n |-> 1, fromend |-> FALSE, by |-> "lines", bkwds |-> FALSE, follow |-> FALSE]
    /\ off = 0 /\ n = Count(opt)
    /\ ring = [bin |-> [p \in 0 .. LBIN - 1 |-> "0"], i |-> 0, partial |-> TRUE]
    /\ k = 0 /\ j = 0 /\ out = <<>> /\ doing = "lines"

EscapesIdle ==
    /\ said = <<>> /\ fed = 0 /\ escseq = <<>> /\ modes = Plain /\ acts = <<>> /\ answers = <<>>
    /\ logs = 0 /\ mixed = FALSE

UpdateIdle ==
    /\ members = <<>> /\ sought = [name |-> <<97>>, time |-> 1]
    /\ tfile = <<>> /\ lo = 0 /\ hi = 0 /\ stackbuf = [i \in 1 .. ProbeSize |-> 0] /\ hit = -1 /\ njab = 0
    /\ upd = "sort" /\ answer = FALSE

RcatIdle ==
    /\ inputs = <<>>
    /\ base = <<>> /\ outph = [text |-> 0, data |-> 0, bss |-> 0]
    /\ outrelocs = <<>> /\ buckets = {} /\ outsymbols = <<>> /\ image = [TEXT |-> <<>>, DATA |-> <<>>]
    /\ unit = 1 /\ catphase = "concat"

ProgramsInit ==
    /\ machine \in {"defrag", "terminal", "escapes", "update", "painting", "keys", "tar", "elf", "uniflex", "tail", "rcat", "arrows", "asteronix"}
    /\ TerminalInit /\ PaintingInit /\ ArrowsInit /\ AsteronixInit
    /\ DefragInit
    /\ machine # "defrag" => disk = Two /\ heap = [before |-> 0, zeros |-> TRUE]
    /\ KeysInit
    /\ machine # "keys" => host = "4404"
    /\ IF machine = "tar" THEN TarInit ELSE TarIdle
    /\ IF machine = "elf" THEN ElfInit ELSE ElfIdle
    /\ IF machine = "uniflex" THEN ElfFileInit ELSE UniflexIdle
    /\ IF machine = "escapes" THEN EscapesInit ELSE EscapesIdle
    /\ IF machine = "update" THEN UpdateInit ELSE UpdateIdle
    /\ IF machine = "tail" THEN TailInit ELSE TailIdle
    /\ IF machine = "rcat" THEN RcatInit ELSE RcatIdle

ProgramsNext ==
    \/ /\ machine = "defrag" /\ DefragNext
       /\ UNCHANGED <<machine, tarVars, elfVars, uniflexVars, tailVars, rcatVars, updateVars, games, windows>>
    \/ /\ machine = "tar" /\ TarNext
       /\ UNCHANGED <<machine, defragVars, elfVars, uniflexVars, tailVars, rcatVars, updateVars, games, windows>>
    \/ /\ machine = "update" /\ UpdateNext
       /\ UNCHANGED <<machine, defragVars, tarVars, elfVars, uniflexVars, tailVars, rcatVars, games, windows>>
    \/ /\ machine = "escapes" /\ EscapesNext
       /\ UNCHANGED <<machine, files, games, terminalVars, paintvars, keyvars>>
    \/ /\ machine = "elf" /\ ElfNext
       /\ UNCHANGED <<machine, defragVars, tarVars, uniflexVars, tailVars, rcatVars, updateVars, games, windows>>
    \/ /\ machine = "uniflex" /\ ElfFileNext
       /\ UNCHANGED <<machine, defragVars, tarVars, elfVars, tailVars, rcatVars, updateVars, games, windows>>
    \/ /\ machine = "tail" /\ TailNext
       /\ UNCHANGED <<machine, defragVars, tarVars, elfVars, uniflexVars, rcatVars, updateVars, games, windows>>
    \/ /\ machine = "rcat" /\ RcatNext
       /\ UNCHANGED <<machine, defragVars, tarVars, elfVars, uniflexVars, tailVars, updateVars, games, windows>>
    \/ /\ machine = "terminal" /\ TerminalNext
       /\ UNCHANGED <<machine, files, games, escapeVars, paintvars, keyvars>>
    \/ /\ machine = "painting" /\ PaintingNext
       /\ UNCHANGED <<machine, files, games, terminalVars, escapeVars, keyvars>>
    \/ /\ machine = "keys" /\ KeysNext
       /\ UNCHANGED <<machine, files, games, terminalVars, escapeVars, paintvars>>
    \/ /\ machine = "arrows" /\ ArrowsNext
       /\ UNCHANGED <<machine, files, asteronixVars, windows>>
    \/ /\ machine = "asteronix" /\ AsteronixNext
       /\ UNCHANGED <<machine, files, arrowsVars, windows>>

ProgramsSpec == ProgramsInit /\ [][ProgramsNext]_programVars

-----------------------------------------------------------------------------

\* The screen follows the buffer, and the buffer what the program said.
TerminalIsRight == ScreenIsTrue /\ SequencesAreRight

\* What is stored is what is extracted, and u stores what is newer.
ArchiveIsRight == TarIsRight /\ UpdateIsRight

=============================================================================
