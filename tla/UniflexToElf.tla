---------------------------- MODULE UniflexToElf ----------------------------
(***************************************************************************)
(* uniflextoelf32: a UniFLEX executable becomes an ELF one, for debuggers  *)
(* and disassemblers.  The headers are written first and say where the     *)
(* contents will be; adddata and addstring hand out the places.            *)
(*                                                                         *)
(* Contents are opaque: a piece of the file is what it holds and its size. *)
(***************************************************************************)
EXTENDS Integers, Sequences

CONSTANTS
    Programs,  \* the executables: textstart, textsize, datastart, datasize, bsssize, symbols, slack
    HeaderLen, \* bytes in what is before the contents of the ELF file
    SymLen,    \* bytes in a symbol's header on the UniFLEX side
    ElfSymLen  \* bytes in an ELF symbol

\* An executable whose symbols, and their names, have room.  What its header says
\* of the size of the symbols may count a byte of padding.
MaxSymbols == 4096
Segments == {"TEXT", "DATA", "BSS", "ABS"}
Symbol == [segment : Segments, offset : Nat, len : Nat \ {0}]
Executable ==
    [textstart : Nat, textsize : Nat, datastart : Nat, datasize : Nat, bsssize : Nat,
     symbols : {s \in Seq(Symbol) : Len(s) < MaxSymbols}, slack : {0, 1}]

ASSUME ConverterAssumption ==
    Programs \subseteq Executable /\ HeaderLen \in Nat /\ SymLen \in Nat \ {0, 1} /\ ElfSymLen \in Nat

VARIABLES
    ph,           \* the executable; its symbols are records of segment, offset and the length of the name
    dataoffset,   \* what adddata has handed out
    stringoffset, \* what addstring has handed out
    sect,         \* the section headers
    elfsymbols,      \* the ELF symbols
    toread,       \* i: where in the symbols the reader is
    written,      \* the pieces of the ELF file in the order they are written
    step

uniflexVars == <<ph, dataoffset, stringoffset, sect, elfsymbols, toread, written, step>>

\* The sum of the first `count' of some sizes.
Total(sizes, count) ==
    LET sum[k \in 0 .. Len(sizes)] == IF k = 0 THEN 0 ELSE sum[k - 1] + sizes[k] IN sum[count]

\* What addstring has handed out when it is asked for a name of this length:
\* names end in a zero, and the first byte is the empty name.
addstring(at, len) == at + len + 1

\* The headers of .text, .data and .bss; bss follows data.
Unsorted ==
    << [name |-> "text", addr |-> ph.textstart, offset |-> HeaderLen, size |-> ph.textsize],
       [name |-> "data", addr |-> ph.datastart, offset |-> HeaderLen + ph.textsize, size |-> ph.datasize],
       [name |-> "bss", addr |-> ph.datastart + ph.datasize, offset |-> 0, size |-> ph.bsssize] >>

\* Program headers and the headers of .text, .data and .bss.
Headers ==
    /\ step = "headers"
    /\ dataoffset' = HeaderLen + ph.textsize + ph.datasize
    /\ stringoffset' = addstring(addstring(addstring(addstring(addstring(stringoffset, 5), 5), 4), 7), 7)
    /\ sect' = Unsorted
    /\ elfsymbols' = <<[name |-> 0, len |-> 0, value |-> 0, shndx |-> 0, type |-> "none"]>>
    /\ written' = <<[piece |-> "headers", size |-> HeaderLen]>>
    /\ step' = "symbols"
    /\ UNCHANGED <<ph, toread>>

\* The bytes of the first symbols, and of all as the header of the file says.
SymbolBytes(count) == Total([k \in 1 .. Len(ph.symbols) |-> SymLen + ph.symbols[k].len], count)
SymbolSize == SymbolBytes(Len(ph.symbols)) + ph.slack

Shndx(segment) == CASE segment = "TEXT" -> 0 [] segment \in {"DATA", "ABS"} -> 1 [] segment = "BSS" -> 2

MoreSymbols == toread < SymbolSize - SymLen

ReadSymbol ==
    /\ step = "symbols" /\ MoreSymbols
    /\ LET s == ph.symbols[Len(elfsymbols)]
       IN  /\ elfsymbols' = Append(elfsymbols,
                 [name |-> stringoffset, len |-> s.len, value |-> s.offset, shndx |-> Shndx(s.segment),
                  type |-> IF s.segment = "TEXT" THEN "func" ELSE "object"])
           /\ stringoffset' = addstring(stringoffset, s.len)
           /\ toread' = toread + SymLen + s.len
    /\ UNCHANGED <<ph, dataoffset, sect, written, step>>

\* A converter that hands out the place of the symbols first.
Tables_Swapped ==
    << [name |-> "strtab", addr |-> 0, offset |-> dataoffset + ElfSymLen * Len(elfsymbols), size |-> stringoffset],
       [name |-> "symtab", addr |-> 0, offset |-> dataoffset, size |-> ElfSymLen * Len(elfsymbols)] >>

Tables ==
    << [name |-> "strtab", addr |-> 0, offset |-> dataoffset, size |-> stringoffset],
       [name |-> "symtab", addr |-> 0, offset |-> dataoffset + stringoffset, size |-> ElfSymLen * Len(elfsymbols)] >>

\* Text, data and bss by their address: the first two are exchanged, and then the
\* last two; when the code tries these once more they are in order.
Exchanged(s, i) == IF s[i].addr > s[i + 1].addr THEN [s EXCEPT ![i] = s[i + 1], ![i + 1] = s[i]] ELSE s
ByAddress(s) == Exchanged(Exchanged(s, 1), 2)

\* The headers of strings and symbols, and the order of the others.
SortSections ==
    /\ step = "symbols" /\ ~MoreSymbols
    /\ sect' = ByAddress(sect) \o Tables
    /\ dataoffset' = dataoffset + stringoffset + ElfSymLen * Len(elfsymbols)
    /\ step' = "contents"
    /\ UNCHANGED <<ph, stringoffset, elfsymbols, toread, written>>

WriteContents ==
    /\ step = "contents"
    /\ written' = written \o << [piece |-> "text", size |-> ph.textsize], [piece |-> "data", size |-> ph.datasize],
                                [piece |-> "strtab", size |-> stringoffset],
                                [piece |-> "symtab", size |-> ElfSymLen * Len(elfsymbols)] >>
    /\ step' = "done"
    /\ UNCHANGED <<ph, dataoffset, stringoffset, sect, elfsymbols, toread>>

ElfFileInit ==
    /\ ph \in Programs
    /\ dataoffset = 0 /\ stringoffset = 1
    /\ sect = <<>> /\ elfsymbols = <<>> /\ toread = 0 /\ written = <<>> /\ step = "headers"

ElfFileNext == Headers \/ ReadSymbol \/ SortSections \/ WriteContents

ElfFileSpec == ElfFileInit /\ [][ElfFileNext]_uniflexVars

-----------------------------------------------------------------------------

\* Where the k-th piece is.
WrittenAt(k) == Total([j \in 1 .. Len(written) |-> written[j].size], k - 1)

\* Each section header, written before its contents and sorted, says where and
\* how long they are; nothing else is in the file.
HeadersAreTrue ==
    step = "done" =>
        /\ \A k \in 2 .. Len(written) :
              \E i \in 1 .. Len(sect) :
                  sect[i].name = written[k].piece /\ sect[i].offset = WrittenAt(k) /\ sect[i].size = written[k].size
        /\ dataoffset = WrittenAt(Len(written) + 1)

Holding == [TEXT |-> "text", DATA |-> "data", BSS |-> "bss"]

\* Every symbol is there, with a name of its own and in the section it is in;
\* symbolsize may count a byte of padding.  The numbers of the sections are those before
\* they are sorted: the data has to be above the text.
SymbolsAreTrue ==
    step = "done" =>
        /\ Len(elfsymbols) = Len(ph.symbols) + 1
        /\ \A i \in 1 .. Len(ph.symbols) :
              LET s == elfsymbols[i + 1]
              IN  /\ s.value = ph.symbols[i].offset
                  /\ ph.datastart > ph.textstart /\ ph.symbols[i].segment # "ABS" =>
                        sect[s.shndx + 1].name = Holding[ph.symbols[i].segment]
                  /\ s.name + s.len < stringoffset
                  /\ \A j \in 2 .. i : elfsymbols[j].name + elfsymbols[j].len < s.name

\* The ELF file describes itself, and names what the executable named.
ElfFileIsRight == HeadersAreTrue /\ SymbolsAreTrue

=============================================================================
