---------------------------- MODULE ElfToUniflex ----------------------------
(***************************************************************************)
(* elf32touniflex: an ELF object becomes a UniFLEX one.  UniFLEX has three *)
(* segments, so .rodata.str1.1 and .rodata go behind .data, and what       *)
(* refers to them moves; its relocation records have no addend, so the     *)
(* addend goes into the contents.                                          *)
(*                                                                         *)
(* One unit of an offset is a slot that holds a reference.  Left out:      *)
(* comment, name, absolute symbols, objects without .data, other kinds of  *)
(* relocation.                                                             *)
(***************************************************************************)
EXTENDS Naturals, Sequences
LOCAL INSTANCE SequencesExt
LOCAL INSTANCE FiniteSets

CONSTANTS
    Sizes,    \* what sections' sizes may be: functions from Sections to numbers
    Addends,  \* what may be added to a reference
    MaxRelas  \* bound of the model: references in an object

Sections == {"text", "data", "str", "rodata", "bss"}

VARIABLES
    size,         \* the sections of the object
    rela,         \* its references: at offset `at' of section `in', to `to' plus addend
    symtab,       \* its symbols
    exportlocals, \* -l
    file,         \* what has been written behind the header: text and data
    relocs,       \* the records written
    symbols,      \* the symbols written
    elfstep

elfVars == <<size, rela, symtab, exportlocals, file, relocs, symbols, elfstep>>

Even(n) == n + (n % 2)

\* Sections that end up in the data segment are rounded.
Rounded(s) == IF s \in {"data", "str", "rodata"} THEN Even(size[s]) ELSE size[s]

Segment(to) ==
    CASE to = "text" -> "TEXT" [] to = "bss" -> "BSS" [] to \in {"data", "str", "rodata"} -> "DATA" [] OTHER -> "EXT"

\* text, data, str, rodata one behind another; what will be filled in is 0.
CopySections ==
    /\ elfstep = "copy"
    /\ file' = [i \in 1 .. Rounded("text") + Rounded("data") + Rounded("str") + Rounded("rodata") |-> 0]
    /\ elfstep' = "text"
    /\ UNCHANGED <<size, rela, symtab, exportlocals, relocs, symbols>>

fixup_rodata_offset(rs, target, dataoffset) ==
    [i \in DOMAIN rs |-> IF rs[i].to = target THEN [rs[i] EXCEPT !.addend = @ + dataoffset] ELSE rs[i]]

\* A converter that takes .rodata to be right behind .data.
RodataOffset_NoStr == Rounded("data")

RodataOffset == Rounded("data") + Rounded("str")

Fixed(rs) == fixup_rodata_offset(fixup_rodata_offset(rs, "str", Rounded("data")), "rodata", RodataOffset)

Record(in, r) == [in |-> Segment(in), offset |-> r.at, kind |-> Segment(r.to)]

\* The addend goes where the reference is, as far as this is known.
Patched(f, r, sectionbase) ==
    IF r.addend = 0 THEN f ELSE [f EXCEPT ![sectionbase + r.at + 1] = @ + r.addend]

SectionBase(in) ==
    CASE in = "text" -> 0 [] in = "data" -> Rounded("text") [] in = "rodata" -> Rounded("text") + Rounded("data")

\* One of the .rela sections: fixed, sorted, emitted.
emitreloc(in, next) ==
    /\ elfstep = in
    /\ LET rs == SortSeq(Fixed(SetToSeq({r \in rela : r.in = in})), LAMBDA r, q : r.at < q.at)
       IN  /\ relocs' = relocs \o [i \in DOMAIN rs |-> Record(in, rs[i])]
           /\ file' = FoldLeft(LAMBDA f, r : Patched(f, r, SectionBase(in)), file, rs)
    /\ elfstep' = next
    /\ UNCHANGED <<size, rela, symtab, exportlocals, symbols>>

\* The records of all three in ascending order.
SortRecords ==
    /\ elfstep = "sort"
    /\ relocs' = SortSeq(relocs, LAMBDA r, q : r.offset < q.offset)
    /\ elfstep' = "symbols"
    /\ UNCHANGED <<size, rela, symtab, exportlocals, file, symbols>>

SymbolOffset(s) == s.value + IF s.section \in {"str", "rodata"} THEN Rounded("data") ELSE 0

ElfSkipped(s) == ~exportlocals /\ s.bind # "global" /\ s.type # "notype"

EmitSymbols ==
    /\ elfstep = "symbols"
    /\ symbols' = {[name |-> s.name, segment |-> Segment(s.section), offset |-> SymbolOffset(s)] :
                     s \in {t \in symtab : t.section \in Sections /\ ~ElfSkipped(t)}}
    /\ elfstep' = "done"
    /\ UNCHANGED <<size, rela, symtab, exportlocals, file, relocs>>

-----------------------------------------------------------------------------
\* What gcc and gas may have made: references that do not overlap, each into
\* what it refers to or just behind; or a symbol, the two have nothing to do
\* with one another.

Relas == [in : {"text", "data", "rodata"}, at : 0 .. 1, to : Sections \cup {"_f"}, addend : Addends]

Apart(rs) == \A r, q \in rs : r.in = q.in /\ r.at = q.at => r = q

Inside(r) == r.at < size[r.in] /\ (r.to \in Sections => r.addend <= size[r.to])

Symbols == [name : {"_s"}, section : Sections \cup {"none"}, value : Addends, bind : {"local", "global"}, type : {"notype", "object"}]

ElfInit ==
    /\ size \in Sizes
    /\ symtab \in {{s} : s \in {t \in Symbols : t.section \in Sections => t.value < size[t.section]}}
    /\ rela \in {rs \in {{r, q} : r, q \in {x \in Relas : Inside(x)}} \cup {{}} : Apart(rs) /\ Cardinality(rs) <= MaxRelas}
    /\ exportlocals \in BOOLEAN
    /\ (symtab = {CHOOSE s \in Symbols : s.section = "none"} \/ rela = {})
    /\ file = <<>> /\ relocs = <<>> /\ symbols = {} /\ elfstep = "copy"

ElfNext ==
    \/ CopySections
    \/ emitreloc("text", "data") \/ emitreloc("data", "rodata") \/ emitreloc("rodata", "sort")
    \/ SortRecords \/ EmitSymbols

-----------------------------------------------------------------------------

\* Where a slot of a section is in its segment.
Place(s, i) ==
    CASE s = "str" -> Rounded("data") + i
      [] s = "rodata" -> Rounded("data") + Rounded("str") + i
      [] OTHER -> i

InFile(segment) == IF segment = "DATA" THEN Rounded("text") ELSE 0

\* A loader that adds to each slot the segment its record names lets it refer
\* to what it referred to in the ELF object, wherever the section has gone and
\* whatever was rounded.  The offsets of .rela.rodata are not moved: an object
\* with references from .rodata is right only when .rodata is all its data.
ReferencesResolve ==
    elfstep = "done" /\ ((\E r \in rela : r.in = "rodata") => size["data"] = 0 /\ size["str"] = 0) =>
        \A r \in rela :
            LET here == Place(r.in, r.at)
                at == {i \in DOMAIN relocs : relocs[i].in = Segment(r.in) /\ relocs[i].offset = here}
            IN  /\ Cardinality(at) = 1
                /\ \A i \in at : relocs[i].kind = Segment(r.to)
                /\ file[InFile(Segment(r.in)) + here + 1] = Place(r.to, r.addend)

\* A global symbol is exported, at the place of what it names; a local one that
\* is not a label only with -l.  In .rodata behind strings it is not.
SymbolsResolve ==
    elfstep = "done" =>
        \A s \in symtab :
            s.section \in Sections /\ ~(s.section = "rodata" /\ size["str"] > 0) =>
                symbols = IF s.bind = "global" \/ s.type = "notype" \/ exportlocals
                          THEN {[name |-> s.name, segment |-> Segment(s.section), offset |-> Place(s.section, s.value)]}
                          ELSE {}

\* The executable refers to, and exports, what the ELF object did.
ElfIsRight == ReferencesResolve /\ SymbolsResolve

=============================================================================
