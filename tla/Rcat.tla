-------------------------------- MODULE Rcat --------------------------------
(***************************************************************************)
(* rcat -c: compile units become one: their text, data and bss are put one *)
(* behind another, what refers to them is moved, and of each name the      *)
(* first symbol is exported.                                               *)
(*                                                                         *)
(* One unit of an offset is a slot that holds a reference.  LINKING is not *)
(* defined in the source, so nothing is resolved or left out.              *)
(***************************************************************************)
EXTENDS Naturals, Sequences
LOCAL INSTANCE SequencesExt
LOCAL INSTANCE FiniteSetsExt

CONSTANTS
    Units,   \* compile units: text, data, bss, relocs, symbols
    MaxUnits,
    Align,   \* text is rounded to this many slots
    Hash     \* what symboladd takes a name for

VARIABLES
    inputs,   \* the compile units, their references being moved
    base,     \* textoff, dataoff and bssoff of each
    outph,       \* sizes in the header that is written
    outrelocs,   \* the records written
    buckets,  \* the hashes of the names seen
    outsymbols,  \* the symbols written
    image,    \* text and data as they are written
    unit,     \* the next unit
    catphase

rcatVars == <<inputs, base, outph, outrelocs, buckets, outsymbols, image, unit, catphase>>

Rounding(size) == (Align - (size % Align)) % Align

\* Text is rounded, data and bss are not.
ConcatSections ==
    /\ catphase = "concat"
    /\ LET u == inputs[unit]
       IN  /\ base' = Append(base, [TEXT |-> outph.text, DATA |-> outph.data, BSS |-> outph.bss])
           /\ outph' = [text |-> outph.text + u.text + Rounding(u.text), data |-> outph.data + u.data, bss |-> outph.bss + u.bss]
    /\ unit' = IF unit < Len(inputs) THEN unit + 1 ELSE 1
    /\ catphase' = IF unit < Len(inputs) THEN "concat" ELSE "rebase"
    /\ UNCHANGED <<inputs, outrelocs, buckets, outsymbols, image>>

AddendOffset(b, r) == IF r.kind = "EXT" THEN 0 ELSE b[r.kind]

\* The records of one unit: the slot gets the base of what it refers to, the
\* record that of what it is in.
RebaseRelocs ==
    /\ catphase = "rebase"
    /\ LET u == inputs[unit]
           b == base[unit]
           Add(slots, r) == [slots EXCEPT ![r.in][r.at + 1] = @ + AddendOffset(b, r)]
       IN  /\ inputs' = [inputs EXCEPT ![unit].slots = FoldLeft(Add, @, u.relocs)]
           /\ outrelocs' = outrelocs \o [i \in DOMAIN u.relocs |-> [u.relocs[i] EXCEPT !.at = @ + b[u.relocs[i].in]]]
    /\ unit' = IF unit < Len(inputs) THEN unit + 1 ELSE 1
    /\ catphase' = IF unit < Len(inputs) THEN "rebase" ELSE "export"
    /\ UNCHANGED <<base, outph, buckets, outsymbols, image>>

\* An rcat that exports a name as often as it is defined.
symboladd_Always(seen, s) == TRUE

\* symboladd: whether a name is new.
symboladd(seen, s) == Hash[s.name] \notin seen

Exported(b, s) == IF s.segment = "ABS" THEN s ELSE [s EXCEPT !.offset = @ + b[s.segment]]

ExportSymbols ==
    /\ catphase = "export"
    /\ LET Add(acc, s) == IF symboladd(acc.seen, s)
                          THEN [seen |-> acc.seen \cup {Hash[s.name]}, out |-> Append(acc.out, Exported(base[unit], s))]
                          ELSE acc
           all == FoldLeft(Add, [seen |-> buckets, out |-> outsymbols], inputs[unit].symbols)
       IN  buckets' = all.seen /\ outsymbols' = all.out
    /\ unit' = IF unit < Len(inputs) THEN unit + 1 ELSE 1
    /\ catphase' = IF unit < Len(inputs) THEN "export" ELSE "write"
    /\ UNCHANGED <<inputs, base, outph, outrelocs, image>>

\* The edited text with its rounding, and the edited data from datastart on.
WriteSections ==
    /\ catphase = "write"
    /\ LET Text(i) == inputs[i].slots.TEXT \o [k \in 1 .. Rounding(inputs[i].text) |-> 0]
           each == [i \in 1 .. Len(inputs) |-> i]
       IN  image' = [TEXT |-> FoldLeft(LAMBDA s, i : s \o Text(i), <<>>, each),
                     DATA |-> FoldLeft(LAMBDA s, i : s \o inputs[i].slots.DATA, <<>>, each)]
    /\ catphase' = "done"
    /\ UNCHANGED <<inputs, base, outph, outrelocs, buckets, outsymbols, unit>>

\* Each slot holds what is to be added to what it refers to.
Slots(u, segment, size) ==
    [k \in 1 .. size |->
        LET here == {i \in DOMAIN u.relocs : u.relocs[i].in = segment /\ u.relocs[i].at = k - 1}
        IN  IF here = {} THEN 0 ELSE u.relocs[CHOOSE i \in here : TRUE].addend]

ReadUnit(u) ==
    [text |-> u.text, data |-> u.data, bss |-> u.bss, relocs |-> u.relocs, symbols |-> u.symbols,
     slots |-> [TEXT |-> Slots(u, "TEXT", u.text), DATA |-> Slots(u, "DATA", u.data)]]

RcatInit ==
    /\ \E us \in UNION {[1 .. m -> Units] : m \in 1 .. MaxUnits} : inputs = [i \in DOMAIN us |-> ReadUnit(us[i])]
    /\ base = <<>> /\ outph = [text |-> 0, data |-> 0, bss |-> 0]
    /\ outrelocs = <<>> /\ buckets = {} /\ outsymbols = <<>> /\ image = [TEXT |-> <<>>, DATA |-> <<>>]
    /\ unit = 1 /\ catphase = "concat"

RcatNext == ConcatSections \/ RebaseRelocs \/ ExportSymbols \/ WriteSections

-----------------------------------------------------------------------------

SizeOf(u, segment) == CASE segment = "TEXT" -> u.text + Rounding(u.text) [] segment = "DATA" -> u.data [] OTHER -> u.bss

\* Where the contents of a unit come to be in their segment.
Begins(i, segment) == FoldLeft(LAMBDA n, h : n + SizeOf(inputs[h], segment), 0, [h \in 1 .. i - 1 |-> h])

\* Every reference of every unit has its record, at the slot that was written
\* for it, and the slot says where in the one object that is which it referred
\* to in its own; an external one is left as it was.
RebasedReferencesResolve ==
    catphase = "done" =>
        /\ Len(outrelocs) = FoldLeft(LAMBDA n, u : n + Len(u.relocs), 0, inputs)
        /\ \A i \in DOMAIN inputs : \A r \in ToSet(inputs[i].relocs) :
              LET at == Begins(i, r.in) + r.at
              IN  /\ \E q \in ToSet(outrelocs) : q.in = r.in /\ q.at = at /\ q.kind = r.kind
                  /\ image[r.in][at + 1] = r.addend + IF r.kind = "EXT" THEN 0 ELSE Begins(i, r.kind)

\* Of every name the first definition is exported, once.
FirstDefinitionWins ==
    catphase = "done" =>
        \A i \in DOMAIN inputs : \A s \in ToSet(inputs[i].symbols) :
            LET named == {q \in DOMAIN outsymbols : outsymbols[q].name = s.name}
                first == {h \in 1 .. i - 1 : \E q \in ToSet(inputs[h].symbols) : q.name = s.name}
            IN  /\ \E q \in named : named = {q}
                /\ first = {} => \A q \in named :
                      outsymbols[q].segment = s.segment
                      /\ outsymbols[q].offset = s.offset + IF s.segment = "ABS" THEN 0 ELSE Begins(i, s.segment)

\* The one unit means what the several did.
RcatIsRight == RebasedReferencesResolve /\ FirstDefinitionWins

=============================================================================
