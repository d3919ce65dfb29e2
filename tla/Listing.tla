------------------------------- MODULE Listing -------------------------------
(***************************************************************************)
(* A client lists a directory page by page (READDIR of version 2, READDIR  *)
(* and READDIRPLUS of version 3) while others change it.  nfsd keeps no    *)
(* open directory between two pages: a cookie is the ordinal of the last   *)
(* entry sent, and version 3 adds the directory's mtime, in seconds, as a  *)
(* verifier.                                                               *)
(***************************************************************************)
EXTENDS Integers, Sequences, FiniteSets, SequencesExt

CONSTANTS
    Name,           \* names of entries
    NameLength,     \* and how long each is
    Free,           \* an empty directory slot
    Standing,       \* the directory when the listing begins
    Procedures,     \* of {"READDIR", "READDIR3", "READDIRPLUS3"}
    Counts,         \* the count (maxcount) a client may ask for
    DirCounts,      \* READDIRPLUS: its dircount
    TRANSFER_SIZE,
    MaxChanges,     \* bound of the model: changes of the directory
    MaxClock        \* bound of the model: seconds that pass

ASSUME NameAssumption == Name # {} /\ Free \notin Name /\ NameLength \in [Name -> Nat]
ASSUME SizeAssumption == TRANSFER_SIZE \in Nat /\ Counts \subseteq Nat /\ DirCounts \subseteq Nat
\* nfsd takes up to 32 bytes off the size it is asked for, unsigned.
ASSUME RoomAssumption == \A n \in Counts \cup {TRANSFER_SIZE} : n > 32
\* No name is twice in a directory.
ASSUME StandingAssumption ==
    /\ Standing \in Seq(Name \cup {Free})
    /\ \A i, j \in 1 .. Len(Standing) : Standing[i] = Standing[j] /\ Standing[i] # Free => i = j
ASSUME ProcedureAssumption == Procedures \subseteq {"READDIR", "READDIR3", "READDIRPLUS3"}
ASSUME BoundAssumption == MaxChanges \in Nat /\ MaxClock \in Nat \ {0}

VARIABLES
    slots,     \* the directory, entries and free slots
    mtime,     \* the second of its last change
    clock,     \* the second it is
    args,      \* what the client asks for: procedure, count, dircount
    cookie,    \* how far the client is
    verf,      \* the verifier it was given, 0 at first
    got,       \* the names it has, in order
    page,      \* the reply on its way, or None
    finished,
    changes,
    started,   \* history: the directory when the first page was made
    shifted,   \* history: the directory lost an entry, or filled a hole
    hidden     \* history: it changed in a second a verifier stands for

vars == <<slots, mtime, clock, args, cookie, verf, got, page, finished, changes,
          started, shifted, hidden>>

None == [status |-> "none", names |-> <<>>, eof |-> FALSE, size |-> 0, more |-> FALSE, verf |-> 0]

\* What opendir and readdir deliver, slot by slot: the entries in use.
Entries(s) ==
    LET upTo[i \in 0 .. Len(s)] ==
            IF i = 0 THEN <<>>
            ELSE IF s[i] = Free THEN upTo[i - 1]
            ELSE Append(upTo[i - 1], s[i])
    IN  upTo[Len(s)]

Version3 == args.proc # "READDIR"

-----------------------------------------------------------------------------
\* The space arithmetic.

ROUNDLEN(n) == ((n + 3) \div 4) * 4

\* Bytes in the reply before the first entry: RPC header and status, and in
\* version 3 the directory's attributes and the verifier.
Preamble == IF Version3 THEN 28 + 88 + 8 ELSE 28

\* Bytes of an entry besides its name.
EntryCost ==
    CASE args.proc = "READDIR" -> 16
      [] args.proc = "READDIR3" -> 24
      [] args.proc = "READDIRPLUS3" -> 152

\* What the page may reach, behind it the two words that end the list.
Clamped == IF args.count > TRANSFER_SIZE THEN TRANSFER_SIZE ELSE args.count
\* The clamped size as it is, the last words forgotten.
Limit_Whole == Clamped
Limit == Clamped - (IF Version3 THEN 32 ELSE 12)

\* reply.cwp with the entries from `offset' on, k of them.
Written(names, offset, k) ==
    LET cwp[j \in 0 .. k] ==
            IF j = 0 THEN Preamble
            ELSE cwp[j - 1] + EntryCost + ROUNDLEN(NameLength[names[offset + j]])
    IN  cwp[k]

\* The entries before the one there is no room for.
Taken(names, offset) ==
    CHOOSE k \in 0 .. Len(names) :
        /\ \A j \in 1 .. k : offset + j <= Len(names) /\ Written(names, offset, j) <= Limit
        /\ offset + k >= Len(names) \/ Written(names, offset, k + 1) > Limit

\* eof is `count' unless the loop broke off and set it to zero.  READDIRPLUS
\* has the size in maxcount and the client's dircount in `count'.
CountLeft == IF args.proc = "READDIRPLUS3" THEN args.dircount ELSE Limit

\* eof taken from the number of entries, as if a full page were the last.
Eof_OneEarly(names, offset, k) == offset + k + 1 >= Len(names) /\ CountLeft # 0

Eof(names, offset, k) == offset + k >= Len(names) /\ CountLeft # 0

\* A page begins behind the entry the cookie names; and with it.
Skipped_OneLess(offset) == IF offset = 0 THEN 0 ELSE offset - 1
Skipped(offset) == offset

\* The verifier that goes with a page.
Verifier == mtime

Page(names, offset) ==
    LET k == Taken(names, offset)
    IN  [status |-> "ok",
         names |-> SubSeq(names, offset + 1, offset + k),
         eof |-> Eof(names, offset, k),
         size |-> Written(names, offset, k) + 8,
         more |-> offset + k < Len(names),
         verf |-> Verifier]

\* "verify cookie"
Outdated_Never(v) == FALSE
Outdated_Inverted(v) == Version3 /\ v # 0 /\ v = mtime
Outdated(v) == Version3 /\ v # 0 /\ v # mtime

-----------------------------------------------------------------------------

Init ==
    /\ slots = Standing
    /\ mtime = 1
    /\ clock = 1
    /\ args \in [proc : Procedures, count : Counts, dircount : DirCounts]
    /\ cookie = 0
    /\ verf = 0
    /\ got = <<>>
    /\ page = None
    /\ finished = FALSE
    /\ changes = 0
    /\ started = <<>>
    /\ shifted = FALSE
    /\ hidden = FALSE

\* nfsd makes the page the client's cookie asks for.
ReadDir ==
    /\ ~finished
    /\ page = None
    /\ page' = IF Outdated(verf) THEN [None EXCEPT !.status = "bad_cookie"]
               ELSE Page(Entries(slots), Skipped(cookie))
    /\ IF cookie = 0
       THEN started' = Entries(slots) /\ shifted' = FALSE /\ hidden' = FALSE
       ELSE UNCHANGED <<started, shifted, hidden>>
    /\ UNCHANGED <<slots, mtime, clock, args, cookie, verf, got, finished, changes>>

\* The client takes a page and goes on behind it, or begins again.
Receive ==
    /\ page # None
    /\ page' = None
    /\ IF page.status = "ok"
       THEN /\ got' = got \o page.names
            /\ cookie' = cookie + Len(page.names)
            /\ verf' = page.verf
            /\ finished' = page.eof
       ELSE /\ got' = <<>>
            /\ cookie' = 0
            /\ verf' = 0
            /\ UNCHANGED finished
    /\ UNCHANGED <<slots, mtime, clock, args, changes, started, shifted, hidden>>

\* The host's file system: an entry goes and leaves a hole; a new one takes
\* the first hole, or the end.
Touch ==
    /\ changes < MaxChanges
    /\ ~finished
    /\ changes' = changes + 1
    /\ mtime' = clock
    /\ hidden' = (hidden \/ clock = mtime)
    /\ UNCHANGED <<clock, args, cookie, verf, got, page, finished, started>>

RemoveEntry ==
    /\ Touch
    /\ shifted' = TRUE
    /\ \E i \in 1 .. Len(slots) : slots[i] # Free /\ slots' = [slots EXCEPT ![i] = Free]

\* The first free slot.
Hole == SelectInSeq(slots, LAMBDA x : x = Free)

AddEntry ==
    /\ Touch
    /\ shifted' = (shifted \/ Contains(slots, Free))
    /\ \E n \in Name :
          /\ ~Contains(slots, n)
          /\ slots' = IF Contains(slots, Free)
                      THEN [slots EXCEPT ![Hole] = n]
                      ELSE Append(slots, n)

Tick ==
    /\ clock < MaxClock
    /\ clock' = clock + 1
    /\ UNCHANGED <<slots, mtime, args, cookie, verf, got, page, finished, changes,
                   started, shifted, hidden>>

Next == ReadDir \/ Receive \/ RemoveEntry \/ AddEntry \/ Tick

Spec == Init /\ [][Next]_vars

\* The client asks until it has the end, and nfsd answers.
FairSpec == Spec /\ WF_vars(ReadDir) /\ WF_vars(Receive)

-----------------------------------------------------------------------------

TypeOK ==
    /\ slots \in Seq(Name \cup {Free})
    /\ mtime \in 1 .. MaxClock /\ clock \in mtime .. MaxClock
    /\ args \in [proc : Procedures, count : Counts, dircount : DirCounts]
    /\ cookie \in Nat /\ verf \in 0 .. mtime
    /\ got \in Seq(Name) /\ started \in Seq(Name)
    /\ page \in [status : {"none", "ok", "bad_cookie"}, names : Seq(Name), eof : BOOLEAN,
                size : Nat, more : BOOLEAN, verf : Nat]
    /\ changes \in 0 .. MaxChanges
    /\ {finished, shifted, hidden} \subseteq BOOLEAN

\* A page that carries entries is no longer than the client has room for, nor
\* than the buffer it is put together in.
PageFits ==
    page.names # <<>> => page.size <= args.count /\ page.size <= TRANSFER_SIZE

\* As long as nothing in the directory moves, the client gets every entry that
\* was there when it began exactly once, whatever the page size and although
\* entries are added behind its back.
EachEntryOnce ==
    (finished /\ ~shifted) =>
        \A n \in ToSet(started) : Cardinality({i \in 1 .. Len(got) : got[i] = n}) = 1

\* The verifier makes a version 3 listing a snapshot, the directory as it was
\* when the first page was made and the last, however much it changed in
\* between - unless it changed twice in one second.  What is added under the
\* last page's feet is the only thing the client can miss.
ListingIsSnapshot ==
    (finished /\ Version3 /\ ~hidden) => got = started

\* A client of READDIRPLUS gave a dircount above zero.
CanEnd == args.proc = "READDIRPLUS3" => args.dircount # 0

\* "complete or run out of room?": eof is set on the last page and on no other.
\* (With a dircount of zero READDIRPLUS does not set it at all.)
EofIsComplete ==
    page.status = "ok" => /\ page.eof => ~page.more
                          /\ CanEnd /\ ~page.more => page.eof

\* A page of this size has room for any entry alone.
Roomy == \A n \in Name : Preamble + EntryCost + ROUNDLEN(NameLength[n]) <= Limit

\* The cookie protocol gets a client to the end of the directory, page by page
\* and over verifiers that fail, once the directory stays as it is: every page
\* that has room for an entry must bring one, or eof.
ListingEnds == Roomy /\ CanEnd => <>finished

=============================================================================
