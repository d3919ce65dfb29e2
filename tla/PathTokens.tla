----------------------------- MODULE PathTokens -----------------------------
(***************************************************************************)
(* nfsd hands a client a 36-byte file handle in place of a path.  The      *)
(* handle carries the path as a row of ten 16-bit tokens, and a token is   *)
(* the position of one path component in a table nfsd keeps in memory and  *)
(* only ever appends to (stringcache and subpaths[] in nfsd.c).  Token 0   *)
(* ends the row.  Nothing of the table survives a restart of the daemon,   *)
(* while the handles it gave out do.                                       *)
(*                                                                         *)
(* nfsd is one process and answers one datagram at a time.  The model      *)
(* takes encodepath's loop one component per step, so that a restart can   *)
(* come between two of them.                                               *)
(***************************************************************************)
EXTENDS Naturals, Sequences

CONSTANTS
    Component,   \* path components, the strings of the pool
    Path,        \* the paths the model's clients ask about
    MaxDepth,    \* pathtokens[10]: the tokens a handle has room for
    MaxToken,    \* 32767: the last index add_subpath's `short' can return
    Trailing,    \* 16-bit words a datagram can hold right behind a handle
    Garbage,     \* what a token beyond the table reads as
    MaxLives     \* bound of the model: how often the daemon is started

ASSUME PathAssumption == Path \subseteq Seq(Component)
ASSUME DepthAssumption == MaxDepth \in Nat \ {0}
ASSUME TokenAssumption == MaxToken \in Nat \ {0}
ASSUME TrailingAssumption == Trailing \subseteq Nat
ASSUME LivesAssumption == MaxLives \in Nat \ {0}

VARIABLES
    pool,     \* pool[k]: the string subpaths[k] points at, k >= 1
    busy,     \* make_filehandle is encoding a path
    path,     \* that path, split at '/' (the string strtok works on)
    encoded,  \* the tokens encodepath has written so far
    issued,   \* history: every handle a client has been sent
    life      \* history: which run of the daemon this is

vars == <<pool, busy, path, encoded, issued, life>>

-----------------------------------------------------------------------------

Token == 1 .. MaxToken

\* A pathtokens[] row without its terminator and zero padding.
Row == UNION {[1 .. n -> Token] : n \in 0 .. MaxDepth}

Handle == [path : Path, tokens : Row, life : 1 .. MaxLives]

Interned(c) == \E k \in 1 .. Len(pool) : pool[k] = c

\* A search that returns the count instead of the index.
TokenOf_Count(c) == Len(pool)

\* The index add_subpath finds for a component of the pool.
TokenOf(c) == CHOOSE k \in 1 .. Len(pool) : pool[k] = c

\* What of a path fits into a handle: its first MaxDepth components.
Fits(s) == [i \in 1 .. (IF Len(s) < MaxDepth THEN Len(s) ELSE MaxDepth) |-> s[i]]

\* The 16-bit words decodepath walks: the row of the handle, zero-filled by
\* make_filehandle's memset, and the word that follows it in the datagram.
\* A row of MaxDepth tokens has no terminator of its own.  (The model takes
\* the word after that one to be zero.)
Words(row, trail) ==
    [i \in 1 .. MaxDepth + 2 |-> IF i <= Len(row) THEN row[i]
                                 ELSE IF i = MaxDepth + 1 THEN trail
                                 ELSE 0]

Terminated(w, n) == w[n + 1] = 0 /\ \A i \in 1 .. n : w[i] # 0

String(k) == IF k \in 1 .. Len(pool) THEN pool[k] ELSE Garbage

\* decodepath: the components of the path a handle stands for, now.
decodepath(row, trail) ==
    LET w == Words(row, trail)
        n == CHOOSE k \in 0 .. MaxDepth + 1 : Terminated(w, k)
    IN  [i \in 1 .. n |-> String(w[i])]

-----------------------------------------------------------------------------

Init ==
    /\ pool = <<>>
    /\ busy = FALSE
    /\ path = <<>>
    /\ encoded = <<>>
    /\ issued = {}
    /\ life = 1

\* A request (MNT, LOOKUP, CREATE, ...) names a file that exists.
make_filehandle(p) ==
    /\ ~busy
    /\ busy' = TRUE
    /\ path' = p
    /\ encoded' = <<>>
    /\ UNCHANGED <<pool, issued, life>>

Pending == busy /\ Len(encoded) < Len(path)

NextComponent == path[Len(encoded) + 1]

\* add_subpath, the component is in the pool.
FindSubpath ==
    /\ Pending
    /\ Interned(NextComponent)
    /\ encoded' = Append(encoded, TokenOf(NextComponent))
    /\ UNCHANGED <<pool, busy, path, issued, life>>

\* Appending without having searched the pool.
Appendable_NoSearch(c) == Len(pool) < MaxToken

\* A table that takes one string more than its index type can name.
Appendable_Overfull(c) == ~Interned(c) /\ Len(pool) <= MaxToken

\* The string is not in the pool and an index is left for it.
Appendable(c) == ~Interned(c) /\ Len(pool) < MaxToken

\* The new string's token one short of its index.
NewToken_OffByOne == IF Len(pool) = 0 THEN 1 ELSE Len(pool)

\* subpaths_count - 1, after the append.
NewToken == Len(pool) + 1

\* add_subpath, the component is new.  With MaxToken strings in the pool the
\* `short' of the search loop cannot reach the end of the table: the search
\* runs off it and the daemon does nothing more until it is restarted.
AppendSubpath ==
    /\ Pending
    /\ Appendable(NextComponent)
    /\ pool' = Append(pool, NextComponent)
    /\ encoded' = Append(encoded, NewToken)
    /\ UNCHANGED <<busy, path, issued, life>>

\* The reply carries sizeof(struct filehandle) bytes: encodepath writes every
\* token, but the client gets only those the structure has room for.
add_filehandle ==
    /\ busy
    /\ Len(encoded) = Len(path)
    /\ issued' = issued \cup {[path |-> path, tokens |-> Fits(encoded), life |-> life]}
    /\ busy' = FALSE
    /\ path' = <<>>
    /\ encoded' = <<>>
    /\ UNCHANGED <<pool, life>>

\* The daemon dies, whatever it was doing, and is started again.
Restart ==
    /\ life < MaxLives
    /\ life' = life + 1
    /\ pool' = <<>>
    /\ busy' = FALSE
    /\ path' = <<>>
    /\ encoded' = <<>>
    /\ UNCHANGED issued

Next ==
    \/ \E p \in Path : make_filehandle(p)
    \/ FindSubpath
    \/ AppendSubpath
    \/ add_filehandle
    \/ Restart

Spec == Init /\ [][Next]_vars

-----------------------------------------------------------------------------

\* Types.  In particular no token leaves the range of the handle's words.
TypeOK ==
    /\ pool \in Seq(Component)
    /\ Len(pool) <= MaxToken
    /\ busy \in BOOLEAN
    /\ path \in Seq(Component)
    /\ encoded \in Seq(Token)
    /\ issued \subseteq Handle
    /\ life \in 1 .. MaxLives

\* The strings of the pool are unique ("packed pool of unique strings"):
\* add_subpath never enters a component a second time.
PoolUnique ==
    \A j, k \in 1 .. Len(pool) : pool[j] = pool[k] => j = k

\* A handle given out by this run of the daemon decodes to the path it was
\* made for, however many other paths were encoded since, as far as the path
\* fits into the handle.  A handle whose row is full has no terminator: it
\* does so only when the word behind it in the request happens to be zero.
HandleResolves ==
    \A h \in issued, t \in Trailing :
        (h.life = life /\ (Len(h.path) < MaxDepth \/ t = 0))
            => decodepath(h.tokens, t) = Fits(h.path)

\* Two handles of one run carry the same tokens exactly when they were made
\* for the same path, so comparing pathtokens[] compares paths.
HandleIdentifies ==
    \A g, h \in issued :
        (g.life = life /\ h.life = life)
            => (g.tokens = h.tokens <=> Fits(g.path) = Fits(h.path))

-----------------------------------------------------------------------------

\* What the handles are for: a directory of handle and path pairs, emptied
\* when the daemon restarts.
Current == {h \in issued : h.life = life}

Directory == INSTANCE HandleDirectory WITH
    Handle <- Row,
    Name <- {Fits(p) : p \in Path},
    dir <- {<<h.tokens, Fits(h.path)>> : h \in Current}

\* The token table implements that directory: whatever mixture of old and
\* new components a path has, the handle sent for it is the one sent for it
\* before, or one no other path of this run has.
ImplementsDirectory == Directory!Spec

=============================================================================
