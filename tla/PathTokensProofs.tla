-------------------------- MODULE PathTokensProofs --------------------------
(***************************************************************************)
(* Proofs about PathTokens, for every set of components and paths and      *)
(* every size of the table and of the handle.  The inductive invariant     *)
(* IInv adds to the types what the table and the rows of tokens have to do *)
(* with each other: the token at place i of a row indexes the component at *)
(* place i of its path.                                                    *)
(***************************************************************************)
EXTENDS PathTokens, TLAPS

\* The row encodepath has written so far indexes the path's first components.
EncodingInv ==
    /\ busy => path \in Path
    /\ Len(encoded) <= Len(path)
    /\ \A i \in 1 .. Len(encoded) :
          encoded[i] \in 1 .. Len(pool) /\ pool[encoded[i]] = path[i]

\* So does the row of a handle, as long as the run lasts that issued it.
Faithful(h) ==
    /\ Len(h.tokens) = Len(Fits(h.path))
    /\ \A i \in 1 .. Len(h.tokens) :
          h.tokens[i] \in 1 .. Len(pool) /\ pool[h.tokens[i]] = h.path[i]

IssuedInv == \A h \in issued : h.life <= life /\ (h.life = life => Faithful(h))

IInv == TypeOK /\ PoolUnique /\ EncodingInv /\ IssuedInv

-----------------------------------------------------------------------------

\* The daemon's sequences start empty.
LEMMA EmptyIsSeq == \A S : <<>> \in Seq(S)
OBVIOUS

\* A row is a sequence of at most MaxDepth tokens, and conversely.
LEMMA RowIsSeq ==
    /\ \A r \in Row : r \in Seq(Token) /\ Len(r) <= MaxDepth /\ Len(r) \in Nat
    /\ \A r \in Seq(Token) : Len(r) <= MaxDepth => r \in Row
<1>1. ASSUME NEW r \in Row
      PROVE  r \in Seq(Token) /\ Len(r) <= MaxDepth /\ Len(r) \in Nat
  <2>1. PICK n \in 0 .. MaxDepth : r \in [1 .. n -> Token]
    BY <1>1 DEF Row
  <2>2. n \in Nat /\ n <= MaxDepth
    BY DepthAssumption
  <2>3. r \in Seq(Token)
    BY <2>1, <2>2
  <2>4. DOMAIN r = 1 .. n /\ DOMAIN r = 1 .. Len(r) /\ Len(r) \in Nat
    BY <2>1, <2>3
  <2>5. Len(r) = n
    BY <2>2, <2>4
  <2>6. QED
    BY <2>2, <2>3, <2>5
<1>2. ASSUME NEW r \in Seq(Token), Len(r) <= MaxDepth
      PROVE  r \in Row
  <2>1. r \in [1 .. Len(r) -> Token] /\ Len(r) \in 0 .. MaxDepth
    BY <1>2, DepthAssumption
  <2>2. QED
    BY <2>1 DEF Row
<1>3. QED
  BY <1>1, <1>2

\* The part of a path that fits is a sequence, no longer than a row.
LEMMA FitsIsSeq ==
    ASSUME NEW S, NEW s \in Seq(S)
    PROVE  /\ Fits(s) \in Seq(S)
           /\ Len(Fits(s)) \in Nat
           /\ Len(Fits(s)) <= MaxDepth
           /\ Len(Fits(s)) <= Len(s)
           /\ Len(s) <= MaxDepth => Len(Fits(s)) = Len(s)
           /\ Len(s) > MaxDepth => Len(Fits(s)) = MaxDepth
           /\ \A i \in 1 .. Len(Fits(s)) : Fits(s)[i] = s[i]
BY DepthAssumption DEF Fits

\* Sequences are equal when their lengths and their elements are.
LEMMA SeqExtensional ==
    ASSUME NEW S, NEW s \in Seq(S), NEW u \in Seq(S), Len(s) = Len(u),
           \A i \in 1 .. Len(s) : s[i] = u[i]
    PROVE  s = u
OBVIOUS

\* add_subpath finds a component it has at an index inside the table.
LEMMA TokenOfType ==
    ASSUME NEW c, Interned(c), pool \in Seq(Component)
    PROVE  TokenOf(c) \in 1 .. Len(pool) /\ pool[TokenOf(c)] = c
BY DEF Interned, TokenOf

-----------------------------------------------------------------------------

\* The invariant holds of a daemon that has just been started.
LEMMA InitIInv == Init => IInv
<1> SUFFICES ASSUME Init
             PROVE  IInv
  OBVIOUS
<1>1. TypeOK
  <2>1. Len(pool) <= MaxToken
    BY TokenAssumption DEF Init
  <2>2. life \in 1 .. MaxLives
    BY LivesAssumption DEF Init
  <2>3. QED
    BY <2>1, <2>2, EmptyIsSeq, Zenon DEF Init, TypeOK
<1>2. PoolUnique /\ EncodingInv /\ IssuedInv
  BY DEF Init, PoolUnique, EncodingInv, IssuedInv
<1>3. QED
  BY <1>1, <1>2 DEF IInv

\* No step of the daemon breaks it.
LEMMA NextIInv == IInv /\ [Next]_vars => IInv'
<1> SUFFICES ASSUME IInv, [Next]_vars
             PROVE  IInv'
  OBVIOUS
<1> USE PathAssumption, DepthAssumption, TokenAssumption, LivesAssumption
<1>1. ASSUME NEW p \in Path, make_filehandle(p)
      PROVE  IInv'
  BY <1>1 DEF make_filehandle, IInv, TypeOK, PoolUnique, EncodingInv, IssuedInv, Faithful, Fits
<1>2. CASE FindSubpath
  <2> DEFINE c == NextComponent
  <2>1. TokenOf(c) \in 1 .. Len(pool) /\ pool[TokenOf(c)] = c
    BY <1>2, TokenOfType DEF FindSubpath, IInv, TypeOK
  <2>2. TypeOK'
    BY <1>2, <2>1 DEF FindSubpath, IInv, TypeOK, Token
  <2>3. EncodingInv'
    BY <1>2, <2>1 DEF FindSubpath, Pending, NextComponent, IInv, TypeOK, EncodingInv
  <2>4. (PoolUnique /\ IssuedInv)'
    BY <1>2 DEF FindSubpath, IInv, PoolUnique, IssuedInv, Faithful, Fits
  <2>5. QED
    BY <2>2, <2>3, <2>4 DEF IInv
<1>3. CASE AppendSubpath
  <2> DEFINE c == NextComponent
  <2>1. c \in Component
    BY <1>3 DEF AppendSubpath, Appendable, NewToken, Pending, NextComponent, IInv, TypeOK
  <2>2. /\ Len(pool') = Len(pool) + 1
        /\ pool'[Len(pool) + 1] = c
        /\ \A k \in 1 .. Len(pool) : pool'[k] = pool[k] /\ pool[k] # c
    BY <1>3, <2>1 DEF AppendSubpath, Appendable, NewToken, Interned, IInv, TypeOK
  <2>3. TypeOK'
    BY <1>3, <2>1 DEF AppendSubpath, Appendable, NewToken, IInv, TypeOK, Token
  <2>4. PoolUnique'
    <3>1. ASSUME NEW j \in 1 .. Len(pool'), NEW k \in 1 .. Len(pool'), pool'[j] = pool'[k]
          PROVE  j = k
      <4>1. j = Len(pool) + 1 \/ j \in 1 .. Len(pool)
        BY <2>2 DEF IInv, TypeOK
      <4>2. k = Len(pool) + 1 \/ k \in 1 .. Len(pool)
        BY <2>2 DEF IInv, TypeOK
      <4>3. QED
        BY <2>2, <3>1, <4>1, <4>2 DEF IInv, PoolUnique
    <3>2. QED
      BY <3>1 DEF PoolUnique
  <2>5. EncodingInv'
    BY <1>3, <2>2 DEF AppendSubpath, Appendable, NewToken, Pending, NextComponent, IInv, TypeOK, EncodingInv
  <2>6. IssuedInv'
    BY <1>3, <2>2 DEF AppendSubpath, Appendable, NewToken, IInv, TypeOK, IssuedInv, Faithful, Fits
  <2>7. QED
    BY <2>3, <2>4, <2>5, <2>6 DEF IInv
<1>4. CASE add_filehandle
  <2> DEFINE h == [path |-> path, tokens |-> Fits(encoded), life |-> life]
  <2>1. path \in Path /\ path \in Seq(Component) /\ encoded \in Seq(Token) /\ Len(encoded) = Len(path)
    BY <1>4 DEF add_filehandle, IInv, TypeOK, EncodingInv
  <2>2. Fits(encoded) \in Row
    BY <2>1, FitsIsSeq, RowIsSeq
  <2>3. TypeOK'
    <3>1. h \in Handle
      BY <2>1, <2>2 DEF Handle, IInv, TypeOK
    <3>2. issued' \subseteq Handle
      BY <1>4, <3>1 DEF add_filehandle, IInv, TypeOK
    <3>3. pool' = pool /\ life' = life /\ busy' = FALSE /\ path' = <<>> /\ encoded' = <<>>
      BY <1>4 DEF add_filehandle
    <3>4. QED
      BY <3>2, <3>3, EmptyIsSeq, Zenon DEF IInv, TypeOK
  <2>4. Len(Fits(encoded)) = Len(Fits(path))
    BY <2>1 DEF Fits
  <2>5. \A i \in 1 .. Len(Fits(encoded)) :
           Fits(encoded)[i] \in 1 .. Len(pool) /\ pool[Fits(encoded)[i]] = path[i]
    BY <2>1, FitsIsSeq DEF IInv, TypeOK, EncodingInv
  <2>6. Faithful(h)
    BY <2>4, <2>5 DEF Faithful
  <2>7. IssuedInv'
    <3>1. \A g \in issued' : g \in issued \/ g = h
      BY <1>4 DEF add_filehandle
    <3>2. h.life <= life
      BY DEF IInv, TypeOK
    <3>3. \A g \in issued' : g.life <= life /\ (g.life = life => Faithful(g))
      BY <2>6, <3>1, <3>2 DEF IInv, IssuedInv
    <3>4. life' = life /\ pool' = pool
      BY <1>4 DEF add_filehandle
    <3>5. QED
      BY <3>3, <3>4 DEF IssuedInv, Faithful
  <2>8. (PoolUnique /\ EncodingInv)'
    BY <1>4 DEF add_filehandle, IInv, PoolUnique, EncodingInv
  <2>9. QED
    BY <2>3, <2>7, <2>8 DEF IInv
<1>5. CASE Restart
  <2>1. TypeOK'
    <3>1. life' \in 1 .. MaxLives
      BY <1>5 DEF Restart, IInv, TypeOK
    <3>2. Len(pool') <= MaxToken
      BY <1>5 DEF Restart
    <3>3. issued' \subseteq Handle
      BY <1>5 DEF Restart, IInv, TypeOK
    <3>4. QED
      BY <1>5, <3>1, <3>2, <3>3, EmptyIsSeq, Zenon DEF Restart, TypeOK
  <2>2. IssuedInv'
    BY <1>5 DEF Restart, IInv, TypeOK, IssuedInv, Handle
  <2>3. (PoolUnique /\ EncodingInv)'
    BY <1>5 DEF Restart, PoolUnique, EncodingInv
  <2>4. QED
    BY <2>1, <2>2, <2>3 DEF IInv
<1>6. CASE UNCHANGED vars
  BY <1>6 DEF vars, IInv, TypeOK, PoolUnique, EncodingInv, IssuedInv, Faithful, Fits
<1>7. QED
  BY <1>1, <1>2, <1>3, <1>4, <1>5, <1>6 DEF Next

\* The inductive invariant holds in every state of the daemon.
LEMMA SpecIInv == Spec => []IInv
<1>1. Init => IInv
  BY InitIInv
<1>2. IInv /\ [Next]_vars => IInv'
  BY NextIInv
<1>3. QED
  BY <1>1, <1>2, PTL DEF Spec

-----------------------------------------------------------------------------

\* The daemon's state stays within its types: tokens fit the 16-bit words.
THEOREM TypeCorrect == Spec => []TypeOK
<1>1. IInv => TypeOK
  BY DEF IInv
<1>2. QED
  BY <1>1, SpecIInv, PTL

\* The pool holds no component twice, however paths and restarts interleave.
THEOREM PoolStaysUnique == Spec => []PoolUnique
<1>1. IInv => PoolUnique
  BY DEF IInv
<1>2. QED
  BY <1>1, SpecIInv, PTL

\* decodepath stops where the row stops, when the row ends with a zero or
\* the word behind it is one.
LEMMA DecodeRow ==
    ASSUME NEW row \in Row, NEW t \in Nat,
           Len(row) < MaxDepth \/ t = 0,
           \A i \in 1 .. Len(row) : row[i] \in 1 .. Len(pool)
    PROVE  decodepath(row, t) = [i \in 1 .. Len(row) |-> pool[row[i]]]
<1> DEFINE w == Words(row, t)
           n == CHOOSE k \in 0 .. MaxDepth + 1 : Terminated(w, k)
<1>1. Len(row) \in Nat /\ Len(row) <= MaxDepth /\ row \in Seq(Token) /\ MaxDepth \in Nat
  BY RowIsSeq, DepthAssumption
<1>2. /\ \A i \in 1 .. Len(row) : w[i] = row[i] /\ w[i] # 0
      /\ w[Len(row) + 1] = 0
  BY <1>1 DEF Words, Token
<1>3. Len(row) \in 0 .. MaxDepth + 1 /\ Terminated(w, Len(row))
  BY <1>1, <1>2 DEF Terminated
<1>4. \A k \in 0 .. MaxDepth + 1 : Terminated(w, k) => k = Len(row)
  <2>1. ASSUME NEW k \in 0 .. MaxDepth + 1, Terminated(w, k), k < Len(row)
        PROVE  FALSE
    BY <1>1, <1>2, <2>1 DEF Terminated
  <2>2. ASSUME NEW k \in 0 .. MaxDepth + 1, Terminated(w, k), Len(row) < k
        PROVE  FALSE
    BY <1>1, <1>2, <2>2 DEF Terminated
  <2>3. QED
    BY <1>1, <2>1, <2>2
<1>5. n = Len(row)
  BY <1>3, <1>4
<1>6. \A i \in 1 .. Len(row) : String(w[i]) = pool[row[i]]
  BY <1>2 DEF String
<1>7. decodepath(row, t) = [i \in 1 .. n |-> String(w[i])]
  BY DEF decodepath
<1>8. QED
  BY <1>5, <1>6, <1>7

\* A handle of the current run decodes to the path it was issued for.
THEOREM HandlesResolve == Spec => []HandleResolves
<1>1. ASSUME IInv, NEW h \in issued, NEW t \in Trailing,
             h.life = life, Len(h.path) < MaxDepth \/ t = 0
      PROVE  decodepath(h.tokens, t) = Fits(h.path)
  <2>1. /\ h.tokens \in Row
        /\ h.path \in Seq(Component)
        /\ Faithful(h)
    BY <1>1, PathAssumption DEF IInv, TypeOK, Handle, IssuedInv
  <2>2. /\ Len(h.path) \in Nat
        /\ Len(h.tokens) = Len(Fits(h.path))
        /\ Len(Fits(h.path)) <= Len(h.path)
        /\ t \in Nat
    BY <2>1, FitsIsSeq, TrailingAssumption DEF Faithful
  <2>3. Len(h.tokens) < MaxDepth \/ t = 0
    BY <1>1, <2>1, <2>2, RowIsSeq, DepthAssumption
  <2>4. decodepath(h.tokens, t) = [i \in 1 .. Len(h.tokens) |-> pool[h.tokens[i]]]
    BY <2>1, <2>2, <2>3, DecodeRow DEF Faithful
  <2>5. \A i \in 1 .. Len(Fits(h.path)) : pool[h.tokens[i]] = Fits(h.path)[i]
    BY <2>1, FitsIsSeq DEF Faithful
  <2>6. Fits(h.path) = [i \in 1 .. Len(Fits(h.path)) |-> Fits(h.path)[i]]
    BY <2>1, FitsIsSeq
  <2>7. QED
    BY <2>2, <2>4, <2>5, <2>6
<1>2. IInv => HandleResolves
  BY <1>1 DEF HandleResolves
<1>3. QED
  BY <1>2, SpecIInv, PTL

\* Tokens of the current run tell paths apart and never confuse equal ones.
LEMMA RowsIdentify ==
    ASSUME IInv, NEW g \in issued, NEW h \in issued, g.life = life, h.life = life
    PROVE  g.tokens = h.tokens <=> Fits(g.path) = Fits(h.path)
<1> DEFINE G == Fits(g.path)
           H == Fits(h.path)
<1>1. /\ g.tokens \in Seq(Token) /\ h.tokens \in Seq(Token)
      /\ G \in Seq(Component) /\ H \in Seq(Component)
      /\ Faithful(g) /\ Faithful(h)
  BY PathAssumption, RowIsSeq, FitsIsSeq DEF IInv, TypeOK, Handle, IssuedInv
<1>2. /\ Len(g.tokens) = Len(G) /\ Len(h.tokens) = Len(H)
      /\ \A i \in 1 .. Len(G) : g.tokens[i] \in 1 .. Len(pool) /\ pool[g.tokens[i]] = G[i]
      /\ \A i \in 1 .. Len(H) : h.tokens[i] \in 1 .. Len(pool) /\ pool[h.tokens[i]] = H[i]
  BY <1>1, FitsIsSeq, PathAssumption DEF Faithful, IInv, TypeOK, Handle
<1>3. ASSUME g.tokens = h.tokens
      PROVE  G = H
  <2>1. Len(G) = Len(H) /\ \A i \in 1 .. Len(G) : G[i] = H[i]
    BY <1>2, <1>3
  <2>2. QED
    BY <1>1, <2>1
<1>4. ASSUME G = H
      PROVE  g.tokens = h.tokens
  <2>1. Len(g.tokens) = Len(h.tokens)
    BY <1>2, <1>4
  <2>2. \A i \in 1 .. Len(g.tokens) : g.tokens[i] = h.tokens[i]
    BY <1>2, <1>4 DEF IInv, PoolUnique
  <2>3. QED
    BY <1>1, <2>1, <2>2, SeqExtensional
<1>5. QED
  BY <1>3, <1>4

\* Rows that index a pool without doubles identify their paths.
LEMMA IdentifyInv == IInv => HandleIdentifies
BY RowsIdentify DEF HandleIdentifies

\* Comparing the tokens of two handles compares the paths they stand for.
THEOREM HandlesIdentify == Spec => []HandleIdentifies
BY IdentifyInv, SpecIInv, PTL

-----------------------------------------------------------------------------

Pairs == {<<h.tokens, Fits(h.path)>> : h \in Current}

\* Every step of the daemon grants a handle, forgets them all, or leaves the
\* directory of handles as it is.
LEMMA StepRefines ==
    ASSUME IInv, IInv', [Next]_vars
    PROVE  [Directory!Next]_Pairs
<1>1. ASSUME UNCHANGED <<issued, life>>
      PROVE  Pairs' = Pairs
  BY <1>1 DEF Pairs, Current, Fits
<1>2. CASE add_filehandle
  <2>1. PICK h : h \in issued' /\ issued' = issued \cup {h} /\ h.life = life /\ life' = life
    <3> DEFINE new == [path |-> path, tokens |-> Fits(encoded), life |-> life]
    <3>1. new \in issued' /\ issued' = issued \cup {new} /\ life' = life
      BY <1>2 DEF add_filehandle
    <3>2. new.life = life
      OBVIOUS
    <3> HIDE DEF new
    <3>3. QED
      BY <3>1, <3>2
  <2>2. h.tokens \in Row /\ Fits(h.path) \in {Fits(p) : p \in Path}
    <3>1. h \in Handle
      BY <2>1 DEF IInv, TypeOK
    <3>2. QED
      BY <3>1 DEF Handle
  <2>3. Current' = Current \cup {h}
    BY <2>1 DEF Current
  <2>4. Pairs' = {<<g.tokens, Fits(g.path)>> : g \in Current'}
    BY DEF Pairs, Fits
  <2>5. Pairs' = Pairs \cup {<<h.tokens, Fits(h.path)>>}
    BY <2>3, <2>4 DEF Pairs
  <2>6. HandleIdentifies'
    BY IdentifyInv, PTL
  <2>7. ASSUME NEW g \in Current
        PROVE  g.tokens = h.tokens <=> Fits(g.path) = Fits(h.path)
    <3>1. g \in issued' /\ g.life = life' /\ h \in issued' /\ h.life = life'
      BY <2>1 DEF Current
    <3>2. QED
      BY <2>6, <3>1 DEF HandleIdentifies, Fits
  <2>8. \A e \in Pairs : e[1] = h.tokens <=> e[2] = Fits(h.path)
    BY <2>7 DEF Pairs
  <2>9. Directory!Grant(h.tokens, Fits(h.path))
    BY <2>5, <2>8 DEF Directory!Grant, Pairs
  <2>10. \E r \in Row, p \in {Fits(q) : q \in Path} : Directory!Grant(r, p)
    BY <2>2, <2>9
  <2>11. QED
    BY <2>10 DEF Directory!Next
<1>3. CASE Restart
  <2>1. \A h \in issued' : h.life # life'
    BY <1>3 DEF Restart, IInv, TypeOK, IssuedInv, Handle
  <2>2. Pairs' = {}
    BY <2>1 DEF Pairs, Current
  <2>3. QED
    BY <2>2 DEF Directory!Next, Directory!Forget, Pairs
<1>4. ASSUME NEW p \in Path, make_filehandle(p)
      PROVE  Pairs' = Pairs
  BY <1>1, <1>4 DEF make_filehandle
<1>5. CASE FindSubpath
  BY <1>1, <1>5 DEF FindSubpath
<1>6. CASE AppendSubpath
  BY <1>1, <1>6 DEF AppendSubpath
<1>7. CASE UNCHANGED vars
  BY <1>1, <1>7 DEF vars
<1>8. QED
  BY <1>2, <1>3, <1>4, <1>5, <1>6, <1>7 DEF Next

\* The token table implements the directory of handles.
THEOREM Refinement == Spec => ImplementsDirectory
<1>1. Init => Directory!Init
  BY DEF Init, Directory!Init, Current
<1>2. IInv /\ IInv' /\ [Next]_vars => [Directory!Next]_Pairs
  BY StepRefines
<1>3. QED
  BY <1>1, <1>2, SpecIInv, PTL DEF Spec, ImplementsDirectory, Directory!Spec, Pairs

=============================================================================
