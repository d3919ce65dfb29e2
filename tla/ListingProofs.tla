---------------------------- MODULE ListingProofs ----------------------------
(***************************************************************************)
(* Proofs about a directory listed page by page, for every directory, page *)
(* size and length of names, and however often the directory changes.      *)
(***************************************************************************)
EXTENDS Listing, NumberLemmas, FiniteSetTheorems, SequenceTheorems, TLAPS

-----------------------------------------------------------------------------
\* The space arithmetic

\* An entry costs at least its fixed part.
LEMMA Costs ==
    ASSUME args.proc \in Procedures
    PROVE  /\ EntryCost \in Nat /\ EntryCost > 0 /\ Preamble \in Nat
           /\ \A n \in Name : ROUNDLEN(NameLength[n]) \in Nat
<1>1. args.proc \in {"READDIR", "READDIR3", "READDIRPLUS3"}
  BY ProcedureAssumption
<1>2. \A m \in Nat : ROUNDLEN(m) \in Nat
  BY DEF ROUNDLEN
<1>3. QED
  BY <1>1, <1>2, NameAssumption DEF EntryCost, Preamble

\* The reply's write position is a number as long as there are entries to write.
LEMMA WrittenIs ==
    ASSUME args.proc \in Procedures, NEW names \in Seq(Name), NEW offset \in Nat, NEW k \in Nat,
           k # 0 => offset + k <= Len(names)
    PROVE  Written(names, offset, k) \in Nat
<1> DEFINE step == [j \in 1 .. k |-> [v \in Nat |-> v + EntryCost + ROUNDLEN(NameLength[names[offset + j]])]]
           Body(f) == [j \in 0 .. k |-> IF j = 0 THEN Preamble
                        ELSE f[j - 1] + EntryCost + ROUNDLEN(NameLength[names[offset + j]])]
           cwp == CHOOSE f : f = Body(f)
<1>1. \A j \in 1 .. k : ROUNDLEN(NameLength[names[offset + j]]) \in Nat
  <2>1. \A j \in 1 .. k : offset + j \in 1 .. Len(names)
    OBVIOUS
  <2>2. \A i \in 1 .. Len(names) : names[i] \in Name
    OBVIOUS
  <2>3. QED
    BY <2>1, <2>2, Costs
<1>2. EntryCost \in Nat /\ Preamble \in Nat
  BY Costs
<1>3. step \in [1 .. k -> [Nat -> Nat]]
  <2>1. ASSUME NEW j \in 1 .. k
        PROVE  [v \in Nat |-> v + EntryCost + ROUNDLEN(NameLength[names[offset + j]])] \in [Nat -> Nat]
    <3>1. PICK r : r = ROUNDLEN(NameLength[names[offset + j]])
      OBVIOUS
    <3>2. r \in Nat
      BY <1>1, <3>1, Zenon
    <3>3. [v \in Nat |-> v + EntryCost + r] \in [Nat -> Nat]
      BY <1>2, <3>2
    <3>4. QED
      BY <3>1, <3>3
  <2>2. QED
    BY <2>1, Zenon
<1>4. \A j \in 1 .. k, v \in Nat : step[j][v] = v + EntryCost + ROUNDLEN(NameLength[names[offset + j]])
  OBVIOUS
<1> HIDE DEF step
<1>5. PICK f \in [0 .. k -> Nat] : f[0] = Preamble /\ \A j \in 1 .. k : f[j] = step[j][f[j - 1]]
  <2>1. PICK b : b = Preamble
    OBVIOUS
  <2>2. PICK t : t = step
    OBVIOUS
  <2>3. b \in Nat /\ t \in [1 .. k -> [Nat -> Nat]]
    BY <1>2, <1>3, <2>1, <2>2
  <2>4. \E f \in [0 .. k -> Nat] : f[0] = b /\ \A j \in 1 .. k : f[j] = t[j][f[j - 1]]
    <3>1. Recursive(k, Nat)
      BY RecursionIs
    <3>2. QED
      BY <2>3, <3>1, Zenon DEF Recursive
  <2>5. QED
    BY <2>1, <2>2, <2>4
<1>6. f = Body(f)
  <2>1. \A j \in 0 .. k : j # 0 => j \in 1 .. k /\ j - 1 \in 0 .. k
    OBVIOUS
  <2>2. \A j \in 0 .. k : f[j] = IF j = 0 THEN Preamble
                        ELSE f[j - 1] + EntryCost + ROUNDLEN(NameLength[names[offset + j]])
    BY <1>4, <1>5, <2>1
  <2>3. QED
    BY <2>2
<1>7. cwp = Body(cwp)
  <2>1. \E h : h = Body(h)
    BY <1>6, Zenon
  <2> HIDE DEF Body
  <2>2. QED
    BY <2>1, Zenon
<1>8. PICK c : c = cwp
  OBVIOUS
<1> HIDE DEF cwp
<1>9. c[0] = Preamble /\ \A j \in 1 .. k : c[j] = c[j - 1] + EntryCost + ROUNDLEN(NameLength[names[offset + j]])
  <2>1. c = Body(c)
    BY <1>7, <1>8, Zenon
  <2>2. QED
    BY <2>1
<1>10. \A j \in 0 .. k : j \in {i \in 0 .. k : c[i] \in Nat}
  <2> DEFINE S == {i \in 0 .. k : c[i] \in Nat}
  <2>1. 0 \in S
    BY <1>2, <1>9
  <2>2. ASSUME NEW j \in 1 .. k, j - 1 \in S PROVE j \in S
    <3>1. PICK r : r = ROUNDLEN(NameLength[names[offset + j]])
      OBVIOUS
    <3>2. r \in Nat /\ c[j] = c[j - 1] + EntryCost + r
      BY <1>1, <1>9, <3>1, Zenon
    <3>3. c[j - 1] \in Nat
      BY <2>2
    <3>4. QED
      BY <1>2, <3>2, <3>3
  <2> HIDE DEF S
  <2>3. \A j \in 0 .. k : j \in S
    BY <2>1, <2>2, CountUp, Zenon
  <2>4. QED
    BY <2>3 DEF S
<1>11. Written(names, offset, k) = cwp[k]
  BY Zenon DEF Written, cwp
<1>12. QED
  BY <1>8, <1>10, <1>11

\* Behind the entries taken is no entry or no room, and what was taken fits.
LEMMA TakenIs ==
    ASSUME args.proc \in Procedures, Limit \in Int, NEW names \in Seq(Name), NEW offset \in Nat
    PROVE  /\ Taken(names, offset) \in Nat
           /\ Taken(names, offset) # 0 =>
                 /\ offset + Taken(names, offset) <= Len(names)
                 /\ Written(names, offset, Taken(names, offset)) <= Limit
           /\ Written(names, offset, Taken(names, offset)) \in Nat
<1> DEFINE Full(m) == offset + m >= Len(names) \/ Written(names, offset, m + 1) > Limit
           Stops == {m \in Nat : Full(m)}
           Fits(m) == \A j \in 1 .. m : offset + j <= Len(names) /\ Written(names, offset, j) <= Limit
<1>1. Len(names) \in Stops /\ Len(names) \in Nat
  OBVIOUS
<1>2. PICK k \in Stops : \A m \in Stops : k <= m
  <2> HIDE DEF Stops
  <2>1. Stops \in SUBSET Nat
    BY DEF Stops
  <2>2. QED
    BY <1>1, <2>1, LeastNatural
<1>3. k \in 0 .. Len(names) /\ Full(k)
  BY <1>1, <1>2
<1>4. Fits(k)
  <2> SUFFICES ASSUME NEW j \in 1 .. k
               PROVE  offset + j <= Len(names) /\ Written(names, offset, j) <= Limit
    OBVIOUS
  <2>1. j - 1 \in Nat /\ j - 1 < k /\ (j - 1) + 1 = j
    BY <1>3
  <2>2. ~Full(j - 1)
    <3> HIDE DEF Full
    <3>1. \A m \in Nat : Full(m) => k <= m
      BY <1>2
    <3>2. QED
      BY <1>3, <2>1, <3>1
  <2>3. offset + j <= Len(names)
    BY <1>1, <2>1, <2>2
  <2>4. Written(names, offset, j) \in Nat
    BY <2>3, WrittenIs
  <2>5. ~(Written(names, offset, j) > Limit)
    BY <2>1, <2>2
  <2>6. QED
    BY <2>3, <2>4, <2>5
<1> DEFINE K == Taken(names, offset)
<1>5. K \in 0 .. Len(names) /\ Fits(K) /\ Full(K)
  <2> HIDE DEF Fits, Full
  <2>1. \E m \in 0 .. Len(names) : Fits(m) /\ Full(m)
    BY <1>3, <1>4
  <2>2. K = CHOOSE m \in 0 .. Len(names) : Fits(m) /\ Full(m)
    BY Zenon DEF Taken, Fits, Full
  <2>3. QED
    BY <2>1, <2>2, Zenon
<1> HIDE DEF K
<1>6. K \in Nat /\ (K # 0 => offset + K <= Len(names) /\ Written(names, offset, K) <= Limit)
  <2>1. K \in Nat /\ (K # 0 => K \in 1 .. K)
    BY <1>1, <1>5
  <2>2. QED
    BY <1>5, <2>1
<1>7. Written(names, offset, K) \in Nat
  BY <1>6, WrittenIs
<1>8. QED
  BY <1>6, <1>7, Zenon DEF K

-----------------------------------------------------------------------------
\* What readdir delivers

Directory == Seq(Name \cup {Free})

\* f is what has been read after each slot of s.
Reads(f, s) ==
    /\ f[0] = <<>>
    /\ \A j \in 1 .. Len(s) :
          f[j] = IF s[j] = Free THEN f[j - 1] ELSE Append(f[j - 1], s[j])

\* The entries are what has been read after the last slot.
LEMMA EntriesAre ==
    ASSUME NEW s \in Directory
    PROVE  \E f \in [0 .. Len(s) -> Seq(Name)] : Reads(f, s) /\ Entries(s) = f[Len(s)]
<1> DEFINE k == Len(s)
           V == Seq(Name)
           step == [j \in 1 .. k |-> [v \in V |-> IF s[j] = Free THEN v ELSE Append(v, s[j])]]
           Body(f) == [i \in 0 .. k |-> IF i = 0 THEN <<>>
                        ELSE IF s[i] = Free THEN f[i - 1] ELSE Append(f[i - 1], s[i])]
           upTo == CHOOSE f : f = Body(f)
<1>0. k \in Nat /\ \A j \in 1 .. k : s[j] \in Name \cup {Free}
  BY DEF Directory
<1> HIDE DEF k
<1>1. \A j \in 1 .. k : \A v \in V : (IF s[j] = Free THEN v ELSE Append(v, s[j])) \in V
  BY <1>0
<1>2. <<>> \in V
  OBVIOUS
<1> HIDE DEF V
<1>3. step \in [1 .. k -> [V -> V]]
  <2>1. ASSUME NEW j \in 1 .. k
        PROVE  [v \in V |-> IF s[j] = Free THEN v ELSE Append(v, s[j])] \in [V -> V]
    BY <1>1
  <2>2. QED
    BY <2>1, Zenon
<1>4. \A j \in 1 .. k : \A v \in V : step[j][v] = IF s[j] = Free THEN v ELSE Append(v, s[j])
  OBVIOUS
<1> HIDE DEF step
<1>5. PICK f \in [0 .. k -> V] : f[0] = <<>> /\ \A j \in 1 .. k : f[j] = step[j][f[j - 1]]
  <2>1. Recursive(k, V)
    BY <1>0, RecursionIs
  <2>2. QED
    BY <1>2, <1>3, <2>1, Zenon DEF Recursive
<1>6. f = Body(f)
  <2>1. \A j \in 0 .. k : j # 0 => j \in 1 .. k /\ j - 1 \in 0 .. k
    BY <1>0
  <2>2. \A j \in 0 .. k : f[j] = IF j = 0 THEN <<>>
                        ELSE IF s[j] = Free THEN f[j - 1] ELSE Append(f[j - 1], s[j])
    BY <1>4, <1>5, <2>1
  <2>3. QED
    BY <2>2
<1>7. upTo = Body(upTo)
  <2>1. \E h : h = Body(h)
    BY <1>6, Zenon
  <2> HIDE DEF Body
  <2>2. QED
    BY <2>1, Zenon
<1>8. Entries(s) = upTo[k]
  BY Zenon DEF Entries, k
<1> HIDE DEF upTo
<1>9. upTo[0] = <<>> /\ \A j \in 1 .. k : upTo[j] = IF s[j] = Free THEN upTo[j - 1] ELSE Append(upTo[j - 1], s[j])
  <2>1. PICK d : d = upTo
    OBVIOUS
  <2>2. d = Body(d)
    BY <1>7, <2>1, Zenon
  <2>3. \A j \in 0 .. k : d[j] = IF j = 0 THEN <<>> ELSE IF s[j] = Free THEN d[j - 1] ELSE Append(d[j - 1], s[j])
    BY <2>2
  <2>4. \A j \in 1 .. k : j # 0 /\ j \in 0 .. k
    BY <1>0
  <2>5. 0 \in 0 .. k
    BY <1>0
  <2>6. d[0] = <<>>
    BY <2>3, <2>5
  <2>7. \A j \in 1 .. k : d[j] = IF s[j] = Free THEN d[j - 1] ELSE Append(d[j - 1], s[j])
    BY <2>3, <2>4
  <2>8. QED
    BY <2>1, <2>6, <2>7, Zenon
<1>10. \A j \in 0 .. k : j \in {i \in 0 .. k : upTo[i] \in V}
  <2> DEFINE S == {i \in 0 .. k : upTo[i] \in V}
  <2>1. 0 \in S
    BY <1>0, <1>2, <1>9
  <2>2. ASSUME NEW j \in 1 .. k, j - 1 \in S PROVE j \in S
    BY <1>0, <1>1, <1>9, <2>2
  <2> HIDE DEF S
  <2>3. \A j \in 0 .. k : j \in S
    BY <1>0, <2>1, <2>2, CountUp, Zenon
  <2>4. QED
    BY <2>3 DEF S
<1>11. upTo \in [0 .. k -> V]
  <2>1. PICK d : d = upTo
    OBVIOUS
  <2>2. d = Body(d)
    BY <1>7, <2>1, Zenon
  <2>3. \A j \in 0 .. k : d[j] \in V
    BY <1>10, <2>1
  <2>4. d = [j \in 0 .. k |-> d[j]]
    BY <2>2
  <2>5. QED
    BY <2>1, <2>3, <2>4
<1>12. QED
  BY <1>8, <1>9, <1>11, Zenon DEF k, V, Reads

\* A slot added at the end is an entry added at the end.
LEMMA EntriesAppend ==
    ASSUME NEW s \in Directory, NEW n \in Name
    PROVE  Entries(Append(s, n)) = Append(Entries(s), n)
<1> DEFINE k == Len(s)
<1>1. PICK t : t = Append(s, n)
  OBVIOUS
<1>2. /\ t \in Directory /\ Len(t) = k + 1 /\ k \in Nat
      /\ t[k + 1] = n /\ n # Free /\ \A j \in 1 .. k : t[j] = s[j]
  BY <1>1, NameAssumption DEF Directory
<1> HIDE DEF k
<1>3. PICK f \in [0 .. k -> Seq(Name)] : Reads(f, s) /\ Entries(s) = f[k]
  BY EntriesAre, Zenon DEF k
<1>4. PICK g \in [0 .. Len(t) -> Seq(Name)] : Reads(g, t) /\ Entries(t) = g[Len(t)]
  BY <1>2, EntriesAre, Zenon
<1>5. f[k] = g[k]
  <2> DEFINE S == {j \in 0 .. k : f[j] = g[j]}
  <2>1. 0 \in S
    BY <1>2, <1>3, <1>4 DEF Reads
  <2>2. ASSUME NEW j \in 1 .. k, j - 1 \in S PROVE j \in S
    <3>1. f[j - 1] = g[j - 1] /\ t[j] = s[j] /\ j \in 1 .. Len(t)
      BY <1>2, <2>2
    <3>2. f[j] = IF s[j] = Free THEN f[j - 1] ELSE Append(f[j - 1], s[j])
      BY <1>3, Zenon DEF Reads, k
    <3>3. g[j] = IF t[j] = Free THEN g[j - 1] ELSE Append(g[j - 1], t[j])
      BY <1>4, <3>1, Zenon DEF Reads
    <3>4. QED
      BY <1>2, <3>1, <3>2, <3>3
  <2> HIDE DEF S
  <2>3. \A j \in 0 .. k : j \in S
    BY <1>2, <2>1, <2>2, CountUp, Zenon
  <2>4. k \in 0 .. k
    BY <1>2
  <2>5. QED
    BY <2>3, <2>4 DEF S
<1>6. g[k + 1] = Append(g[k], n)
  <2>1. k + 1 \in 1 .. Len(t) /\ (k + 1) - 1 = k
    BY <1>2
  <2>2. g[k + 1] = IF t[k + 1] = Free THEN g[(k + 1) - 1] ELSE Append(g[(k + 1) - 1], t[k + 1])
    BY <1>4, <2>1, Zenon DEF Reads
  <2>3. QED
    BY <1>2, <2>1, <2>2
<1>7. QED
  BY <1>1, <1>2, <1>3, <1>4, <1>5, <1>6

Distinct(s) == \A i, j \in 1 .. Len(s) : s[i] = s[j] /\ s[i] # Free => i = j

\* Different names in the slots are different entries.
LEMMA EntriesDistinct ==
    ASSUME NEW s \in Directory, Distinct(s)
    PROVE  Entries(s) \in Seq(Name) /\ Distinct(Entries(s))
<1> DEFINE k == Len(s)
<1>1. k \in Nat /\ \A j \in 1 .. k : s[j] \in Name \cup {Free}
  BY DEF Directory
<1> HIDE DEF k
<1>2. PICK f \in [0 .. k -> Seq(Name)] : Reads(f, s) /\ Entries(s) = f[k]
  BY EntriesAre, Zenon DEF k
<1> DEFINE From(e, j) == \A i \in 1 .. Len(e) : \E m \in 1 .. j : e[i] = s[m]
           S == {j \in 0 .. k : Distinct(f[j]) /\ From(f[j], j)}
<1>3. 0 \in S
  BY <1>1, <1>2 DEF Reads, Distinct
<1>4. ASSUME NEW j \in 1 .. k, j - 1 \in S PROVE j \in S
  <2>1. f[j] = IF s[j] = Free THEN f[j - 1] ELSE Append(f[j - 1], s[j])
    BY <1>2, Zenon DEF Reads, k
  <2>2. PICK e \in Seq(Name) : e = f[j - 1]
    BY <1>1, <1>2
  <2>3. Distinct(e) /\ From(e, j - 1) /\ j \in 0 .. k
    BY <1>1, <1>4, <2>2
  <2>4. \A m \in 1 .. j - 1 : m \in 1 .. j /\ m # j /\ m \in 1 .. Len(s) /\ j \in 1 .. Len(s)
    BY <1>1 DEF k
  <2>5. CASE s[j] = Free
    <3>1. f[j] = e
      BY <2>1, <2>2, <2>5
    <3>2. From(e, j)
      BY <2>3, <2>4, Zenon
    <3>3. QED
      BY <2>3, <3>1, <3>2
  <2>6. CASE s[j] # Free
    <3>1. s[j] \in Name
      BY <1>1, <2>6
    <3>2. PICK h : h = Append(e, s[j])
      OBVIOUS
    <3>3. /\ h = f[j] /\ Len(h) = Len(e) + 1 /\ Len(e) \in Nat
          /\ h[Len(e) + 1] = s[j] /\ \A i \in 1 .. Len(e) : h[i] = e[i]
      BY <2>1, <2>2, <2>6, <3>1, <3>2
    <3>4. From(h, j)
      <4> SUFFICES ASSUME NEW i \in 1 .. Len(h) PROVE \E m \in 1 .. j : h[i] = s[m]
        OBVIOUS
      <4>1. CASE i = Len(e) + 1
        BY <1>1, <3>3, <4>1
      <4>2. CASE i # Len(e) + 1
        <5>1. i \in 1 .. Len(e)
          BY <3>3, <4>2
        <5>2. PICK m \in 1 .. j - 1 : e[i] = s[m]
          BY <2>3, <5>1
        <5>3. QED
          BY <2>4, <3>3, <5>1, <5>2
      <4>3. QED
        BY <4>1, <4>2
    <3>5. \A i \in 1 .. Len(e) : e[i] # s[j]
      <4> SUFFICES ASSUME NEW i \in 1 .. Len(e), e[i] = s[j] PROVE FALSE
        OBVIOUS
      <4>1. PICK m \in 1 .. j - 1 : e[i] = s[m]
        BY <2>3
      <4>2. s[m] = s[j] /\ m \in 1 .. Len(s) /\ j \in 1 .. Len(s) /\ m # j
        BY <2>4, <4>1
      <4>3. QED
        BY <2>6, <4>2 DEF Distinct
    <3>6. Distinct(h)
      <4> SUFFICES ASSUME NEW a \in 1 .. Len(h), NEW b \in 1 .. Len(h), h[a] = h[b], h[a] # Free
                   PROVE  a = b
        BY Zenon DEF Distinct
      <4>1. \A i \in 1 .. Len(h) : i = Len(e) + 1 \/ i \in 1 .. Len(e)
        BY <3>3
      <4>2. CASE a \in 1 .. Len(e) /\ b \in 1 .. Len(e)
        <5>1. e[a] = e[b] /\ e[a] # Free
          BY <3>3, <4>2
        <5>2. QED
          BY <2>3, <4>2, <5>1, Zenon DEF Distinct
      <4>3. CASE a = Len(e) + 1 /\ b \in 1 .. Len(e)
        BY <3>3, <3>5, <4>3
      <4>4. CASE b = Len(e) + 1 /\ a \in 1 .. Len(e)
        BY <3>3, <3>5, <4>4
      <4>5. QED
        BY <4>1, <4>2, <4>3, <4>4
    <3>7. QED
      BY <2>3, <3>3, <3>4, <3>6
  <2>7. QED
    BY <2>5, <2>6
<1>5. k \in S
  <2> HIDE DEF S
  <2>1. \A j \in 0 .. k : j \in S
    BY <1>1, <1>3, <1>4, CountUp, Zenon
  <2>2. k \in 0 .. k
    BY <1>1
  <2>3. QED
    BY <2>1, <2>2
<1>6. QED
  BY <1>1, <1>2, <1>5

-----------------------------------------------------------------------------
\* The inductive invariant

\* What the client has and what is on its way to it.
Seen == got \o page.names

\* A listing has begun that was not thrown away.
Begun == cookie # 0 \/ page.status = "ok" \/ finished

\* The end was announced.
Ended == finished \/ page.eof

Leads(s, t) == Len(s) <= Len(t) /\ \A i \in 1 .. Len(s) : s[i] = t[i]

\* The cookie counts what the client has, and only a good page says anything.
PageInv ==
    /\ cookie = Len(got)
    /\ page.status # "ok" => page.names = <<>> /\ ~page.eof
    /\ page.verf <= mtime
    /\ finished => page = None
    /\ page.names # <<>> => page.size <= Limit + 8

\* A verifier that still is the directory's is that of the directory the
\* listing began with.
SnapshotInv ==
    Version3 /\ ~hidden /\ Begun =>
        /\ Leads(Seen, started)
        /\ Ended => Len(Seen) = Len(started)
        /\ cookie # 0 => verf # 0 /\ (verf = mtime => Entries(slots) = started)
        /\ page.status = "ok" => page.verf # 0 /\ (page.verf = mtime => Entries(slots) = started)

\* Without a hole what was there first is still there, in the same order.
OnceInv ==
    ~shifted /\ Begun =>
        /\ Leads(started, Entries(slots))
        /\ Leads(Seen, Entries(slots))
        /\ Ended => Len(started) <= Len(Seen)

IInv == TypeOK /\ Distinct(slots) /\ PageInv /\ EofIsComplete /\ SnapshotInv /\ OnceInv

-----------------------------------------------------------------------------
\* A page

ArgsOK == args \in [proc : Procedures, count : Counts, dircount : DirCounts]

\* What a page may reach is more than nothing and less than what was asked for.
LEMMA LimitIs ==
    ASSUME ArgsOK
    PROVE  /\ args.proc \in Procedures /\ Limit \in Nat /\ Limit # 0
           /\ Limit + 8 <= args.count /\ Limit + 8 <= TRANSFER_SIZE
           /\ CanEnd => CountLeft # 0
<1>1. args.proc \in Procedures /\ args.count \in Nat /\ args.count > 32
  BY SizeAssumption, RoomAssumption DEF ArgsOK
<1>2. TRANSFER_SIZE \in Nat /\ TRANSFER_SIZE > 32
  BY SizeAssumption, RoomAssumption
<1>3. Clamped \in Nat /\ Clamped > 32 /\ Clamped <= args.count /\ Clamped <= TRANSFER_SIZE
  BY <1>1, <1>2 DEF Clamped
<1>4. Limit = Clamped - 32 \/ Limit = Clamped - 12
  BY Zenon DEF Limit
<1>5. Limit \in Nat /\ Limit # 0 /\ Limit + 8 <= args.count /\ Limit + 8 <= TRANSFER_SIZE
  BY <1>1, <1>2, <1>3, <1>4
<1>6. CanEnd => CountLeft # 0
  BY <1>5, Zenon DEF CanEnd, CountLeft
<1>7. QED
  BY <1>1, <1>5, <1>6

\* What a page of a directory with these entries carries, from the offset on.
PageOf(p, names, offset) ==
    /\ p \in [status : {"ok"}, names : Seq(Name), eof : BOOLEAN, size : Nat, more : BOOLEAN, verf : {mtime}]
    /\ \A i \in 1 .. Len(p.names) : p.names[i] = names[offset + i]
    /\ p.names # <<>> => offset + Len(p.names) <= Len(names) /\ p.size <= Limit + 8
    /\ p.eof => offset + Len(p.names) >= Len(names)
    /\ p.eof => ~p.more
    /\ CanEnd /\ ~p.more => p.eof

\* nfsd's page is such a page.
LEMMA PageIs ==
    ASSUME ArgsOK, mtime \in Nat, NEW names \in Seq(Name), NEW offset \in Nat
    PROVE  PageOf(Page(names, offset), names, offset)
<1>1. PICK k : k = Taken(names, offset)
  OBVIOUS
<1>2. PICK w : w = Written(names, offset, k)
  OBVIOUS
<1>3. /\ k \in Nat /\ w \in Nat
      /\ k # 0 => offset + k <= Len(names) /\ w <= Limit
  BY LimitIs, TakenIs, <1>1, <1>2
<1>4. PICK e : e = SubSeq(names, offset + 1, offset + k)
  OBVIOUS
<1>5. e \in Seq(Name) /\ Len(e) = k /\ \A i \in 1 .. Len(e) : e[i] = names[offset + i]
  <2>1. CASE k = 0
    <3>1. e = [i \in 1 .. 0 |-> names[offset + i]]
      BY <1>4, <2>1
    <3>2. QED
      BY <2>1, <3>1
  <2>2. CASE k # 0
    BY <1>3, <1>4, <2>2
  <2>3. QED
    BY <2>1, <2>2
<1>6. PICK p : p = Page(names, offset)
  OBVIOUS
<1>7. /\ p = [status |-> "ok", names |-> e, eof |-> Eof(names, offset, k), size |-> w + 8,
              more |-> offset + k < Len(names), verf |-> mtime]
  BY <1>1, <1>2, <1>4, <1>6, Zenon DEF Page, Verifier
<1>8. Eof(names, offset, k) \in BOOLEAN /\ (offset + k < Len(names)) \in BOOLEAN
  BY DEF Eof
<1>9. p \in [status : {"ok"}, names : Seq(Name), eof : BOOLEAN, size : Nat, more : BOOLEAN, verf : {mtime}]
  BY <1>3, <1>5, <1>7, <1>8
<1>10. p.names = e /\ p.size = w + 8
  BY <1>7
<1>11. (p.eof <=> Eof(names, offset, k)) /\ (p.more <=> offset + k < Len(names))
  BY <1>7, Zenon
<1>12. Eof(names, offset, k) <=> offset + k >= Len(names) /\ CountLeft # 0
  BY DEF Eof
<1>13. p.names # <<>> => offset + Len(p.names) <= Len(names) /\ p.size <= Limit + 8
  <2>1. e # <<>> => k # 0
    BY <1>5
  <2>2. Limit \in Nat
    BY LimitIs
  <2>3. QED
    BY <1>3, <1>5, <1>10, <2>1, <2>2
<1>14. Len(names) \in Nat
  OBVIOUS
<1>15. /\ p.eof => offset + Len(p.names) >= Len(names)
       /\ p.eof => ~p.more
       /\ CanEnd /\ ~p.more => p.eof
  <2>1. Len(p.names) = k
    BY <1>5, <1>10
  <2>2. offset + k >= Len(names) <=> ~(offset + k < Len(names))
    BY <1>3, <1>14
  <2>3. CanEnd => CountLeft # 0
    BY LimitIs
  <2>4. QED
    BY <1>11, <1>12, <2>1, <2>2, <2>3, Zenon
<1>16. QED
  BY <1>5, <1>6, <1>9, <1>10, <1>13, <1>15, Zenon DEF PageOf

-----------------------------------------------------------------------------
\* Every step keeps the invariant

\* What each part of the invariant says of its parts, in one place.
LEMMA Parts ==
    ASSUME IInv
    PROVE  /\ slots \in Directory /\ Distinct(slots) /\ ArgsOK
           /\ mtime \in Nat /\ mtime # 0 /\ clock \in Nat /\ mtime <= clock /\ clock <= MaxClock
           /\ MaxClock \in Nat /\ cookie \in Nat /\ verf \in Nat /\ verf <= mtime
           /\ got \in Seq(Name) /\ started \in Seq(Name) /\ page.names \in Seq(Name)
           /\ page.status \in {"none", "ok", "bad_cookie"}
           /\ page.verf \in Nat /\ changes \in 0 .. MaxChanges /\ MaxChanges \in Nat
           /\ finished \in BOOLEAN /\ shifted \in BOOLEAN /\ hidden \in BOOLEAN /\ page.eof \in BOOLEAN
           /\ Entries(slots) \in Seq(Name) /\ Distinct(Entries(slots))
<1>1. slots \in Directory /\ Distinct(slots) /\ ArgsOK
  BY DEF IInv, TypeOK, Directory, ArgsOK
<1>2. Entries(slots) \in Seq(Name) /\ Distinct(Entries(slots))
  BY <1>1, EntriesDistinct
<1>3. /\ mtime \in Nat /\ mtime # 0 /\ clock \in Nat /\ mtime <= clock /\ clock <= MaxClock
      /\ MaxClock \in Nat /\ cookie \in Nat /\ verf \in Nat /\ verf <= mtime
      /\ changes \in 0 .. MaxChanges /\ MaxChanges \in Nat
  BY BoundAssumption DEF IInv, TypeOK
<1>4. /\ got \in Seq(Name) /\ started \in Seq(Name) /\ page.names \in Seq(Name)
      /\ page.status \in {"none", "ok", "bad_cookie"} /\ page.verf \in Nat /\ page.eof \in BOOLEAN
  BY DEF IInv, TypeOK
<1>5. finished \in BOOLEAN /\ shifted \in BOOLEAN /\ hidden \in BOOLEAN
  BY DEF IInv, TypeOK
<1>6. QED
  BY <1>1, <1>2, <1>3, <1>4, <1>5

\* The beginning of a listing.
LEMMA InitInv == Init => IInv
<1> SUFFICES ASSUME Init
             PROVE  IInv
  OBVIOUS
<1>1. TypeOK
  <2>1. page \in [status : {"none", "ok", "bad_cookie"}, names : Seq(Name), eof : BOOLEAN,
                  size : Nat, more : BOOLEAN, verf : Nat]
    BY DEF Init, None
  <2>2. /\ slots \in Seq(Name \cup {Free})
        /\ mtime \in 1 .. MaxClock /\ clock \in mtime .. MaxClock
        /\ cookie \in Nat /\ verf \in 0 .. mtime /\ changes \in 0 .. MaxChanges
    BY StandingAssumption, BoundAssumption DEF Init
  <2>3. got \in Seq(Name) /\ started \in Seq(Name) /\ {finished, shifted, hidden} \subseteq BOOLEAN
    <3>1. finished = FALSE /\ shifted = FALSE /\ hidden = FALSE /\ got = <<>> /\ started = <<>>
      BY DEF Init
    <3>2. {finished, shifted, hidden} \subseteq BOOLEAN
      BY <3>1, Zenon
    <3>3. QED
      BY <3>1, <3>2
  <2>4. args \in [proc : Procedures, count : Counts, dircount : DirCounts]
    BY DEF Init
  <2>5. QED
    BY <2>1, <2>2, <2>3, <2>4 DEF TypeOK
<1>2. Distinct(slots)
  BY StandingAssumption, Zenon DEF Init, Distinct
<1>3. page.status = "none" /\ page.names = <<>> /\ ~page.eof /\ page.verf = 0 /\ ~Begun
  BY DEF Init, None, Begun
<1>4. PageInv /\ EofIsComplete /\ SnapshotInv /\ OnceInv
  BY <1>3 DEF Init, PageInv, EofIsComplete, SnapshotInv, OnceInv
<1>5. QED
  BY <1>1, <1>2, <1>4 DEF IInv

\* nfsd makes a page.
LEMMA ReadDirInv ==
    ASSUME IInv, ReadDir
    PROVE  IInv'
<1>1. /\ page = None /\ ~finished /\ UNCHANGED <<slots, mtime, clock, args, cookie, verf, got, finished, changes>>
  BY DEF ReadDir
<1>2. page.names = <<>> /\ page.status = "none" /\ ~page.eof
  BY <1>1 DEF None
<1>3. PICK E \in Seq(Name) : E = Entries(slots) /\ Distinct(E)
  BY Parts
<1>4. E = Entries(slots)' /\ Distinct(slots)' /\ (Version3 <=> Version3') /\ ArgsOK /\ args' = args
  BY <1>1, <1>3 DEF IInv, Entries, Distinct, Version3, TypeOK, ArgsOK
<1>5. /\ cookie = 0 => started' = E /\ shifted' = FALSE /\ hidden' = FALSE
      /\ cookie # 0 => UNCHANGED <<started, shifted, hidden>>
  BY <1>3 DEF ReadDir
<1>6. started' \in Seq(Name) /\ shifted' \in BOOLEAN /\ hidden' \in BOOLEAN
  BY <1>3, <1>5, Parts
<1>7. CASE Outdated(verf)
  <2>1. page' = [None EXCEPT !.status = "bad_cookie"]
    BY <1>7 DEF ReadDir
  <2>2. /\ page'.names = <<>> /\ page'.status = "bad_cookie" /\ ~page'.eof /\ page'.verf = 0
        /\ page' \in [status : {"none", "ok", "bad_cookie"}, names : Seq(Name), eof : BOOLEAN,
                      size : Nat, more : BOOLEAN, verf : Nat]
    <3>1. PICK p : p = page'
      OBVIOUS
    <3>2. p = [status |-> "bad_cookie", names |-> <<>>, eof |-> FALSE, size |-> 0, more |-> FALSE, verf |-> 0]
      BY <2>1, <3>1 DEF None
    <3>3. p.names = <<>> /\ p.status = "bad_cookie" /\ ~p.eof /\ p.verf = 0
      BY <3>2
    <3>4. p \in [status : {"none", "ok", "bad_cookie"}, names : Seq(Name), eof : BOOLEAN,
                  size : Nat, more : BOOLEAN, verf : Nat]
      BY <3>2
    <3>5. QED
      BY <3>1, <3>3, <3>4
  <2>3. TypeOK'
    BY <1>1, <1>6, <2>2 DEF IInv, TypeOK
  <2>4. PageInv' /\ EofIsComplete'
    BY <1>1, <2>2, Parts DEF IInv, PageInv, EofIsComplete
  <2>5. Seen' = got /\ Seen = got
    BY <1>1, <1>2, <2>2, Parts DEF Seen
  <2>6. (Begun' => Begun) /\ (Begun' => cookie # 0) /\ (Ended' <=> Ended)
    BY <1>1, <1>2, <2>2 DEF Begun, Ended
  <2>7. SnapshotInv'
    <3>1. SnapshotInv
      BY DEF IInv
    <3>2. page'.status # "ok"
      BY <2>2
    <3>3. QED
      BY <1>1, <1>3, <1>4, <1>5, <2>5, <2>6, <3>1, <3>2 DEF SnapshotInv
  <2>8. OnceInv'
    BY <1>1, <1>3, <1>4, <1>5, <2>5, <2>6 DEF IInv, OnceInv
  <2>9. QED
    BY <1>4, <2>3, <2>4, <2>7, <2>8 DEF IInv
<1>8. CASE ~Outdated(verf)
  <2>1. page' = Page(E, cookie)
    BY <1>3, <1>8 DEF ReadDir, Skipped
  <2>2. PageOf(page', E, cookie)
    BY <1>3, <2>1, PageIs, Parts
  <2> DEFINE p == page'
  <2>3. /\ p \in [status : {"ok"}, names : Seq(Name), eof : BOOLEAN, size : Nat, more : BOOLEAN, verf : {mtime}]
        /\ \A i \in 1 .. Len(p.names) : p.names[i] = E[cookie + i]
        /\ p.names # <<>> => cookie + Len(p.names) <= Len(E) /\ p.size <= Limit + 8
        /\ p.eof => cookie + Len(p.names) >= Len(E)
        /\ p.eof => ~p.more
        /\ CanEnd /\ ~p.more => p.eof
    BY <2>2, Zenon DEF PageOf
  <2>4. p.status = "ok" /\ p.names \in Seq(Name) /\ p.verf = mtime /\ mtime # 0 /\ mtime \in Nat
    BY <2>3, Parts
  <2>5. TypeOK'
    <3>1. p \in [status : {"none", "ok", "bad_cookie"}, names : Seq(Name), eof : BOOLEAN,
                 size : Nat, more : BOOLEAN, verf : Nat]
      BY <2>3, <2>4
    <3> HIDE DEF p
    <3>2. p = page'
      BY DEF p
    <3>3. QED
      BY <1>1, <1>6, <3>1, <3>2 DEF IInv, TypeOK
  <2>6. Limit' = Limit /\ (CanEnd' <=> CanEnd)
    BY <1>4 DEF Limit, Clamped, Version3, CanEnd
  <2>7. PageInv' /\ EofIsComplete'
    BY <1>1, <2>3, <2>4, <2>6 DEF IInv, PageInv, EofIsComplete
  <2>8. PICK q \in Seq(Name) : q = p.names
    BY <2>4
  <2>9. Seen' = got \o q /\ Len(got) = cookie /\ got \in Seq(Name) /\ Seen = got
    BY <1>1, <1>2, <2>8, Parts DEF Seen, IInv, PageInv
  <2>10. PICK z : z = got \o q
    OBVIOUS
  <2>11. /\ Len(z) = cookie + Len(q) /\ cookie \in Nat /\ Len(q) \in Nat /\ z \in Seq(Name)
         /\ \A i \in 1 .. Len(z) : z[i] = IF i <= cookie THEN got[i] ELSE q[i - cookie]
    <3>1. Len(got) \in Nat /\ Len(q) \in Nat
      BY <2>8, <2>9
    <3>2. z \in Seq(Name) /\ Len(z) = Len(got) + Len(q)
      BY <2>8, <2>9, <2>10
    <3>3. \A i \in 1 .. Len(z) : z[i] = IF i <= Len(got) THEN got[i] ELSE q[i - Len(got)]
      BY <2>8, <2>9, <2>10, <3>1, <3>2, ConcatProperties
    <3>4. QED
      BY <2>9, <3>1, <3>2, <3>3
  <2>12. ASSUME Leads(got, E)
         PROVE  Leads(z, E)
    <3>1. Len(z) <= Len(E)
      <4>1. CASE q = <<>>
        BY <2>9, <2>11, <2>12, <4>1 DEF Leads
      <4>2. CASE q # <<>>
        BY <2>3, <2>8, <2>11, <4>2
      <4>3. QED
        BY <4>1, <4>2
    <3>2. ASSUME NEW i \in 1 .. Len(z)
          PROVE  z[i] = E[i]
      <4>1. CASE i <= cookie
        BY <2>9, <2>11, <2>12, <4>1 DEF Leads
      <4>2. CASE ~(i <= cookie)
        <5>1. i - cookie \in 1 .. Len(q) /\ cookie + (i - cookie) = i
          BY <2>11, <4>2
        <5>2. q[i - cookie] = E[cookie + (i - cookie)]
          BY <2>3, <2>8, <5>1
        <5>3. QED
          BY <2>11, <4>2, <5>1, <5>2
      <4>3. QED
        BY <4>1, <4>2
    <3>3. QED
      BY <3>1, <3>2 DEF Leads
  <2>13. Ended' => p.eof
    BY <1>1 DEF Ended
  <2>14. Ended' => Len(z) >= Len(E)
    BY <2>3, <2>8, <2>11, <2>13
  <2>15. cookie = 0 => Leads(got, E)
    BY <1>3, <2>9 DEF Leads
  <2>16. Len(E) \in Nat /\ \A i \in 1 .. Len(E) : E[i] = E[i]
    BY <1>3
  <2>17. SnapshotInv'
    <3> SUFFICES ASSUME Version3, ~hidden'
                 PROVE  /\ Leads(z, started')
                        /\ Ended' => Len(z) = Len(started')
                        /\ cookie # 0 => verf # 0 /\ (verf = mtime => E = started')
                        /\ p.verf # 0 /\ (p.verf = mtime => E = started')
      BY <1>1, <1>4, <2>4, <2>9, <2>10 DEF SnapshotInv
    <3>1. E = started' /\ (cookie # 0 => verf # 0)
      <4>1. CASE cookie = 0
        BY <1>5, <4>1
      <4>2. CASE cookie # 0
        <5>1. ~hidden /\ started' = started
          BY <1>5, <4>2
        <5>2. verf # 0 /\ (verf = mtime => E = started)
          BY <1>3, <4>2, <5>1 DEF IInv, SnapshotInv, Begun
        <5>3. verf = mtime
          BY <1>8, <5>2 DEF Outdated
        <5>4. QED
          BY <5>1, <5>2, <5>3
      <4>3. QED
        BY <4>1, <4>2
    <3>2. Leads(got, E)
      <4>1. CASE cookie # 0
        BY <1>5, <2>9, <3>1, <4>1 DEF IInv, SnapshotInv, Begun
      <4>2. QED
        BY <2>15, <4>1
    <3>3. Leads(z, E) /\ Len(z) <= Len(E)
      BY <2>12, <3>2 DEF Leads
    <3>4. QED
      BY <2>4, <2>11, <2>14, <2>16, <3>1, <3>3
  <2>18. OnceInv'
    <3> SUFFICES ASSUME ~shifted'
                 PROVE  /\ Leads(started', E)
                        /\ Leads(z, E)
                        /\ Ended' => Len(started') <= Len(z)
      BY <1>4, <2>9, <2>10 DEF OnceInv
    <3>1. Leads(started', E) /\ Leads(got, E)
      <4>1. CASE cookie = 0
        BY <1>5, <2>15, <2>16, <4>1 DEF Leads
      <4>2. CASE cookie # 0
        BY <1>3, <1>5, <2>9, <4>2 DEF IInv, OnceInv, Begun
      <4>3. QED
        BY <4>1, <4>2
    <3>2. Len(started') <= Len(E) /\ Len(started') \in Nat
      BY <1>6, <3>1 DEF Leads
    <3>3. QED
      BY <2>11, <2>12, <2>14, <2>16, <3>1, <3>2
  <2>19. QED
    BY <1>4, <2>5, <2>7, <2>17, <2>18 DEF IInv
<1>9. QED
  BY <1>7, <1>8

\* The client takes a page.
LEMMA ReceiveInv ==
    ASSUME IInv, Receive
    PROVE  IInv'
<1>1. /\ page # None /\ page' = None
      /\ UNCHANGED <<slots, mtime, clock, args, changes, started, shifted, hidden>>
  BY DEF Receive
<1>2. page'.names = <<>> /\ page'.status = "none" /\ ~page'.eof /\ page'.verf = 0
  BY <1>1 DEF None
<1>3. page' \in [status : {"none", "ok", "bad_cookie"}, names : Seq(Name), eof : BOOLEAN,
                 size : Nat, more : BOOLEAN, verf : Nat]
  BY <1>1 DEF None
<1>4. Entries(slots)' = Entries(slots) /\ Distinct(slots)' /\ (Version3 <=> Version3')
  BY <1>1 DEF IInv, Entries, Distinct, Version3
<1>5. ~finished
  BY <1>1 DEF IInv, PageInv
<1>6. CASE page.status = "ok"
  <2>1. /\ got' = got \o page.names /\ cookie' = cookie + Len(page.names)
        /\ verf' = page.verf /\ finished' = page.eof
    BY <1>6 DEF Receive
  <2>2. Len(page.names) \in Nat /\ Len(got) = cookie /\ page.verf <= mtime /\ page.verf \in Nat
    BY Parts DEF IInv, PageInv
  <2>3. got' \in Seq(Name) /\ Len(got') = cookie' /\ cookie' \in Nat /\ verf' \in 0 .. mtime
    <3>1. PICK q \in Seq(Name) : q = page.names
      BY Parts
    <3>2. got \in Seq(Name) /\ cookie \in Nat /\ mtime \in Nat
      BY Parts
    <3>3. got \o q \in Seq(Name) /\ Len(got \o q) = Len(got) + Len(q) /\ Len(q) \in Nat
      BY <3>1, <3>2
    <3>4. QED
      BY <2>1, <2>2, <3>1, <3>2, <3>3
  <2>4. {finished', shifted', hidden'} \subseteq BOOLEAN
    BY <1>1, <2>1, Parts
  <2>5. TypeOK'
    BY <1>1, <1>3, <2>3, <2>4 DEF IInv, TypeOK
  <2>6. PageInv' /\ EofIsComplete'
    <3>1. page'.status # "ok" /\ page'.verf <= mtime
      BY <1>2, Parts
    <3>2. QED
      BY <1>1, <1>2, <2>3, <3>1 DEF PageInv, EofIsComplete
  <2>7. Seen' = got' /\ Seen = got'
    BY <1>2, <2>1, <2>3 DEF Seen
  <2>8. (Ended' <=> Ended) /\ Begun
    BY <1>2, <1>5, <1>6, <2>1 DEF Ended, Begun
  <2>9. SnapshotInv'
    <3>1. SnapshotInv
      BY DEF IInv
    <3>2. page'.status # "ok"
      BY <1>2
    <3>3. QED
      BY <1>1, <1>4, <1>6, <2>1, <2>7, <2>8, <3>1, <3>2 DEF SnapshotInv
  <2>10. OnceInv'
    BY <1>1, <1>4, <2>7, <2>8 DEF IInv, OnceInv
  <2>11. QED
    BY <1>4, <2>5, <2>6, <2>9, <2>10 DEF IInv
<1>7. CASE page.status # "ok"
  <2>1. got' = <<>> /\ cookie' = 0 /\ verf' = 0 /\ finished' = finished
    BY <1>7 DEF Receive
  <2>2. {finished', shifted', hidden'} \subseteq BOOLEAN
    BY <1>1, <2>1, Parts
  <2>3. TypeOK'
    <3>1. verf' \in 0 .. mtime' /\ cookie' \in Nat /\ got' \in Seq(Name)
      BY <1>1, <2>1, Parts
    <3>2. QED
      BY <1>1, <1>3, <2>2, <3>1 DEF IInv, TypeOK
  <2>4. PageInv' /\ EofIsComplete'
    BY <1>1, <1>2, <2>1, Parts DEF PageInv, EofIsComplete
  <2>5. ~Begun'
    BY <1>2, <1>5, <2>1 DEF Begun
  <2>6. QED
    BY <1>4, <2>3, <2>4, <2>5 DEF IInv, SnapshotInv, OnceInv
<1>8. QED
  BY <1>6, <1>7

\* The directory changes.
LEMMA TouchInv ==
    ASSUME IInv, Touch, slots' \in Directory, Distinct(slots'), shifted' \in BOOLEAN,
           ~shifted' => ~shifted /\ Leads(Entries(slots), Entries(slots'))
    PROVE  IInv'
<1>1. /\ ~finished /\ mtime' = clock /\ changes < MaxChanges /\ changes' = changes + 1
      /\ hidden' = (hidden \/ clock = mtime)
      /\ UNCHANGED <<clock, args, cookie, verf, got, page, finished, started>>
  BY DEF Touch
<1>2. hidden' \in BOOLEAN
  BY <1>1, Zenon
<1>3. mtime' \in 1 .. MaxClock /\ clock' \in mtime' .. MaxClock /\ verf' \in 0 .. mtime' /\ changes' \in 0 .. MaxChanges
  BY <1>1, Parts
<1>4. TypeOK'
  <2>1. {finished', shifted', hidden'} \subseteq BOOLEAN
    BY <1>1, <1>2, Parts
  <2>2. QED
    BY <1>1, <1>3, <2>1 DEF IInv, TypeOK, Directory
<1>5. PageInv' /\ EofIsComplete'
  <2>1. page.verf <= mtime'
    BY <1>1, Parts DEF IInv, PageInv
  <2>2. Limit' = Limit /\ (CanEnd' <=> CanEnd)
    BY <1>1 DEF Limit, Clamped, Version3, CanEnd
  <2>3. PageInv'
    BY <1>1, <2>1, <2>2 DEF IInv, PageInv
  <2>4. EofIsComplete'
    BY <1>1, <2>2, Zenon DEF IInv, EofIsComplete
  <2>5. QED
    BY <2>3, <2>4
<1>6. Seen' = Seen /\ (Begun' <=> Begun) /\ (Ended' <=> Ended) /\ (Version3' <=> Version3)
  BY <1>1 DEF Seen, Begun, Ended, Version3
<1>7. SnapshotInv'
  <2> SUFFICES ASSUME Version3, ~hidden', Begun
               PROVE  /\ Leads(Seen, started)
                      /\ Ended => Len(Seen) = Len(started)
                      /\ cookie # 0 => verf # 0 /\ verf # mtime'
                      /\ page.status = "ok" => page.verf # 0 /\ page.verf # mtime'
    BY <1>1, <1>6 DEF SnapshotInv
  <2>1. ~hidden /\ clock # mtime
    BY <1>1, Zenon
  <2>2. verf # mtime' /\ page.verf # mtime'
    BY <1>1, <2>1, Parts DEF IInv, PageInv
  <2>3. SnapshotInv
    BY DEF IInv
  <2>4. QED
    BY <2>1, <2>2, <2>3, Zenon DEF SnapshotInv
<1>8. OnceInv'
  <2> SUFFICES ASSUME ~shifted', Begun
               PROVE  /\ Leads(started, Entries(slots'))
                      /\ Leads(Seen, Entries(slots'))
                      /\ Ended => Len(started) <= Len(Seen)
    BY <1>1, <1>6 DEF OnceInv, Entries
  <2>1. PICK E \in Seq(Name) : E = Entries(slots)
    BY Parts
  <2>2. PICK F \in Seq(Name) : F = Entries(slots')
    BY EntriesDistinct
  <2>3. /\ Leads(E, F)
        /\ Leads(started, E) /\ Leads(Seen, E)
        /\ Ended => Len(started) <= Len(Seen)
    BY <2>1, <2>2 DEF IInv, OnceInv
  <2>4. Seen \in Seq(Name) /\ started \in Seq(Name)
    BY Parts DEF Seen
  <2>5. \A s \in Seq(Name) : Leads(s, E) => Leads(s, F)
    <3> SUFFICES ASSUME NEW s \in Seq(Name), Leads(s, E)
                 PROVE  Leads(s, F)
      OBVIOUS
    <3>1. Len(s) \in Nat /\ Len(E) \in Nat /\ Len(F) \in Nat
      OBVIOUS
    <3>2. \A i \in 1 .. Len(s) : i \in 1 .. Len(E)
      BY <3>1 DEF Leads
    <3>3. QED
      BY <2>3, <3>1, <3>2 DEF Leads
  <2>6. QED
    BY <2>2, <2>3, <2>4, <2>5
<1>9. Distinct(slots)'
  BY DEF Distinct
<1>10. QED
  BY <1>4, <1>5, <1>7, <1>8, <1>9 DEF IInv

\* An entry goes.
LEMMA RemoveEntryInv ==
    ASSUME IInv, RemoveEntry
    PROVE  IInv'
<1>1. PICK i \in 1 .. Len(slots) : slots[i] # Free /\ slots' = [slots EXCEPT ![i] = Free]
  BY DEF RemoveEntry
<1>2. PICK t : t = [slots EXCEPT ![i] = Free]
  OBVIOUS
<1>3. PICK s \in Directory : s = slots /\ Distinct(s)
  BY Parts
<1>4. t \in Directory /\ Len(t) = Len(s) /\ \A j \in 1 .. Len(s) : t[j] = IF j = i THEN Free ELSE s[j]
  BY <1>2, <1>3 DEF Directory
<1>5. Distinct(t)
  BY <1>3, <1>4 DEF Distinct
<1>6. shifted' = TRUE /\ Touch
  BY DEF RemoveEntry
<1>7. slots' \in Directory /\ Distinct(slots')
  BY <1>1, <1>2, <1>4, <1>5
<1>8. QED
  BY <1>6, <1>7, TouchInv

\* An entry comes, into the first hole or at the end.
LEMMA AddEntryInv ==
    ASSUME IInv, AddEntry
    PROVE  IInv'
<1>1. Touch /\ shifted' = (shifted \/ Contains(slots, Free))
  BY DEF AddEntry
<1>2. PICK n \in Name : /\ ~Contains(slots, n)
                        /\ slots' = IF Contains(slots, Free) THEN [slots EXCEPT ![Hole] = n]
                                    ELSE Append(slots, n)
  BY DEF AddEntry
<1>3. PICK s \in Directory : s = slots /\ Distinct(s)
  BY Parts
<1>4. \A j \in 1 .. Len(s) : s[j] # n
  BY <1>2, <1>3 DEF Contains
<1>5. shifted' \in BOOLEAN
  BY <1>1, Zenon
<1>6. CASE Contains(slots, Free)
  <2>1. PICK h : h = Hole
    OBVIOUS
  <2>2. PICK t : t = [s EXCEPT ![h] = n]
    OBVIOUS
  <2>3. t \in Directory /\ Len(t) = Len(s) /\ \A j \in 1 .. Len(s) : t[j] = IF j = h THEN n ELSE s[j]
    <3>1. Len(s) \in Nat /\ DOMAIN s = 1 .. Len(s) /\ \A j \in 1 .. Len(s) : s[j] \in Name \cup {Free}
      BY <1>3 DEF Directory
    <3>2. t = [j \in 1 .. Len(s) |-> IF j = h THEN n ELSE s[j]]
      BY <2>2, <3>1
    <3>3. \A j \in 1 .. Len(s) : t[j] = (IF j = h THEN n ELSE s[j]) /\ t[j] \in Name \cup {Free}
      BY <3>1, <3>2
    <3>4. t \in Seq(Name \cup {Free}) /\ Len(t) = Len(s)
      <4>1. t \in [1 .. Len(s) -> Name \cup {Free}]
        BY <3>2, <3>3
      <4>2. QED
        BY <3>1, <4>1
    <3>5. QED
      BY <3>3, <3>4 DEF Directory
  <2>4. Distinct(t)
    BY <1>3, <1>4, <2>3 DEF Distinct
  <2>5. slots' = t /\ shifted'
    BY <1>1, <1>2, <1>3, <1>6, <2>1, <2>2
  <2>6. slots' \in Directory /\ Distinct(slots')
    BY <2>3, <2>4, <2>5
  <2>7. QED
    BY <1>1, <1>5, <2>5, <2>6, TouchInv
<1>7. CASE ~Contains(slots, Free)
  <2>1. PICK t : t = Append(s, n)
    OBVIOUS
  <2>2. /\ t \in Directory /\ Len(t) = Len(s) + 1 /\ Len(s) \in Nat
        /\ t[Len(s) + 1] = n /\ \A j \in 1 .. Len(s) : t[j] = s[j]
    BY <1>3, <2>1 DEF Directory
  <2>3. Distinct(t)
    <3> SUFFICES ASSUME NEW i \in 1 .. Len(t), NEW j \in 1 .. Len(t), t[i] = t[j], t[i] # Free
                 PROVE  i = j
      BY Zenon DEF Distinct
    <3>1. \A m \in 1 .. Len(t) : m = Len(s) + 1 \/ m \in 1 .. Len(s)
      BY <2>2
    <3>2. CASE i \in 1 .. Len(s) /\ j \in 1 .. Len(s)
      BY <1>3, <2>2, <3>2 DEF Distinct
    <3>3. CASE i = Len(s) + 1 \/ j = Len(s) + 1
      BY <1>4, <2>2, <3>1, <3>3
    <3>4. QED
      BY <3>1, <3>2, <3>3
  <2>4. slots' = t /\ (~shifted' => ~shifted)
    BY <1>1, <1>2, <1>3, <1>7, <2>1, Zenon
  <2>5. Leads(Entries(s), Entries(t))
    <3>1. PICK E \in Seq(Name) : E = Entries(s)
      BY <1>3, EntriesDistinct
    <3>2. Entries(t) = Append(E, n)
      BY <2>1, <3>1, EntriesAppend
    <3>3. PICK F : F = Append(E, n)
      OBVIOUS
    <3>4. Len(F) = Len(E) + 1 /\ Len(E) \in Nat /\ \A j \in 1 .. Len(E) : F[j] = E[j]
      BY <3>1, <3>3
    <3>5. QED
      BY <3>1, <3>2, <3>3, <3>4 DEF Leads
  <2>6. /\ slots' \in Directory /\ Distinct(slots')
        /\ ~shifted' => ~shifted /\ Leads(Entries(slots), Entries(slots'))
    BY <1>3, <2>2, <2>3, <2>4, <2>5
  <2>7. QED
    BY <1>1, <1>5, <2>6, TouchInv
<1>8. QED
  BY <1>6, <1>7

\* A step that changes nothing but the clock.
LEMMA IdleInv ==
    ASSUME IInv, clock' \in mtime .. MaxClock,
           UNCHANGED <<slots, mtime, args, cookie, verf, got, page, finished, changes,
                       started, shifted, hidden>>
    PROVE  IInv'
<1>1. TypeOK' /\ Distinct(slots)'
  BY DEF IInv, TypeOK, Distinct
<1>2. PageInv' /\ EofIsComplete'
  <2>1. Limit' = Limit /\ (CanEnd' <=> CanEnd)
    BY DEF Limit, Clamped, Version3, CanEnd
  <2>2. PageInv'
    BY <2>1 DEF IInv, PageInv
  <2>3. EofIsComplete'
    BY <2>1, Zenon DEF IInv, EofIsComplete
  <2>4. QED
    BY <2>2, <2>3
<1>3. Seen' = Seen /\ (Begun' <=> Begun) /\ (Ended' <=> Ended) /\ (Version3' <=> Version3) /\ Entries(slots)' = Entries(slots)
  BY DEF Seen, Begun, Ended, Version3, Entries
<1>4. SnapshotInv'
  BY <1>3 DEF IInv, SnapshotInv
<1>5. OnceInv'
  BY <1>3 DEF IInv, OnceInv
<1>6. QED
  BY <1>1, <1>2, <1>4, <1>5 DEF IInv

\* Every step keeps the invariant.
LEMMA NextInv == IInv /\ [Next]_vars => IInv'
<1> SUFFICES ASSUME IInv, [Next]_vars
             PROVE  IInv'
  OBVIOUS
<1>1. CASE Tick
  <2>1. clock' \in mtime .. MaxClock
    BY <1>1, Parts DEF Tick
  <2>2. QED
    BY <1>1, <2>1, IdleInv DEF Tick
<1>2. CASE UNCHANGED vars
  <2>1. clock' \in mtime .. MaxClock
    BY <1>2, Parts DEF vars
  <2>2. QED
    BY <1>2, <2>1, IdleInv DEF vars
<1>3. QED
  BY <1>1, <1>2, ReadDirInv, ReceiveInv, RemoveEntryInv, AddEntryInv DEF Next

\* The invariant holds throughout.
LEMMA SpecIInv == Spec => []IInv
BY InitInv, NextInv, PTL DEF Spec

-----------------------------------------------------------------------------

\* Every variable keeps its type.
THEOREM TypeCorrect == Spec => []TypeOK
<1>1. IInv => TypeOK
  BY DEF IInv
<1>2. QED
  BY <1>1, SpecIInv, PTL

\* Whatever the directory and the lengths of its names, a page that carries
\* entries fits what the client asked for and nfsd's buffer.
THEOREM PagesFit == Spec => []PageFits
<1>1. IInv => PageFits
  <2> SUFFICES ASSUME IInv, page.names # <<>>
               PROVE  page.size <= args.count /\ page.size <= TRANSFER_SIZE
    BY DEF PageFits
  <2>1. page.size <= Limit + 8 /\ page.size \in Nat
    BY DEF IInv, PageInv, TypeOK
  <2>2. Limit \in Nat /\ Limit + 8 <= args.count /\ Limit + 8 <= TRANSFER_SIZE
    BY LimitIs, Parts
  <2>3. args.count \in Nat /\ TRANSFER_SIZE \in Nat
    BY Parts, SizeAssumption DEF ArgsOK
  <2>4. QED
    BY <2>1, <2>2, <2>3
<1>2. QED
  BY <1>1, SpecIInv, PTL

\* nfsd says eof on the last page and on no other.
THEOREM EofIsTheEnd == Spec => []EofIsComplete
<1>1. IInv => EofIsComplete
  BY DEF IInv
<1>2. QED
  BY <1>1, SpecIInv, PTL

\* A version 3 listing whose directory did not change twice in one second is
\* the directory as it was when the listing began.
THEOREM Snapshot == Spec => []ListingIsSnapshot
<1>1. IInv => ListingIsSnapshot
  <2> SUFFICES ASSUME IInv, finished, Version3, ~hidden
               PROVE  got = started
    BY DEF ListingIsSnapshot
  <2>1. page.names = <<>> /\ got \in Seq(Name) /\ started \in Seq(Name)
    BY Parts DEF IInv, PageInv, None
  <2>2. Seen = got
    BY <2>1 DEF Seen
  <2>3. Leads(got, started) /\ Len(got) = Len(started)
    BY <2>2 DEF IInv, SnapshotInv, Begun, Ended
  <2>4. QED
    BY <2>1, <2>3 DEF Leads
<1>2. QED
  BY <1>1, SpecIInv, PTL

\* While nothing moves in the directory every entry that was there at first is
\* listed exactly once, however many are added.
THEOREM EachListedOnce == Spec => []EachEntryOnce
<1>1. IInv => EachEntryOnce
  <2> SUFFICES ASSUME IInv, finished, ~shifted, NEW n \in ToSet(started)
               PROVE  Cardinality({i \in 1 .. Len(got) : got[i] = n}) = 1
    BY DEF EachEntryOnce
  <2>1. page.names = <<>> /\ got \in Seq(Name) /\ started \in Seq(Name)
    BY Parts DEF IInv, PageInv, None
  <2>2. Seen = got
    BY <2>1 DEF Seen
  <2>3. PICK E \in Seq(Name) : E = Entries(slots) /\ Distinct(E)
    BY Parts
  <2>4. Leads(started, E) /\ Leads(got, E) /\ Len(started) <= Len(got)
    BY <2>2, <2>3 DEF IInv, OnceInv, Begun, Ended
  <2>5. PICK m \in 1 .. Len(started) : n = started[m]
    BY <2>1 DEF ToSet
  <2>6. Len(started) \in Nat /\ Len(got) \in Nat /\ Len(E) \in Nat /\ n \in Name /\ n # Free
    BY <2>1, <2>5, NameAssumption
  <2>7. m \in 1 .. Len(got) /\ m \in 1 .. Len(E)
    BY <2>4, <2>6 DEF Leads
  <2>8. \A i \in 1 .. Len(got) : i \in 1 .. Len(E) /\ got[i] = E[i]
    BY <2>4, <2>6 DEF Leads
  <2>9. E[m] = n
    BY <2>4, <2>5 DEF Leads
  <2>10. \A i \in 1 .. Len(got) : got[i] = n <=> i = m
    BY <2>3, <2>6, <2>7, <2>8, <2>9 DEF Distinct
  <2>11. {i \in 1 .. Len(got) : got[i] = n} = {m}
    BY <2>7, <2>10
  <2>12. QED
    BY <2>11, FS_Singleton
<1>2. QED
  BY <1>1, SpecIInv, PTL

=============================================================================
