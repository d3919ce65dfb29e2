----------------------------- MODULE TftpProofs -----------------------------
(***************************************************************************)
(* Proofs about Tftp, for every set of clients, every length of file and   *)
(* every number of faults.  FileIsWhole says what a client has; it is kept *)
(* by what is on the way to it and by the transfer that sends it, and the  *)
(* inductive invariant IInv is about those two as well.                    *)
(***************************************************************************)
EXTENDS Tftp, TLAPS

\* A transfer counts the blocks of the file it reads, and there is one.
SessionInv ==
    session # NoSession =>
        /\ session.block = session.pos
        /\ session.pos \in 1 .. Length[session.file]

\* What is on the way to a client is of its own file, with the number it has
\* there, and only the last block is marked as the last.
Genuine(c, p) ==
    p.op = "DATA" =>
        /\ p.file = c
        /\ p.pos \in 1 .. Length[c] /\ p.block = p.pos
        /\ p.last => p.pos = Length[c]

\* As long as no transfer has gone on with another client than it began with.
OwnFileInv ==
    ~crossed =>
        /\ session # NoSession => session.to = session.file
        /\ \A c \in Client : \A p \in flying[c] : Genuine(c, p)

IInv == TypeOK /\ SessionInv /\ OwnFileInv /\ FileIsWhole

-----------------------------------------------------------------------------

\* The wire carries the number of every block there is.
LEMMA BlockOnWire ==
    /\ \A n \in Nat : n < WIRE => n % WIRE = n
    /\ WIRE # 0 => \A n \in Nat : n % WIRE \in 0 .. WIRE - 1
BY WireAssumption

\* A file has a number of blocks that the wire can count.
LEMMA LengthType ==
    ASSUME TypeOK, NEW c \in Client
    PROVE  Length[c] \in Nat /\ Length[c] < WIRE /\ WIRE \in Nat \ {0}
BY LengthAssumption, WireAssumption DEF TypeOK

\* Whatever arrives, the socket holds datagrams, and not too many.
LEMMA ArrivingType ==
    ASSUME TypeOK, NEW p \in Datagram
    PROVE  Arriving(p) \in Seq(Datagram) /\ Len(Arriving(p)) <= MaxQueue
BY BoundAssumption DEF Arriving, TypeOK

\* What is left of the socket's datagrams when one is taken.
LEMMA TakenType ==
    ASSUME TypeOK, inbox # <<>>
    PROVE  /\ Tail(inbox) \in Seq(Datagram) /\ Len(Tail(inbox)) <= MaxQueue
           /\ Head(inbox) \in Datagram
BY BoundAssumption DEF TypeOK

\* A transfer that reads its file sends a block with its number and, unless it
\* has gone over to another client, to the client whose file it is.
LEMMA BlockIsGenuine ==
    ASSUME TypeOK, NEW s \in Session, s.block = s.pos, s.pos >= 1, Fread(s)
    PROVE  /\ DataBlock(s) \in Data
           /\ Genuine(s.file, DataBlock(s))
<1>1. s.file \in Client /\ s.pos \in Nat /\ s.pos <= Length[s.file]
  BY DEF Session, Fread
<1>2. Length[s.file] \in Nat /\ Length[s.file] < WIRE
  BY <1>1, LengthType
<1>3. s.block % WIRE = s.pos
  BY <1>1, <1>2, BlockOnWire, WireAssumption
<1>4. s.pos \in 0 .. WIRE - 1
  BY <1>1, <1>2, WireAssumption
<1>5. (s.pos = Length[s.file] /\ s.file \in Short) \in BOOLEAN
  OBVIOUS
<1>6. DataBlock(s) \in Data
  BY <1>1, <1>3, <1>4, <1>5, Zenon DEF DataBlock, Data
<1>7. Genuine(s.file, DataBlock(s))
  <2>1. s.pos \in 1 .. Length[s.file] /\ s.block % WIRE = s.pos
    BY <1>1, <1>2, <1>3
  <2>2. QED
    BY <2>1, Zenon DEF DataBlock, Genuine
<1>8. QED
  BY <1>6, <1>7

\* SendBlock goes on with the transfer, or ends it at the end of the file.
LEMMA SendBlockKeeps ==
    ASSUME TypeOK, OwnFileInv, NEW s \in Session, s.block = s.pos, s.pos >= 1,
           SendBlock(s), Length' = Length,
           ~crossed' => ~crossed /\ (session' # NoSession => s.to = s.file)
    PROVE  /\ session' \in Session \cup {NoSession}
           /\ flying' \in [Client -> SUBSET (Data \cup {Error})]
           /\ SessionInv'
           /\ OwnFileInv'
<1>1. CASE Fread(s)
  <2>1. session' = s /\ flying' = [flying EXCEPT ![s.to] = @ \cup {DataBlock(s)}]
    BY <1>1 DEF SendBlock, To
  <2>2. DataBlock(s) \in Data /\ Genuine(s.file, DataBlock(s))
    BY <1>1, BlockIsGenuine
  <2>3. flying' \in [Client -> SUBSET (Data \cup {Error})]
    BY <2>1, <2>2 DEF TypeOK, Session
  <2>4. SessionInv'
    <3>1. s.pos \in 1 .. Length'[s.file]
      BY <1>1, LengthType DEF Fread, Session
    <3>2. QED
      BY <2>1, <3>1 DEF SessionInv
  <2>5. OwnFileInv'
    <3>1. ASSUME ~crossed', NEW c \in Client, NEW p \in flying'[c]
          PROVE  Genuine(c, p)
      <4>1. s.to = s.file /\ ~crossed
        BY <2>1, <3>1, SessionAssumption
      <4>2. p \in flying[c] \/ (c = s.to /\ p = DataBlock(s))
        BY <2>1, <3>1 DEF TypeOK
      <4>3. QED
        BY <2>2, <4>1, <4>2 DEF OwnFileInv
    <3>2. \A c, p : Genuine(c, p)' <=> Genuine(c, p)
      BY DEF Genuine
    <3>3. ~crossed' /\ session' # NoSession => session'.to = session'.file
      BY <2>1
    <3>4. QED
      BY <3>1, <3>2, <3>3 DEF OwnFileInv
  <2>6. QED
    BY <2>1, <2>3, <2>4, <2>5
<1>2. CASE ~Fread(s)
  BY <1>2 DEF SendBlock, SessionInv, OwnFileInv, Genuine, TypeOK
<1>3. QED
  BY <1>1, <1>2

-----------------------------------------------------------------------------

\* The invariant holds before anything has been sent.
LEMMA InitIInv == Init => IInv
<1> SUFFICES ASSUME Init
             PROVE  IInv
  OBVIOUS
<1>1. TypeOK
  <2>1. inbox \in Seq(Datagram) /\ Len(inbox) <= MaxQueue
    BY BoundAssumption DEF Init
  <2>2. got \in [Client -> Seq(Client \X Nat)]
    BY DEF Init
  <2>3. waiting \in [Socket -> Nat] /\ arrivals \in 0 .. MaxArrivals /\ faults \in 0 .. MaxFaults
    BY BoundAssumption DEF Init
  <2>4. QED
    BY <2>1, <2>2, <2>3, Zenon DEF Init, TypeOK
<1>2. SessionInv /\ OwnFileInv /\ FileIsWhole
  BY DEF Init, SessionInv, OwnFileInv, FileIsWhole
<1>3. QED
  BY <1>1, <1>2 DEF IInv

\* No step of the daemon, of a client or of the network breaks it.
LEMMA NextIInv == IInv /\ [Next]_vars => IInv'
<1> SUFFICES ASSUME IInv, [Next]_vars
             PROVE  IInv'
  OBVIOUS
<1> USE DEF IInv
<1>1. CASE TakeRequest
  <2>1. /\ Tail(inbox) \in Seq(Datagram) /\ Len(Tail(inbox)) <= MaxQueue
        /\ Head(inbox) \in Datagram
    BY <1>1, TakenType DEF TakeRequest
  <2> DEFINE p == Head(inbox)
             s == [file |-> p.from, to |-> p.from, block |-> 1, pos |-> 1]
  <2>2. p.from \in Client /\ s \in Session
    BY <2>1 DEF Datagram, Session
  <2>3. /\ session' \in Session \cup {NoSession}
        /\ flying' \in [Client -> SUBSET (Data \cup {Error})]
        /\ SessionInv' /\ OwnFileInv'
    <3>1. CASE p.op # "RRQ"
      BY <1>1, <3>1 DEF TakeRequest, TypeOK, SessionInv, OwnFileInv, Genuine
    <3>2. CASE p.op = "RRQ" /\ Length[p.from] = 0
      <4>1. flying' = [flying EXCEPT ![p.from] = @ \cup {Error}] /\ session' = NoSession /\ session = NoSession
        BY <1>1, <3>2 DEF TakeRequest, To
      <4>2. Error.op # "DATA"
        BY DEF Error
      <4>3. \A c \in Client : \A q \in flying'[c] : q \in flying[c] \/ q.op # "DATA"
        BY <2>2, <4>1, <4>2 DEF TypeOK
      <4>4. crossed' = crossed /\ Length' = Length
        BY <1>1 DEF TakeRequest
      <4>5. OwnFileInv'
        BY <4>1, <4>3, <4>4 DEF OwnFileInv, Genuine
      <4>6. flying' \in [Client -> SUBSET (Data \cup {Error})]
        BY <2>2, <4>1 DEF TypeOK
      <4>7. QED
        BY <4>1, <4>5, <4>6 DEF SessionInv
    <3>3. CASE p.op = "RRQ" /\ Length[p.from] # 0
      <4>1. SendBlock(s) /\ Length' = Length /\ crossed' = crossed
        BY <1>1, <3>3 DEF TakeRequest
      <4>2. s.block = s.pos /\ s.pos >= 1 /\ s.to = s.file
        OBVIOUS
      <4> HIDE DEF s
      <4>3. QED
        BY <2>2, <4>1, <4>2, SendBlockKeeps
    <3>4. QED
      BY <3>1, <3>2, <3>3
  <2>4. TypeOK'
    BY <1>1, <2>1, <2>3 DEF TakeRequest, TypeOK
  <2>5. FileIsWhole'
    BY <1>1 DEF TakeRequest, FileIsWhole
  <2>6. QED
    BY <2>3, <2>4, <2>5
<1>2. CASE TakeAck
  <2>1. /\ Tail(inbox) \in Seq(Datagram) /\ Len(Tail(inbox)) <= MaxQueue
        /\ Head(inbox) \in Datagram
    BY <1>2, TakenType DEF TakeAck
  <2> DEFINE s == Advance(session, Head(inbox))
  <2>2. crossed' \in BOOLEAN
    BY <1>2 DEF TakeAck
  <2>3. /\ session' \in Session \cup {NoSession}
        /\ flying' \in [Client -> SUBSET (Data \cup {Error})]
        /\ SessionInv' /\ OwnFileInv'
    <3>1. CASE s = NoSession
      BY <1>2, <3>1 DEF TakeAck, TypeOK, SessionInv, OwnFileInv, Genuine
    <3>2. CASE s # NoSession
      <4>1. s = [session EXCEPT !.to = Head(inbox).from, !.block = @ + 1, !.pos = @ + 1]
        BY <3>2 DEF Advance
      <4>2. session \in Session /\ session.block = session.pos /\ session.pos >= 1
        BY <1>2, LengthType DEF TakeAck, TypeOK, SessionInv, Session
      <4>3. s \in Session /\ s.block = s.pos /\ s.pos >= 1
        <5>1. Head(inbox).from \in Client
          BY <2>1 DEF Datagram
        <5>2. s = [file |-> session.file, to |-> Head(inbox).from,
                   block |-> session.block + 1, pos |-> session.pos + 1]
          BY <4>1, <4>2 DEF Session
        <5>3. QED
          BY <4>2, <5>1, <5>2 DEF Session
      <4>4. SendBlock(s) /\ Length' = Length
        BY <1>2, <3>2 DEF TakeAck
      <4>5. crossed' = (crossed \/ (session' # NoSession /\ session'.to # session'.file))
        BY <1>2 DEF TakeAck
      <4>6. ~crossed' => ~crossed /\ (session' # NoSession => s.to = s.file)
        BY <4>4, <4>5 DEF SendBlock
      <4> HIDE DEF s
      <4>7. QED
        BY <4>3, <4>4, <4>6, SendBlockKeeps
    <3>3. QED
      BY <3>1, <3>2
  <2>4. TypeOK'
    <3>1. crossed' \in BOOLEAN /\ inbox' = Tail(inbox) /\ UNCHANGED <<Length, waiting, client, got, arrivals, faults>>
      BY <1>2, <2>2 DEF TakeAck
    <3>2. QED
      BY <2>1, <2>3, <3>1 DEF TypeOK
  <2>5. FileIsWhole'
    BY <1>2 DEF TakeAck, FileIsWhole
  <2>6. QED
    BY <2>3, <2>4, <2>5
<1>3. ASSUME NEW s \in Socket, ServeOther(s)
      PROVE  IInv'
  <2>1. waiting' \in [Socket -> Nat]
    BY <1>3, BoundAssumption DEF ServeOther, TypeOK
  <2>2. QED
    BY <1>3, <2>1 DEF ServeOther, TypeOK, SessionInv, OwnFileInv, Genuine, FileIsWhole
<1>4. ASSUME NEW c \in Client, Ask(c)
      PROVE  IInv'
  <2>1. Rrq(c) \in Datagram
    BY LengthType DEF Rrq, Datagram
  <2>2. inbox' \in Seq(Datagram) /\ Len(inbox') <= MaxQueue
    BY <1>4, <2>1, ArrivingType DEF Ask
  <2>3. got' \in [Client -> Seq(Client \X Nat)] /\ got'[c] = <<>> /\ client'[c] = "reading"
    BY <1>4 DEF Ask, TypeOK
  <2>4. TypeOK'
    BY <1>4, <2>2, <2>3 DEF Ask, TypeOK
  <2>5. FileIsWhole'
    BY <1>4, <2>3 DEF Ask, TypeOK, FileIsWhole
  <2>6. QED
    BY <1>4, <2>4, <2>5 DEF Ask, SessionInv, OwnFileInv, Genuine
<1>5. ASSUME NEW c \in Client, GiveUp(c)
      PROVE  IInv'
  BY <1>5 DEF GiveUp, TypeOK, SessionInv, OwnFileInv, Genuine, FileIsWhole
<1>6. ASSUME NEW c \in Client, Get(c)
      PROVE  IInv'
  <2> DEFINE next == Len(got[c]) + 1
  <2>1. PICK p \in flying[c] :
          /\ flying' = [flying EXCEPT ![c] = @ \ {p}]
          /\ got' = IF client[c] = "reading" /\ p.op = "DATA" /\ p.block = next
                    THEN [got EXCEPT ![c] = Append(@, <<p.file, p.pos>>)] ELSE got
          /\ client' = IF client[c] = "reading" /\ p.op = "DATA" /\ p.block = next /\ p.last
                       THEN [client EXCEPT ![c] = "done"]
                       ELSE IF p.op = "ERROR" /\ client[c] = "reading"
                       THEN [client EXCEPT ![c] = "failed"] ELSE client
          /\ inbox' = IF \/ client[c] = "reading" /\ p.op = "DATA" /\ p.block = next
                         \/ client[c] # "idle" /\ p.op = "DATA" /\ p.block < next
                      THEN Arriving(Ack(c, p.block)) ELSE inbox
          /\ UNCHANGED <<Length, waiting, session, arrivals, faults, crossed>>
    BY <1>6 DEF Get
  <2>2. p \in Data \/ p.op = "ERROR"
    BY DEF TypeOK, Error
  <2>3. p.op = "DATA" => p \in Data /\ p.file \in Client /\ p.pos \in Nat /\ p.block \in 0 .. WIRE - 1
    BY <2>2 DEF Data
  <2>4. inbox' \in Seq(Datagram) /\ Len(inbox') <= MaxQueue
    <3>1. ASSUME p.op = "DATA"
          PROVE  Ack(c, p.block) \in Datagram
      BY <2>3, <3>1, LengthType DEF Ack, Datagram
    <3>2. CASE inbox' = inbox
      BY <3>2 DEF TypeOK
    <3>3. CASE inbox' # inbox
      BY <2>1, <3>1, <3>3, ArrivingType
    <3>4. QED
      BY <3>2, <3>3
  <2>5. got' \in [Client -> Seq(Client \X Nat)]
    BY <2>1, <2>3 DEF TypeOK
  <2>6. client' \in [Client -> {"off", "idle", "reading", "done", "failed"}]
    BY <2>1 DEF TypeOK
  <2>7. /\ flying' \in [Client -> SUBSET (Data \cup {Error})]
        /\ \A d \in Client : flying'[d] \subseteq flying[d]
    BY <2>1 DEF TypeOK
  <2>8. TypeOK'
    BY <2>1, <2>4, <2>5, <2>6, <2>7 DEF TypeOK
  <2>9. SessionInv' /\ OwnFileInv'
    BY <2>1, <2>7 DEF SessionInv, OwnFileInv, Genuine
  <2>10. FileIsWhole'
    <3> SUFFICES ASSUME ~crossed', NEW d \in Client
                 PROVE  /\ \A i \in 1 .. Len(got'[d]) : got'[d][i] = <<d, i>>
                        /\ client'[d] = "done" => Len(got'[d]) = Length'[d]
      BY DEF FileIsWhole
    <3>1. /\ \A i \in 1 .. Len(got[d]) : got[d][i] = <<d, i>>
          /\ client[d] = "done" => Len(got[d]) = Length[d]
          /\ Genuine(c, p) /\ ~crossed
      BY <2>1 DEF FileIsWhole, OwnFileInv
    <3>2. CASE d = c /\ client[c] = "reading" /\ p.op = "DATA" /\ p.block = next
      <4>1. got'[d] = Append(got[d], <<c, next>>)
        BY <2>1, <3>1, <3>2 DEF Genuine, TypeOK
      <4>2. got[d] \in Seq(Client \X Nat)
        BY DEF TypeOK
      <4>3. \A i \in 1 .. Len(got'[d]) : got'[d][i] = <<d, i>>
        BY <3>1, <3>2, <4>1, <4>2
      <4>4. client'[d] = "done" => p.last
        BY <2>1, <3>2 DEF TypeOK
      <4>5. client'[d] = "done" => Len(got'[d]) = Length'[d]
        BY <2>1, <3>1, <3>2, <4>1, <4>2, <4>4 DEF Genuine
      <4>6. QED
        BY <4>3, <4>5
    <3>3. CASE ~(d = c /\ client[c] = "reading" /\ p.op = "DATA" /\ p.block = next)
      <4>1. got'[d] = got[d] /\ Length' = Length
        BY <2>1, <3>3 DEF TypeOK
      <4>2. client'[d] = "done" => client[d] = "done"
        BY <2>1, <3>3 DEF TypeOK
      <4>3. QED
        BY <3>1, <4>1, <4>2
    <3>4. QED
      BY <3>2, <3>3
  <2>11. QED
    BY <2>8, <2>9, <2>10
<1>7. CASE Fault
  <2>1. UNCHANGED <<Length, waiting, session, client, got, arrivals, crossed>> /\ faults' \in 0 .. MaxFaults
    BY <1>7, BoundAssumption DEF Fault, TypeOK
  <2>2. /\ flying' \in [Client -> SUBSET (Data \cup {Error})]
        /\ \A d \in Client : flying'[d] \subseteq flying[d]
    BY <1>7 DEF Fault, TypeOK
  <2>3. inbox' \in Seq(Datagram) /\ Len(inbox') <= MaxQueue
    <3>1. CASE inbox' = inbox
      BY <3>1 DEF TypeOK
    <3>2. CASE inbox # <<>> /\ inbox' = Tail(inbox)
      BY <3>2, TakenType
    <3>3. ASSUME NEW c \in Client, inbox' = Arriving(IF got[c] = <<>> THEN Rrq(c) ELSE Ack(c, Len(got[c])))
          PROVE  inbox' \in Seq(Datagram) /\ Len(inbox') <= MaxQueue
      <4>1. Rrq(c) \in Datagram
        BY LengthType DEF Rrq, Datagram
      <4>2. Ack(c, Len(got[c])) \in Datagram
        <5>1. Len(got[c]) \in Nat /\ WIRE \in Nat \ {0}
          BY LengthType DEF TypeOK
        <5>2. Len(got[c]) % WIRE \in 0 .. WIRE - 1
          BY <5>1, BlockOnWire
        <5>3. QED
          BY <5>2 DEF Ack, Datagram
      <4>3. QED
        BY <3>3, <4>1, <4>2, ArrivingType
    <3>4. QED
      BY <1>7, <3>1, <3>2, <3>3 DEF Fault
  <2>4. TypeOK'
    BY <2>1, <2>2, <2>3 DEF TypeOK
  <2>5. QED
    BY <2>1, <2>2, <2>4 DEF SessionInv, OwnFileInv, Genuine, FileIsWhole
<1>8. ASSUME NEW s \in Socket, Arrive(s)
      PROVE  IInv'
  <2>1. waiting' \in [Socket -> Nat] /\ arrivals' \in 0 .. MaxArrivals
    BY <1>8, BoundAssumption DEF Arrive, TypeOK
  <2>2. QED
    BY <1>8, <2>1 DEF Arrive, TypeOK, SessionInv, OwnFileInv, Genuine, FileIsWhole
<1>9. CASE UNCHANGED vars
  BY <1>9 DEF vars, TypeOK, SessionInv, OwnFileInv, Genuine, FileIsWhole
<1>10. QED
  BY <1>1, <1>2, <1>3, <1>4, <1>5, <1>6, <1>7, <1>8, <1>9 DEF Next, Daemon

\* The inductive invariant holds in every state of the daemon and its clients.
LEMMA SpecIInv == Spec => []IInv
<1>1. Init => IInv
  BY InitIInv
<1>2. IInv /\ [Next]_vars => IInv'
  BY NextIInv
<1>3. QED
  BY <1>1, <1>2, PTL DEF Spec

\* The daemon and its clients stay within their types, and a transfer's block
\* number is that of the block it has read last.
THEOREM TypeCorrect == Spec => []TypeOK
<1>1. IInv => TypeOK
  BY DEF IInv
<1>2. QED
  BY <1>1, SpecIInv, PTL

\* A client has the beginning of its own file, and when it is done all of it,
\* whatever is lost, repeated or left over, as long as no transfer takes
\* another client's ACK for its own.
THEOREM ClientsGetTheirFile == Spec => []FileIsWhole
<1>1. IInv => FileIsWhole
  BY DEF IInv
<1>2. QED
  BY <1>1, SpecIInv, PTL

=============================================================================
