---------------------------- MODULE DaemonsProofs ----------------------------
(***************************************************************************)
(* Proofs about the daemons that share nothing: the telnet server with its *)
(* children, the parser of its options and one of its sessions, the screen *)
(* cast daemon and the client it serves, the hosts that ask DHCP for an    *)
(* address and what they read of the answer, the clock that NTP sets, the  *)
(* mount table, and the boot front end of nfsd.  Each part is for every    *)
(* number of connections, every stream, every size of frame and write,     *)
(* every set of hosts, servers and machines, and every size of the table.  *)
(***************************************************************************)
EXTENDS MCDaemons, NumberLemmas, FiniteSetTheorems, SequenceTheorems, TLAPS

-----------------------------------------------------------------------------
\* The telnet server

ServerTypeOK ==
    /\ sessions \in [Conns -> {"none", "accepted", "running", "zombie", "reaped"}]
    /\ dead \in BOOLEAN /\ handler \in BOOLEAN

\* Who waits to be accepted has no session yet.
WaitingInv == waiting \subseteq Conns /\ \A c \in waiting : sessions[c] = "none"

ServerInv == ServerTypeOK /\ WaitingInv /\ IsFiniteSet(In("zombie")) /\ HandlerNeverWaits

SignalsCount ==
    /\ ~dead /\ ~handler => Signals = 0
    /\ dead /\ ~handler => Signals = 1
    /\ ~dead /\ handler => Signals = 1
    /\ dead /\ handler => Signals = 2
    /\ HandlerNeverWaits <=> Signals <= Cardinality(In("zombie"))

\* How many signals are pending or being handled, before a step and after it.
LEMMA SignalsAre == SignalsCount /\ SignalsCount'
<1>1. 0 + 0 = 0 /\ 1 + 0 = 1 /\ 0 + 1 = 1 /\ 1 + 1 = 2
  OBVIOUS
<1>2. HandlerNeverWaits <=> Signals <= Cardinality(In("zombie"))
  BY DEF HandlerNeverWaits
<1>3. SignalsCount
  BY <1>1, <1>2, Zenon DEF SignalsCount, Signals
<1>4. (HandlerNeverWaits <=> Signals <= Cardinality(In("zombie")))'
  BY DEF HandlerNeverWaits
<1>5. SignalsCount'
  BY <1>1, <1>4, Zenon DEF SignalsCount, Signals
<1>6. QED
  BY <1>3, <1>5

\* Of finitely many dead children one more or one less is one more or one less.
LEMMA OneZombie ==
    ASSUME NEW S, IsFiniteSet(S), NEW c
    PROVE  /\ Cardinality(S) \in Nat
           /\ IsFiniteSet(S \cup {c}) /\ IsFiniteSet(S \ {c})
           /\ c \notin S => Cardinality(S \cup {c}) = Cardinality(S) + 1
           /\ c \in S => Cardinality(S \ {c}) = Cardinality(S) - 1
BY FS_CardinalityType, FS_AddElement, FS_RemoveElement

\* The telnet server begins with no session and no signal.
LEMMA ServerInitInv == ServerInit => ServerInv
<1> SUFFICES ASSUME ServerInit
             PROVE  ServerInv
  OBVIOUS
<1>1. In("zombie") = {}
  BY DEF ServerInit, In
<1>2. IsFiniteSet(In("zombie")) /\ Cardinality(In("zombie")) = 0
  BY <1>1, FS_EmptySet
<1>3. HandlerNeverWaits
  BY <1>2, SignalsAre DEF ServerInit, SignalsCount
<1>4. QED
  BY <1>2, <1>3 DEF ServerInit, ServerInv, ServerTypeOK, WaitingInv

\* Every step of the server or a child keeps a dead child for each signal.
LEMMA ServerNextInv == ServerInv /\ [ServerNext]_serverVars => ServerInv'
<1> SUFFICES ASSUME ServerInv, [ServerNext]_serverVars
             PROVE  ServerInv'
  OBVIOUS
<1> DEFINE Z == In("zombie")
<1>1. ASSUME NEW c \in Conns, SessionDies(c)
      PROVE  ServerInv'
  <2>1. Z' = Z \cup {c} /\ c \notin Z
    BY <1>1 DEF SessionDies, In, ServerInv, ServerTypeOK, WaitingInv
  <2>2. IsFiniteSet(Z') /\ Cardinality(Z') = Cardinality(Z) + 1 /\ Cardinality(Z) \in Nat
    BY <2>1, OneZombie DEF ServerInv
  <2>3. ServerTypeOK' /\ WaitingInv'
    <3>1. sessions' = [sessions EXCEPT ![c] = "zombie"] /\ dead' \in BOOLEAN /\ UNCHANGED <<handler, waiting>>
      BY <1>1 DEF SessionDies, ServerInv, ServerTypeOK
    <3>2. c \notin waiting
      BY <1>1 DEF SessionDies, ServerInv, WaitingInv
    <3>3. QED
      BY <3>1, <3>2 DEF ServerInv, ServerTypeOK, WaitingInv
  <2>4. handler' = handler /\ (dead => dead')
    BY <1>1 DEF SessionDies, ServerInv, ServerTypeOK, WaitingInv
  <2>5. HandlerNeverWaits'
    BY <2>2, <2>3, <2>4, SignalsAre DEF ServerInv, SignalsCount, ServerTypeOK
  <2>6. QED
    BY <2>2, <2>3, <2>5 DEF ServerInv
<1>2. CASE cleanup_session
  <2>1. PICK c \in Z : sessions' = [sessions EXCEPT ![c] = "reaped"]
    BY <1>2 DEF cleanup_session
  <2>2. Z' = Z \ {c}
    BY <2>1 DEF In, ServerInv, ServerTypeOK, WaitingInv
  <2>3. IsFiniteSet(Z') /\ Cardinality(Z') = Cardinality(Z) - 1 /\ Cardinality(Z) \in Nat
    BY <2>1, <2>2, OneZombie DEF ServerInv
  <2>4. handler /\ ~handler' /\ handler' \in BOOLEAN /\ dead' = dead /\ waiting' = waiting
    BY <1>2 DEF cleanup_session
  <2>5. (ServerTypeOK /\ WaitingInv)'
    BY <2>1, <2>4 DEF In, ServerInv, ServerTypeOK, WaitingInv
  <2>6. HandlerNeverWaits'
    BY <2>3, <2>4, <2>5, SignalsAre DEF ServerInv, SignalsCount, ServerTypeOK
  <2>7. QED
    BY <2>3, <2>5, <2>6 DEF ServerInv
<1>3. ASSUME Z' = Z, (ServerTypeOK /\ WaitingInv)',
             (dead' = dead /\ handler' = handler) \/ (dead /\ ~handler /\ ~dead' /\ handler')
      PROVE  ServerInv'
  <2>1. Cardinality(Z) \in Nat /\ Cardinality(Z') = Cardinality(Z) /\ IsFiniteSet(Z')
    BY <1>3, OneZombie DEF ServerInv
  <2>2. HandlerNeverWaits'
    BY <1>3, <2>1, SignalsAre DEF ServerInv, SignalsCount, ServerTypeOK
  <2>3. QED
    BY <1>3, <2>1, <2>2 DEF ServerInv
<1>4. ASSUME NEW c \in Conns, Connect(c)
      PROVE  ServerInv'
  <2>1. Z' = Z /\ ServerTypeOK' /\ WaitingInv'
    BY <1>4 DEF Connect, In, ServerInv, ServerTypeOK, WaitingInv
  <2>2. QED
    BY <1>3, <1>4, <2>1 DEF Connect
<1>5. ASSUME NEW c \in Conns, Accept(c)
      PROVE  ServerInv'
  <2>1. sessions[c] = "none" /\ sessions' = [sessions EXCEPT ![c] = "accepted"] /\ waiting' = waiting \ {c}
    BY <1>5 DEF Accept, ServerInv, WaitingInv
  <2>2. Z' = Z
    BY <2>1 DEF In, ServerInv, ServerTypeOK
  <2>3. dead' = dead /\ handler' = handler
    BY <1>5 DEF Accept
  <2>4. ServerTypeOK' /\ WaitingInv'
    BY <2>1, <2>3 DEF ServerInv, ServerTypeOK, WaitingInv
  <2>5. QED
    BY <1>3, <2>2, <2>3, <2>4
<1>6. CASE ForkSession
  <2> DEFINE s(c) == IF sessions[c] # "accepted" THEN sessions[c]
                     ELSE IF running THEN "running" ELSE "none"
  <2>1. sessions' = [c \in Conns |-> s(c)] /\ UNCHANGED <<waiting, dead, handler>>
    BY <1>6 DEF ForkSession
  <2>2. \A c \in Conns : s(c) = sessions[c] \/ (sessions[c] = "accepted" /\ s(c) \in {"running", "none"})
    OBVIOUS
  <2> HIDE DEF s
  <2>3. Z' = Z
    BY <2>1, <2>2 DEF In
  <2>4. ServerTypeOK'
    BY <2>1, <2>2 DEF ServerInv, ServerTypeOK
  <2>5. \A c \in Conns : sessions[c] = "none" => sessions'[c] = "none"
    BY <2>1, <2>2
  <2>6. WaitingInv'
    BY <2>1, <2>5 DEF ServerInv, WaitingInv
  <2>7. QED
    BY <1>3, <2>1, <2>3, <2>4, <2>6
<1>7. CASE AcceptFails \/ Wake \/ Sigdead \/ cleanup_and_exit
  <2>1. Z' = Z /\ (ServerTypeOK /\ WaitingInv)'
    BY <1>7 DEF AcceptFails, Wake, Sigdead, cleanup_and_exit, In, ServerInv, ServerTypeOK, WaitingInv
  <2>2. (dead' = dead /\ handler' = handler) \/ (dead /\ ~handler /\ ~dead' /\ handler')
    BY <1>7 DEF AcceptFails, Wake, Sigdead, cleanup_and_exit, ServerInv, ServerTypeOK, WaitingInv
  <2>3. QED
    BY <1>3, <2>1, <2>2
<1>8. CASE UNCHANGED serverVars
  <2>1. Z' = Z /\ (ServerTypeOK /\ WaitingInv)'
    BY <1>8 DEF serverVars, In, ServerInv, ServerTypeOK, WaitingInv
  <2>2. (dead' = dead /\ handler' = handler) \/ (dead /\ ~handler /\ ~dead' /\ handler')
    BY <1>8 DEF serverVars, ServerInv, ServerTypeOK, WaitingInv
  <2>3. QED
    BY <1>3, <2>1, <2>2
<1>9. QED
  BY <1>1, <1>2, <1>4, <1>5, <1>6, <1>7, <1>8 DEF ServerNext

\* However many sessions die, and however their signals fall together or are
\* lost, cleanup_session finds a dead child: the server never waits in its
\* handler for a session that lives.
THEOREM HandlerReaps == ServerSpec => []HandlerNeverWaits
<1>1. ServerInit => ServerInv
  BY ServerInitInv
<1>2. ServerInv /\ [ServerNext]_serverVars => ServerInv'
  BY ServerNextInv
<1>3. ServerInv => HandlerNeverWaits
  BY DEF ServerInv
<1>4. QED
  BY <1>1, <1>2, <1>3, PTL DEF ServerSpec

-----------------------------------------------------------------------------
\* The screen cast daemon

CastTypeOK ==
    /\ main \in {"check", "accept", "header", "body", "exit"}
    /\ bytes \in 0 .. FrameSize
    /\ viewer \in {"none", "connected", "gone"}
    /\ received \in Seq(0 .. FrameSize)
    /\ termed \in BOOLEAN

\* Where the stream stands: behind the bytes of this frame that are written,
\* or behind a whole frame.  Of a client that is gone it is not known; but the
\* next client is not served before its session has ended.
StreamInv ==
    /\ main \in {"header", "body"} => viewer # "none"
    /\ main = "body" /\ ~termed =>
          received # <<>> /\ received[Len(received)] = FrameSize - bytes
    /\ main = "header" /\ ~termed /\ viewer = "connected" =>
          received = <<>> \/ received[Len(received)] = FrameSize

CastInv == CastTypeOK /\ StreamInv /\ FramesAreWhole

\* The screen cast daemon begins between two frames.
LEMMA CastInitInv == CastInit => CastInv
<1> SUFFICES ASSUME CastInit
             PROVE  CastInv
  OBVIOUS
<1>1. 0 \in 0 .. FrameSize /\ <<>> \in Seq(0 .. FrameSize)
  BY CastAssumption
<1>2. CastTypeOK /\ StreamInv
  BY <1>1, Zenon DEF CastInit, CastTypeOK, StreamInv
<1>3. FramesAreWhole
  BY DEF CastInit, FramesAreWhole
<1>4. QED
  BY <1>2, <1>3 DEF CastInv

\* What is appended to a sequence follows it, element by element.
LEMMA Appended ==
    ASSUME NEW S, NEW r \in Seq(S), NEW t \in Seq(S)
    PROVE  /\ r \o t \in Seq(S)
           /\ Len(r \o t) = Len(r) + Len(t)
           /\ \A k \in 1 .. Len(r) : (r \o t)[k] = r[k]
           /\ \A k \in Len(r) + 1 .. Len(r) + Len(t) : (r \o t)[k] = t[k - Len(r)]
OBVIOUS

\* Every read, write and signal keeps what is sent a beginning of whole frames.
LEMMA CastNextInv == CastInv /\ [CastNext]_castvars => CastInv'
<1> SUFFICES ASSUME CastInv, [CastNext]_castvars
             PROVE  CastInv'
  OBVIOUS
<1> USE CastAssumption DEF CastInv
<1>1. CASE Header
  <2>1. CASE viewer = "connected"
    <3>1. /\ received' = Append(received, 0) /\ main' = "body" /\ bytes' = FrameSize
          /\ viewer' = viewer /\ termed' = termed
      BY <1>1, <2>1 DEF Header
    <3>2. CastTypeOK'
      BY <3>1 DEF CastTypeOK
    <3>3. /\ Len(received') = Len(received) + 1 /\ received'[Len(received')] = 0
          /\ \A k \in 1 .. Len(received) : received'[k] = received[k]
      BY <3>1 DEF CastTypeOK
    <3>4. StreamInv'
      BY <2>1, <3>1, <3>2, <3>3 DEF CastTypeOK, StreamInv
    <3>5. FramesAreWhole'
      <4> SUFFICES ASSUME ~termed', NEW k \in 1 .. Len(received')
                   PROVE  received'[k] = IF k = 1 \/ received'[k - 1] = FrameSize THEN 0
                                         ELSE received'[k - 1] + 1
        BY DEF FramesAreWhole
      <4>1. CASE k \in 1 .. Len(received)
        <5>1. k = 1 \/ k - 1 \in 1 .. Len(received)
          BY <4>1 DEF CastTypeOK
        <5>2. QED
          BY <3>1, <3>3, <4>1, <5>1 DEF FramesAreWhole
      <4>2. CASE k = Len(received) + 1
        <5>1. k = 1 \/ (Len(received) \in 1 .. Len(received) /\ received[Len(received)] = FrameSize)
          BY <1>1, <2>1, <3>1, <4>2 DEF StreamInv, CastTypeOK, Header
        <5>2. QED
          BY <3>3, <4>2, <5>1 DEF CastTypeOK
      <4>3. QED
        BY <3>3, <4>1, <4>2 DEF CastTypeOK
    <3>6. QED
      BY <3>2, <3>4, <3>5
  <2>2. CASE viewer = "gone"
    BY <1>1, <2>2 DEF Header, HangUp, CastTypeOK, StreamInv, FramesAreWhole
  <2>3. QED
    BY <1>1, <2>1, <2>2 DEF Header
<1>2. CASE Body
  <2>1. PICK n \in 1 .. (IF bytes > MAXWRITE THEN MAXWRITE ELSE bytes) :
           received' = received \o [i \in 1 .. n |-> FrameSize - bytes + i] /\ bytes' = bytes - n
    BY <1>2 DEF Body, Rest
  <2>2. bytes \in 1 .. FrameSize /\ n \in 1 .. bytes /\ n \in Nat
    BY <1>2, <2>1 DEF Body, CastTypeOK
  <2>3. received \in Seq(0 .. FrameSize) /\ UNCHANGED <<main, viewer, termed, sock>> /\ main = "body"
    BY <1>2 DEF Body, CastTypeOK
  <2>4. /\ received' \in Seq(0 .. FrameSize)
        /\ Len(received') = Len(received) + n
        /\ \A k \in 1 .. Len(received) : received'[k] = received[k]
        /\ \A k \in Len(received) + 1 .. Len(received) + n :
              received'[k] = FrameSize - bytes + (k - Len(received))
    <3> DEFINE t == [i \in 1 .. n |-> FrameSize - bytes + i]
    <3>1. t \in Seq(0 .. FrameSize) /\ Len(t) = n /\ \A i \in 1 .. n : t[i] = FrameSize - bytes + i
      <4>1. \A i \in 1 .. n : FrameSize - bytes + i \in 0 .. FrameSize
        BY <2>2
      <4>2. t \in [1 .. n -> 0 .. FrameSize]
        BY <4>1
      <4>3. QED
        BY <2>2, <4>2
    <3>2. received' = received \o t
      BY <2>1
    <3> HIDE DEF t
    <3>3. /\ received' \in Seq(0 .. FrameSize) /\ Len(received') = Len(received) + n
          /\ \A k \in 1 .. Len(received) : received'[k] = received[k]
          /\ \A k \in Len(received) + 1 .. Len(received) + n : received'[k] = t[k - Len(received)]
      BY <2>3, <3>1, <3>2, Appended
    <3>4. \A k \in Len(received) + 1 .. Len(received) + n : k - Len(received) \in 1 .. n
      BY <2>2, <2>3
    <3>5. QED
      BY <3>1, <3>3, <3>4
  <2>5. CastTypeOK'
    BY <2>1, <2>2, <2>3, <2>4 DEF CastTypeOK
  <2>6. CASE ~termed
    <3>1. received # <<>> /\ received[Len(received)] = FrameSize - bytes
      BY <2>3, <2>6 DEF StreamInv
    <3>2. Len(received) \in Nat \ {0} /\ received'[Len(received)] = FrameSize - bytes
      <4>1. Len(received) \in Nat \ {0}
        BY <2>3, <3>1
      <4>2. Len(received) \in 1 .. Len(received)
        BY <4>1
      <4>3. QED
        BY <2>4, <3>1, <4>1, <4>2
    <3>3. received' # <<>> /\ received'[Len(received')] = FrameSize - bytes'
      BY <2>1, <2>2, <2>4, <3>2
    <3>4. FramesAreWhole'
      <4> SUFFICES ASSUME NEW k \in 1 .. Len(received')
                   PROVE  received'[k] = IF k = 1 \/ received'[k - 1] = FrameSize THEN 0
                                         ELSE received'[k - 1] + 1
        BY DEF FramesAreWhole
      <4>1. CASE k \in 1 .. Len(received)
        <5>1. k = 1 \/ k - 1 \in 1 .. Len(received)
          BY <3>2, <4>1
        <5>2. QED
          BY <2>4, <2>6, <4>1, <5>1 DEF FramesAreWhole
      <4>2. CASE k \in Len(received) + 1 .. Len(received) + n
        <5>1. received'[k] = FrameSize - bytes + (k - Len(received)) /\ k # 1
          BY <2>4, <3>2, <4>2
        <5>2. received'[k - 1] = FrameSize - bytes + (k - 1 - Len(received))
          <6>1. k - 1 = Len(received) \/ k - 1 \in Len(received) + 1 .. Len(received) + n
            BY <2>2, <3>2, <4>2
          <6>2. CASE k - 1 = Len(received)
            <7>1. received'[k - 1] = FrameSize - bytes /\ k - 1 - Len(received) = 0
              BY <3>2, <6>2
            <7>2. FrameSize - bytes \in Nat /\ FrameSize - bytes + 0 = FrameSize - bytes
              BY <2>2
            <7>3. QED
              BY <7>1, <7>2
          <6>3. CASE k - 1 \in Len(received) + 1 .. Len(received) + n
            BY <2>4, <6>3
          <6>4. QED
            BY <6>1, <6>2, <6>3
        <5>3. k - Len(received) <= n /\ n <= bytes
          BY <2>2, <2>4, <3>2, <4>2
        <5>4. QED
          BY <2>2, <3>2, <4>2, <5>1, <5>2, <5>3
      <4>3. QED
        BY <2>2, <2>4, <3>2, <4>1, <4>2
    <3>5. StreamInv'
      BY <2>1, <2>3, <3>3 DEF StreamInv
    <3>6. QED
      BY <2>5, <3>4, <3>5
  <2>7. CASE termed
    BY <2>3, <2>5, <2>7 DEF StreamInv, FramesAreWhole
  <2>8. QED
    BY <2>6, <2>7 DEF CastTypeOK
<1>3. CASE Check
  BY <1>3 DEF Check, CastTypeOK, StreamInv, FramesAreWhole
<1>4. CASE AcceptViewer
  BY <1>4 DEF AcceptViewer, CastTypeOK, StreamInv, FramesAreWhole
<1>5. CASE AcceptClosed
  BY <1>5 DEF AcceptClosed, CastTypeOK, StreamInv, FramesAreWhole
<1>6. CASE BodyFails
  BY <1>6 DEF BodyFails, CastTypeOK, StreamInv, FramesAreWhole
<1>7. CASE FrameDone
  BY <1>7 DEF FrameDone, CastTypeOK, StreamInv, FramesAreWhole
<1>8. CASE Sigterm
  BY <1>8 DEF Sigterm, cast_cleanup_and_exit, CastTypeOK, StreamInv, FramesAreWhole
<1>9. CASE ClientComes
  BY <1>9 DEF ClientComes, CastTypeOK, StreamInv, FramesAreWhole
<1>10. CASE ClientGoes
  BY <1>10 DEF ClientGoes, CastTypeOK, StreamInv, FramesAreWhole
<1>11. CASE UNCHANGED castvars
  BY <1>11 DEF castvars, CastTypeOK, StreamInv, FramesAreWhole
<1>12. QED
  BY <1>1, <1>2, <1>3, <1>4, <1>5, <1>6, <1>7, <1>8, <1>9, <1>10, <1>11 DEF CastNext

\* Until SIGTERM comes a client has whole frames and the beginning of one,
\* however its writes were cut and whichever client left before it.
THEOREM FramesArriveWhole == CastSpec => []FramesAreWhole
<1>1. CastInit => CastInv
  BY CastInitInv
<1>2. CastInv /\ [CastNext]_castvars => CastInv'
  BY CastNextInv
<1>3. CastInv => FramesAreWhole
  BY DEF CastInv
<1>4. QED
  BY <1>1, <1>2, <1>3, PTL DEF CastSpec

-----------------------------------------------------------------------------
\* DHCP

State == [pc : {"discover", "wait", "exit"}, xid : Xids \cup {0},
          ip : Addresses \cup {<<>>}, code : {0, 1, 251}]

DhcpTypeOK ==
    /\ asker \in [Hosts -> State]
    /\ \A p \in network : p.xid \in Xids /\ p.yiaddr \in Addresses \cup {<<>>}

\* What carries the xid a host waits for was sent to it or by it, and at least
\* its own packet does: the xid is not drawn again.
XidInv ==
    \A h \in Hosts : asker[h].pc = "wait" =>
        /\ \E p \in network : p.xid = asker[h].xid
        /\ \A p \in network : p.xid = asker[h].xid => p.chaddr = h

\* A host has no address before the offer came.
NoAddressInv == \A h \in Hosts : asker[h].pc # "exit" => asker[h].ip = <<>>

DhcpInv == DhcpTypeOK /\ XidInv /\ NoAddressInv /\ AddressIsMine

\* What becomes of one host leaves the others alone.
LEMMA OneAsker ==
    ASSUME DhcpTypeOK, NEW h \in Hosts, NEW s \in State, asker' = [asker EXCEPT ![h] = s]
    PROVE  /\ asker' \in [Hosts -> State]
           /\ asker'[h] = s
           /\ \A g \in Hosts \ {h} : asker'[g] = asker[g]
BY DEF DhcpTypeOK

\* A packet with a new xid, of the host that drew it, disturbs no host that
\* waits for another.
LEMMA FreshPacket ==
    ASSUME DhcpInv, NEW p, network' = network \cup {p}, p.xid \in Unused,
           p.yiaddr = <<>>,
           NEW h \in Hosts, p.chaddr = h,
           NEW s \in State, asker' = [asker EXCEPT ![h] = s],
           s.pc = "wait" => s.xid = p.xid /\ s.ip = <<>>,
           s.pc # "discover",
           s.pc = "exit" => \/ s.ip = <<>>
                            \/ \E q \in network : q.opcode = OFFER /\ q.chaddr = h /\ q.yiaddr = s.ip
    PROVE  DhcpInv'
<1>1. /\ asker' \in [Hosts -> State] /\ asker'[h] = s
      /\ \A g \in Hosts \ {h} : asker'[g] = asker[g]
  BY OneAsker DEF DhcpInv
<1>2. p.xid \in Xids /\ \A q \in network : q.xid # p.xid
  BY DEF Unused
<1>3. DhcpTypeOK'
  BY <1>1, <1>2 DEF DhcpInv, DhcpTypeOK
<1>4. XidInv'
  <2>1. ASSUME NEW g \in Hosts \ {h}, asker[g].pc = "wait"
        PROVE  p.xid # asker[g].xid
    BY <1>2, <2>1 DEF DhcpInv, XidInv
  <2>2. \A q \in network' : q \in network \/ q = p
    OBVIOUS
  <2>3. p \in network' /\ network \subseteq network'
    OBVIOUS
  <2>4. QED
    BY <1>1, <1>2, <2>1, <2>2, <2>3 DEF DhcpInv, XidInv
<1>5. NoAddressInv'
  BY <1>1 DEF DhcpInv, NoAddressInv, State
<1>6. AddressIsMine'
  BY <1>1 DEF DhcpInv, AddressIsMine
<1>7. QED
  BY <1>3, <1>4, <1>5, <1>6 DEF DhcpInv

\* No packet is under way when the hosts start.
LEMMA DhcpInitInv == DhcpInit => DhcpInv
BY DEF DhcpInit, DhcpInv, DhcpTypeOK, State, XidInv, NoAddressInv, AddressIsMine

\* Every packet sent, lost, repeated or read keeps the address the one offered.
LEMMA DhcpNextInv == DhcpInv /\ [DhcpNext]_dhcpvars => DhcpInv'
<1> SUFFICES ASSUME DhcpInv, [DhcpNext]_dhcpvars
             PROVE  DhcpInv'
  OBVIOUS
<1>1. ASSUME NEW h \in Hosts, Discover(h)
      PROVE  DhcpInv'
  <2>1. PICK x \in Unused :
          /\ network' = network \cup {dhcp_output(h, x, fill_dhcp_discovery_options(h))}
          /\ asker' = [asker EXCEPT ![h] = [@ EXCEPT !.pc = "wait", !.xid = x]]
    BY <1>1 DEF Discover
  <2> DEFINE p == dhcp_output(h, x, fill_dhcp_discovery_options(h))
  <2>2. asker[h] \in State /\ asker[h].ip = <<>>
    BY <1>1 DEF Discover, DhcpInv, DhcpTypeOK, NoAddressInv
  <2>3. PICK t, s : t = asker[h] /\ s = [t EXCEPT !.pc = "wait", !.xid = x]
    OBVIOUS
  <2>4. s \in State /\ s.pc = "wait" /\ s.xid = x /\ s.ip = <<>> /\ asker' = [asker EXCEPT ![h] = s]
    <3>1. t \in State /\ t.ip = <<>> /\ x \in Xids
      BY <2>1, <2>2, <2>3 DEF Unused
    <3>2. s \in State /\ s.pc = "wait" /\ s.xid = x /\ s.ip = t.ip
      BY <2>1, <2>3, <3>1 DEF State
    <3>3. QED
      BY <2>1, <2>3, <3>1, <3>2
  <2>5. p.xid = x /\ p.yiaddr = <<>> /\ p.chaddr = h
    BY DEF dhcp_output
  <2>6. network' = network \cup {p}
    BY <2>1
  <2> HIDE DEF p
  <2>7. QED
    <3>1. p.xid \in Unused /\ p.yiaddr = <<>> /\ p.chaddr = h
      BY <2>1, <2>5
    <3>2. s.pc # "discover" /\ s.pc # "exit" /\ s.xid = p.xid
      BY <2>4, <2>5
    <3>3. QED
      BY <2>4, <2>6, <3>1, <3>2, FreshPacket
<1>2. ASSUME NEW h \in Hosts, SendFails(h) \/ ReceiveFails(h)
      PROVE  DhcpInv'
  <2>1. PICK c \in {1, 251} : asker' = [asker EXCEPT ![h] = [@ EXCEPT !.pc = "exit", !.code = c]]
    BY <1>2 DEF SendFails, ReceiveFails
  <2>2. asker[h] \in State /\ asker[h].ip = <<>> /\ network' = network
    BY <1>2 DEF SendFails, ReceiveFails, DhcpInv, DhcpTypeOK, NoAddressInv
  <2>3. PICK t : t = asker[h]
    OBVIOUS
  <2>4. PICK s : s = [t EXCEPT !.pc = "exit", !.code = c]
    OBVIOUS
  <2>5. s \in State /\ s.pc = "exit" /\ s.ip = <<>> /\ asker' = [asker EXCEPT ![h] = s]
    <3>1. t \in State /\ t.ip = <<>>
      BY <2>2, <2>3
    <3>2. s \in State /\ s.pc = "exit" /\ s.ip = t.ip
      BY <2>1, <2>4, <3>1 DEF State
    <3>3. QED
      BY <2>1, <2>3, <2>4, <3>1, <3>2
  <2>6. /\ asker' \in [Hosts -> State] /\ asker'[h] = s
        /\ \A g \in Hosts \ {h} : asker'[g] = asker[g]
    BY <2>5 DEF DhcpInv, DhcpTypeOK
  <2>7. QED
    BY <2>2, <2>5, <2>6 DEF DhcpInv, DhcpTypeOK, XidInv, NoAddressInv, AddressIsMine
<1>3. ASSUME NEW h \in Hosts, Receive(h)
      PROVE  DhcpInv'
  <2>1. PICK packet \in network, x \in Unused, sent \in BOOLEAN :
          /\ asker[h].pc = "wait" /\ Answers(packet, h)
          /\ asker' = [asker EXCEPT ![h] = [pc |-> "exit", xid |-> x, ip |-> packet.yiaddr,
                                           code |-> IF sent THEN 0 ELSE 1]]
          /\ network' = IF ~sent THEN network
                        ELSE network \cup {dhcp_output(h, x, fill_dhcp_request_options(packet.yiaddr, h))}
    BY <1>3 DEF Receive
  <2> DEFINE p == dhcp_output(h, x, fill_dhcp_request_options(packet.yiaddr, h))
             s == [pc |-> "exit", xid |-> x, ip |-> packet.yiaddr, code |-> IF sent THEN 0 ELSE 1]
  <2>2. packet.opcode = OFFER /\ packet.chaddr = h
    BY <2>1 DEF Answers, DhcpInv, XidInv
  <2>3. s \in State /\ s.pc = "exit" /\ s.ip = packet.yiaddr
    BY <2>1 DEF State, Unused, DhcpInv, DhcpTypeOK
  <2>4. asker' = [asker EXCEPT ![h] = s]
    BY <2>1
  <2>5. p.xid = x /\ p.yiaddr = <<>> /\ p.chaddr = h
    BY DEF dhcp_output
  <2>6. network' = network \/ network' = network \cup {p}
    BY <2>1
  <2> HIDE DEF p, s
  <2>7. CASE network' = network \cup {p}
    BY <2>1, <2>2, <2>3, <2>4, <2>5, <2>7, FreshPacket
  <2>8. CASE network' = network
    <3>1. /\ asker' \in [Hosts -> State] /\ asker'[h] = s
          /\ \A g \in Hosts \ {h} : asker'[g] = asker[g]
      BY <2>3, <2>4, OneAsker DEF DhcpInv
    <3>2. QED
      BY <2>1, <2>2, <2>3, <2>8, <3>1 DEF DhcpInv, DhcpTypeOK, XidInv, NoAddressInv, AddressIsMine
  <2>9. QED
    BY <2>6, <2>7, <2>8
<1>4. ASSUME NEW server \in Servers, Offer(server)
      PROVE  DhcpInv'
  <2>1. PICK packet \in network, a \in Addresses :
          network' = network \cup {[opcode |-> OFFER, chaddr |-> packet.chaddr, xid |-> packet.xid,
                                    yiaddr |-> a, options |-> <<server>>]}
    BY <1>4 DEF Offer
  <2>2. PICK p : network' = network \cup {p} /\ p.chaddr = packet.chaddr /\ p.xid = packet.xid /\ p.yiaddr = a
    <3> DEFINE q == [opcode |-> OFFER, chaddr |-> packet.chaddr, xid |-> packet.xid,
                     yiaddr |-> a, options |-> <<server>>]
    <3>1. q.chaddr = packet.chaddr /\ q.xid = packet.xid /\ q.yiaddr = a /\ network' = network \cup {q}
      BY <2>1
    <3> HIDE DEF q
    <3>2. QED
      BY <3>1
  <2>3. asker' = asker
    BY <1>4 DEF Offer
  <2>4. QED
    BY <2>2, <2>3 DEF DhcpInv, DhcpTypeOK, XidInv, NoAddressInv, AddressIsMine
<1>5. CASE UNCHANGED dhcpvars
  BY <1>5 DEF dhcpvars, DhcpInv, DhcpTypeOK, XidInv, NoAddressInv, AddressIsMine
<1>6. QED
  BY <1>1, <1>2, <1>3, <1>4, <1>5 DEF DhcpNext

\* The address a host ends with was offered to that host, for any number of
\* hosts and servers, as long as no xid is drawn twice.
THEOREM AddressIsOffered == DhcpSpec => []AddressIsMine
<1>1. DhcpInit => DhcpInv
  BY DhcpInitInv
<1>2. DhcpInv /\ [DhcpNext]_dhcpvars => DhcpInv'
  BY DhcpNextInv
<1>3. DhcpInv => AddressIsMine
  BY DEF DhcpInv
<1>4. QED
  BY <1>1, <1>2, <1>3, PTL DEF DhcpSpec

-----------------------------------------------------------------------------
\* The options of DHCP

\* How a server reads the options from the i-th byte on.
ReadsOptions(f, o) ==
    \A i \in Nat : f[i] = IF i >= Len(o) \/ o[i] = END THEN <<>>
                          ELSE <<<<o[i], SubSeq(o, i + 2, i + 1 + o[i + 1])>>>> \o f[i + 2 + o[i + 1]]

\* Servers that read options do it so.
LEMMA ParsedOptionsIs ==
    ASSUME NEW o \in Seq(Nat)
    PROVE  \E f : ReadsOptions(f, o) /\ ParsedOptions(o) = f[1]
<1> DEFINE Entry(i) == <<o[i], SubSeq(o, i + 2, i + 1 + o[i + 1])>>
           V == Seq({Entry(i) : i \in Nat})
           n == Len(o)
           base == [i \in Nat |-> <<>>]
           jump == [i \in Nat |-> IF i < n THEN 2 + o[i + 1] ELSE 1]
           step == [i \in Nat |-> [v \in V |-> IF o[i] = END THEN <<>> ELSE <<Entry(i)>> \o v]]
           Def(f) == [i \in Nat |-> IF i >= Len(o) \/ o[i] = END THEN <<>>
                                    ELSE <<<<o[i], SubSeq(o, i + 2, i + 1 + o[i + 1])>>>> \o f[i + 2 + o[i + 1]]]
           reader == CHOOSE f : f = Def(f)
<1>1. n \in Nat /\ \A i \in Nat : i < n => o[i + 1] \in Nat
  OBVIOUS
<1>2. jump \in [Nat -> Nat \ {0}]
  BY <1>1
<1>3. base \in [Nat -> V]
  OBVIOUS
<1>4. \A i \in Nat : \A v \in V : (IF o[i] = END THEN <<>> ELSE <<Entry(i)>> \o v) \in V
  <2>1. ASSUME NEW i \in Nat, NEW v \in V PROVE <<Entry(i)>> \o v \in V
    <3>1. PICK e \in {Entry(j) : j \in Nat} : e = Entry(i)
      OBVIOUS
    <3> HIDE DEF Entry
    <3>2. <<e>> \o v \in V
      BY ConcatProperties
    <3>3. QED
      BY <3>1, <3>2, Zenon
  <2>2. <<>> \in V
    OBVIOUS
  <2>3. QED
    BY <2>1, <2>2, Zenon
<1>5. step \in [Nat -> [V -> V]] /\ \A i \in Nat : \A v \in V : step[i][v] = IF o[i] = END THEN <<>> ELSE <<Entry(i)>> \o v
  <2> HIDE DEF V, Entry
  <2>1. ASSUME NEW i \in Nat PROVE [v \in V |-> IF o[i] = END THEN <<>> ELSE <<Entry(i)>> \o v] \in [V -> V]
    BY <1>4
  <2>2. QED
    BY <2>1, Zenon
<1> HIDE DEF V, step, base, jump, n
<1>6. PICK f \in [Nat -> V] : \A i \in Nat : f[i] = IF i >= n THEN base[i] ELSE step[i][f[i + jump[i]]]
  <2>1. RecursiveDown(n, V)
    BY <1>1, RecursionDownIs
  <2>2. QED
    BY <1>2, <1>3, <1>5, <2>1, Zenon DEF RecursiveDown
<1>7. f = Def(f)
  <2> SUFFICES ASSUME NEW i \in Nat
               PROVE  f[i] = IF i >= Len(o) \/ o[i] = END THEN <<>> ELSE <<Entry(i)>> \o f[i + 2 + o[i + 1]]
    BY Zenon
  <2>1. CASE i >= n
    <3>1. f[i] = <<>>
      BY <1>6, <2>1 DEF base
    <3>2. QED
      BY <2>1, <3>1 DEF n
  <2>2. CASE ~(i >= n)
    <3>1. i < n /\ o[i + 1] \in Nat
      BY <1>1, <2>2
    <3>2. jump[i] = 2 + o[i + 1]
      BY <3>1 DEF jump
    <3>3. i + jump[i] \in Nat /\ i + jump[i] = i + 2 + o[i + 1]
      <4>1. PICK k \in Nat : k = o[i + 1]
        BY <3>1
      <4>2. i + (2 + k) \in Nat /\ i + (2 + k) = i + 2 + k
        OBVIOUS
      <4>3. QED
        BY <3>2, <4>1, <4>2
    <3>4. PICK v \in V : v = f[i + 2 + o[i + 1]]
      BY <3>3
    <3>5. f[i] = step[i][v]
      BY <1>6, <2>2, <3>3, <3>4
    <3>6. f[i] = IF o[i] = END THEN <<>> ELSE <<Entry(i)>> \o v
      BY <1>5, <3>5, Zenon
    <3>7. QED
      BY <2>2, <3>4, <3>6, Zenon DEF n
  <2>3. QED
    BY <2>1, <2>2
<1>8. reader = Def(reader)
  <2>1. \E h : h = Def(h)
    BY <1>7, Zenon
  <2> HIDE DEF Def
  <2>2. QED
    BY <2>1, Zenon
<1>9. ParsedOptions(o) = reader[1]
  BY Zenon DEF ParsedOptions
<1> HIDE DEF reader
<1>10. PICK d : d = reader
  OBVIOUS
<1>11. ReadsOptions(d, o)
  <2>1. d = Def(d)
    BY <1>8, <1>10, Zenon
  <2>2. QED
    BY <2>1 DEF ReadsOptions
<1>12. QED
  BY <1>9, <1>10, <1>11, Zenon

\* The option with this code and this data stands at the i-th byte.
Holds(o, i, code, data) ==
    /\ i + 1 + Len(data) <= Len(o)
    /\ o[i] = code /\ o[i + 1] = Len(data)
    /\ \A k \in 1 .. Len(data) : o[i + 1 + k] = data[k]

\* An option stands at the first byte of what the client makes of it.
LEMMA OptionIs ==
    ASSUME NEW code \in Nat, NEW data \in Seq(Nat)
    PROVE  /\ fill_dhcp_option(code, data) \in Seq(Nat)
           /\ Len(fill_dhcp_option(code, data)) = 2 + Len(data)
           /\ Holds(fill_dhcp_option(code, data), 1, code, data)
<1>1. PICK n \in Nat : n = Len(data)
  BY LenProperties
<1>2. PICK h \in Seq(Nat) : h = <<code, n>> /\ Len(h) = 2 /\ h[1] = code /\ h[2] = n
  <2>1. <<code, n>> \in Seq(Nat) /\ Len(<<code, n>>) = 2 /\ <<code, n>>[1] = code /\ <<code, n>>[2] = n
    OBVIOUS
  <2>2. QED
    BY <2>1, Zenon
<1>3. PICK o \in Seq(Nat) : /\ o = h \o data /\ Len(o) = 2 + n
                            /\ \A i \in 1 .. 2 + n : o[i] = IF i <= 2 THEN h[i] ELSE data[i - 2]
  <2>1. h \o data \in Seq(Nat) /\ Len(h \o data) = Len(h) + Len(data)
        /\ \A i \in 1 .. Len(h) + Len(data) : (h \o data)[i] = IF i <= Len(h) THEN h[i] ELSE data[i - Len(h)]
    BY ConcatProperties, Zenon
  <2>2. PICK o : o = h \o data
    OBVIOUS
  <2>3. QED
    BY <1>1, <1>2, <2>1, <2>2
<1>4. o[1] = code /\ o[2] = n
  <2>1. 1 \in 1 .. 2 + n /\ 2 \in 1 .. 2 + n
    OBVIOUS
  <2>2. QED
    BY <1>2, <1>3, <2>1
<1>5. ASSUME NEW k \in 1 .. n PROVE o[2 + k] = data[k]
  <2>1. 2 + k \in 1 .. 2 + n /\ ~(2 + k <= 2) /\ 2 + k - 2 = k
    OBVIOUS
  <2>2. QED
    BY <1>3, <2>1
<1>6. Holds(o, 1, code, data)
  BY <1>1, <1>3, <1>4, <1>5 DEF Holds
<1>7. fill_dhcp_option(code, data) = o
  BY <1>1, <1>2, <1>3, Zenon DEF fill_dhcp_option
<1>8. QED
  BY <1>1, <1>3, <1>6, <1>7

\* It stands there still when others follow, and behind them.
LEMMA OptionStays ==
    ASSUME NEW o \in Seq(Nat), NEW r \in Seq(Nat), NEW i \in Nat \ {0}, NEW code \in Nat, NEW data \in Seq(Nat)
    PROVE  /\ Holds(o, i, code, data) => Holds(o \o r, i, code, data)
           /\ Holds(r, i, code, data) => Holds(o \o r, Len(o) + i, code, data)
<1>1. PICK n \in Nat, p \in Nat, q \in Nat : n = Len(data) /\ p = Len(o) /\ q = Len(r)
  <2>1. Len(data) \in Nat /\ Len(o) \in Nat /\ Len(r) \in Nat
    BY LenProperties, Zenon
  <2>2. QED
    BY <2>1, Zenon
<1>2. PICK s : s = o \o r
  OBVIOUS
<1>3. Len(s) = p + q /\ \A k \in 1 .. p + q : s[k] = IF k <= p THEN o[k] ELSE r[k - p]
  BY <1>1, <1>2, ConcatProperties, Zenon
<1>4. (\A k \in 1 .. p : s[k] = o[k]) /\ (\A k \in 1 .. q : s[p + k] = r[k])
  <2>1. ASSUME NEW k \in 1 .. p PROVE s[k] = o[k]
    <3>1. k \in 1 .. p + q /\ k <= p
      OBVIOUS
    <3>2. QED
      BY <1>3, <3>1
  <2>2. ASSUME NEW k \in 1 .. q PROVE s[p + k] = r[k]
    <3>1. p + k \in 1 .. p + q /\ ~(p + k <= p) /\ p + k - p = k
      OBVIOUS
    <3>2. QED
      BY <1>3, <3>1
  <2>3. QED
    BY <2>1, <2>2
<1>5. ASSUME Holds(o, i, code, data) PROVE Holds(s, i, code, data)
  <2>1. i + 1 + n <= p /\ o[i] = code /\ o[i + 1] = n /\ \A k \in 1 .. n : o[i + 1 + k] = data[k]
    BY <1>1, <1>5 DEF Holds
  <2>2. s[i] = code /\ s[i + 1] = n
    BY <1>4, <2>1
  <2>3. ASSUME NEW k \in 1 .. n PROVE s[i + 1 + k] = data[k]
    <3>1. i + 1 + k \in 1 .. p
      BY <2>1
    <3>2. QED
      BY <1>4, <2>1, <3>1
  <2>4. i + 1 + n <= Len(s)
    BY <1>3, <2>1
  <2>5. QED
    BY <1>1, <2>2, <2>3, <2>4 DEF Holds
<1>6. ASSUME Holds(r, i, code, data) PROVE Holds(s, p + i, code, data)
  <2>1. i + 1 + n <= q /\ r[i] = code /\ r[i + 1] = n /\ \A k \in 1 .. n : r[i + 1 + k] = data[k]
    BY <1>1, <1>6 DEF Holds
  <2>2. s[p + i] = code /\ s[p + i + 1] = n
    <3>1. i \in 1 .. q /\ i + 1 \in 1 .. q /\ p + (i + 1) = p + i + 1
      BY <2>1
    <3>2. QED
      BY <1>4, <2>1, <3>1
  <2>3. ASSUME NEW k \in 1 .. n PROVE s[p + i + 1 + k] = data[k]
    <3>1. i + 1 + k \in 1 .. q /\ p + (i + 1 + k) = p + i + 1 + k
      BY <2>1
    <3>2. QED
      BY <1>4, <2>1, <3>1
  <2>4. p + i + 1 + n <= Len(s)
    BY <1>3, <2>1
  <2>5. QED
    BY <1>1, <2>2, <2>3, <2>4 DEF Holds
<1>7. QED
  BY <1>1, <1>2, <1>5, <1>6, Zenon

\* A server that comes to an option reads it, and goes on behind it; at the end
\* it stops.
ReadsOn(f, o) ==
    \A i \in Nat \ {0} : \A code \in Nat : \A data \in Seq(Nat) : Holds(o, i, code, data) =>
        f[i] = IF code = END THEN <<>> ELSE <<<<code, data>>>> \o f[i + 2 + Len(data)]

\* Whoever reads the bytes as a server does reads the options that stand there.
LEMMA OptionsAreReadOn ==
    ASSUME NEW o \in Seq(Nat), NEW f, ReadsOptions(f, o)
    PROVE  ReadsOn(f, o)
<1>1. ASSUME NEW i \in Nat \ {0}, NEW code \in Nat, NEW data \in Seq(Nat), Holds(o, i, code, data)
      PROVE  f[i] = IF code = END THEN <<>> ELSE <<<<code, data>>>> \o f[i + 2 + Len(data)]
  <2>1. Len(data) \in Nat /\ Len(o) \in Nat /\ ~(i >= Len(o)) /\ o[i] = code /\ o[i + 1] = Len(data)
    BY <1>1, LenProperties DEF Holds
  <2>2. f[i] = IF code = END THEN <<>>
               ELSE <<<<code, SubSeq(o, i + 2, i + 1 + Len(data))>>>> \o f[i + 2 + Len(data)]
    BY <2>1 DEF ReadsOptions
  <2>3. SubSeq(o, i + 2, i + 1 + Len(data)) = data
    <3>1. PICK a \in Int, b \in Int : a = i + 2 /\ b = i + 1 + Len(data)
      BY <2>1
    <3>2. PICK s : s = SubSeq(o, a, b)
      OBVIOUS
    <3>3. \A k \in a .. b : o[k] \in Nat
      <4>1. b <= Len(o) /\ 1 <= a
        BY <1>1, <2>1, <3>1 DEF Holds
      <4>2. ASSUME NEW k \in a .. b PROVE o[k] \in Nat
        <5>1. k \in 1 .. Len(o)
          BY <2>1, <3>1, <4>1
        <5>2. QED
          BY <5>1
      <4>3. QED
        BY <4>2
    <3>4. /\ s \in Seq(Nat) /\ Len(s) = (IF a <= b THEN b - a + 1 ELSE 0)
          /\ \A k \in 1 .. b - a + 1 : s[k] = o[a + k - 1]
      BY <3>2, <3>3, SubSeqProperties
    <3>5. Len(s) = Len(data)
      BY <2>1, <3>1, <3>4
    <3>6. ASSUME NEW k \in 1 .. Len(data) PROVE s[k] = data[k]
      <4>1. k \in 1 .. b - a + 1 /\ a + k - 1 = i + 1 + k
        BY <2>1, <3>1
      <4>2. QED
        BY <1>1, <3>4, <4>1 DEF Holds
    <3>7. s = data
      BY <3>4, <3>5, <3>6, SeqEqual
    <3>8. QED
      BY <3>1, <3>2, <3>7
  <2>4. QED
    BY <2>2, <2>3
<1>2. QED
  BY <1>1, Zenon DEF ReadsOn

\* A server reads these three options in a packet that has them.
AreRead(c1, d1, c2, d2, c3, d3) ==
    {<<c1, d1>>, <<c2, d2>>, <<c3, d3>>} \subseteq
        Range(ParsedOptions(fill_dhcp_option(c1, d1) \o fill_dhcp_option(c2, d2)
                            \o fill_dhcp_option(c3, d3) \o fill_dhcp_option(END, <<0>>)))

\* The three options of a packet, with the end behind them, are read.
LEMMA ThreeAreRead ==
    ASSUME NEW c1 \in Nat \ {END}, NEW c2 \in Nat \ {END}, NEW c3 \in Nat \ {END},
           NEW d1 \in Seq(Nat), NEW d2 \in Seq(Nat), NEW d3 \in Seq(Nat)
    PROVE  AreRead(c1, d1, c2, d2, c3, d3)
<1>1. PICK e \in Seq(Nat) : e = <<0>>
  <2>1. <<0>> \in Seq(Nat)
    OBVIOUS
  <2>2. QED
    BY <2>1, Zenon
<1>2. END \in Nat
  BY DEF END
<1>3. PICK o1 \in Seq(Nat), o2 \in Seq(Nat), o3 \in Seq(Nat), o4 \in Seq(Nat) :
        /\ o1 = fill_dhcp_option(c1, d1) /\ o2 = fill_dhcp_option(c2, d2)
        /\ o3 = fill_dhcp_option(c3, d3) /\ o4 = fill_dhcp_option(END, e)
  BY <1>2, OptionIs, Zenon
<1>4. /\ Len(o1) = 2 + Len(d1) /\ Len(o2) = 2 + Len(d2) /\ Len(o3) = 2 + Len(d3)
      /\ Holds(o1, 1, c1, d1) /\ Holds(o2, 1, c2, d2) /\ Holds(o3, 1, c3, d3) /\ Holds(o4, 1, END, e)
  BY <1>2, <1>3, OptionIs
<1>5. Len(d1) \in Nat /\ Len(d2) \in Nat /\ Len(d3) \in Nat /\ 1 \in Nat \ {0}
  BY LenProperties
<1>6. PICK p2 \in Seq(Nat), p3 \in Seq(Nat), o \in Seq(Nat) : p2 = o1 \o o2 /\ p3 = p2 \o o3 /\ o = p3 \o o4
  BY ConcatProperties, Zenon
<1>7. Len(p2) = 4 + Len(d1) + Len(d2) /\ Len(p3) = 6 + Len(d1) + Len(d2) + Len(d3)
  <2>1. Len(p2) = Len(o1) + Len(o2) /\ Len(p3) = Len(p2) + Len(o3)
    BY <1>6, ConcatProperties, Zenon
  <2>2. QED
    BY <1>4, <1>5, <2>1
<1>8. PICK i2 \in Nat \ {0}, i3 \in Nat \ {0}, i4 \in Nat \ {0} :
        i2 = 3 + Len(d1) /\ i3 = i2 + 2 + Len(d2) /\ i4 = i3 + 2 + Len(d3)
  <2>1. PICK i2 \in Nat \ {0} : i2 = 3 + Len(d1)
    BY <1>5
  <2>2. PICK i3 \in Nat \ {0} : i3 = i2 + 2 + Len(d2)
    BY <1>5
  <2>3. PICK i4 \in Nat \ {0} : i4 = i3 + 2 + Len(d3)
    BY <1>5
  <2>4. QED
    BY <2>1, <2>2, <2>3, Zenon
<1>9. Holds(o, 1, c1, d1)
  BY <1>4, <1>5, <1>6, OptionStays
<1>10. Holds(o, i2, c2, d2)
  <2>1. Len(o1) + 1 = i2
    BY <1>4, <1>5, <1>8
  <2>2. Holds(p2, i2, c2, d2)
    BY <1>4, <1>5, <1>6, <2>1, OptionStays
  <2>3. QED
    BY <1>6, <2>2, OptionStays
<1>11. Holds(o, i3, c3, d3)
  <2>1. Len(p2) + 1 = i3
    BY <1>5, <1>7, <1>8
  <2>2. Holds(p3, i3, c3, d3)
    BY <1>4, <1>5, <1>6, <2>1, OptionStays
  <2>3. QED
    BY <1>6, <2>2, OptionStays
<1>12. Holds(o, i4, END, e)
  <2>1. Len(p3) + 1 = i4
    BY <1>5, <1>7, <1>8
  <2>2. QED
    BY <1>2, <1>4, <1>5, <1>6, <2>1, OptionStays
<1>13. PICK f : ReadsOptions(f, o) /\ ParsedOptions(o) = f[1]
  BY ParsedOptionsIs
<1>23. /\ c1 \in Nat /\ c1 # END /\ c2 \in Nat /\ c2 # END /\ c3 \in Nat /\ c3 # END
  OBVIOUS
<1>24. /\ f[i4] = <<>>
       /\ f[i3] = <<<<c3, d3>>>> \o f[i3 + 2 + Len(d3)]
       /\ f[i2] = <<<<c2, d2>>>> \o f[i2 + 2 + Len(d2)]
       /\ f[1] = <<<<c1, d1>>>> \o f[1 + 2 + Len(d1)]
  <2>1. ReadsOn(f, o)
    BY <1>6, <1>13, OptionsAreReadOn, Zenon
  <2>2. f[i4] = <<>>
    BY <1>1, <1>2, <1>12, <2>1, Zenon DEF ReadsOn
  <2>3. f[i3] = <<<<c3, d3>>>> \o f[i3 + 2 + Len(d3)]
    BY <1>11, <1>23, <2>1, Zenon DEF ReadsOn
  <2>4. f[i2] = <<<<c2, d2>>>> \o f[i2 + 2 + Len(d2)]
    BY <1>10, <1>23, <2>1, Zenon DEF ReadsOn
  <2>5. f[1] = <<<<c1, d1>>>> \o f[1 + 2 + Len(d1)]
    <3>1. PICK one \in Nat \ {0} : one = 1
      OBVIOUS
    <3>2. Holds(o, one, c1, d1)
      BY <1>9, <3>1, Zenon
    <3>3. f[one] = <<<<c1, d1>>>> \o f[one + 2 + Len(d1)]
      BY <1>23, <2>1, <3>2, Zenon DEF ReadsOn
    <3>4. QED
      BY <3>1, <3>3, Zenon
  <2>6. QED
    BY <2>2, <2>3, <2>4, <2>5
<1>14. PICK e1, e2, e3 : e1 = <<c1, d1>> /\ e2 = <<c2, d2>> /\ e3 = <<c3, d3>>
  OBVIOUS
<1>16. f[i4] = <<>> /\ f[i3] = <<e3>> \o f[i4] /\ f[i2] = <<e2>> \o f[i3] /\ f[1] = <<e1>> \o f[i2]
  <2>1. 1 + 2 + Len(d1) = i2
    BY <1>5, <1>8
  <2>2. QED
    BY <1>8, <1>14, <1>24, <2>1, Zenon
<1>17. PICK s : s = <<e1>> \o (<<e2>> \o (<<e3>> \o <<>>))
  OBVIOUS
<1>18. {e1, e2, e3} \subseteq Range(s)
  <2>1. PICK S : S = {e1, e2, e3}
    OBVIOUS
  <2>2. PICK t3 \in Seq(S) : t3 = <<e3>> \o <<>> /\ Len(t3) = 1 /\ t3[1] = e3
    <3>1. <<e3>> \o <<>> \in Seq(S) /\ Len(<<e3>> \o <<>>) = 1 /\ (<<e3>> \o <<>>)[1] = e3
      BY <2>1
    <3>2. QED
      BY <3>1, Zenon
  <2>3. PICK t2 \in Seq(S) : t2 = <<e2>> \o t3 /\ Len(t2) = 2 /\ t2[1] = e2 /\ t2[2] = e3
    <3>1. <<e2>> \o t3 \in Seq(S) /\ Len(<<e2>> \o t3) = 2 /\ (<<e2>> \o t3)[1] = e2 /\ (<<e2>> \o t3)[2] = e3
      BY <2>1, <2>2
    <3>2. QED
      BY <3>1, Zenon
  <2>4. s \in Seq(S) /\ Len(s) = 3 /\ s[1] = e1 /\ s[2] = e2 /\ s[3] = e3
    <3>1. s = <<e1>> \o t2
      BY <1>17, <2>2, <2>3, Zenon
    <3>2. QED
      BY <2>1, <2>3, <3>1
  <2>5. 1 \in DOMAIN s /\ 2 \in DOMAIN s /\ 3 \in DOMAIN s
    BY <2>4
  <2>6. QED
    BY <2>4, <2>5, Zenon DEF Range
<1>20. ParsedOptions(o) = s
  BY <1>13, <1>16, <1>17, Zenon
<1>21. o = fill_dhcp_option(c1, d1) \o fill_dhcp_option(c2, d2) \o fill_dhcp_option(c3, d3) \o fill_dhcp_option(END, <<0>>)
  BY <1>1, <1>3, <1>6, Zenon
<1>22. QED
  BY <1>14, <1>18, <1>20, <1>21, Zenon DEF AreRead

\* Names and addresses are bytes.
LEMMA HostsAreBytes == Hosts \subseteq Seq(Nat) /\ Addresses \subseteq Seq(Nat)
<1>1. PICK B : B = 0 .. 255
  OBVIOUS
<1>2. B \subseteq Nat
  BY <1>1, SMT
<1>3. OptionData \subseteq Seq(B)
  BY <1>1, Zenon DEF OptionData
<1>4. ASSUME NEW s \in Seq(B) PROVE s \in Seq(Nat)
  <2>1. Len(s) \in Nat /\ s \in [1 .. Len(s) -> B]
    BY LenProperties
  <2>2. s \in [1 .. Len(s) -> Nat]
    BY <1>2, <2>1
  <2>3. QED
    BY <2>1, <2>2, SeqDef
<1>5. QED
  BY <1>3, <1>4, DhcpAssumption, Zenon

\* What the client writes into its packets: a server reads the kind, the
\* address and the name.
LEMMA DiscoveryIsRead ==
    ASSUME NEW h \in Hosts
    PROVE  /\ <<HOSTNAME, h>> \in Range(ParsedOptions(fill_dhcp_discovery_options(h)))
           /\ <<MESSAGE, <<DISCOVER>>>> \in Range(ParsedOptions(fill_dhcp_discovery_options(h)))
<1>1. PICK d1 \in Seq(Nat), d2 \in Seq(Nat) :
        d1 = <<DISCOVER>> /\ d2 = <<REQ_SUBNET_MASK, ROUTER, DNS, DOMAIN_NAME>>
  <2>1. <<DISCOVER>> \in Seq(Nat) /\ <<REQ_SUBNET_MASK, ROUTER, DNS, DOMAIN_NAME>> \in Seq(Nat)
    BY SMT DEF DISCOVER, REQ_SUBNET_MASK, ROUTER, DNS, DOMAIN_NAME
  <2>2. QED
    BY <2>1, Zenon
<1>2. MESSAGE \in Nat \ {END} /\ PARAMETER_REQ_LIST \in Nat \ {END} /\ HOSTNAME \in Nat \ {END}
  BY SMT DEF MESSAGE, PARAMETER_REQ_LIST, HOSTNAME, END
<1>3. h \in Seq(Nat)
  BY HostsAreBytes, Zenon
<1>4. AreRead(MESSAGE, d1, PARAMETER_REQ_LIST, d2, HOSTNAME, h)
  BY <1>1, <1>2, <1>3, ThreeAreRead, Zenon
<1>5. QED
  BY <1>1, <1>4, Zenon DEF AreRead, fill_dhcp_discovery_options

\* The same of the request.
LEMMA RequestIsRead ==
    ASSUME NEW h \in Hosts, NEW a \in Addresses
    PROVE  /\ <<HOSTNAME, h>> \in Range(ParsedOptions(fill_dhcp_request_options(a, h)))
           /\ <<REQ_IP, a>> \in Range(ParsedOptions(fill_dhcp_request_options(a, h)))
<1>1. PICK d1 \in Seq(Nat) : d1 = <<REQUEST>>
  <2>1. <<REQUEST>> \in Seq(Nat)
    BY SMT DEF REQUEST
  <2>2. QED
    BY <2>1, Zenon
<1>2. MESSAGE \in Nat \ {END} /\ REQ_IP \in Nat \ {END} /\ HOSTNAME \in Nat \ {END}
  BY SMT DEF MESSAGE, REQ_IP, HOSTNAME, END
<1>3. h \in Seq(Nat) /\ a \in Seq(Nat)
  BY HostsAreBytes, Zenon
<1>4. AreRead(MESSAGE, d1, REQ_IP, a, HOSTNAME, h)
  BY <1>1, <1>2, <1>3, ThreeAreRead, Zenon
<1>5. QED
  BY <1>1, <1>4, Zenon DEF AreRead, fill_dhcp_request_options

\* A packet of a client says what it was meant to say, and an offer an address.
SaysIt(p) ==
    /\ p.opcode = BOOTREQUEST =>
         /\ <<HOSTNAME, p.chaddr>> \in Range(ParsedOptions(p.options))
         /\ \/ <<MESSAGE, <<DISCOVER>>>> \in Range(ParsedOptions(p.options))
            \/ \E a \in Addresses : <<REQ_IP, a>> \in Range(ParsedOptions(p.options))
    /\ p.opcode = OFFER => p.yiaddr \in Addresses

OptionsInv == \A p \in network : SaysIt(p)

\* Every packet that is sent does.
LEMMA OptionsSteps == OptionsInv /\ [DhcpNext]_dhcpvars => OptionsInv'
<1> SUFFICES ASSUME OptionsInv, [DhcpNext]_dhcpvars PROVE OptionsInv'
  OBVIOUS
<1>1. BOOTREQUEST # OFFER
  BY DEF BOOTREQUEST, OFFER
<1>2. ASSUME NEW h \in Hosts, NEW x, NEW o, NEW y,
             <<HOSTNAME, h>> \in Range(ParsedOptions(o)),
             \/ <<MESSAGE, <<DISCOVER>>>> \in Range(ParsedOptions(o))
             \/ \E a \in Addresses : <<REQ_IP, a>> \in Range(ParsedOptions(o))
      PROVE  SaysIt(dhcp_output(h, x, o))
  <2>1. PICK p : p = dhcp_output(h, x, o)
    OBVIOUS
  <2>2. p.opcode = BOOTREQUEST /\ p.chaddr = h /\ p.options = o
    BY <2>1 DEF dhcp_output
  <2>3. SaysIt(p)
    BY <1>1, <1>2, <2>2, Zenon DEF SaysIt
  <2>4. QED
    BY <2>1, <2>3, Zenon
<1>3. ASSUME NEW h \in Hosts, Discover(h) PROVE OptionsInv'
  <2>1. PICK x : network' = network \cup {dhcp_output(h, x, fill_dhcp_discovery_options(h))}
    BY <1>3, Zenon DEF Discover
  <2>2. SaysIt(dhcp_output(h, x, fill_dhcp_discovery_options(h)))
    BY <1>2, DiscoveryIsRead, Zenon
  <2>3. QED
    BY <2>1, <2>2, Zenon DEF OptionsInv
<1>4. ASSUME NEW h \in Hosts, Receive(h) PROVE OptionsInv'
  <2>1. PICK packet \in network :
            /\ packet.opcode = OFFER
            /\ \E x \in Unused, sent \in BOOLEAN :
                 network' = IF ~sent THEN network
                            ELSE network \cup {dhcp_output(h, x, fill_dhcp_request_options(packet.yiaddr, h))}
    BY <1>4, Zenon DEF Receive, Answers
  <2>2. PICK x \in Unused, sent \in BOOLEAN :
            network' = IF ~sent THEN network
                       ELSE network \cup {dhcp_output(h, x, fill_dhcp_request_options(packet.yiaddr, h))}
    BY <2>1, Zenon
  <2>3. packet.yiaddr \in Addresses
    BY <2>1, Zenon DEF OptionsInv, SaysIt
  <2>4. SaysIt(dhcp_output(h, x, fill_dhcp_request_options(packet.yiaddr, h)))
    BY <1>2, <2>3, RequestIsRead, Zenon
  <2>5. QED
    BY <2>2, <2>4, Zenon DEF OptionsInv
<1>5. ASSUME NEW s \in Servers, Offer(s) PROVE OptionsInv'
  <2>1. PICK p : network' = network \cup {p} /\ p.opcode = OFFER /\ p.yiaddr \in Addresses
    <3>1. PICK packet \in network, a \in Addresses :
            network' = network \cup {[opcode |-> OFFER, chaddr |-> packet.chaddr, xid |-> packet.xid,
                                      yiaddr |-> a, options |-> <<s>>]}
      BY <1>5, Zenon DEF Offer
    <3>2. PICK p : p = [opcode |-> OFFER, chaddr |-> packet.chaddr, xid |-> packet.xid,
                        yiaddr |-> a, options |-> <<s>>]
      OBVIOUS
    <3>3. p.opcode = OFFER /\ p.yiaddr \in Addresses
      BY <3>2
    <3>4. QED
      BY <3>1, <3>2, <3>3, Zenon
  <2>2. SaysIt(p)
    BY <1>1, <2>1, Zenon DEF SaysIt
  <2>3. QED
    BY <2>1, <2>2, Zenon DEF OptionsInv
<1>6. CASE UNCHANGED network
  BY <1>6, Zenon DEF OptionsInv
<1>7. QED
  <2>1. CASE DhcpNext
    BY <1>3, <1>4, <1>5, <1>6, <2>1, Zenon DEF DhcpNext, SendFails, ReceiveFails
  <2>2. CASE UNCHANGED dhcpvars
    BY <1>6, <2>2, Zenon DEF dhcpvars
  <2>3. QED
    BY <2>1, <2>2

\* At the start nothing was sent.
LEMMA OptionsStart == DhcpInit => OptionsInv
BY DEF DhcpInit, OptionsInv

\* Packets that say it are as servers need them.
LEMMA OptionsMean == OptionsInv => OptionsAreRead
BY Zenon DEF OptionsInv, OptionsAreRead, SaysIt

-----------------------------------------------------------------------------
\* The calendar of the NTP client

\* The months, and the years of the calendar.
Month == 1 .. 12
Year == 1980 .. 2060

\* 1 in a leap year.
Leap(y) == IF LeapYear(y) THEN 1 ELSE 0

\* The days of each month, and of those before it.
LEMMA MonthDaysAre ==
    ASSUME NEW y \in Int
    PROVE  /\ MonthDays(y)[1] = 31 /\ MonthDays(y)[2] = 28 + Leap(y) /\ MonthDays(y)[3] = 31
           /\ MonthDays(y)[4] = 30 /\ MonthDays(y)[5] = 31 /\ MonthDays(y)[6] = 30
           /\ MonthDays(y)[7] = 31 /\ MonthDays(y)[8] = 31 /\ MonthDays(y)[9] = 30
           /\ MonthDays(y)[10] = 31 /\ MonthDays(y)[11] = 30 /\ MonthDays(y)[12] = 31
           /\ Leap(y) \in {0, 1}
  BY DEF MonthDays, Leap

\* The days of a year before each of its months.
LEMMA MonthStartIs ==
    ASSUME NEW y \in Int
    PROVE  /\ MonthStart(y, 1) = 0 /\ MonthStart(y, 2) = 31
           /\ MonthStart(y, 3) = 59 + Leap(y) /\ MonthStart(y, 4) = 90 + Leap(y)
           /\ MonthStart(y, 5) = 120 + Leap(y) /\ MonthStart(y, 6) = 151 + Leap(y)
           /\ MonthStart(y, 7) = 181 + Leap(y) /\ MonthStart(y, 8) = 212 + Leap(y)
           /\ MonthStart(y, 9) = 243 + Leap(y) /\ MonthStart(y, 10) = 273 + Leap(y)
           /\ MonthStart(y, 11) = 304 + Leap(y) /\ MonthStart(y, 12) = 334 + Leap(y)
<1> DEFINE Def(f) == [k \in 0 .. 12 |-> IF k = 0 THEN 0 ELSE f[k - 1] + MonthDays(y)[k]]
           sum == CHOOSE f : f = Def(f)
           step == [j \in 1 .. 12 |-> [v \in Int |-> v + MonthDays(y)[j]]]
<1>1. \A j \in 1 .. 12 : MonthDays(y)[j] \in Int
  <2>1. ASSUME NEW j \in 1 .. 12 PROVE MonthDays(y)[j] \in Int
    <3>1. \/ j = 1 \/ j = 2 \/ j = 3 \/ j = 4 \/ j = 5 \/ j = 6
          \/ j = 7 \/ j = 8 \/ j = 9 \/ j = 10 \/ j = 11 \/ j = 12
      OBVIOUS
    <3>2. QED
      BY <3>1, MonthDaysAre
  <2>2. QED
    BY <2>1
<1>2. step \in [1 .. 12 -> [Int -> Int]] /\ \A j \in 1 .. 12 : \A v \in Int : step[j][v] = v + MonthDays(y)[j]
  BY <1>1
<1> HIDE DEF step
<1>3. PICK f \in [0 .. 12 -> Int] : f[0] = 0 /\ \A j \in 1 .. 12 : f[j] = step[j][f[j - 1]]
  <2>1. Recursive(12, Int)
    BY RecursionIs
  <2>2. 0 \in Int
    OBVIOUS
  <2>3. QED
    BY <1>2, <2>1, <2>2, Zenon DEF Recursive
<1>4. f = Def(f)
  <2>1. \A j \in 0 .. 12 : j # 0 => j \in 1 .. 12 /\ j - 1 \in 0 .. 12
    OBVIOUS
  <2>2. \A j \in 0 .. 12 : f[j] = IF j = 0 THEN 0 ELSE f[j - 1] + MonthDays(y)[j]
    BY <1>2, <1>3, <2>1
  <2>3. QED
    BY <2>2
<1>5. sum = Def(sum)
  <2>1. \E h : h = Def(h)
    BY <1>4, Zenon
  <2> HIDE DEF Def
  <2>2. QED
    BY <2>1, Zenon
<1>6. \A m : MonthStart(y, m) = sum[m - 1]
  BY Zenon DEF MonthStart
<1> HIDE DEF sum
<1>7. PICK d : d = sum
  OBVIOUS
<1>8. \A j \in 0 .. 12 : d[j] = IF j = 0 THEN 0 ELSE d[j - 1] + MonthDays(y)[j]
  <2>1. d = Def(d)
    BY <1>5, <1>7, Zenon
  <2>2. QED
    BY <2>1
<1> HIDE DEF Def
<1>9. /\ d[0] = 0 /\ d[1] = d[0] + MonthDays(y)[1] /\ d[2] = d[1] + MonthDays(y)[2]
      /\ d[3] = d[2] + MonthDays(y)[3] /\ d[4] = d[3] + MonthDays(y)[4] /\ d[5] = d[4] + MonthDays(y)[5]
      /\ d[6] = d[5] + MonthDays(y)[6] /\ d[7] = d[6] + MonthDays(y)[7] /\ d[8] = d[7] + MonthDays(y)[8]
      /\ d[9] = d[8] + MonthDays(y)[9] /\ d[10] = d[9] + MonthDays(y)[10] /\ d[11] = d[10] + MonthDays(y)[11]
  BY <1>8
<1>10. PICK l \in Int : l = Leap(y)
  BY MonthDaysAre
<1>11. /\ d[0] = 0 /\ d[1] = 31 /\ d[2] = 59 + l /\ d[3] = 90 + l /\ d[4] = 120 + l /\ d[5] = 151 + l
       /\ d[6] = 181 + l /\ d[7] = 212 + l /\ d[8] = 243 + l /\ d[9] = 273 + l /\ d[10] = 304 + l /\ d[11] = 334 + l
  BY <1>9, <1>10, MonthDaysAre
<1>12. QED
  BY <1>6, <1>7, <1>10, <1>11

\* A month ends before a later one begins, and the last with the year.
LEMMA MonthsFollow ==
    ASSUME NEW y \in Int, NEW m \in Month
    PROVE  /\ MonthStart(y, m) \in Nat /\ MonthDays(y)[m] \in 28 .. 31
           /\ MonthStart(y, m) + MonthDays(y)[m] <= 365 + Leap(y)
           /\ \A k \in Month : k > m => MonthStart(y, m) + MonthDays(y)[m] <= MonthStart(y, k)
           /\ m < 12 => MonthStart(y, m) + MonthDays(y)[m] = MonthStart(y, m + 1)
<1>1. PICK l \in {0, 1} : l = Leap(y)
  BY MonthDaysAre
<1>2. \A k \in Month : \/ k = 1 \/ k = 2 \/ k = 3 \/ k = 4 \/ k = 5 \/ k = 6
                         \/ k = 7 \/ k = 8 \/ k = 9 \/ k = 10 \/ k = 11 \/ k = 12
  BY DEF Month
<1>3. MonthStart(y, m) \in Nat /\ MonthDays(y)[m] \in 28 .. 31
  BY <1>1, <1>2, MonthDaysAre, MonthStartIs
<1>4. MonthStart(y, m) + MonthDays(y)[m] <= 365 + Leap(y)
  BY <1>1, <1>2, MonthDaysAre, MonthStartIs
<1>5. m < 12 => MonthStart(y, m) + MonthDays(y)[m] = MonthStart(y, m + 1)
  BY <1>1, <1>2, MonthDaysAre, MonthStartIs
<1>6. ASSUME NEW k \in Month, k > m PROVE MonthStart(y, m) + MonthDays(y)[m] <= MonthStart(y, k)
  BY <1>1, <1>2, <1>6, MonthDaysAre, MonthStartIs
<1>7. QED
  BY <1>3, <1>4, <1>5, <1>6

\* 28 years before, the calendar was the same.
LEMMA CalendarRepeats ==
    ASSUME NEW y \in AskedYear
    PROVE  /\ LeapYear(y - 28) <=> LeapYear(y)
           /\ LeapsBefore(y) = LeapsBefore(y - 28) + 7
           /\ LeapsBefore(y - 28) \in 479 .. 496
  BY DEF LeapYear, LeapsBefore, AskedYear

\* The days of a year, with those of the years before it.
YearStart(y) == y * 365 + LeapsBefore(y)

\* It is a number.
LEMMA YearStartIs == ASSUME NEW y \in Int PROVE YearStart(y) \in Int
  BY DEF YearStart, LeapsBefore

\* The years, one after the other.
LEMMA YearsFollow ==
    ASSUME NEW y \in Year, NEW z \in Year
    PROVE  /\ YearStart(y + 1) = YearStart(y) + 365 + Leap(y)
           /\ y < z => YearStart(y + 1) <= YearStart(z)
<1>1. LeapsBefore(y + 1) = LeapsBefore(y) + Leap(y)
  BY DEF LeapYear, LeapsBefore, Leap, Year
<1>2. y < z => LeapsBefore(y + 1) <= LeapsBefore(z)
  BY DEF LeapsBefore, Year
<1>3. LeapsBefore(y) \in Int /\ LeapsBefore(y + 1) \in Int /\ LeapsBefore(z) \in Int /\ Leap(y) \in Int
  BY DEF LeapsBefore, Leap, Year
<1>4. QED
  BY <1>1, <1>2, <1>3 DEF Year, YearStart

\* The days between two dates.
LEMMA DaysSinceIs ==
    ASSUME NEW x \in Int, NEW y \in Int, NEW m \in Month, NEW d \in Int
    PROVE  DaysSince(x, <<y, m, d>>) = YearStart(y) - YearStart(x) + MonthStart(y, m) + d - 1
<1>1. LeapsBefore(y) \in Int /\ LeapsBefore(x) \in Int
  BY DEF LeapsBefore
<1>2. MonthStart(y, m) \in Int
  BY MonthsFollow
<1>3. DaysSince(x, <<y, m, d>>) = (y - x) * 365 + LeapsBefore(y) - LeapsBefore(x) + MonthStart(y, m) + d - 1
  BY DEF DaysSince
<1>4. QED
  BY <1>1, <1>2, <1>3 DEF YearStart

\* A date is found again in the days since 1980.
LEMMA LocalTimeIs ==
    ASSUME NEW y \in Year, NEW m \in Month, NEW d \in Int, 1 <= d, d <= MonthDays(y)[m],
           NEW t \in Int, t \div Day = DaysSince(1980, <<y, m, d>>)
    PROVE  LocalTime(t) = <<y, m, d>>
<1> DEFINE days == t \div Day
           First(z, k) == DaysSince(1980, <<z, k, 1>>)
           InYear(z) == First(z, 1) <= days /\ days < First(z + 1, 1)
           year == CHOOSE z \in Year : InYear(z)
           InMonth(z, k) == First(z, k) <= days /\ (k = 12 \/ days < First(z, k + 1))
           month == CHOOSE k \in Month : InMonth(year, k)
<1>1. LocalTime(t) = <<year, month, days - First(year, month) + 1>>
  BY DEF LocalTime, Year, Month
<1>2. y \in Int /\ y + 1 \in Int /\ 1 \in Month
  BY DEF Year, Month
<1>3. /\ First(y, m) + d - 1 = days /\ First(y, m) \in Int /\ First(y, m) = First(y, 1) + MonthStart(y, m)
      /\ First(y, 1) \in Int
  <2>1. 1980 \in Int /\ 1 \in Int /\ MonthStart(y, m) \in Int /\ MonthStart(y, 1) = 0
    BY <1>2, MonthsFollow, MonthStartIs
  <2>2. DaysSince(1980, <<y, m, d>>) = YearStart(y) - YearStart(1980) + MonthStart(y, m) + d - 1
    BY <1>2, <2>1, DaysSinceIs
  <2>3. First(y, m) = YearStart(y) - YearStart(1980) + MonthStart(y, m) + 1 - 1
    BY <1>2, <2>1, DaysSinceIs
  <2>4. First(y, 1) = YearStart(y) - YearStart(1980) + MonthStart(y, 1) + 1 - 1
    BY <1>2, <2>1, DaysSinceIs
  <2>5. YearStart(y) \in Int /\ YearStart(1980) \in Int
    BY <1>2, <2>1, YearStartIs
  <2>6. QED
    BY <2>1, <2>2, <2>3, <2>4, <2>5
<1>4. First(y + 1, 1) = First(y, 1) + 365 + Leap(y)
  <2>1. 1980 \in Int /\ 1 \in Int /\ MonthStart(y, 1) = 0 /\ MonthStart(y + 1, 1) = 0
    BY <1>2, MonthStartIs
  <2>2. First(y + 1, 1) = YearStart(y + 1) - YearStart(1980) + 0 + 1 - 1
    BY <1>2, <2>1, DaysSinceIs
  <2>3. First(y, 1) = YearStart(y) - YearStart(1980) + 0 + 1 - 1
    BY <1>2, <2>1, DaysSinceIs
  <2>4. YearStart(y) \in Int /\ YearStart(1980) \in Int /\ Leap(y) \in Int
    BY <1>2, <2>1, YearStartIs, MonthDaysAre
  <2>5. QED
    BY <2>2, <2>3, <2>4, YearsFollow
<1>5. ASSUME NEW z \in Year, NEW x \in Year
      PROVE  First(z + 1, 1) \in Int /\ First(x, 1) \in Int /\ (z < x => First(z + 1, 1) <= First(x, 1))
  <2>1. 1980 \in Int /\ 1 \in Int /\ x \in Int /\ z + 1 \in Int /\ 1 \in Month
    BY DEF Year, Month
  <2>2. MonthStart(x, 1) = 0 /\ MonthStart(z + 1, 1) = 0
    BY <2>1, MonthStartIs
  <2>3. First(z + 1, 1) = YearStart(z + 1) - YearStart(1980) + 0 + 1 - 1
    BY <2>1, <2>2, DaysSinceIs
  <2>4. First(x, 1) = YearStart(x) - YearStart(1980) + 0 + 1 - 1
    BY <2>1, <2>2, DaysSinceIs
  <2>5. YearStart(x) \in Int /\ YearStart(z + 1) \in Int /\ YearStart(1980) \in Int
    BY <2>1, YearStartIs
  <2>6. QED
    BY <2>3, <2>4, <2>5, YearsFollow
<1>6. \A k \in Month : First(y, k) = First(y, 1) + MonthStart(y, k) /\ MonthStart(y, k) \in Int
  <2>1. ASSUME NEW k \in Month PROVE First(y, k) = First(y, 1) + MonthStart(y, k) /\ MonthStart(y, k) \in Int
    <3>1. 1980 \in Int /\ 1 \in Int /\ MonthStart(y, 1) = 0 /\ MonthStart(y, k) \in Int
      BY <1>2, MonthStartIs, MonthsFollow
    <3>2. First(y, k) = YearStart(y) - YearStart(1980) + MonthStart(y, k) + 1 - 1
      BY <1>2, <3>1, DaysSinceIs
    <3>3. First(y, 1) = YearStart(y) - YearStart(1980) + MonthStart(y, 1) + 1 - 1
      BY <1>2, <3>1, DaysSinceIs
    <3>4. YearStart(y) \in Int /\ YearStart(1980) \in Int
      BY <1>2, <3>1, YearStartIs
    <3>5. QED
      BY <3>1, <3>2, <3>3, <3>4
  <2>2. QED
    BY <2>1
<1> HIDE DEF First
<1>7. days \in Int
  BY <1>3
<1> HIDE DEF days
<1>8. /\ MonthStart(y, m) \in Nat /\ MonthDays(y)[m] \in Int /\ Leap(y) \in Int
      /\ MonthStart(y, m) + MonthDays(y)[m] <= 365 + Leap(y)
  BY <1>2, MonthsFollow, MonthDaysAre
<1>9. InYear(y) /\ InYear(y) \in BOOLEAN
  BY <1>3, <1>4, <1>7, <1>8
<1>10. ASSUME NEW z \in Year, InYear(z) PROVE z = y
  <2>1. First(z + 1, 1) \in Int /\ First(z, 1) \in Int /\ First(y, 1) \in Int /\ First(y + 1, 1) \in Int
    BY <1>5
  <2>2. ~(z < y)
    <3>1. z < y => First(z + 1, 1) <= First(y, 1)
      BY <1>5
    <3>2. First(y, 1) <= days /\ days < First(z + 1, 1)
      BY <1>9, <1>10
    <3>3. QED
      BY <1>7, <2>1, <3>1, <3>2
  <2>3. ~(y < z)
    <3>1. y < z => First(y + 1, 1) <= First(z, 1)
      BY <1>5
    <3>2. First(z, 1) <= days /\ days < First(y + 1, 1)
      BY <1>9, <1>10
    <3>3. QED
      BY <1>7, <2>1, <3>1, <3>2
  <2>4. QED
    BY <2>2, <2>3 DEF Year
<1>11. year = y
  <2> HIDE DEF InYear
  <2>1. \E z \in Year : InYear(z)
    BY <1>9
  <2>2. year \in Year /\ InYear(year)
    BY <2>1
  <2>3. QED
    BY <1>10, <2>2
<1> HIDE DEF year
<1>12. InMonth(y, m)
  <2>1. ASSUME m # 12 PROVE First(y, m + 1) = First(y, m) + MonthDays(y)[m]
    <3>1. m + 1 \in Month /\ m < 12
      BY <2>1 DEF Month
    <3>2. MonthStart(y, m) + MonthDays(y)[m] = MonthStart(y, m + 1)
      BY <1>2, <3>1, MonthsFollow
    <3>3. First(y, m + 1) = First(y, 1) + MonthStart(y, m + 1)
      BY <1>6, <3>1
    <3>4. QED
      BY <1>3, <1>8, <3>2, <3>3
  <2>2. QED
    BY <1>3, <1>7, <1>8, <2>1
<1>13. ASSUME NEW k \in Month, InMonth(y, k) PROVE k = m
  <2>1. First(y, k) = First(y, 1) + MonthStart(y, k) /\ MonthStart(y, k) \in Int
    BY <1>6
  <2>2. First(y, k) <= days /\ (k # 12 => days < First(y, k + 1))
    BY <1>13
  <2>3. ~(m < k)
    <3>1. m < k => MonthStart(y, m) + MonthDays(y)[m] <= MonthStart(y, k)
      BY <1>2, MonthsFollow
    <3>2. QED
      BY <1>3, <1>7, <1>8, <2>1, <2>2, <3>1
  <2>4. ~(k < m)
    <3> SUFFICES ASSUME k < m PROVE FALSE
      OBVIOUS
    <3>1. k # 12 /\ k < 12 /\ k + 1 \in Month
      BY DEF Month
    <3>2. MonthStart(y, k) + MonthDays(y)[k] = MonthStart(y, k + 1)
      BY <1>2, <3>1, MonthsFollow
    <3>3. MonthStart(y, k) + MonthDays(y)[k] <= MonthStart(y, m)
      BY <1>2, MonthsFollow
    <3>4. First(y, k + 1) = First(y, 1) + MonthStart(y, k + 1) /\ MonthStart(y, k + 1) \in Int
      BY <1>6, <3>1
    <3>5. QED
      BY <1>3, <1>7, <1>8, <2>2, <3>1, <3>2, <3>3, <3>4
  <2>5. QED
    BY <2>3, <2>4 DEF Month
<1>14. month = m
  <2> HIDE DEF InMonth
  <2>1. month = CHOOSE k \in Month : InMonth(y, k)
    BY <1>11
  <2>2. \E k \in Month : InMonth(y, k)
    BY <1>12
  <2>3. month \in Month /\ InMonth(y, month)
    BY <2>1, <2>2
  <2>4. QED
    BY <1>13, <2>3
<1> HIDE DEF month
<1>15. days - First(y, m) + 1 = d
  BY <1>3, <1>7
<1>16. QED
  BY <1>1, <1>11, <1>14, <1>15

\* The time stamp of a date, with what main takes off it, is that of 28 years
\* before, whatever the 32 bits lost.
LEMMA StampIs ==
    ASSUME NEW y \in AskedYear, NEW m \in Month, NEW d \in Int, 1 <= d, d <= MonthDays(y)[m]
    PROVE  txTm(txTm_s(<<y, m, d>>)) \in Int /\ txTm(txTm_s(<<y, m, d>>)) \div Day = DaysSince(1980, <<y - 28, m, d>>)
<1>1. y \in Int /\ y - 28 \in Int /\ 1980 \in Int /\ 1900 \in Int
  BY DEF AskedYear
<1>2. PICK first \in Nat : first = MonthStart(y, m) /\ first + d <= 366
  <2>1. /\ MonthStart(y, m) \in Nat /\ MonthDays(y)[m] \in Int /\ Leap(y) \in {0, 1}
        /\ MonthStart(y, m) + MonthDays(y)[m] <= 365 + Leap(y)
    BY <1>1, MonthsFollow, MonthDaysAre
  <2>2. MonthStart(y, m) + d <= 366
    BY <2>1
  <2>3. QED
    BY <2>1, <2>2
<1>3. MonthStart(y - 28, m) = first
  <2>1. Leap(y - 28) = Leap(y)
    BY CalendarRepeats DEF Leap
  <2>2. \/ m = 1 \/ m = 2 \/ m = 3 \/ m = 4 \/ m = 5 \/ m = 6
        \/ m = 7 \/ m = 8 \/ m = 9 \/ m = 10 \/ m = 11 \/ m = 12
    BY DEF Month
  <2>3. PICK l \in Int : l = Leap(y)
    BY <1>1, MonthDaysAre
  <2>4. MonthStart(y - 28, m) = MonthStart(y, m)
    BY <1>1, <2>1, <2>2, <2>3, MonthStartIs
  <2>5. QED
    BY <1>2, <2>4
<1>4. PICK since \in Int :
        /\ 0 <= since /\ since <= 25000 /\ since = YearStart(y - 28) - YearStart(1980)
        /\ YearStart(y) = YearStart(1900) + since + 39446
        /\ YearStart(y - 28) \in Int /\ YearStart(1980) \in Int /\ YearStart(1900) \in Int
  <2>1. LeapsBefore(1980) = 479 /\ LeapsBefore(1900) = 460
    BY DEF LeapsBefore
  <2>2. PICK l \in 479 .. 496 : l = LeapsBefore(y - 28) /\ LeapsBefore(y) = l + 7
    BY CalendarRepeats
  <2>3. YearStart(y - 28) = (y - 28) * 365 + l /\ YearStart(y) = y * 365 + l + 7
    BY <1>1, <2>2 DEF YearStart
  <2>4. YearStart(1980) = 1980 * 365 + 479 /\ YearStart(1900) = 1900 * 365 + 460
    BY <2>1 DEF YearStart
  <2>5. /\ 0 <= YearStart(y - 28) - YearStart(1980) /\ YearStart(y - 28) - YearStart(1980) <= 25000
        /\ YearStart(y - 28) - YearStart(1980) \in Int
    BY <2>3, <2>4, SMT DEF AskedYear
  <2>6. YearStart(y) = YearStart(1900) + (YearStart(y - 28) - YearStart(1980)) + 39446
    BY <1>1, <2>3, <2>4, SMT
  <2>7. YearStart(y - 28) \in Int /\ YearStart(1980) \in Int /\ YearStart(1900) \in Int
    BY <1>1, YearStartIs
  <2>8. PICK since \in Int : since = YearStart(y - 28) - YearStart(1980)
    BY <2>5
  <2>9. 0 <= since /\ since <= 25000 /\ YearStart(y) = YearStart(1900) + since + 39446
    BY <2>5, <2>6, <2>8, SMT
  <2>10. QED
    BY <2>7, <2>8, <2>9
<1>5. PICK days \in Int : days = since + first + d - 1 /\ 0 <= days /\ days <= 26000
  <2>1. since + first + d - 1 \in Int /\ 0 <= since + first + d - 1 /\ since + first + d - 1 <= 26000
    BY <1>2, <1>4, SMT
  <2>2. QED
    BY <2>1, SMT
<1>6. DaysSince(1980, <<y - 28, m, d>>) = days /\ DaysSince(1900, <<y, m, d>>) = days + 39446
  <2>1. DaysSince(1900, <<y, m, d>>) = YearStart(y) - YearStart(1900) + MonthStart(y, m) + d - 1
    BY <1>1, DaysSinceIs
  <2>2. DaysSince(1980, <<y - 28, m, d>>) = YearStart(y - 28) - YearStart(1980) + MonthStart(y - 28, m) + d - 1
    BY <1>1, DaysSinceIs
  <2>3. QED
    BY <1>2, <1>3, <1>4, <1>5, <2>1, <2>2, SMT
<1>7. PICK stamp \in Int : stamp = ((days + 39446) * 675) % 33554432 /\ stamp = txTm_s(<<y, m, d>>)
  BY <1>6, SMT DEF txTm_s, Day, Word
<1>8. txTm(stamp) = (stamp - 26626050) % 33554432
  BY <1>7, SMT DEF txTm, NTP_TIMESTAMP_DELTA, Day, Word
<1>9. txTm(stamp) = days * 675
  BY <1>5, <1>7, <1>8, SMT
<1>10. days * 675 \in Int /\ (days * 675) \div 675 = days
  BY SMT
<1>11. QED
  BY <1>6, <1>7, <1>9, <1>10, SMT DEF Day

\* The date that is asked for, and what the clock is set to.
ClockInv ==
    \E y \in Years, m \in Month : \E d \in Int :
        /\ 1 <= d /\ d <= MonthDays(y)[m]
        /\ now = <<y, m, d>> /\ clock \in {<<>>, <<0, 0, 0>>, <<y - 28, m, d>>}

\* At the start nothing is set.
LEMMA ClockStarts == ClockInit => ClockInv
<1> SUFFICES ASSUME ClockInit PROVE ClockInv
  OBVIOUS
<1>1. PICK y \in Years, m \in Month : \E d \in {1, MonthDays(y)[m]} : now = <<y, m, d>>
  BY DEF ClockInit, Month
<1>2. y \in Int
  BY YearsAssumption DEF AskedYear
<1>3. MonthDays(y)[m] \in 28 .. 31
  BY <1>2, MonthsFollow
<1>4. QED
  BY <1>1, <1>3 DEF ClockInit, ClockInv

\* The clock is set to the date 28 years before the one that is asked for.
LEMMA ClockSteps == ClockInv /\ [ClockNext]_clockvars => ClockInv'
<1> SUFFICES ASSUME ClockInv, [ClockNext]_clockvars PROVE ClockInv'
  OBVIOUS
<1>1. PICK y \in Years, m \in Month : \E d \in Int :
        /\ 1 <= d /\ d <= MonthDays(y)[m]
        /\ now = <<y, m, d>> /\ clock \in {<<>>, <<0, 0, 0>>, <<y - 28, m, d>>}
  BY DEF ClockInv
<1>2. PICK d \in Int : 1 <= d /\ d <= MonthDays(y)[m] /\ now = <<y, m, d>> /\ clock \in {<<>>, <<0, 0, 0>>, <<y - 28, m, d>>}
  BY <1>1
<1>3. now' = now /\ (clock' = clock \/ clock' = <<0, 0, 0>> \/ clock' = LocalTime(txTm(txTm_s(now))))
  BY DEF ClockNext, Answered, Unanswered, clockvars
<1>4. LocalTime(txTm(txTm_s(<<y, m, d>>))) = <<y - 28, m, d>>
  <2>1. y \in AskedYear
    BY YearsAssumption DEF AskedYear
  <2>2. PICK t \in Int : t = txTm(txTm_s(<<y, m, d>>)) /\ t \div Day = DaysSince(1980, <<y - 28, m, d>>)
    BY <1>2, <2>1, StampIs
  <2>3. MonthDays(y - 28) = MonthDays(y)
    BY <2>1, CalendarRepeats DEF MonthDays
  <2>4. PICK z \in Year : z = y - 28
    BY <2>1 DEF Year, AskedYear
  <2>5. LocalTime(t) = <<z, m, d>>
    BY <1>2, <2>2, <2>3, <2>4, LocalTimeIs
  <2>6. QED
    BY <2>2, <2>4, <2>5
<1>5. clock' \in {<<>>, <<0, 0, 0>>, <<y - 28, m, d>>}
  BY <1>2, <1>3, <1>4, Zenon
<1>6. QED
  BY <1>2, <1>3, <1>5, Zenon DEF ClockInv

\* Such a clock is right.
LEMMA ClockMeans == ClockInv => DateIsRight
BY SMT DEF ClockInv, DateIsRight

-----------------------------------------------------------------------------
\* The clients of DHCP and NTP

\* Beside the other daemons, each client ends with what is its own: the address
\* that a server offered to it, asked for in packets whose options a server
\* reads as they were meant, and the day it is, 28 years before, whatever the
\* 32 bits of the time stamp lost (dhcp.c, ntpclient.c).
THEOREM ClientsGetTheirs == DaemonsSpec => []ClientsAreRight
<1>1. DaemonsInit => DhcpInv /\ OptionsInv /\ ClockInv
  <2>1. DaemonsInit => DhcpInit /\ ClockInit
    BY SMT DEF DaemonsInit
  <2>2. QED
    BY <2>1, DhcpInitInv, OptionsStart, ClockStarts, Zenon
<1>2. [DaemonsNext]_daemonVars => [DhcpNext]_dhcpvars /\ [ClockNext]_clockvars
  BY Zenon DEF DaemonsNext, daemonVars
<1>3. DhcpInv /\ OptionsInv /\ ClockInv /\ [DaemonsNext]_daemonVars => (DhcpInv /\ OptionsInv /\ ClockInv)'
  BY <1>2, DhcpNextInv, OptionsSteps, ClockSteps, Zenon
<1>4. DhcpInv /\ OptionsInv /\ ClockInv => ClientsAreRight
  BY OptionsMean, ClockMeans, Zenon DEF ClientsAreRight, DhcpInv
<1>5. QED
  BY <1>1, <1>3, <1>4, PTL DEF DaemonsSpec

-----------------------------------------------------------------------------
\* The mount table

\* The table is a sequence of at most MaxMounts exported paths, and conversely.
LEMMA TableIsSeq ==
    /\ \A t \in BoundedSeq(Exported, MaxMounts) : t \in Seq(Exported) /\ Len(t) <= MaxMounts /\ Len(t) \in Nat
    /\ \A t \in Seq(Exported) : Len(t) <= MaxMounts => t \in BoundedSeq(Exported, MaxMounts)
<1>1. ASSUME NEW t \in BoundedSeq(Exported, MaxMounts)
      PROVE  t \in Seq(Exported) /\ Len(t) <= MaxMounts /\ Len(t) \in Nat
  <2>1. PICK n \in 0 .. MaxMounts : t \in [1 .. n -> Exported]
    BY DEF BoundedSeq, SeqOf
  <2>2. n \in Nat /\ n <= MaxMounts
    BY MountsAssumption
  <2>3. t \in Seq(Exported)
    BY <2>1, <2>2
  <2>4. DOMAIN t = 1 .. n /\ DOMAIN t = 1 .. Len(t) /\ Len(t) \in Nat
    BY <2>1, <2>3
  <2>5. Len(t) = n
    BY <2>2, <2>4
  <2>6. QED
    BY <2>2, <2>3, <2>5
<1>2. ASSUME NEW t \in Seq(Exported), Len(t) <= MaxMounts
      PROVE  t \in BoundedSeq(Exported, MaxMounts)
  <2>1. t \in [1 .. Len(t) -> Exported] /\ Len(t) \in 0 .. MaxMounts
    BY <1>2, MountsAssumption
  <2>2. QED
    BY <2>1 DEF BoundedSeq, SeqOf
<1>3. QED
  BY <1>1, <1>2

\* What release_filehandle does to the table: nothing, or the last entry takes
\* the place of one.
LEMMA ReleaseTakesOne ==
    ASSUME TypeOK, NEW p, release_filehandle(p)
    PROVE  \/ mount_array' = mount_array
           \/ \E n \in 1 .. mount_count :
                 /\ mount_array' \in Seq(Exported)
                 /\ Len(mount_array') = mount_count - 1
                 /\ \A k \in 1 .. mount_count - 1 :
                       mount_array'[k] = IF k = n THEN Last(mount_array) ELSE mount_array[k]
<1>1. mount_array \in Seq(Exported) /\ mount_count \in Nat
  BY TableIsSeq DEF TypeOK, mount_count
<1>2. PICK differs \in [1 .. mount_count -> BOOLEAN] :
        IF \A n \in 1 .. mount_count : ~differs[n]
        THEN UNCHANGED mount_array
        ELSE LET n == CHOOSE k \in 1 .. mount_count :
                          differs[k] /\ \A j \in 1 .. k - 1 : ~differs[j]
             IN  mount_array' = Front([mount_array EXCEPT ![n] = Last(mount_array)])
  BY DEF release_filehandle
<1>3. CASE \A n \in 1 .. mount_count : ~differs[n]
  BY <1>2, <1>3
<1>4. CASE ~\A n \in 1 .. mount_count : ~differs[n]
  <2> DEFINE n == CHOOSE k \in 1 .. mount_count : differs[k] /\ \A j \in 1 .. k - 1 : ~differs[j]
  <2>1. n \in 1 .. mount_count
    <3> DEFINE D == {k \in 1 .. mount_count : differs[k]}
    <3>1. D \in SUBSET Nat /\ D # {}
      BY <1>4
    <3>2. PICK k \in D : \A j \in D : k <= j
      BY <3>1, LeastNatural
    <3>3. k \in 1 .. mount_count /\ differs[k] /\ \A j \in 1 .. k - 1 : ~differs[j]
      BY <1>1, <3>2
    <3>4. QED
      BY <3>3
  <2>2. mount_array' = Front([mount_array EXCEPT ![n] = Last(mount_array)])
    BY <1>2, <1>4
  <2> HIDE DEF n
  <2>3. PICK t : t = [mount_array EXCEPT ![n] = Last(mount_array)]
    OBVIOUS
  <2>4. mount_count > 0 /\ Last(mount_array) \in Exported
    BY <1>1, <2>1 DEF Last, mount_count
  <2>5. /\ t \in Seq(Exported) /\ Len(t) = mount_count
        /\ \A k \in 1 .. mount_count : t[k] = IF k = n THEN Last(mount_array) ELSE mount_array[k]
    BY <1>1, <2>1, <2>3, <2>4 DEF mount_count
  <2>6. mount_array' = SubSeq(t, 1, mount_count - 1)
    BY <2>2, <2>3, <2>5 DEF Front
  <2>7. /\ mount_array' \in Seq(Exported) /\ Len(mount_array') = mount_count - 1
        /\ \A k \in 1 .. mount_count - 1 : mount_array'[k] = t[k]
    BY <1>1, <2>4, <2>5, <2>6
  <2>8. \A k \in 1 .. mount_count - 1 :
           mount_array'[k] = IF k = n THEN Last(mount_array) ELSE mount_array[k]
    <3>1. \A k \in 1 .. mount_count - 1 : k \in 1 .. mount_count
      BY <1>1
    <3>2. QED
      BY <2>5, <2>7, <3>1
  <2>9. QED
    BY <2>1, <2>7, <2>8
<1>5. QED
  BY <1>3, <1>4

\* The table holds exported paths and no more than it has room for.
THEOREM TableFits == Spec => []TypeOK
<1>1. Init => TypeOK
  <2> SUFFICES ASSUME Init
               PROVE  TypeOK
    OBVIOUS
  <2>1. <<>> \in Seq(Exported) /\ Len(<<>>) <= MaxMounts /\ 0 \in 0 .. MaxSteps
    BY MountsAssumption
  <2>2. mount_array \in BoundedSeq(Exported, MaxMounts)
    BY <2>1, TableIsSeq DEF Init
  <2>3. QED
    BY <2>1, <2>2 DEF Init, TypeOK
<1>2. TypeOK /\ [Next]_vars => TypeOK'
  <2> SUFFICES ASSUME TypeOK, [Next]_vars
               PROVE  TypeOK'
    OBVIOUS
  <2>1. mount_array \in Seq(Exported) /\ mount_count \in Nat /\ mount_count <= MaxMounts
    BY TableIsSeq DEF TypeOK, mount_count
  <2>2. ASSUME NEW proc \in {"mnt", "umnt", "umntall", "dump"}, NEW p \in Path \cup {<<>>},
               NEW status \in {"ok", "noent"}, Answer(proc, p, status), steps < MaxSteps,
               mount_array' \in Seq(Exported), Len(mount_array') <= MaxMounts, behind' \in BOOLEAN
        PROVE  TypeOK'
    <3>1. steps' \in 0 .. MaxSteps
      BY <2>2, MountsAssumption DEF Answer, TypeOK
    <3>2. mount_array' \in BoundedSeq(Exported, MaxMounts)
      BY <2>2, TableIsSeq
    <3>3. QED
      BY <2>2, <3>1, <3>2 DEF Answer, TypeOK
  <2>3. ASSUME NEW p \in Path, AddMount(p)
        PROVE  TypeOK'
    <3>1. mount_array' \in Seq(Exported) /\ Len(mount_array') <= MaxMounts /\ behind' \in BOOLEAN
      <4>1. CASE p \in Exported /\ mount_count < MaxMounts
        BY <2>1, <2>3, <4>1, MountsAssumption DEF AddMount, make_fsid, mount_count, TypeOK
      <4>2. CASE ~(p \in Exported /\ mount_count < MaxMounts)
        BY <2>1, <2>3, <4>2 DEF AddMount, make_fsid, mount_count, TypeOK
      <4>3. QED
        BY <4>1, <4>2
    <3>2. steps < MaxSteps /\ (Answer("mnt", p, "ok") \/ Answer("mnt", p, "noent"))
      BY <2>3 DEF AddMount
    <3>3. QED
      BY <2>2, <3>1, <3>2
  <2>4. ASSUME NEW p \in Path, RemoveMount(p)
        PROVE  TypeOK'
    <3>1. mount_array' \in Seq(Exported) /\ Len(mount_array') <= MaxMounts
      BY <2>1, <2>4, ReleaseTakesOne, MountsAssumption DEF RemoveMount, mount_count
    <3>2. steps < MaxSteps /\ Answer("umnt", p, "ok") /\ behind' \in BOOLEAN
      BY <2>4 DEF RemoveMount, TypeOK
    <3>3. QED
      BY <2>2, <3>1, <3>2
  <2>5. CASE RemoveAllMounts
    <3>1. mount_array' \in Seq(Exported) /\ Len(mount_array') <= MaxMounts
      BY <2>5, MountsAssumption DEF RemoveAllMounts
    <3>2. steps < MaxSteps /\ Answer("umntall", <<>>, "ok") /\ behind' \in BOOLEAN
      BY <2>5 DEF RemoveAllMounts, TypeOK
    <3>3. QED
      BY <2>2, <3>1, <3>2
  <2>6. CASE MountEntries
    <3>1. mount_array' \in Seq(Exported) /\ Len(mount_array') <= MaxMounts
      BY <2>1, <2>6 DEF MountEntries, mount_count
    <3>2. steps < MaxSteps /\ Answer("dump", <<>>, "ok") /\ behind' \in BOOLEAN
      BY <2>6 DEF MountEntries, TypeOK
    <3>3. QED
      BY <2>2, <3>1, <3>2
  <2>7. CASE UNCHANGED vars
    BY <2>7 DEF vars, TypeOK
  <2>8. QED
    BY <2>3, <2>4, <2>5, <2>6, <2>7 DEF Next
<1>3. QED
  BY <1>1, <1>2, PTL DEF Spec

\* A full table keeps the mounts it has when another is asked for.
THEOREM FullTable == Spec => FullTableKeeps
<1>1. TypeOK /\ [Next]_vars =>
        [mount_count = MaxMounts /\ reply'.proc = "mnt" => mount_array' = mount_array]_vars
  <2> SUFFICES ASSUME Next, mount_count = MaxMounts, reply'.proc = "mnt"
               PROVE  mount_array' = mount_array
    OBVIOUS
  <2>1. PICK p \in Path : AddMount(p)
    BY DEF Next, RemoveMount, RemoveAllMounts, MountEntries, Answer
  <2>2. QED
    BY <2>1, MountsAssumption DEF AddMount, make_fsid
<1>2. QED
  BY <1>1, TableFits, PTL DEF Spec, FullTableKeeps

\* Unmounting takes at most one entry and moves at most the last.
THEOREM OneUnmounted == Spec => UnmountTakesOne
<1> DEFINE One ==
      reply'.proc = "umnt" /\ steps' # steps =>
          \/ mount_array' = mount_array
          \/ \E n \in 1 .. mount_count :
                /\ mount_count' = mount_count - 1
                /\ \A k \in 1 .. mount_count' :
                      mount_array'[k] = IF k = n THEN Last(mount_array) ELSE mount_array[k]
<1>1. TypeOK /\ [Next]_vars => [One]_vars
  <2> SUFFICES ASSUME TypeOK, Next, reply'.proc = "umnt", steps' # steps
               PROVE  One
    OBVIOUS
  <2>1. PICK p \in Path : RemoveMount(p)
    BY DEF Next, AddMount, RemoveAllMounts, MountEntries, Answer
  <2>2. QED
    BY <2>1, ReleaseTakesOne DEF RemoveMount, mount_count
<1>2. QED
  BY <1>1, TableFits, PTL DEF Spec, UnmountTakesOne

-----------------------------------------------------------------------------
\* The telnet parser

\* Sequences are joined in any order.
Associates(x, y, z) == (x \o y) \o z = x \o (y \o z)

\* Joining is associative, stated so that it is used as it stands.
LEMMA JoiningIs ==
    ASSUME NEW S, NEW x \in Seq(S), NEW y \in Seq(S), NEW z \in Seq(S)
    PROVE  Associates(x, y, z)
BY ConcatAssociative DEF Associates

\* What the parser is in, with bytes of B.
ParserState(B) ==
    {t \in [state : {"NORMAL", "IAC", "OPT", "SB", "OPTDAT", "SE"}, code : B \cup {"NUL"},
            optdata : Seq(B), size : [1 .. 2 -> B \cup Nat], out : Seq(B),
            sent : Seq(Seq(B \cup {"DO", "DONT", "WONT"}))] :
        Len(t.optdata) <= OptdataSize}

\* t is u, but for what a had come out of it before t began.
Follows(t, a, u) ==
    /\ t.state = u.state /\ t.code = u.code /\ t.optdata = u.optdata /\ t.size = u.size /\ t.sent = u.sent
    /\ u.out = a \o t.out

\* A parser at its start.
LEMMA NewTermstateIs ==
    ASSUME NEW B PROVE NewTermstate \in ParserState(B)
<1>1. NewTermstate = [state |-> "NORMAL", code |-> "NUL", optdata |-> <<>>, size |-> <<80, 30>>,
     out |-> <<>>, sent |-> <<>>]
  BY DEF NewTermstate
<1>2. <<80, 30>> \in [1 .. 2 -> B \cup Nat]
  OBVIOUS
<1>3. QED
  BY <1>1, <1>2 DEF ParserState, OptdataSize

\* The answer to an option is a sequence of answers.
LEMMA ReplyIs ==
    ASSUME NEW B, NEW code, NEW c \in B
    PROVE  Reply(code, c) \in Seq(Seq(B \cup {"DO", "DONT", "WONT"}))
<1> DEFINE C == B \cup {"DO", "DONT", "WONT"}
<1>1. \A w \in {"DO", "DONT", "WONT"} : w \in C /\ c \in C
  OBVIOUS
<1> HIDE DEF C
<1>2. \A w \in C : <<w, c>> \in Seq(C)
  BY <1>1
<1> DEFINE A == Seq(C)
<1> HIDE DEF A
<1>3. \A x \in A : <<x>> \in Seq(A)
  OBVIOUS
<1>4. <<>> \in Seq(A)
  OBVIOUS
<1>5. Reply(code, c) \in {<<>>, <<<<"DO", c>>>>, <<<<"DONT", c>>>>, <<<<"WONT", c>>>>}
  BY DEF Reply
<1>6. \A w \in {"DO", "DONT", "WONT"} : <<<<w, c>>>> \in Seq(A)
  BY <1>1, <1>2, <1>3, Zenon DEF A
<1>7. Reply(code, c) \in Seq(A)
  BY <1>4, <1>5, <1>6
<1>8. QED
  BY <1>7 DEF A, C

\* One byte.
LEMMA ByteIs ==
    ASSUME NEW B, NEW t \in ParserState(B), NEW c \in B
    PROVE  ParseByte(t, c) \in ParserState(B) /\ Len(ParseByte(t, c).out) <= Len(t.out) + 1
<1> DEFINE States == {"NORMAL", "IAC", "OPT", "SB", "OPTDAT", "SE"}
           Codes == B \cup {"NUL"}
           Sizes == [1 .. 2 -> B \cup Nat]
           Bytes == Seq(B)
           Replies == Seq(Seq(B \cup {"DO", "DONT", "WONT"}))
           Built(st, cd, od, sz, o, a) == [state |-> st, code |-> cd, optdata |-> od, size |-> sz, out |-> o, sent |-> a]
<1>1. /\ t = Built(t.state, t.code, t.optdata, t.size, t.out, t.sent)
      /\ t.state \in States /\ t.code \in Codes
      /\ t.optdata \in Bytes /\ t.size \in Sizes /\ t.out \in Bytes /\ t.sent \in Replies
      /\ Len(t.optdata) <= OptdataSize
  BY DEF ParserState
<1>2. Reply(t.code, c) \in Replies
  BY ReplyIs
<1>3. t.sent \o Reply(t.code, c) \in Replies
  <2> HIDE DEF Replies
  <2>1. t.sent \in Replies
    BY <1>1
  <2>2. QED
    BY <1>2, <2>1, ConcatProperties, Zenon DEF Replies
<1>4. ASSUME Len(t.optdata) = NawsLength PROVE Resized(t.size, t.optdata) \in Sizes
  <2>1. t.optdata[1] \in B /\ t.optdata[2] \in B
    <3>1. 1 \in 1 .. Len(t.optdata) /\ 2 \in 1 .. Len(t.optdata)
      BY <1>4 DEF NawsLength
    <3>2. QED
      BY <1>1, <3>1, ElementOfSeq, Zenon
  <2>2. \A i \in 1 .. 2 : (IF t.optdata[i] = "NUL" THEN t.size[i] ELSE t.optdata[i]) \in B \cup Nat
    BY <1>1, <2>1
  <2>3. QED
    BY <2>2, Zenon DEF Resized
<1>5. ASSUME NEW st \in States, NEW cd \in Codes, NEW od \in Bytes, NEW sz \in Sizes, NEW o \in Bytes, NEW a \in Replies,
             Len(od) <= OptdataSize, Len(o) <= Len(t.out) + 1, ParseByte(t, c) = Built(st, cd, od, sz, o, a)
      PROVE  ParseByte(t, c) \in ParserState(B) /\ Len(ParseByte(t, c).out) <= Len(t.out) + 1
  BY <1>5 DEF ParserState
<1> HIDE DEF Sizes, Replies
<1>7. /\ Append(t.out, c) \in Bytes /\ Len(Append(t.out, c)) = Len(t.out) + 1 /\ Len(t.out) \in Nat
      /\ Append(t.optdata, c) \in Bytes /\ Len(Append(t.optdata, c)) = Len(t.optdata) + 1
      /\ <<>> \in Bytes /\ Len(<<>>) = 0 /\ 0 <= OptdataSize /\ OptdataSize \in Nat
      /\ c \in Codes /\ Len(t.out) <= Len(t.out) + 1
  BY <1>1 DEF OptdataSize
<1> DEFINE Fields(st, cd, od, sz, o, a) ==
        /\ st \in States /\ cd \in Codes /\ od \in Bytes /\ sz \in Sizes /\ o \in Bytes /\ a \in Replies
        /\ Len(od) <= OptdataSize /\ Len(o) <= Len(t.out) + 1
        /\ ParseByte(t, c) = Built(st, cd, od, sz, o, a)
<1> HIDE DEF Bytes
<1>8. \E st, cd, od, sz, o, a : Fields(st, cd, od, sz, o, a)
  <2>1. CASE t.state = "NORMAL"
    <3>1. ParseByte(t, c) = InNormal(t, c)
      BY <2>1 DEF ParseByte
    <3>2. CASE c = "IAC"
      <4>1. Fields("IAC", t.code, t.optdata, t.size, t.out, t.sent)
        BY <1>1, <1>7, <3>1, <3>2 DEF InNormal
      <4>2. QED
        BY <4>1, Zenon
    <3>3. CASE c # "IAC"
      <4>1. PICK more \in Bytes : more = Append(t.out, c) /\ Len(more) = Len(t.out) + 1
        BY <1>7
      <4>2. ParseByte(t, c) = [t EXCEPT !.out = more]
        BY <3>1, <3>3, <4>1 DEF InNormal
      <4>3. ParseByte(t, c) = Built(t.state, t.code, t.optdata, t.size, more, t.sent)
        BY <1>1, <4>2
      <4>4. Len(more) <= Len(t.out) + 1
        BY <1>7, <3>3, <4>1 DEF OptdataSize
      <4>5. Fields(t.state, t.code, t.optdata, t.size, more, t.sent)
        BY <1>1, <1>7, <4>1, <4>3, <4>4, Zenon
      <4>6. QED
        BY <4>5, Zenon
    <3>4. QED
      BY <3>2, <3>3
  <2>2. CASE t.state = "IAC"
    <3>1. ParseByte(t, c) = InIac(t, c)
      BY <2>2 DEF ParseByte
    <3>2. CASE c = "IAC"
      <4>1. PICK more \in Bytes : more = Append(t.out, c) /\ Len(more) = Len(t.out) + 1
        BY <1>7
      <4>2. ParseByte(t, c) = [t EXCEPT !.out = more, !.state = "NORMAL"]
        BY <3>1, <3>2, <4>1 DEF InIac
      <4>3. ParseByte(t, c) = Built("NORMAL", t.code, t.optdata, t.size, more, t.sent)
        BY <1>1, <4>2
      <4>4. Len(more) <= Len(t.out) + 1
        BY <1>7, <3>2, <4>1 DEF OptdataSize
      <4>5. Fields("NORMAL", t.code, t.optdata, t.size, more, t.sent)
        BY <1>1, <1>7, <4>1, <4>3, <4>4, Zenon
      <4>6. QED
        BY <4>5, Zenon
    <3>3. CASE c # "IAC" /\ c \in Verb
      <4>1. Fields("OPT", c, t.optdata, t.size, t.out, t.sent)
        BY <1>1, <1>7, <3>1, <3>3 DEF InIac
      <4>2. QED
        BY <4>1, Zenon
    <3>4. CASE c # "IAC" /\ c \notin Verb
      <4>1. Fields(IF c = "SB" THEN "SB" ELSE "NORMAL", t.code, t.optdata, t.size, t.out, t.sent)
        BY <1>1, <1>7, <3>1, <3>4 DEF InIac
      <4>2. QED
        BY <4>1, Zenon
    <3>5. QED
      BY <3>2, <3>3, <3>4
  <2>3. CASE t.state = "OPT"
    <3>1. ParseByte(t, c) = InOpt(t, c)
      BY <2>3 DEF ParseByte
    <3>2. PICK answered \in Replies : answered = t.sent \o Reply(t.code, c)
      BY <1>3
    <3>3. ParseByte(t, c) = [t EXCEPT !.sent = answered, !.state = "NORMAL"]
      BY <3>1, <3>2, Zenon DEF InOpt
    <3>4. Fields("NORMAL", t.code, t.optdata, t.size, t.out, answered)
      BY <1>1, <1>7, <3>2, <3>3
    <3>5. QED
      BY <3>4, Zenon
  <2>4. CASE t.state = "SB"
    <3>1. ParseByte(t, c) = InSb(t, c)
      BY <2>4 DEF ParseByte
    <3>2. Fields("OPTDAT", c, <<>>, t.size, t.out, t.sent)
      BY <1>1, <1>7, <3>1 DEF InSb
    <3>3. QED
      BY <3>2, Zenon
  <2>5. CASE t.state = "OPTDAT"
    <3>1. ParseByte(t, c) = InOptdat(t, c)
      BY <2>5 DEF ParseByte
    <3>2. CASE c = "IAC"
      <4>1. Fields("SE", t.code, t.optdata, t.size, t.out, t.sent)
        BY <1>1, <1>7, <3>1, <3>2 DEF InOptdat
      <4>2. QED
        BY <4>1, Zenon
    <3>3. CASE c # "IAC" /\ Len(t.optdata) < OptdataSize
      <4>1. PICK more \in Bytes : more = Append(t.optdata, c) /\ Len(more) = Len(t.optdata) + 1
        BY <1>7
      <4>2. ParseByte(t, c) = [t EXCEPT !.optdata = more]
        BY <3>1, <3>3, <4>1 DEF InOptdat, OptdataSize
      <4>3. ParseByte(t, c) = Built(t.state, t.code, more, t.size, t.out, t.sent)
        BY <1>1, <4>2
      <4>4. Len(more) <= OptdataSize
        BY <1>7, <3>3, <4>1 DEF OptdataSize
      <4>5. Fields(t.state, t.code, more, t.size, t.out, t.sent)
        BY <1>1, <1>7, <4>1, <4>3, <4>4, Zenon
      <4>6. QED
        BY <4>5, Zenon
    <3>4. CASE c # "IAC" /\ ~(Len(t.optdata) < OptdataSize)
      <4>1. Fields(t.state, t.code, t.optdata, t.size, t.out, t.sent)
        BY <1>1, <1>7, <3>1, <3>4 DEF InOptdat
      <4>2. QED
        BY <4>1, Zenon
    <3>5. QED
      BY <3>2, <3>3, <3>4
  <2>6. CASE t.state = "SE"
    <3>1. ParseByte(t, c) = InSe(t, c)
      BY <2>6 DEF ParseByte
    <3>2. CASE Len(t.optdata) = NawsLength
      <4>1. PICK new \in Sizes : new = Resized(t.size, t.optdata)
        BY <1>4, <3>2
      <4>2. Subnegotiated(t) \in {t, [t EXCEPT !.size = new]}
        BY <4>1, Zenon DEF Subnegotiated
      <4>3. Fields("NORMAL", t.code, t.optdata, t.size, t.out, t.sent) \/ Fields("NORMAL", t.code, t.optdata, new, t.out, t.sent)
        BY <1>1, <1>7, <3>1, <4>2 DEF InSe
      <4>4. QED
        BY <4>3, Zenon
    <3>3. CASE Len(t.optdata) # NawsLength
      <4>1. Fields("NORMAL", t.code, t.optdata, t.size, t.out, t.sent)
        BY <1>1, <1>7, <3>1, <3>3 DEF InSe, Subnegotiated
      <4>2. QED
        BY <4>1, Zenon
    <3>4. QED
      BY <3>2, <3>3
  <2>7. QED
    BY <1>1, <2>1, <2>2, <2>3, <2>4, <2>5, <2>6
<1>9. PICK st, cd, od, sz, o, a : Fields(st, cd, od, sz, o, a)
  BY <1>8, Zenon
<1>10. QED
  BY <1>5, <1>9, Zenon

\* What came out before makes no difference to a byte.
LEMMA ByteFollows ==
    ASSUME NEW B, NEW t \in ParserState(B), NEW u \in ParserState(B), NEW a \in Seq(B), NEW c \in B, Follows(t, a, u)
    PROVE  Follows(ParseByte(t, c), a, ParseByte(u, c))
<1> DEFINE Built(st, cd, od, sz, o, n) == [state |-> st, code |-> cd, optdata |-> od, size |-> sz, out |-> o, sent |-> n]
<1>1. /\ t = Built(t.state, t.code, t.optdata, t.size, t.out, t.sent)
      /\ u = Built(u.state, u.code, u.optdata, u.size, u.out, u.sent)
      /\ t.state \in {"NORMAL", "IAC", "OPT", "SB", "OPTDAT", "SE"}
  BY DEF ParserState
<1>2. u = Built(t.state, t.code, t.optdata, t.size, u.out, t.sent)
  BY <1>1, Zenon DEF Follows
<1>3. t.out \in Seq(B) /\ u.out \in Seq(B) /\ u.out = a \o t.out
  BY DEF ParserState, Follows
<1>4. PICK o \in Seq(B) : o = Append(t.out, c)
  BY <1>3, AppendProperties, Zenon
<1>5. PICK p \in Seq(B) : p = Append(u.out, c)
  BY <1>3, AppendProperties, Zenon
<1>6. p = a \o o
  <2>1. PICK one \in Seq(B) : one = <<c>>
    <3>1. <<c>> \in Seq(B)
      OBVIOUS
    <3>2. QED
      BY <3>1, Zenon
  <2>2. o = t.out \o one /\ p = u.out \o one
    BY <1>3, <1>4, <1>5, <2>1, AppendIsConcat, Zenon
  <2>3. (a \o t.out) \o one = a \o (t.out \o one)
    <3>1. PICK w \in Seq(B) : w = t.out
      BY <1>3
    <3>2. (a \o w) \o one = a \o (w \o one)
      <4>1. Associates(a, w, one)
        BY <2>1, JoiningIs, Zenon
      <4>2. QED
        BY <4>1, Zenon DEF Associates
    <3>3. QED
      BY <3>1, <3>2, Zenon
  <2>4. QED
    BY <1>3, <2>2, <2>3, Zenon
<1>7. CASE t.state = "NORMAL"
  <2>1. ParseByte(t, c) = InNormal(t, c) /\ ParseByte(u, c) = InNormal(u, c)
    BY <1>1, <1>2, <1>7 DEF ParseByte
  <2>2. CASE c = "IAC"
    BY <1>1, <1>2, <1>3, <2>1, <2>2 DEF InNormal, Follows
  <2>3. CASE c # "IAC"
    <3>1. ParseByte(t, c) = [t EXCEPT !.out = o] /\ ParseByte(u, c) = [u EXCEPT !.out = p]
      BY <1>4, <1>5, <2>1, <2>3, Zenon DEF InNormal
    <3>2. QED
      BY <1>1, <1>2, <1>6, <3>1 DEF Follows
  <2>4. QED
    BY <2>2, <2>3
<1>8. CASE t.state = "IAC"
  <2>1. ParseByte(t, c) = InIac(t, c) /\ ParseByte(u, c) = InIac(u, c)
    BY <1>1, <1>2, <1>8 DEF ParseByte
  <2>2. CASE c = "IAC"
    <3>1. ParseByte(t, c) = [t EXCEPT !.out = o, !.state = "NORMAL"] /\ ParseByte(u, c) = [u EXCEPT !.out = p, !.state = "NORMAL"]
      BY <1>4, <1>5, <2>1, <2>2, Zenon DEF InIac
    <3>2. QED
      BY <1>1, <1>2, <1>6, <3>1 DEF Follows
  <2>3. CASE c # "IAC"
    BY <1>1, <1>2, <1>3, <2>1, <2>3 DEF InIac, Follows
  <2>4. QED
    BY <2>2, <2>3
<1>9. CASE t.state = "OPT"
  <2>1. ParseByte(t, c) = InOpt(t, c) /\ ParseByte(u, c) = InOpt(u, c)
    BY <1>1, <1>2, <1>9 DEF ParseByte
  <2>2. PICK answered : answered = t.sent \o Reply(t.code, c)
    OBVIOUS
  <2>3. u.sent \o Reply(u.code, c) = answered
    BY <2>2, Zenon DEF Follows
  <2>4. ParseByte(t, c) = [t EXCEPT !.sent = answered, !.state = "NORMAL"] /\ ParseByte(u, c) = [u EXCEPT !.sent = answered, !.state = "NORMAL"]
    BY <2>1, <2>2, <2>3, Zenon DEF InOpt
  <2>5. QED
    BY <1>1, <1>2, <1>3, <2>4 DEF Follows
<1>10. CASE t.state = "SB"
  <2>1. ParseByte(t, c) = InSb(t, c) /\ ParseByte(u, c) = InSb(u, c)
    BY <1>1, <1>2, <1>10 DEF ParseByte
  <2>2. QED
    BY <1>1, <1>2, <1>3, <2>1 DEF InSb, Follows
<1>11. CASE t.state = "OPTDAT"
  <2>1. ParseByte(t, c) = InOptdat(t, c) /\ ParseByte(u, c) = InOptdat(u, c)
    BY <1>1, <1>2, <1>11 DEF ParseByte
  <2>2. PICK od : od = Append(t.optdata, c)
    OBVIOUS
  <2>3. /\ InOptdat(t, c) = IF c = "IAC" THEN [t EXCEPT !.state = "SE"]
                            ELSE IF Len(t.optdata) < OptdataSize THEN [t EXCEPT !.optdata = od] ELSE t
        /\ InOptdat(u, c) = IF c = "IAC" THEN [u EXCEPT !.state = "SE"]
                            ELSE IF Len(t.optdata) < OptdataSize THEN [u EXCEPT !.optdata = od] ELSE u
    <3>1. u.optdata = t.optdata
      BY DEF Follows
    <3>2. QED
      BY <2>2, <3>1, Zenon DEF InOptdat
  <2>4. QED
    BY <1>1, <1>2, <1>3, <2>1, <2>3 DEF Follows
<1>12. CASE t.state = "SE"
  <2>1. ParseByte(t, c) = InSe(t, c) /\ ParseByte(u, c) = InSe(u, c)
    BY <1>1, <1>2, <1>12 DEF ParseByte
  <2>2. PICK sz : sz = Resized(t.size, t.optdata)
    OBVIOUS
  <2>3. /\ Subnegotiated(t) = IF t.code = "NAWS" /\ Len(t.optdata) = NawsLength THEN [t EXCEPT !.size = sz] ELSE t
        /\ Subnegotiated(u) = IF t.code = "NAWS" /\ Len(t.optdata) = NawsLength THEN [u EXCEPT !.size = sz] ELSE u
    <3>1. u.optdata = t.optdata /\ u.size = t.size /\ u.code = t.code
      BY DEF Follows
    <3>2. QED
      BY <2>2, <3>1, Zenon DEF Subnegotiated
  <2>4. QED
    BY <1>1, <1>2, <1>3, <2>1, <2>3 DEF InSe, Follows
<1>13. QED
  BY <1>1, <1>7, <1>8, <1>9, <1>10, <1>11, <1>12

\* f is the parser after each byte of s, from t on.
Runs(f, t, s) ==
    /\ f[0] = t
    /\ \A j \in 1 .. Len(s) : f[j] = ParseByte(f[j - 1], s[j])

\* The bytes of a read, one after another.
LEMMA ParseBytesIs ==
    ASSUME NEW B, NEW t \in ParserState(B), NEW s \in Seq(B)
    PROVE  \E f \in [0 .. Len(s) -> ParserState(B)] : Runs(f, t, s) /\ ParseBytes(t, s) = f[Len(s)]
<1> DEFINE k == Len(s)
           V == ParserState(B)
           step == [j \in 1 .. k |-> [v \in V |-> ParseByte(v, s[j])]]
           Def(f) == [i \in 0 .. k |-> IF i = 0 THEN t ELSE ParseByte(f[i - 1], s[i])]
           after == CHOOSE f : f = Def(f)
<1>1. k \in Nat /\ \A j \in 1 .. k : s[j] \in B
  OBVIOUS
<1> HIDE DEF k
<1>2. \A j \in 1 .. k : \A v \in V : ParseByte(v, s[j]) \in V
  BY <1>1, ByteIs, Zenon
<1>3. t \in V
  OBVIOUS
<1> HIDE DEF V
<1>4. step \in [1 .. k -> [V -> V]]
  <2>1. ASSUME NEW j \in 1 .. k PROVE [v \in V |-> ParseByte(v, s[j])] \in [V -> V]
    BY <1>2
  <2>2. QED
    BY <2>1, Zenon
<1>5. \A j \in 1 .. k : \A v \in V : step[j][v] = ParseByte(v, s[j])
  OBVIOUS
<1> HIDE DEF step
<1>6. PICK f \in [0 .. k -> V] : f[0] = t /\ \A j \in 1 .. k : f[j] = step[j][f[j - 1]]
  <2>1. Recursive(k, V)
    BY <1>1, RecursionIs
  <2>2. QED
    BY <1>3, <1>4, <2>1, Zenon DEF Recursive
<1>7. f = Def(f)
  <2>1. \A j \in 0 .. k : j # 0 => j \in 1 .. k /\ j - 1 \in 0 .. k
    BY <1>1
  <2>2. \A j \in 0 .. k : f[j] = IF j = 0 THEN t ELSE ParseByte(f[j - 1], s[j])
    BY <1>5, <1>6, <2>1
  <2>3. QED
    BY <2>2
<1>8. after = Def(after)
  <2>1. \E h : h = Def(h)
    BY <1>7, Zenon
  <2> HIDE DEF Def
  <2>2. QED
    BY <2>1, Zenon
<1>9. ParseBytes(t, s) = after[k]
  BY Zenon DEF ParseBytes, k
<1> HIDE DEF after
<1>10. PICK d : d = after
  OBVIOUS
<1>11. d = Def(d)
  BY <1>8, <1>10, Zenon
<1>12. \A j \in 0 .. k : d[j] = IF j = 0 THEN t ELSE ParseByte(d[j - 1], s[j])
  BY <1>11
<1>13. d[0] = t /\ \A j \in 1 .. k : d[j] = ParseByte(d[j - 1], s[j])
  <2>1. 0 \in 0 .. k /\ \A j \in 1 .. k : j # 0 /\ j \in 0 .. k
    BY <1>1
  <2>2. QED
    BY <1>12, <2>1
<1>14. \A j \in 0 .. k : d[j] \in V
  <2> DEFINE S == {i \in 0 .. k : d[i] \in V}
  <2>1. 0 \in S
    BY <1>1, <1>3, <1>13
  <2>2. ASSUME NEW j \in 1 .. k, j - 1 \in S PROVE j \in S
    BY <1>1, <1>2, <1>13, <2>2
  <2> HIDE DEF S
  <2>3. \A j \in 0 .. k : j \in S
    BY <1>1, <2>1, <2>2, CountUp, Zenon
  <2>4. QED
    BY <2>3 DEF S
<1>15. d \in [0 .. k -> V]
  <2>1. d = [j \in 0 .. k |-> d[j]]
    BY <1>11
  <2>2. QED
    BY <1>14, <2>1
<1>16. QED
  BY <1>9, <1>10, <1>13, <1>15, Zenon DEF k, V, Runs

\* What one byte does to the state, to what comes out and to what is answered.
Does(t, c, r) ==
    /\ t.state = "NORMAL" /\ c # "IAC" => r.state = "NORMAL" /\ r.out = Append(t.out, c) /\ r.sent = t.sent
    /\ t.state = "NORMAL" /\ c = "IAC" => r.state = "IAC" /\ r.out = t.out /\ r.sent = t.sent
    /\ t.state = "IAC" /\ c = "IAC" => r.state = "NORMAL" /\ r.out = Append(t.out, c) /\ r.sent = t.sent
    /\ t.state = "IAC" /\ c \in Verb => r.state = "OPT" /\ r.code = c /\ r.out = t.out /\ r.sent = t.sent
    /\ t.state = "IAC" /\ c = "SB" => r.state = "SB" /\ r.out = t.out /\ r.sent = t.sent
    /\ t.state = "IAC" /\ c \notin Verb \cup {"IAC", "SB"} => r.state = "NORMAL" /\ r.out = t.out /\ r.sent = t.sent
    /\ t.state = "OPT" => r.state = "NORMAL" /\ r.out = t.out /\ r.sent = t.sent \o Reply(t.code, c)
    /\ t.state = "SB" => r.state = "OPTDAT" /\ r.out = t.out /\ r.sent = t.sent
    /\ t.state = "OPTDAT" => r.state = (IF c = "IAC" THEN "SE" ELSE "OPTDAT") /\ r.out = t.out /\ r.sent = t.sent
    /\ t.state = "SE" => r.state = "NORMAL" /\ r.out = t.out /\ r.sent = t.sent

\* It does.
LEMMA ByteDoes ==
    ASSUME NEW B, NEW t \in ParserState(B), NEW c \in B
    PROVE  Does(t, c, ParseByte(t, c))
<1> SUFFICES ASSUME NEW r, r = ParseByte(t, c) PROVE Does(t, c, r)
  OBVIOUS
<1> DEFINE Built(st, cd, od, sz, o, n) == [state |-> st, code |-> cd, optdata |-> od, size |-> sz, out |-> o, sent |-> n]
<1>1. t = Built(t.state, t.code, t.optdata, t.size, t.out, t.sent)
  BY DEF ParserState
<1>2. PICK o : o = Append(t.out, c)
  OBVIOUS
<1>3. PICK od : od = Append(t.optdata, c)
  OBVIOUS
<1>4. PICK answered : answered = t.sent \o Reply(t.code, c)
  OBVIOUS
<1>5. PICK sz : sz = Resized(t.size, t.optdata)
  OBVIOUS
<1>6. /\ InNormal(t, c) = IF c = "IAC" THEN [t EXCEPT !.state = "IAC"] ELSE [t EXCEPT !.out = o]
      /\ InIac(t, c) = IF c = "IAC" THEN [t EXCEPT !.out = o, !.state = "NORMAL"]
                       ELSE IF c \in Verb THEN [t EXCEPT !.code = c, !.state = "OPT"]
                       ELSE [t EXCEPT !.state = IF c = "SB" THEN "SB" ELSE "NORMAL"]
      /\ InOpt(t, c) = [t EXCEPT !.sent = answered, !.state = "NORMAL"]
      /\ InOptdat(t, c) = IF c = "IAC" THEN [t EXCEPT !.state = "SE"]
                          ELSE IF Len(t.optdata) < OptdataSize THEN [t EXCEPT !.optdata = od] ELSE t
      /\ Subnegotiated(t) = IF t.code = "NAWS" /\ Len(t.optdata) = NawsLength THEN [t EXCEPT !.size = sz] ELSE t
  BY <1>2, <1>3, <1>4, <1>5, Zenon DEF InNormal, InIac, InOpt, InOptdat, Subnegotiated
<1>7. /\ t.state = "NORMAL" => r = InNormal(t, c)
      /\ t.state = "IAC" => r = InIac(t, c)
      /\ t.state = "OPT" => r = InOpt(t, c)
      /\ t.state = "SB" => r = InSb(t, c)
      /\ t.state = "OPTDAT" => r = InOptdat(t, c)
      /\ t.state = "SE" => r = InSe(t, c)
  BY DEF ParseByte
<1>8. CASE t.state = "NORMAL"
  BY <1>1, <1>2, <1>6, <1>7, <1>8 DEF Does
<1>9. CASE t.state = "IAC"
  <2>1. r = InIac(t, c)
    BY <1>7, <1>9
  <2>2. CASE c = "IAC"
    <3>1. r = [t EXCEPT !.out = o, !.state = "NORMAL"]
      BY <1>6, <2>1, <2>2
    <3>2. QED
      BY <1>1, <1>2, <1>9, <2>2, <3>1 DEF Verb, Does
  <2>3. CASE c \in Verb
    <3>1. r = [t EXCEPT !.code = c, !.state = "OPT"]
      BY <1>6, <2>1, <2>3 DEF Verb
    <3>2. QED
      BY <1>1, <1>9, <2>3, <3>1 DEF Verb, Does
  <2>4. CASE c \notin Verb \cup {"IAC"}
    <3>1. r = [t EXCEPT !.state = IF c = "SB" THEN "SB" ELSE "NORMAL"]
      BY <1>6, <2>1, <2>4
    <3>2. QED
      BY <1>1, <1>9, <2>4, <3>1 DEF Does
  <2>5. QED
    BY <2>2, <2>3, <2>4
<1>10. CASE t.state = "OPT"
  BY <1>1, <1>4, <1>6, <1>7, <1>10 DEF Does
<1>11. CASE t.state = "SB"
  BY <1>1, <1>7, <1>11 DEF InSb, Does
<1>12. CASE t.state = "OPTDAT"
  BY <1>1, <1>6, <1>7, <1>12 DEF Does
<1>13. CASE t.state = "SE"
  BY <1>1, <1>6, <1>7, <1>13 DEF InSe, Does
<1>14. t.state \in {"NORMAL", "IAC", "OPT", "SB", "OPTDAT", "SE"}
  BY DEF ParserState
<1>15. QED
  BY <1>8, <1>9, <1>10, <1>11, <1>12, <1>13, <1>14

\* ends is where the data end that begin at each place of s.
Ends(ends, s) ==
    \A j \in Nat :
        ends[j] = IF j >= Len(s) THEN 0
                ELSE IF s[j] # "IAC" THEN ends[j + 1]
                ELSE IF s[j + 1] = "IAC" THEN ends[j + 2]
                ELSE j + 1

\* Where data end.
LEMMA DataEndIs ==
    ASSUME NEW B, NEW s \in Seq(B)
    PROVE  \E ends \in [Nat -> Nat] : Ends(ends, s) /\ \A i \in Nat : DataEnd(s, i) = ends[i]
<1> DEFINE n == Len(s)
           base == [j \in Nat |-> 0]
           jump == [j \in Nat |-> IF s[j] # "IAC" THEN 1 ELSE 2]
           step == [j \in Nat |-> [v \in Nat |-> IF s[j] # "IAC" \/ s[j + 1] = "IAC" THEN v ELSE j + 1]]
           Def(ends) == [j \in Nat |-> IF j >= Len(s) THEN 0
                                       ELSE IF s[j] # "IAC" THEN ends[j + 1]
                                       ELSE IF s[j + 1] = "IAC" THEN ends[j + 2]
                                       ELSE j + 1]
           found == CHOOSE ends : ends = Def(ends)
<1>1. n \in Nat /\ base \in [Nat -> Nat] /\ jump \in [Nat -> Nat \ {0}] /\ step \in [Nat -> [Nat -> Nat]]
  OBVIOUS
<1>2. /\ \A j \in Nat : base[j] = 0 /\ jump[j] = (IF s[j] # "IAC" THEN 1 ELSE 2)
      /\ \A j, v \in Nat : step[j][v] = IF s[j] # "IAC" \/ s[j + 1] = "IAC" THEN v ELSE j + 1
  OBVIOUS
<1> HIDE DEF base, jump, step
<1>3. PICK f \in [Nat -> Nat] : \A i \in Nat : f[i] = IF i >= n THEN base[i] ELSE step[i][f[i + jump[i]]]
  <2>1. RecursiveDown(n, Nat)
    BY <1>1, RecursionDownIs, Zenon
  <2>2. QED
    BY <1>1, <2>1, Zenon DEF RecursiveDown
<1>4. f = Def(f)
  <2>1. ASSUME NEW j \in Nat
        PROVE  f[j] = IF j >= Len(s) THEN 0
                      ELSE IF s[j] # "IAC" THEN f[j + 1]
                      ELSE IF s[j + 1] = "IAC" THEN f[j + 2]
                      ELSE j + 1
    <3>1. f[j + jump[j]] \in Nat /\ f[j + jump[j]] = IF s[j] # "IAC" THEN f[j + 1] ELSE f[j + 2]
      <4>1. jump[j] = (IF s[j] # "IAC" THEN 1 ELSE 2)
        BY <1>2
      <4>2. f[j + 1] \in Nat /\ f[j + 2] \in Nat
        OBVIOUS
      <4>3. QED
        BY <4>1, <4>2
    <3>2. f[j] = IF j >= n THEN base[j] ELSE step[j][f[j + jump[j]]]
      BY <1>3
    <3>3. base[j] = 0 /\ step[j][f[j + jump[j]]] = IF s[j] # "IAC" \/ s[j + 1] = "IAC" THEN f[j + jump[j]] ELSE j + 1
      BY <1>2, <3>1
    <3>4. QED
      BY <3>1, <3>2, <3>3
  <2>2. QED
    BY <2>1
<1>5. found = Def(found)
  <2>1. \E h : h = Def(h)
    BY <1>4, Zenon
  <2> HIDE DEF Def
  <2>2. QED
    BY <2>1, Zenon
<1>6. \A i : DataEnd(s, i) = found[i]
  BY Zenon DEF DataEnd
<1> HIDE DEF found
<1>7. PICK d : d = found
  OBVIOUS
<1>8. d = Def(d)
  BY <1>5, <1>7, Zenon
<1>9. Ends(d, s)
  BY <1>8 DEF Ends
<1>10. \A j \in Nat : j \in {i \in Nat : d[i] \in Nat}
  <2> DEFINE S == {i \in Nat : d[i] \in Nat}
  <2>1. \A i \in Nat : i >= n => i \in S
    BY <1>9 DEF Ends
  <2>2. ASSUME NEW i \in Nat, i < n, \A j \in Nat : j > i => j \in S
        PROVE  i \in S
    <3>1. d[i + 1] \in Nat /\ d[i + 2] \in Nat /\ i + 1 \in Nat
      BY <2>2
    <3>2. d[i] \in {0, d[i + 1], d[i + 2], i + 1}
      BY <1>9 DEF Ends
    <3>3. QED
      BY <3>1, <3>2
  <2> HIDE DEF S
  <2>3. QED
    BY <1>1, <2>1, <2>2, CountDown, Zenon DEF S
<1>11. d \in [Nat -> Nat]
  <2>1. d = [j \in Nat |-> d[j]]
    BY <1>8
  <2>2. QED
    BY <1>10, <2>1
<1>12. QED
  BY <1>6, <1>7, <1>9, <1>11, Zenon

\* Data that end at all end behind their beginning.
LEMMA EndIsBehind ==
    ASSUME NEW B, NEW s \in Seq(B), NEW i \in Nat
    PROVE  DataEnd(s, i) = 0 \/ DataEnd(s, i) \in i + 1 .. Len(s)
<1>1. PICK ends \in [Nat -> Nat] : Ends(ends, s) /\ \A j \in Nat : DataEnd(s, j) = ends[j]
  BY DataEndIs
<1> DEFINE S == {j \in Nat : ends[j] = 0 \/ ends[j] \in j + 1 .. Len(s)}
           n == Len(s)
<1>2. n \in Nat
  OBVIOUS
<1>3. \A j \in Nat : j >= n => j \in S
  BY <1>1 DEF Ends
<1>4. ASSUME NEW j \in Nat, j < n, \A k \in Nat : k > j => k \in S
      PROVE  j \in S
  <2>1. j + 1 \in S /\ j + 2 \in S
    BY <1>4
  <2>2. ends[j] \in {ends[j + 1], ends[j + 2], j + 1}
    BY <1>1, <1>4 DEF Ends
  <2>3. j + 1 <= Len(s)
    BY <1>2, <1>4
  <2>4. CASE ends[j] = j + 1
    BY <1>2, <2>3, <2>4
  <2>5. CASE ends[j] = ends[j + 1]
    BY <1>2, <2>1, <2>5
  <2>6. CASE ends[j] = ends[j + 2]
    BY <1>2, <2>1, <2>6
  <2>7. QED
    BY <2>2, <2>4, <2>5, <2>6
<1> HIDE DEF S, n
<1>5. \A j \in Nat : j \in S
  BY <1>2, <1>3, <1>4, CountDown, Zenon
<1>6. QED
  BY <1>1, <1>5 DEF S

\* Data end as they do from a place that no IAC comes before.
LEMMA EndIsThere ==
    ASSUME NEW B, NEW s \in Seq(B), NEW i \in Nat, NEW m \in i .. Len(s), \A q \in i .. m - 1 : s[q] # "IAC"
    PROVE  DataEnd(s, i) = DataEnd(s, m)
<1>1. PICK ends \in [Nat -> Nat] : Ends(ends, s) /\ \A j \in Nat : DataEnd(s, j) = ends[j]
  BY DataEndIs
<1> DEFINE S == {d \in 0 .. m - i : ends[i + d] = ends[i]}
<1>2. 0 \in S /\ m - i \in Nat
  OBVIOUS
<1>3. ASSUME NEW d \in 1 .. m - i, d - 1 \in S PROVE d \in S
  <2>1. i + (d - 1) \in i .. m - 1 /\ i + (d - 1) \in Nat /\ ~(i + (d - 1) >= Len(s)) /\ i + (d - 1) + 1 = i + d
    OBVIOUS
  <2>2. s[i + (d - 1)] # "IAC"
    BY <2>1
  <2>3. ends[i + (d - 1)] = ends[i + (d - 1) + 1]
    BY <1>1, <2>1, <2>2 DEF Ends
  <2>4. QED
    BY <1>3, <2>1, <2>3
<1> HIDE DEF S
<1>4. m - i \in S
  <2>1. \A d \in 0 .. m - i : d \in S
    BY <1>2, <1>3, CountUp, Zenon
  <2>2. QED
    BY <1>2, <2>1
<1>5. i + (m - i) = m /\ m \in Nat
  OBVIOUS
<1>6. QED
  BY <1>1, <1>4, <1>5 DEF S

\* What an item takes is a part of the stream.
LEMMA ItemFits ==
    ASSUME NEW B, NEW s \in Seq(B), NEW i \in 1 .. Len(s)
    PROVE  ItemLength(s, i) \in 0 .. Len(s) - i + 1
<1>1. DataEnd(s, i + 3) = 0 \/ DataEnd(s, i + 3) \in i + 4 .. Len(s)
  <2>1. i + 3 \in Nat /\ i + 3 + 1 = i + 4
    OBVIOUS
  <2>2. QED
    BY <2>1, EndIsBehind
<1>2. QED
  BY <1>1 DEF ItemLength

\* What a stream of bytes of B can mean.
Meanings(B) ==
    [data : Seq(B), answers : Seq(Seq(B \cup {"DO", "DONT", "WONT"})), doubled : BOOLEAN]

\* from is what s means from each place on.
Means(from, s) ==
    \A i \in Nat \ {0} :
        from[i] = IF i > Len(s) \/ ItemLength(s, i) = 0
                  THEN [data |-> <<>>, answers |-> <<>>, doubled |-> DoubledAt(s, i)]
                  ELSE Joined(s, i, from[i + ItemLength(s, i)])

\* What an item means is made of bytes and of answers.
LEMMA ItemIs ==
    ASSUME NEW B, NEW s \in Seq(B), NEW i \in 1 .. Len(s), ItemLength(s, i) # 0
    PROVE  DataAt(s, i) \in Seq(B) /\ AnswerAt(s, i) \in Seq(Seq(B \cup {"DO", "DONT", "WONT"}))
<1> DEFINE A == Seq(B \cup {"DO", "DONT", "WONT"})
<1>1. s[i] \in B /\ Len(s) \in Nat
  OBVIOUS
<1>2. DataAt(s, i) \in Seq(B)
  <2>1. <<s[i]>> \in Seq(B) /\ <<>> \in Seq(B)
    BY <1>1
  <2>2. QED
    BY <2>1, Zenon DEF DataAt
<1>3. AnswerAt(s, i) \in Seq(A)
  <2>1. CASE s[i] = "IAC" /\ s[i + 1] \in Verb
    <3>1. i + 2 <= Len(s)
      BY <1>1, <2>1 DEF ItemLength
    <3>2. s[i + 2] \in B
      BY <3>1
    <3>3. QED
      BY <2>1, <3>2, ReplyIs, Zenon DEF AnswerAt
  <2>2. CASE ~(s[i] = "IAC" /\ s[i + 1] \in Verb)
    <3>1. <<>> \in Seq(A)
      BY EmptySeq, Zenon
    <3>2. QED
      BY <2>2, <3>1, Zenon DEF AnswerAt
  <2>3. QED
    BY <2>1, <2>2
<1>4. QED
  BY <1>2, <1>3

\* An item joined to a meaning makes a meaning.
LEMMA JoinedIs ==
    ASSUME NEW B, NEW s \in Seq(B), NEW i \in 1 .. Len(s), ItemLength(s, i) # 0, NEW m \in Meanings(B)
    PROVE  Joined(s, i, m) \in Meanings(B)
<1> DEFINE A == Seq(B \cup {"DO", "DONT", "WONT"})
<1>2. DataAt(s, i) \in Seq(B) /\ AnswerAt(s, i) \in Seq(A)
  BY ItemIs, Zenon
<1> HIDE DEF A
<1>4. m.data \in Seq(B) /\ m.answers \in Seq(A) /\ m.doubled \in BOOLEAN
  BY DEF Meanings, A
<1>5. DataAt(s, i) \o m.data \in Seq(B) /\ AnswerAt(s, i) \o m.answers \in Seq(A)
  BY <1>2, <1>4, ConcatProperties, Zenon
<1>6. (DoubledAt(s, i) \/ m.doubled) \in BOOLEAN
  BY Zenon
<1>7. QED
  BY <1>5, <1>6, Zenon DEF Joined, Meanings, A

\* A meaning of every part of a stream.
LEMMA MeaningIs ==
    ASSUME NEW B, NEW s \in Seq(B)
    PROVE  \E from \in [Nat \ {0} -> Meanings(B)] : Means(from, s) /\ MeaningOf(s) = from[1]
<1> DEFINE n == Len(s) + 1
           V == Meanings(B)
           Cut(i) == [data |-> <<>>, answers |-> <<>>, doubled |-> DoubledAt(s, i)]
           Goes(i) == i \in 1 .. Len(s) /\ ItemLength(s, i) # 0
           base == [i \in Nat |-> Cut(i)]
           jump == [i \in Nat |-> IF Goes(i) THEN ItemLength(s, i) ELSE 1]
           step == [i \in Nat |-> [v \in V |-> IF Goes(i) THEN Joined(s, i, v) ELSE Cut(i)]]
           Def(from) == [i \in Nat \ {0} |->
                            IF i > Len(s) \/ ItemLength(s, i) = 0
                            THEN [data |-> <<>>, answers |-> <<>>, doubled |-> DoubledAt(s, i)]
                            ELSE Joined(s, i, from[i + ItemLength(s, i)])]
           found == CHOOSE from : from = Def(from)
<1>1. n \in Nat /\ Len(s) \in Nat /\ n = Len(s) + 1
  OBVIOUS
<1>2. \A i : Cut(i) \in V
  <2>1. \A i : DoubledAt(s, i) \in BOOLEAN
    BY Zenon DEF DoubledAt
  <2>2. <<>> \in Seq(B) /\ <<>> \in Seq(Seq(B \cup {"DO", "DONT", "WONT"}))
    BY EmptySeq, Zenon
  <2>3. QED
    BY <2>1, <2>2, Zenon DEF Meanings
<1>3. \A i \in Nat : \A v \in V : Goes(i) => Joined(s, i, v) \in V
  BY JoinedIs, Zenon
<1>4. \A i \in Nat : Goes(i) => ItemLength(s, i) \in Nat \ {0} /\ ItemLength(s, i) <= Len(s) - i + 1
  BY <1>1, ItemFits
<1> HIDE DEF V, Cut, n
<1>5. base \in [Nat -> V] /\ jump \in [Nat -> Nat \ {0}]
  <2> HIDE DEF Goes
  <2>1. \A i \in Nat : (IF Goes(i) THEN ItemLength(s, i) ELSE 1) \in Nat \ {0}
    BY <1>4
  <2>2. QED
    BY <1>2, <2>1
<1>6. step \in [Nat -> [V -> V]]
  <2> HIDE DEF Goes
  <2>1. \A i \in Nat : \A v \in V : (IF Goes(i) THEN Joined(s, i, v) ELSE Cut(i)) \in V
    BY <1>2, <1>3, Zenon
  <2>2. ASSUME NEW i \in Nat
        PROVE  [v \in V |-> IF Goes(i) THEN Joined(s, i, v) ELSE Cut(i)] \in [V -> V]
    BY <2>1
  <2>3. QED
    BY <2>2, Zenon
<1>7. /\ \A i \in Nat : base[i] = Cut(i) /\ jump[i] = (IF Goes(i) THEN ItemLength(s, i) ELSE 1)
      /\ \A i \in Nat : \A v \in V : step[i][v] = IF Goes(i) THEN Joined(s, i, v) ELSE Cut(i)
  <2> HIDE DEF Goes
  <2>1. QED
    OBVIOUS
<1> HIDE DEF base, jump, step
<1>8. PICK F \in [Nat -> V] : \A i \in Nat : F[i] = IF i >= n THEN base[i] ELSE step[i][F[i + jump[i]]]
  <2>1. RecursiveDown(n, V)
    BY <1>1, RecursionDownIs, Zenon
  <2>2. QED
    BY <1>5, <1>6, <2>1, Zenon DEF RecursiveDown
<1>9. PICK f : f = [i \in Nat \ {0} |-> F[i]]
  OBVIOUS
<1>10. \A i \in Nat \ {0} : f[i] = F[i]
  BY <1>9
<1>11. ASSUME NEW i \in Nat \ {0}
       PROVE  f[i] = IF i > Len(s) \/ ItemLength(s, i) = 0 THEN Cut(i) ELSE Joined(s, i, f[i + ItemLength(s, i)])
  <2>1. CASE i > Len(s)
    <3>1. i >= n /\ F[i] = base[i]
      BY <1>1, <1>8, <2>1
    <3>2. QED
      BY <1>7, <1>10, <2>1, <3>1
  <2>2. CASE i \in 1 .. Len(s)
    <3>1. ~(i >= n) /\ F[i] = step[i][F[i + jump[i]]] /\ jump[i] \in Nat \ {0}
      <4>1. ~(i >= n)
        BY <1>1, <2>2
      <4>2. F[i] = step[i][F[i + jump[i]]]
        BY <1>8, <4>1
      <4>3. jump[i] \in Nat \ {0}
        BY <1>5
      <4>4. QED
        BY <4>1, <4>2, <4>3
    <3>2. i + jump[i] \in Nat \ {0}
      BY <3>1
    <3>3. F[i + jump[i]] \in V
      BY <3>2
    <3>4. F[i] = IF Goes(i) THEN Joined(s, i, F[i + jump[i]]) ELSE Cut(i)
      BY <1>7, <3>1, <3>3, Zenon
    <3>5. F[i + jump[i]] = f[i + jump[i]]
      BY <1>10, <3>2
    <3>6. Goes(i) => jump[i] = ItemLength(s, i)
      BY <1>7, Zenon
    <3>7. Goes(i) <=> ItemLength(s, i) # 0
      BY <2>2
    <3>8. ~(i > Len(s)) /\ f[i] = F[i]
      BY <1>10, <2>2
    <3>9. QED
      BY <3>4, <3>5, <3>6, <3>7, <3>8, Zenon
  <2>3. QED
    BY <1>1, <2>1, <2>2
<1>12. f = Def(f)
  <2>1. \A i \in Nat \ {0} : f[i] = Def(f)[i]
    BY <1>11 DEF Cut
  <2>2. QED
    BY <1>9, <2>1
<1>13. found = Def(found)
  <2>1. \E h : h = Def(h)
    BY <1>12, Zenon
  <2> HIDE DEF Def
  <2>2. QED
    BY <2>1, Zenon
<1>14. MeaningOf(s) = found[1]
  BY Zenon DEF MeaningOf
<1> HIDE DEF found
<1>15. PICK d : d = found
  OBVIOUS
<1>16. d = Def(d)
  BY <1>13, <1>15, Zenon
<1>17. \A i \in Nat \ {0} : d[i] = IF i > Len(s) \/ ItemLength(s, i) = 0 THEN Cut(i) ELSE Joined(s, i, d[i + ItemLength(s, i)])
  BY <1>16 DEF Cut
<1>18. \A i \in Nat : i \in {j \in Nat : j = 0 \/ d[j] \in V}
  <2> DEFINE S == {j \in Nat : j = 0 \/ d[j] \in V}
  <2>1. ASSUME NEW i \in Nat, i >= n PROVE i \in S
    <3>1. i \in Nat \ {0} /\ i > Len(s)
      BY <1>1, <2>1
    <3>2. d[i] = Cut(i)
      BY <1>17, <3>1, Zenon
    <3>3. QED
      BY <1>2, <3>2
  <2>2. ASSUME NEW i \in Nat, i < n, \A j \in Nat : j > i => j \in S
        PROVE  i \in S
    <3>1. CASE i = 0
      BY <3>1
    <3>2. CASE i # 0 /\ ItemLength(s, i) = 0
      BY <1>2, <1>17, <3>2
    <3>3. CASE i # 0 /\ ItemLength(s, i) # 0
      <4>1. Goes(i)
        BY <1>1, <2>2, <3>3
      <4>2. ItemLength(s, i) \in Nat \ {0}
        BY <1>4, <4>1, Zenon
      <4>3. i + ItemLength(s, i) \in Nat /\ i + ItemLength(s, i) > i /\ i + ItemLength(s, i) # 0
        BY <4>2
      <4>4. d[i + ItemLength(s, i)] \in V
        BY <2>2, <4>3
      <4>5. ~(i > Len(s)) /\ i \in Nat \ {0}
        BY <1>1, <2>2, <3>3
      <4>6. d[i] = Joined(s, i, d[i + ItemLength(s, i)])
        BY <1>17, <3>3, <4>5, Zenon
      <4>7. d[i] \in V
        BY <1>3, <4>1, <4>4, <4>6, Zenon
      <4>8. QED
        BY <4>7
    <3>4. QED
      BY <3>1, <3>2, <3>3
  <2> HIDE DEF S
  <2>3. QED
    BY <1>1, <2>1, <2>2, CountDown, Zenon DEF S
<1>19. d \in [Nat \ {0} -> V]
  <2>1. d = [i \in Nat \ {0} |-> d[i]]
    BY <1>16
  <2>2. \A i \in Nat \ {0} : d[i] \in V
    BY <1>18
  <2>3. QED
    BY <2>1, <2>2
<1>20. QED
  BY <1>14, <1>15, <1>17, <1>19, Zenon DEF V, Cut, Means

\* A parser that is at an item of s at i, with no doubled IAC to come, puts out
\* and answers what s means from there on.
Reads(f, from, s, i) ==
    f[i - 1].state = "NORMAL" /\ ~from[i].doubled
        => /\ f[Len(s)].out = f[i - 1].out \o from[i].data
           /\ f[Len(s)].sent = f[i - 1].sent \o from[i].answers

\* Up to e the parser has read the item at i.
Passes(f, s, i, e) ==
    /\ f[e].state = "NORMAL"
    /\ f[e].out = f[i - 1].out \o DataAt(s, i)
    /\ f[e].sent = f[i - 1].sent \o AnswerAt(s, i)

\* An item that is read up to e, where the parser is at the next one.
LEMMA ItemIsRead ==
    ASSUME NEW B, NEW s \in Seq(B), NEW f \in [0 .. Len(s) -> ParserState(B)],
           NEW from \in [Nat \ {0} -> Meanings(B)], Means(from, s),
           NEW i \in 1 .. Len(s), ItemLength(s, i) # 0,
           NEW l, l = i + ItemLength(s, i), Reads(f, from, s, l),
           NEW e, e = l - 1, Passes(f, s, i, e)
    PROVE  Reads(f, from, s, i)
<1> DEFINE A == Seq(B \cup {"DO", "DONT", "WONT"})
<1>1. Len(s) \in Nat /\ i \in Nat \ {0} /\ ~(i > Len(s)) /\ i - 1 \in 0 .. Len(s)
  OBVIOUS
<1>2. ItemLength(s, i) \in 0 .. Len(s) - i + 1
  BY ItemFits
<1>3. l \in Nat \ {0}
  BY <1>1, <1>2
<1>4. from[i] = Joined(s, i, from[l])
  BY <1>1, Zenon DEF Means
<1>5. PICK m \in Meanings(B) : m = from[l]
  BY <1>3
<1>6. m.data \in Seq(B) /\ m.answers \in Seq(A)
  BY DEF Meanings
<1>7. from[i].data = DataAt(s, i) \o m.data /\ from[i].answers = AnswerAt(s, i) \o m.answers
      /\ (~from[i].doubled => ~m.doubled)
  <2>1. PICK da : da = DataAt(s, i) \o m.data
    OBVIOUS
  <2>2. PICK aa : aa = AnswerAt(s, i) \o m.answers
    OBVIOUS
  <2>3. from[i] = [data |-> da, answers |-> aa, doubled |-> DoubledAt(s, i) \/ m.doubled]
    BY <1>4, <1>5, <2>1, <2>2, Zenon DEF Joined
  <2>4. from[i].data = da /\ from[i].answers = aa
    BY <2>3
  <2>5. from[i].doubled = (DoubledAt(s, i) \/ m.doubled)
    BY <2>3
  <2>6. QED
    BY <2>1, <2>2, <2>4, <2>5, Zenon
<1>8. PICK p \in ParserState(B) : p = f[i - 1]
  BY <1>1
<1>9. p.out \in Seq(B) /\ p.sent \in Seq(A)
  BY DEF ParserState
<1>13. DataAt(s, i) \in Seq(B) /\ AnswerAt(s, i) \in Seq(A)
  BY ItemIs, Zenon
<1> HIDE DEF A
<1>10. Associates(p.out, DataAt(s, i), m.data)
  BY <1>6, <1>9, <1>13, JoiningIs, Zenon
<1>11. Associates(p.sent, AnswerAt(s, i), m.answers)
  BY <1>6, <1>9, <1>13, JoiningIs, Zenon
<1>12. QED
  BY <1>5, <1>7, <1>8, <1>10, <1>11, Zenon DEF Reads, Passes, Associates

\* An item that is cut off puts out and answers nothing.
LEMMA CutIsRead ==
    ASSUME NEW B, NEW s \in Seq(B), NEW f \in [0 .. Len(s) -> ParserState(B)],
           NEW from \in [Nat \ {0} -> Meanings(B)], Means(from, s),
           NEW i \in 1 .. Len(s) + 1, i > Len(s) \/ ItemLength(s, i) = 0,
           f[Len(s)].out = f[i - 1].out, f[Len(s)].sent = f[i - 1].sent
    PROVE  Reads(f, from, s, i)
<1> DEFINE A == Seq(B \cup {"DO", "DONT", "WONT"})
<1>1. Len(s) \in Nat /\ i \in Nat \ {0} /\ i - 1 \in 0 .. Len(s)
  OBVIOUS
<1>2. from[i] = [data |-> <<>>, answers |-> <<>>, doubled |-> DoubledAt(s, i)]
  BY <1>1, Zenon DEF Means
<1>3. from[i].data = <<>> /\ from[i].answers = <<>>
  BY <1>2
<1>4. PICK p \in ParserState(B) : p = f[i - 1]
  BY <1>1
<1>5. p.out \in Seq(B) /\ p.sent \in Seq(A)
  BY DEF ParserState
<1> HIDE DEF A
<1>6. p.out \o <<>> = p.out /\ p.sent \o <<>> = p.sent
  BY <1>5, ConcatEmptySeq, Zenon
<1>7. QED
  BY <1>3, <1>4, <1>6, Zenon DEF Reads

\* The parser in the data of a subnegotiation that begin at i: it stays there
\* until the first IAC.
Skips(f, s, i, m) ==
    f[i - 1].state = "OPTDAT" /\ (\A q \in i .. m : s[q] # "IAC")
        => f[m].state = "OPTDAT" /\ f[m].out = f[i - 1].out /\ f[m].sent = f[i - 1].sent

\* Data of an option without an IAC neither come out nor are answered.
LEMMA DataAreSkipped ==
    ASSUME NEW B, NEW s \in Seq(B), NEW f \in [0 .. Len(s) -> ParserState(B)], NEW t, Runs(f, t, s),
           NEW i \in 1 .. Len(s) + 1, NEW m \in i - 1 .. Len(s)
    PROVE  Skips(f, s, i, m)
<1> SUFFICES ASSUME f[i - 1].state = "OPTDAT", \A q \in i .. m : s[q] # "IAC"
             PROVE  f[m].state = "OPTDAT" /\ f[m].out = f[i - 1].out /\ f[m].sent = f[i - 1].sent
  BY DEF Skips
<1> DEFINE S == {d \in 0 .. m - i + 1 : /\ f[i - 1 + d].state = "OPTDAT"
                                       /\ f[i - 1 + d].out = f[i - 1].out /\ f[i - 1 + d].sent = f[i - 1].sent}
<1>1. 0 \in S /\ m - i + 1 \in Nat
  OBVIOUS
<1>2. ASSUME NEW d \in 1 .. m - i + 1, d - 1 \in S PROVE d \in S
  <2>1. PICK j : j = i - 1 + d
    OBVIOUS
  <2>2. j \in i .. m /\ j \in 1 .. Len(s) /\ j - 1 \in 0 .. Len(s) /\ j - 1 = i - 1 + (d - 1)
    BY <2>1
  <2>3. PICK p \in ParserState(B) : p = f[j - 1]
    BY <2>2
  <2>4. s[j] \in B /\ s[j] # "IAC" /\ f[j] = ParseByte(p, s[j])
    BY <2>2, <2>3 DEF Runs
  <2>5. p.state = "OPTDAT" /\ p.out = f[i - 1].out /\ p.sent = f[i - 1].sent
    BY <1>2, <2>2, <2>3
  <2>6. f[j].state = "OPTDAT" /\ f[j].out = p.out /\ f[j].sent = p.sent
    <3>1. Does(p, s[j], f[j])
      BY <2>4, ByteDoes, Zenon
    <3>2. QED
      BY <2>4, <2>5, <3>1 DEF Does
  <2>7. QED
    BY <2>1, <2>5, <2>6
<1> HIDE DEF S
<1>3. m - i + 1 \in S
  <2>1. \A d \in 0 .. m - i + 1 : d \in S
    BY <1>1, <1>2, CountUp, Zenon
  <2>2. QED
    BY <1>1, <2>1
<1>4. i - 1 + (m - i + 1) = m
  OBVIOUS
<1>5. QED
  BY <1>3, <1>4 DEF S

\* The end of data at a place that is the last one, or an IAC.
LEMMA EndAt ==
    ASSUME NEW B, NEW s \in Seq(B), NEW j \in Nat
    PROVE  /\ j >= Len(s) => DataEnd(s, j) = 0
           /\ j < Len(s) /\ s[j] = "IAC" /\ s[j + 1] # "IAC" => DataEnd(s, j) = j + 1
<1>1. PICK ends \in [Nat -> Nat] : Ends(ends, s) /\ \A k \in Nat : DataEnd(s, k) = ends[k]
  BY DataEndIs
<1>2. Len(s) \in Nat
  OBVIOUS
<1>3. DataEnd(s, j) = ends[j]
  BY <1>1, Zenon
<1>4. ends[j] = IF j >= Len(s) THEN 0
                ELSE IF s[j] # "IAC" THEN ends[j + 1]
                ELSE IF s[j + 1] = "IAC" THEN ends[j + 2]
                ELSE j + 1
  BY <1>1, Zenon DEF Ends
<1>5. j >= Len(s) => DataEnd(s, j) = 0
  BY <1>3, <1>4, Zenon
<1>6. ASSUME j < Len(s), s[j] = "IAC", s[j + 1] # "IAC" PROVE DataEnd(s, j) = j + 1
  <2>1. ~(j >= Len(s))
    BY <1>2, <1>6
  <2>2. QED
    BY <1>3, <1>4, <1>6, <2>1, Zenon
<1>7. QED
  BY <1>5, <1>6

\* The first IAC from i on.
LEMMA FirstIac ==
    ASSUME NEW B, NEW s \in Seq(B), NEW i \in Nat, \E j \in i .. Len(s) : s[j] = "IAC"
    PROVE  \E j \in i .. Len(s) : s[j] = "IAC" /\ \A q \in i .. j - 1 : s[q] # "IAC"
<1> DEFINE S == {j \in Nat : j \in i .. Len(s) /\ s[j] = "IAC"}
<1>1. Len(s) \in Nat
  OBVIOUS
<1>2. S \in SUBSET Nat /\ S # {}
  BY <1>1
<1>3. PICK j \in S : \A k \in S : j <= k
  BY <1>2, LeastNatural, Zenon
<1>4. j \in i .. Len(s) /\ s[j] = "IAC"
  BY <1>3
<1>5. ASSUME NEW q \in i .. j - 1 PROVE s[q] # "IAC"
  <2>1. q \in Nat /\ q \in i .. Len(s) /\ ~(j <= q)
    BY <1>1, <1>4
  <2>2. q \notin S
    BY <1>3, <2>1
  <2>3. QED
    BY <2>1, <2>2
<1>6. QED
  BY <1>4, <1>5, Zenon

\* What is not a subnegotiation is read as it is meant.
LEMMA PlainItem ==
    ASSUME NEW B, NEW s \in Seq(B), NEW f \in [0 .. Len(s) -> ParserState(B)],
           NEW from \in [Nat \ {0} -> Meanings(B)], Means(from, s),
           \A j \in 1 .. Len(s) : Does(f[j - 1], s[j], f[j]),
           NEW i \in 1 .. Len(s), f[i - 1].state = "NORMAL",
           \A l \in i + 1 .. Len(s) + 1 : Reads(f, from, s, l),
           ~(i < Len(s) /\ s[i] = "IAC" /\ s[i + 1] = "SB")
    PROVE  Reads(f, from, s, i)
<1> DEFINE A == Seq(B \cup {"DO", "DONT", "WONT"})
<1>1. /\ Len(s) \in Nat /\ i - 1 \in 0 .. Len(s) /\ i \in 0 .. Len(s) /\ i \in Nat
      /\ i < Len(s) => i + 1 \in 1 .. Len(s) /\ i + 1 - 1 = i
      /\ i + 1 < Len(s) => i + 2 \in 1 .. Len(s) /\ i + 2 - 1 = i + 1
  OBVIOUS
<1>10. i + 1 - 1 = i /\ i + 2 - 1 = i + 1 /\ i + 3 - 1 = i + 2
  OBVIOUS
<1>2. PICK p \in ParserState(B) : p = f[i - 1]
  BY <1>1
<1>3. p.out \in Seq(B) /\ p.sent \in Seq(A) /\ p.state = "NORMAL" /\ s[i] \in B
  BY <1>1, <1>2 DEF ParserState
<1>4. Does(p, s[i], f[i])
  BY <1>2
<1> HIDE DEF A
<1>5. p.out \o <<>> = p.out /\ p.sent \o <<>> = p.sent /\ Append(p.out, s[i]) = p.out \o <<s[i]>>
  <2>1. p.out \o <<>> = p.out /\ p.sent \o <<>> = p.sent
    BY <1>3, ConcatEmptySeq, Zenon
  <2>2. Append(p.out, s[i]) = p.out \o <<s[i]>>
    BY <1>3, AppendIsConcat, Zenon
  <2>3. QED
    BY <2>1, <2>2
<1>6. CASE s[i] # "IAC"
  <2>1. ItemLength(s, i) = 1 /\ DataAt(s, i) = <<s[i]>> /\ AnswerAt(s, i) = <<>>
    BY <1>6, Zenon DEF ItemLength, DataAt, AnswerAt
  <2>2. f[i].state = "NORMAL" /\ f[i].out = Append(p.out, s[i]) /\ f[i].sent = p.sent
    BY <1>3, <1>4, <1>6, Zenon DEF Does
  <2>3. Passes(f, s, i, i)
    <3>1. f[i].out = f[i - 1].out \o DataAt(s, i)
      BY <1>2, <1>5, <2>1, <2>2, Zenon
    <3>2. f[i].sent = f[i - 1].sent \o AnswerAt(s, i)
      BY <1>2, <1>5, <2>1, <2>2, Zenon
    <3>3. QED
      BY <2>2, <3>1, <3>2, Zenon DEF Passes
  <2>4. PICK l : l = i + 1
    OBVIOUS
  <2>5. PICK e : e = i
    OBVIOUS
  <2>6. Reads(f, from, s, l) /\ l = i + ItemLength(s, i) /\ ItemLength(s, i) # 0 /\ e = l - 1
    BY <1>1, <2>1, <2>4, <2>5
  <2>7. Passes(f, s, i, e)
    BY <2>3, <2>5, Zenon
  <2>8. QED
    BY <2>6, <2>7, ItemIsRead, Zenon
<1>7. CASE s[i] = "IAC" /\ i = Len(s)
  <2>1. ItemLength(s, i) = 0
    BY <1>7, Zenon DEF ItemLength
  <2>2. f[i].out = p.out /\ f[i].sent = p.sent
    BY <1>3, <1>4, <1>7, Zenon DEF Does
  <2>3. i \in 1 .. Len(s) + 1
    BY <1>1
  <2>4. f[Len(s)].out = f[i - 1].out /\ f[Len(s)].sent = f[i - 1].sent
    BY <1>2, <1>7, <2>2, Zenon
  <2>5. QED
    BY <2>1, <2>3, <2>4, CutIsRead, Zenon
<1>8. CASE s[i] = "IAC" /\ i < Len(s)
  <2>1. PICK q \in ParserState(B) : q = f[i]
    BY <1>1
  <2>2. q.state = "IAC" /\ q.out = p.out /\ q.sent = p.sent
    BY <1>3, <1>4, <1>8, <2>1, Zenon DEF Does
  <2>3. Does(q, s[i + 1], f[i + 1])
    BY <1>1, <1>8, <2>1
  <2>4. CASE s[i + 1] = "IAC"
    <3>1. ItemLength(s, i) = 2 /\ DataAt(s, i) = <<s[i]>> /\ AnswerAt(s, i) = <<>>
      BY <1>8, <2>4 DEF ItemLength, DataAt, AnswerAt, Verb
    <3>2. f[i + 1].state = "NORMAL" /\ f[i + 1].out = Append(p.out, s[i]) /\ f[i + 1].sent = p.sent
      BY <1>8, <2>2, <2>3, <2>4, Zenon DEF Does
    <3>3. Passes(f, s, i, i + 1)
      <4>1. f[i + 1].out = f[i - 1].out \o DataAt(s, i)
        BY <1>2, <1>5, <3>1, <3>2, Zenon
      <4>2. f[i + 1].sent = f[i - 1].sent \o AnswerAt(s, i)
        BY <1>2, <1>5, <3>1, <3>2, Zenon
      <4>3. QED
        BY <3>2, <4>1, <4>2, Zenon DEF Passes
    <3>4. PICK l : l = i + 2
      OBVIOUS
    <3>5. PICK e : e = i + 1
      OBVIOUS
    <3>6. Reads(f, from, s, l) /\ l = i + ItemLength(s, i) /\ ItemLength(s, i) # 0 /\ e = l - 1
      BY <1>1, <1>8, <3>1, <3>4, <3>5
    <3>7. Passes(f, s, i, e)
      BY <3>3, <3>5, Zenon
    <3>8. QED
      BY <3>6, <3>7, ItemIsRead, Zenon
  <2>5. CASE s[i + 1] \notin Verb \cup {"IAC", "SB"}
    <3>1. ItemLength(s, i) = 2 /\ DataAt(s, i) = <<>> /\ AnswerAt(s, i) = <<>>
      BY <1>8, <2>5 DEF ItemLength, DataAt, AnswerAt
    <3>2. f[i + 1].state = "NORMAL" /\ f[i + 1].out = p.out /\ f[i + 1].sent = p.sent
      BY <2>2, <2>3, <2>5, Zenon DEF Does
    <3>3. Passes(f, s, i, i + 1)
      <4>1. f[i + 1].out = f[i - 1].out \o DataAt(s, i)
        BY <1>2, <1>5, <3>1, <3>2, Zenon
      <4>2. f[i + 1].sent = f[i - 1].sent \o AnswerAt(s, i)
        BY <1>2, <1>5, <3>1, <3>2, Zenon
      <4>3. QED
        BY <3>2, <4>1, <4>2, Zenon DEF Passes
    <3>4. PICK l : l = i + 2
      OBVIOUS
    <3>5. PICK e : e = i + 1
      OBVIOUS
    <3>6. Reads(f, from, s, l) /\ l = i + ItemLength(s, i) /\ ItemLength(s, i) # 0 /\ e = l - 1
      BY <1>1, <1>8, <3>1, <3>4, <3>5
    <3>7. Passes(f, s, i, e)
      BY <3>3, <3>5, Zenon
    <3>8. QED
      BY <3>6, <3>7, ItemIsRead, Zenon
  <2>6. CASE s[i + 1] \in Verb
    <3>1. PICK r \in ParserState(B) : r = f[i + 1]
      BY <1>1, <1>8
    <3>2. r.state = "OPT" /\ r.code = s[i + 1] /\ r.out = p.out /\ r.sent = p.sent
      BY <2>2, <2>3, <2>6, <3>1, Zenon DEF Does
    <3>3. CASE i + 2 > Len(s)
      <4>1. ItemLength(s, i) = 0 /\ Len(s) = i + 1
        BY <1>1, <1>8, <2>6, <3>3 DEF ItemLength
      <4>2. i \in 1 .. Len(s) + 1
        BY <1>1
      <4>3. f[Len(s)].out = f[i - 1].out /\ f[Len(s)].sent = f[i - 1].sent
        BY <1>2, <3>1, <3>2, <4>1, Zenon
      <4>4. QED
        BY <4>1, <4>2, <4>3, CutIsRead, Zenon
    <3>4. CASE ~(i + 2 > Len(s))
      <4>1. s[i + 1] # "IAC"
        BY <2>6 DEF Verb
      <4>2. ItemLength(s, i) = 3 /\ DataAt(s, i) = <<>> /\ AnswerAt(s, i) = Reply(s[i + 1], s[i + 2])
        BY <1>1, <1>8, <2>6, <3>4, <4>1 DEF ItemLength, DataAt, AnswerAt
      <4>3. i + 1 < Len(s)
        BY <1>1, <3>4
      <4>4. Does(r, s[i + 2], f[i + 2])
        BY <1>1, <3>1, <4>3
      <4>5. f[i + 2].state = "NORMAL" /\ f[i + 2].out = p.out /\ f[i + 2].sent = p.sent \o Reply(s[i + 1], s[i + 2])
        BY <3>2, <4>4, Zenon DEF Does
      <4>6. Passes(f, s, i, i + 2)
        <5>1. f[i + 2].out = f[i - 1].out \o DataAt(s, i)
          BY <1>2, <1>5, <4>2, <4>5, Zenon
        <5>2. f[i + 2].sent = f[i - 1].sent \o AnswerAt(s, i)
          BY <1>2, <1>5, <4>2, <4>5, Zenon
        <5>3. QED
          BY <4>5, <5>1, <5>2, Zenon DEF Passes
      <4>7. PICK l : l = i + 3
        OBVIOUS
      <4>8. PICK e : e = i + 2
        OBVIOUS
      <4>9. Reads(f, from, s, l) /\ l = i + ItemLength(s, i) /\ ItemLength(s, i) # 0 /\ e = l - 1
        BY <1>1, <4>2, <4>3, <4>7, <4>8
      <4>10. Passes(f, s, i, e)
        BY <4>6, <4>8, Zenon
      <4>11. QED
        BY <4>9, <4>10, ItemIsRead, Zenon
    <3>5. QED
      BY <3>3, <3>4
  <2>7. QED
    BY <1>8, <2>4, <2>5, <2>6
<1>9. QED
  BY <1>1, <1>6, <1>7, <1>8

\* A subnegotiation without a doubled IAC ends at the first IAC of its data.
LEMMA DataItem ==
    ASSUME NEW B, NEW s \in Seq(B), NEW f \in [0 .. Len(s) -> ParserState(B)], NEW t, Runs(f, t, s),
           NEW from \in [Nat \ {0} -> Meanings(B)], Means(from, s),
           \A j \in 1 .. Len(s) : Does(f[j - 1], s[j], f[j]),
           NEW i \in 1 .. Len(s), f[i - 1].state = "NORMAL",
           \A l \in i + 1 .. Len(s) + 1 : Reads(f, from, s, l),
           i < Len(s), s[i] = "IAC", s[i + 1] = "SB", ~DoubledAt(s, i)
    PROVE  Reads(f, from, s, i)
<1> DEFINE A == Seq(B \cup {"DO", "DONT", "WONT"})
           n == Len(s)
           Quiet_(e) == f[e].out = f[i - 1].out /\ f[e].sent = f[i - 1].sent
<1>1. /\ n \in Nat /\ i - 1 \in 0 .. n /\ i \in 0 .. n /\ i + 1 \in 1 .. n /\ i + 1 \in 0 .. n /\ i \in 1 .. n + 1
      /\ i + 1 - 1 = i /\ i + 3 \in Nat
  OBVIOUS
<1>2. f[i].state = "IAC" /\ Quiet_(i)
  <2>1. Does(f[i - 1], s[i], f[i])
    OBVIOUS
  <2>2. QED
    BY <2>1, Zenon DEF Does
<1>3. f[i + 1].state = "SB" /\ Quiet_(i + 1)
  <2>1. Does(f[i], s[i + 1], f[i + 1])
    BY <1>1
  <2>2. QED
    BY <1>2, <2>1, Zenon DEF Does
<1>4. ItemLength(s, i) = IF DataEnd(s, i + 3) = 0 THEN 0 ELSE DataEnd(s, i + 3) - i + 1
  <2>1. "SB" \notin Verb /\ i # n
    BY DEF Verb
  <2>2. QED
    BY <2>1, Zenon DEF ItemLength
<1>5. ASSUME DataEnd(s, i + 3) = 0, Quiet_(n) PROVE Reads(f, from, s, i)
  <2>1. ItemLength(s, i) = 0
    BY <1>4, <1>5, Zenon
  <2>2. QED
    BY <1>1, <1>5, <2>1, CutIsRead, Zenon
<1>6. CASE i + 1 = n
  <2>1. DataEnd(s, i + 3) = 0
    <3>1. i + 3 >= Len(s)
      BY <1>1, <1>6
    <3>2. QED
      BY <1>1, <3>1, EndAt, Zenon
  <2>2. QED
    BY <1>3, <1>5, <1>6, <2>1, Zenon
<1>7. CASE i + 1 < n
  <2>1. i + 2 \in 1 .. n /\ i + 2 - 1 = i + 1 /\ i + 3 - 1 = i + 2 /\ i + 3 \in 1 .. n + 1
    BY <1>1, <1>7
  <2>2. f[i + 2].state = "OPTDAT" /\ Quiet_(i + 2)
    <3>1. Does(f[i + 1], s[i + 2], f[i + 2])
      BY <2>1
    <3>2. QED
      BY <1>3, <3>1, Zenon DEF Does
  <2>3. ASSUME NEW m \in i + 2 .. n, \A q \in i + 3 .. m : s[q] # "IAC"
        PROVE  f[m].state = "OPTDAT" /\ Quiet_(m)
    <3>1. PICK k : k = i + 3
      OBVIOUS
    <3>2. k \in 1 .. Len(s) + 1 /\ m \in k - 1 .. Len(s) /\ f[k - 1].state = "OPTDAT" /\ \A q \in k .. m : s[q] # "IAC"
      BY <2>1, <2>2, <2>3, <3>1
    <3>3. f[m].state = "OPTDAT" /\ f[m].out = f[k - 1].out /\ f[m].sent = f[k - 1].sent
      <4>1. Skips(f, s, k, m)
        BY <3>2, DataAreSkipped, Zenon
      <4>2. QED
        BY <3>2, <4>1, Zenon DEF Skips
    <3>4. k - 1 = i + 2
      BY <3>1
    <3>5. f[k - 1] = f[i + 2]
      BY <3>4
    <3>6. QED
      BY <2>2, <3>3, <3>5, Zenon
  <2>4. CASE \A q \in i + 3 .. n : s[q] # "IAC"
    <3>1. n \in i + 2 .. n
      BY <1>1, <1>7
    <3>2. Quiet_(n)
      BY <2>3, <2>4, <3>1, Zenon
    <3>3. DataEnd(s, i + 3) = 0
      <4>1. CASE i + 3 > n
        <5>1. i + 3 >= Len(s)
          BY <1>1, <4>1
        <5>2. QED
          BY <1>1, <5>1, EndAt, Zenon
      <4>2. CASE ~(i + 3 > n)
        <5>1. n \in i + 3 .. Len(s) /\ (\A q \in i + 3 .. n - 1 : s[q] # "IAC") /\ n >= Len(s)
          BY <1>1, <2>4, <4>2
        <5>2. DataEnd(s, i + 3) = DataEnd(s, n)
          BY <1>1, <5>1, EndIsThere, Zenon
        <5>3. DataEnd(s, n) = 0
          BY <1>1, <5>1, EndAt, Zenon
        <5>4. QED
          BY <5>2, <5>3
      <4>3. QED
        BY <4>1, <4>2
    <3>4. QED
      BY <1>5, <3>2, <3>3, Zenon
  <2>5. CASE \E q \in i + 3 .. n : s[q] = "IAC"
    <3>1. PICK j \in i + 3 .. n : s[j] = "IAC" /\ \A q \in i + 3 .. j - 1 : s[q] # "IAC"
      BY <1>1, <2>5, FirstIac, Zenon
    <3>2. j \in Nat /\ j \in 1 .. n /\ j - 1 \in i + 2 .. n /\ j <= n /\ j \in i + 3 .. n
      BY <1>1, <3>1
    <3>3. f[j - 1].state = "OPTDAT" /\ Quiet_(j - 1)
      BY <2>3, <3>1, <3>2, Zenon
    <3>4. f[j].state = "SE" /\ Quiet_(j)
      <4>1. Does(f[j - 1], s[j], f[j])
        BY <3>2
      <4>2. QED
        BY <3>1, <3>3, <4>1, Zenon DEF Does
    <3>5. DataEnd(s, i + 3) = DataEnd(s, j)
      BY <1>1, <3>1, <3>2, EndIsThere, Zenon
    <3>6. CASE j = n
      <4>1. DataEnd(s, j) = 0
        <5>1. j >= Len(s)
          BY <1>1, <3>6
        <5>2. QED
          BY <3>2, <5>1, EndAt, Zenon
      <4>2. QED
        BY <1>5, <3>4, <3>5, <3>6, <4>1, Zenon
    <3>7. CASE j < n
      <4>1. j + 1 \in 1 .. n /\ j + 1 - 1 = j /\ j \in i + 3 .. Len(s) - 1
        BY <1>1, <3>2, <3>7
      <4>2. s[j + 1] # "IAC"
        BY <3>1, <4>1, Zenon DEF DoubledAt
      <4>3. DataEnd(s, j) = j + 1
        BY <3>1, <3>2, <3>7, <4>2, EndAt, Zenon
      <4>4. f[j + 1].state = "NORMAL" /\ Quiet_(j + 1)
        <5>1. Does(f[j], s[j + 1], f[j + 1])
          BY <4>1
        <5>2. QED
          BY <3>4, <5>1, Zenon DEF Does
      <4>5. DataAt(s, i) = <<>> /\ AnswerAt(s, i) = <<>>
        BY DEF DataAt, AnswerAt, Verb
      <4>6. PICK p \in ParserState(B) : p = f[i - 1]
        BY <1>1
      <4>7. p.out \in Seq(B) /\ p.sent \in Seq(A)
        BY <4>6 DEF ParserState
      <4>8. p.out \o <<>> = p.out /\ p.sent \o <<>> = p.sent
        <5> HIDE DEF A
        <5>1. QED
          BY <4>7, ConcatEmptySeq, Zenon
      <4>9. PICK l : l = j + 2
        OBVIOUS
      <4>10. PICK e : e = j + 1
        OBVIOUS
      <4>11. ItemLength(s, i) = j + 1 - i + 1
        <5>1. j + 1 # 0
          BY <3>2
        <5>2. QED
          BY <1>4, <3>5, <4>3, <5>1
      <4>12. Reads(f, from, s, l) /\ l = i + ItemLength(s, i) /\ ItemLength(s, i) # 0 /\ e = l - 1
        BY <1>1, <3>2, <3>7, <4>9, <4>10, <4>11
      <4>13. Passes(f, s, i, e)
        BY <4>4, <4>5, <4>6, <4>8, <4>10, Zenon DEF Passes
      <4>14. QED
        BY <4>12, <4>13, ItemIsRead, Zenon
    <3>8. QED
      BY <3>2, <3>6, <3>7
  <2>6. QED
    BY <2>4, <2>5
<1>8. QED
  BY <1>1, <1>6, <1>7

\* What a parser puts out of a stream and what it answers is what the stream
\* means, if no subnegotiation holds a doubled IAC.
LEMMA ParsedIsMeant ==
    ASSUME NEW B, NEW s \in Seq(B), NEW f \in [0 .. Len(s) -> ParserState(B)], Runs(f, NewTermstate, s),
           ~MeaningOf(s).doubled
    PROVE  f[Len(s)].out = MeaningOf(s).data /\ f[Len(s)].sent = MeaningOf(s).answers
<1> DEFINE n == Len(s) + 1
<1>1. PICK from \in [Nat \ {0} -> Meanings(B)] : Means(from, s) /\ MeaningOf(s) = from[1]
  BY MeaningIs
<1>2. n \in Nat /\ Len(s) \in Nat /\ n = Len(s) + 1
  OBVIOUS
<1>3. \A j \in 1 .. Len(s) : Does(f[j - 1], s[j], f[j])
  <2>1. ASSUME NEW j \in 1 .. Len(s) PROVE Does(f[j - 1], s[j], f[j])
    <3>1. PICK p \in ParserState(B) : p = f[j - 1]
      OBVIOUS
    <3>2. PICK c \in B : c = s[j]
      OBVIOUS
    <3>3. f[j] = ParseByte(p, c)
      BY <3>1, <3>2 DEF Runs
    <3>4. Does(p, c, ParseByte(p, c))
      BY ByteDoes
    <3>5. QED
      BY <3>1, <3>2, <3>3, <3>4, Zenon
  <2>2. QED
    BY <2>1
<1> DEFINE S == {i \in Nat : i \in 1 .. n => Reads(f, from, s, i)}
<1> HIDE DEF n
<1>4. ASSUME NEW i \in Nat, i >= n PROVE i \in S
  <2>1. CASE i = n
    <3>1. i \in 1 .. Len(s) + 1 /\ i > Len(s) /\ i - 1 = Len(s)
      BY <1>2, <2>1
    <3>2. f[Len(s)] = f[i - 1]
      BY <3>1
    <3>3. Reads(f, from, s, i)
      BY <1>1, <3>1, <3>2, CutIsRead, Zenon
    <3>4. QED
      BY <3>3
  <2>2. CASE i > n
    BY <1>2, <2>2
  <2>3. QED
    BY <1>2, <1>4, <2>1, <2>2
<1>5. ASSUME NEW i \in Nat, i < n, \A j \in Nat : j > i => j \in S
      PROVE  i \in S
  <2> SUFFICES ASSUME i \in 1 .. n PROVE Reads(f, from, s, i)
    OBVIOUS
  <2>1. i \in 1 .. Len(s)
    BY <1>2, <1>5
  <2>2. \A l \in i + 1 .. Len(s) + 1 : Reads(f, from, s, l)
    <3>1. ASSUME NEW l \in i + 1 .. Len(s) + 1 PROVE Reads(f, from, s, l)
      <4>1. l \in Nat /\ l > i /\ l \in 1 .. n
        BY <1>2
      <4>2. l \in S
        BY <1>5, <4>1
      <4>3. QED
        BY <4>1, <4>2
    <3>2. QED
      BY <3>1, Zenon
  <2> HIDE DEF S
  <2>3. CASE f[i - 1].state # "NORMAL" \/ from[i].doubled
    BY <2>3 DEF Reads
  <2>4. CASE f[i - 1].state = "NORMAL" /\ ~from[i].doubled
    <3>1. CASE ~(i < Len(s) /\ s[i] = "IAC" /\ s[i + 1] = "SB")
      BY <1>1, <1>3, <2>1, <2>2, <2>4, <3>1, PlainItem, Zenon
    <3>2. CASE i < Len(s) /\ s[i] = "IAC" /\ s[i + 1] = "SB"
      <4>1. ~DoubledAt(s, i)
        <5>1. i \in Nat \ {0} /\ ~(i > Len(s))
          BY <2>1
        <5>2. from[i] = IF ItemLength(s, i) = 0
                        THEN [data |-> <<>>, answers |-> <<>>, doubled |-> DoubledAt(s, i)]
                        ELSE Joined(s, i, from[i + ItemLength(s, i)])
          BY <1>1, <5>1, Zenon DEF Means
        <5>3. CASE ItemLength(s, i) = 0
          <6>1. from[i].doubled = DoubledAt(s, i)
            BY <5>2, <5>3
          <6>2. QED
            BY <2>4, <6>1, Zenon
        <5>4. CASE ItemLength(s, i) # 0
          <6>1. PICK rest : rest = from[i + ItemLength(s, i)]
            OBVIOUS
          <6>2. PICK da, aa, db : da = DataAt(s, i) \o rest.data /\ aa = AnswerAt(s, i) \o rest.answers
                                  /\ db = (DoubledAt(s, i) \/ rest.doubled)
            OBVIOUS
          <6>3. from[i] = [data |-> da, answers |-> aa, doubled |-> db]
            BY <5>2, <5>4, <6>1, <6>2, Zenon DEF Joined
          <6>4. from[i].doubled = db
            BY <6>3
          <6>5. QED
            BY <2>4, <6>2, <6>4, Zenon
        <5>5. QED
          BY <5>3, <5>4
      <4>2. QED
        BY <1>1, <1>3, <2>1, <2>2, <2>4, <3>2, <4>1, DataItem, Zenon
    <3>3. QED
      BY <3>1, <3>2
  <2>5. QED
    BY <2>3, <2>4
<1> HIDE DEF S
<1>6. 1 \in S
  <2>1. \A i \in Nat : i \in S
    BY <1>2, <1>4, <1>5, CountDown, Zenon
  <2>2. QED
    BY <2>1
<1>7. 1 \in 1 .. n
  BY <1>2
<1>8. Reads(f, from, s, 1)
  BY <1>6, <1>7 DEF S
<1>9. f[0] = NewTermstate /\ f[1 - 1] = f[0] /\ 1 - 1 = 0
  BY DEF Runs
<1>10. f[0].state = "NORMAL" /\ f[0].out = <<>> /\ f[0].sent = <<>>
  BY <1>9 DEF NewTermstate
<1>11. PICK m \in Meanings(B) : m = from[1]
  BY <1>1
<1>12. <<>> \o m.data = m.data /\ <<>> \o m.answers = m.answers
  <2> DEFINE A == Seq(B \cup {"DO", "DONT", "WONT"})
  <2>1. m.data \in Seq(B) /\ m.answers \in Seq(A)
    BY DEF Meanings
  <2> HIDE DEF A
  <2>2. QED
    BY <2>1, ConcatEmptySeq, Zenon
<1>13. f[Len(s)].out = f[0].out \o m.data /\ f[Len(s)].sent = f[0].sent \o m.answers
  BY <1>1, <1>8, <1>9, <1>10, <1>11, Zenon DEF Reads
<1>14. QED
  BY <1>1, <1>10, <1>11, <1>12, <1>13, Zenon

\* What is parsed of a read: no more bytes come out than went in.
LEMMA ReadIs ==
    ASSUME NEW B, NEW t \in ParserState(B), t.out = <<>>, NEW s \in Seq(B)
    PROVE  ParseBytes(t, s) \in ParserState(B) /\ Len(ParseBytes(t, s).out) <= Len(s)
<1>1. PICK g \in [0 .. Len(s) -> ParserState(B)] : Runs(g, t, s) /\ ParseBytes(t, s) = g[Len(s)]
  BY ParseBytesIs
<1> DEFINE S == {j \in 0 .. Len(s) : Len(g[j].out) <= j}
<1>2. Len(s) \in Nat
  OBVIOUS
<1>3. 0 \in S
  BY <1>1, <1>2 DEF Runs
<1>4. ASSUME NEW j \in 1 .. Len(s), j - 1 \in S PROVE j \in S
  <2>1. PICK p \in ParserState(B) : p = g[j - 1]
    BY <1>4
  <2>2. PICK c \in B : c = s[j]
    OBVIOUS
  <2>3. g[j] = ParseByte(p, c)
    BY <1>1, <2>1, <2>2 DEF Runs
  <2>4. Len(g[j].out) <= Len(p.out) + 1
    BY <2>3, ByteIs, Zenon
  <2>5. Len(p.out) <= j - 1
    BY <1>4, <2>1
  <2>6. Len(p.out) \in Nat /\ Len(g[j].out) \in Nat
    <3>1. g[j] \in ParserState(B)
      BY <1>4
    <3>2. p.out \in Seq(B) /\ g[j].out \in Seq(B)
      BY <3>1 DEF ParserState
    <3>3. QED
      BY <3>2, LenProperties, Zenon
  <2>7. QED
    BY <2>4, <2>5, <2>6
<1> HIDE DEF S
<1>5. Len(s) \in S
  <2>1. \A j \in 0 .. Len(s) : j \in S
    BY <1>2, <1>3, <1>4, CountUp, Zenon
  <2>2. QED
    BY <1>2, <2>1
<1>6. g[Len(s)] \in ParserState(B)
  BY <1>2
<1>7. QED
  BY <1>1, <1>5, <1>6 DEF S

\* A read of k bytes takes the parser of a stream w from m to m + k.
LEMMA ReadFollows ==
    ASSUME NEW B, NEW w \in Seq(B), NEW f \in [0 .. Len(w) -> ParserState(B)], Runs(f, NewTermstate, w),
           NEW m \in 0 .. Len(w), NEW k \in 0 .. Len(w) - m,
           NEW t \in ParserState(B), NEW a \in Seq(B), Follows(t, a, f[m]),
           NEW s \in Seq(B), Len(s) = k, \A j \in 1 .. k : s[j] = w[m + j]
    PROVE  Follows(ParseBytes(t, s), a, f[m + k])
<1>1. PICK g \in [0 .. k -> ParserState(B)] : Runs(g, t, s) /\ ParseBytes(t, s) = g[k]
  BY ParseBytesIs
<1> DEFINE S == {j \in 0 .. k : Follows(g[j], a, f[m + j])}
<1>2. 0 \in S
  <2>1. g[0] = t /\ m + 0 = m /\ 0 \in 0 .. k
    BY <1>1 DEF Runs
  <2>2. QED
    BY <2>1
<1>3. ASSUME NEW j \in 1 .. k, j - 1 \in S PROVE j \in S
  <2>1. PICK p \in ParserState(B) : p = g[j - 1]
    BY <1>3
  <2>2. m + (j - 1) \in 0 .. Len(w) /\ m + j \in 1 .. Len(w) /\ m + j - 1 = m + (j - 1)
    OBVIOUS
  <2>3. PICK q \in ParserState(B) : q = f[m + (j - 1)]
    BY <2>2
  <2>4. PICK c \in B : c = s[j]
    OBVIOUS
  <2>5. g[j] = ParseByte(p, c) /\ f[m + j] = ParseByte(q, c)
    <3>1. g[j] = ParseByte(p, c)
      BY <1>1, <2>1, <2>4 DEF Runs
    <3>2. f[m + j] = ParseByte(f[m + j - 1], w[m + j])
      BY <2>2 DEF Runs
    <3>3. f[m + j - 1] = q
      BY <2>2, <2>3
    <3>4. w[m + j] = c
      BY <2>4
    <3>5. QED
      BY <3>1, <3>2, <3>3, <3>4, Zenon
  <2>6. Follows(p, a, q)
    BY <1>3, <2>1, <2>3
  <2>7. Follows(ParseByte(p, c), a, ParseByte(q, c))
    BY <2>6, ByteFollows, Zenon
  <2>8. QED
    BY <2>5, <2>7
<1> HIDE DEF S
<1>4. k \in S
  <2>1. k \in Nat
    OBVIOUS
  <2>2. \A j \in 0 .. k : j \in S
    BY <1>2, <1>3, <2>1, CountUp, Zenon
  <2>3. QED
    BY <2>1, <2>2
<1>5. QED
  BY <1>1, <1>4 DEF S

-----------------------------------------------------------------------------
\* A telnet session

AtEnd == loop \in {"end", "wait", "over"}

\* The shell's lines: shown, read and queued are all of them, in order.
LinesInv ==
    /\ printed \in Nat /\ ptyq \in Seq(Nat) /\ bo \in Seq(Nat) /\ shown \in Seq(Nat)
    /\ OutputInOrder

\* A loop that is left for the shell's sake finds no more of its output: the
\* shell that is gone prints nothing.
DrainedInv == AtEnd /\ ~stopped /\ ~killed => ptyq = <<>> /\ shell # "running"

\* How far the client's bytes are; without telnet commands they are typed as
\* they come.
BytesInv ==
    /\ stream \in Streams
    /\ pos \in 0 .. Len(stream) /\ dropped \in 0 .. pos
    /\ loop = "start" => typed = <<>> /\ bi = <<>>
    /\ ~istelnet => /\ typed \in Seq(ToSet(stream)) /\ bi \in Seq(ToSet(stream))
                    /\ ~(AtEnd /\ bi # <<>>) => typed \o bi = SubSeq(stream, dropped + 1, pos)

\* The parser is where f is, which parses the stream from the handshake on; what
\* has come out of it is typed or will be.
Handled ==
    \E f \in [0 .. Len(stream) - dropped -> ParserState(ToSet(stream))] :
        /\ Runs(f, NewTermstate, SubSeq(stream, dropped + 1, Len(stream)))
        /\ Follows(ts, f[pos - dropped].out, f[pos - dropped])
        /\ ~(AtEnd /\ bi # <<>>) => typed \o bi = f[pos - dropped].out

ParserInv ==
    /\ ts \in ParserState(ToSet(stream)) /\ ts.out = <<>>
    /\ loop = "start" => ts = NewTermstate
    /\ typed \in Seq(ToSet(stream)) /\ bi \in Seq(ToSet(stream)) /\ Len(bi) <= Len(stream)
    /\ istelnet /\ ~reparsed => Handled

\* Where everybody is.
ControlInv ==
    /\ printed \in 0 .. Prints
    /\ shell \in {"running", "zombie", "reaped"} /\ peer \in {"none", "running", "zombie", "reaped"}
    /\ client \in {"there", "closed", "gone"}
    /\ killed \in BOOLEAN /\ sigs \in BOOLEAN /\ heeded \in BOOLEAN /\ stopped \in BOOLEAN /\ reparsed \in BOOLEAN
    /\ loop \in {"start", "select", "out", "write", "end", "wait", "over"}

SessionInv == LinesInv /\ DrainedInv /\ BytesInv /\ ParserInv /\ ControlInv

\* A part of a sequence, and two adjacent parts.
LEMMA PartIs ==
    ASSUME NEW S, NEW s \in Seq(S), NEW m \in 1 .. Len(s) + 1, NEW n \in m - 1 .. Len(s)
    PROVE  SubSeq(s, m, n) \in Seq(S) /\ Len(SubSeq(s, m, n)) = n - m + 1
<1>1. \A i \in 1 .. Len(s) : s[i] \in S
  BY ElementOfSeq, Zenon
<1>2. ASSUME NEW i \in m .. n PROVE s[i] \in S
  <2>1. i \in 1 .. Len(s)
    OBVIOUS
  <2>2. QED
    BY <1>1, <2>1, Zenon
<1>3. m \in Int /\ n \in Int
  OBVIOUS
<1>4. /\ SubSeq(s, m, n) \in Seq(S)
      /\ Len(SubSeq(s, m, n)) = (IF m <= n THEN n - m + 1 ELSE 0)
  BY <1>2, <1>3, SubSeqProperties
<1>5. (IF m <= n THEN n - m + 1 ELSE 0) = n - m + 1
  OBVIOUS
<1>6. QED
  BY <1>4, <1>5

\* What is split off the front of a sequence, and the rest of it.
LEMMA SplitIs ==
    ASSUME NEW S, NEW s \in Seq(S), NEW n \in 0 .. Len(s)
    PROVE  /\ SubSeq(s, 1, n) \in Seq(S) /\ SubSeq(s, n + 1, Len(s)) \in Seq(S)
           /\ SubSeq(s, 1, n) \o SubSeq(s, n + 1, Len(s)) = s
<1>1. 1 \in 1 .. Len(s) + 1 /\ n \in 1 - 1 .. Len(s) /\ Len(s) \in n .. Len(s)
  OBVIOUS
<1>2. n + 1 \in 1 .. Len(s) + 1 /\ Len(s) \in (n + 1) - 1 .. Len(s)
  OBVIOUS
<1>3. SubSeq(s, 1, n) \in Seq(S)
  BY <1>1, PartIs
<1>4. SubSeq(s, n + 1, Len(s)) \in Seq(S)
  BY <1>2, PartIs
<1>5. SubSeq(s, 1, n) \o SubSeq(s, n + 1, Len(s)) = SubSeq(s, 1, Len(s))
  BY <1>1, ConcatAdjacentSubSeq, Zenon
<1>6. SubSeq(s, 1, Len(s)) = s
  BY SubSeqFull
<1>7. QED
  BY <1>3, <1>4, <1>5, <1>6

\* A part moved from the front of one sequence to the end of the one before it.
LEMMA MoveIs ==
    ASSUME NEW S, NEW u \in Seq(S), NEW s \in Seq(S), NEW n \in 0 .. Len(s)
    PROVE  /\ u \o SubSeq(s, 1, n) \in Seq(S)
           /\ (u \o SubSeq(s, 1, n)) \o SubSeq(s, n + 1, Len(s)) = u \o s
<1>1. PICK a \in Seq(S) : a = SubSeq(s, 1, n)
  BY SplitIs, Zenon
<1>2. PICK b \in Seq(S) : b = SubSeq(s, n + 1, Len(s))
  BY SplitIs, Zenon
<1>3. a \o b = s
  BY <1>1, <1>2, SplitIs, Zenon
<1>4. u \o a \in Seq(S) /\ (u \o a) \o b = u \o (a \o b)
  <2>1. a \in Seq(S) /\ b \in Seq(S)
    BY <1>1, <1>2, Zenon
  <2>2. QED
    <3>1. Associates(u, a, b) /\ u \o a \in Seq(S)
      BY <2>1, JoiningIs, ConcatProperties, Zenon
    <3>2. QED
      BY <3>1, Zenon DEF Associates
<1>5. QED
  BY <1>1, <1>2, <1>3, <1>4, Zenon

\* A parser for the rest of a stream.
LEMMA FreshParser ==
    ASSUME NEW B, NEW s \in Seq(B), NEW d \in 0 .. Len(s)
    PROVE  \E f \in [0 .. Len(s) - d -> ParserState(B)] :
               /\ Runs(f, NewTermstate, SubSeq(s, d + 1, Len(s)))
               /\ f[0] = NewTermstate /\ Follows(NewTermstate, f[0].out, f[0])
<1>1. PICK w \in Seq(B) : w = SubSeq(s, d + 1, Len(s)) /\ Len(w) = Len(s) - d
  <2>1. d + 1 \in 1 .. Len(s) + 1 /\ Len(s) \in (d + 1) - 1 .. Len(s) /\ Len(s) - (d + 1) + 1 = Len(s) - d
    OBVIOUS
  <2>2. /\ SubSeq(s, d + 1, Len(s)) \in Seq(B)
        /\ Len(SubSeq(s, d + 1, Len(s))) = Len(s) - (d + 1) + 1
    BY <2>1, PartIs, Zenon
  <2>3. QED
    BY <2>1, <2>2, Zenon
<1>2. NewTermstate \in ParserState(B)
  BY NewTermstateIs
<1>3. PICK f \in [0 .. Len(w) -> ParserState(B)] : Runs(f, NewTermstate, w)
  BY <1>2, ParseBytesIs, Zenon
<1>4. f[0] = NewTermstate
  BY <1>3, Zenon DEF Runs
<1>5. Follows(NewTermstate, NewTermstate.out, NewTermstate)
  <2>1. NewTermstate.out = <<>> /\ <<>> \o <<>> = <<>>
    BY DEF NewTermstate
  <2>2. QED
    BY <2>1, Zenon DEF Follows
<1>6. QED
  BY <1>1, <1>3, <1>4, <1>5, Zenon

\* What is parsed in a turn, and what comes out of it.
LEMMA TurnIs ==
    ASSUME BytesInv, ParserInv, NEW k \in 0 .. Len(stream) - pos
    PROVE  /\ Fresh(k) \in Seq(ToSet(stream)) /\ Len(Fresh(k)) <= Len(stream)
           /\ bi = <<>> => Len(Fresh(k)) = k /\ \A j \in 1 .. k : Fresh(k)[j] = stream[pos + j]
           /\ Parsed(k) \in ParserState(ToSet(stream)) /\ Len(Parsed(k).out) <= Len(stream)
           /\ istelnet => Parsed(k) = ParseBytes(ts, Fresh(k))
<1>1. stream \in Seq(ToSet(stream)) /\ pos \in 0 .. Len(stream)
  BY StreamsAssumption, Zenon DEF BytesInv
<1>2. PICK B : B = ToSet(stream)
  OBVIOUS
<1>3. stream \in Seq(B) /\ ts \in ParserState(B) /\ ts.out = <<>> /\ bi \in Seq(B) /\ Len(bi) <= Len(stream)
  BY <1>1, <1>2 DEF ParserInv
<1>4. PICK f \in Seq(B) : f = SubSeq(stream, pos + 1, pos + k) /\ Len(f) = k
  <2>1. pos + 1 \in 1 .. Len(stream) + 1 /\ pos + k \in (pos + 1) - 1 .. Len(stream) /\ (pos + k) - (pos + 1) + 1 = k
    BY <1>1
  <2>2. /\ SubSeq(stream, pos + 1, pos + k) \in Seq(B)
        /\ Len(SubSeq(stream, pos + 1, pos + k)) = (pos + k) - (pos + 1) + 1
    BY <1>3, <2>1, PartIs, Zenon
  <2>3. QED
    BY <2>1, <2>2, Zenon
<1>5. \A j \in 1 .. k : f[j] = stream[pos + j]
  <2>1. \A i \in pos + 1 .. pos + k : stream[i] \in B
    <3>1. \A i \in 1 .. Len(stream) : stream[i] \in B
      BY <1>3, ElementOfSeq, Zenon
    <3>2. \A i \in pos + 1 .. pos + k : i \in 1 .. Len(stream)
      BY <1>1
    <3>3. QED
      BY <3>1, <3>2, Zenon
  <2>2. pos + 1 \in Int /\ pos + k \in Int
    BY <1>1
  <2>3. \A i \in 1 .. (pos + k) - (pos + 1) + 1 : f[i] = stream[pos + 1 + i - 1]
    BY <1>4, <2>1, <2>2, SubSeqProperties
  <2>4. \A i \in 1 .. k : i \in 1 .. (pos + k) - (pos + 1) + 1 /\ pos + 1 + i - 1 = pos + i
    BY <1>1
  <2>5. QED
    BY <2>3, <2>4
<1>6. Fresh(k) = IF bi = <<>> THEN f ELSE bi
  BY <1>4, Zenon DEF Fresh
<1>7. /\ Fresh(k) \in Seq(B) /\ Len(Fresh(k)) <= Len(stream)
      /\ bi = <<>> => Len(Fresh(k)) = k /\ \A j \in 1 .. k : Fresh(k)[j] = stream[pos + j]
  <2>1. k <= Len(stream)
    BY <1>1
  <2>2. QED
    BY <1>3, <1>4, <1>5, <1>6, <2>1
<1>8. PICK fresh \in Seq(B) : fresh = Fresh(k)
  BY <1>7
<1>9. ASSUME istelnet PROVE Parsed(k) = ParseBytes(ts, fresh)
  <2>1. [ts EXCEPT !.out = <<>>] = ts
    BY <1>3 DEF ParserState
  <2>2. Parsed(k) = ParseBytes([ts EXCEPT !.out = <<>>], fresh)
    BY <1>8, <1>9, Zenon DEF Parsed, parse
  <2>3. QED
    BY <2>1, <2>2, Zenon
<1>10. Len(fresh) \in Nat /\ Len(fresh) <= Len(stream) /\ Len(stream) \in Nat
  BY <1>3, <1>7, <1>8
<1>11. CASE istelnet
  <2>1. PICK r : r = ParseBytes(ts, fresh)
    OBVIOUS
  <2>2. r \in ParserState(B) /\ Len(r.out) <= Len(fresh)
    BY <1>3, <2>1, ReadIs, Zenon
  <2>3. Len(r.out) \in Nat
    <3>1. r.out \in Seq(B)
      BY <2>2 DEF ParserState
    <3>2. QED
      BY <3>1, LenProperties, Zenon
  <2>4. Len(r.out) <= Len(stream)
    BY <1>10, <2>2, <2>3
  <2>5. QED
    BY <1>2, <1>7, <1>8, <1>9, <1>11, <2>1, <2>2, <2>4, Zenon
<1>12. CASE ~istelnet
  <2>1. Parsed(k) = [ts EXCEPT !.out = fresh]
    BY <1>8, <1>12, Zenon DEF Parsed
  <2>2. [ts EXCEPT !.out = fresh] \in ParserState(B) /\ [ts EXCEPT !.out = fresh].out = fresh
    BY <1>3 DEF ParserState
  <2>3. QED
    BY <1>2, <1>7, <1>8, <1>10, <1>12, <2>1, <2>2, Zenon
<1>13. QED
  BY <1>11, <1>12

\* Nothing is read or typed: the parser stays where it is.
LEMMA ParserUntouched ==
    ASSUME ParserInv, UNCHANGED inputVars, AtEnd => AtEnd', loop' = "start" => loop = "start"
    PROVE  ParserInv'
<1>1. /\ stream' = stream /\ pos' = pos /\ dropped' = dropped /\ istelnet' = istelnet /\ ts' = ts
      /\ bi' = bi /\ typed' = typed /\ reparsed' = reparsed
  BY DEF inputVars
<1>2. Handled => Handled'
  BY <1>1, Zenon DEF Handled
<1>3. QED
  BY <1>1, <1>2, Zenon DEF ParserInv

\* A record of the parser's without its output.
LEMMA EmptiedIs ==
    ASSUME NEW B, NEW r \in ParserState(B), NEW e, e = [r EXCEPT !.out = <<>>]
    PROVE  /\ e \in ParserState(B) /\ e.out = <<>>
           /\ \A a, u : Follows(r, a, u) /\ u \in ParserState(B) => Follows(e, u.out, u)
<1> DEFINE A == Seq(Seq(B \cup {"DO", "DONT", "WONT"}))
           Sizes == [1 .. 2 -> B \cup Nat]
<1>1. e \in ParserState(B) /\ e.out = <<>>
  <2>1. /\ r \in [state : {"NORMAL", "IAC", "OPT", "SB", "OPTDAT", "SE"}, code : B \cup {"NUL"},
                  optdata : Seq(B), size : Sizes, out : Seq(B), sent : A]
        /\ Len(r.optdata) <= OptdataSize
    BY DEF ParserState
  <2> HIDE DEF A, Sizes
  <2>2. <<>> \in Seq(B)
    OBVIOUS
  <2>3. /\ e \in [state : {"NORMAL", "IAC", "OPT", "SB", "OPTDAT", "SE"}, code : B \cup {"NUL"},
                  optdata : Seq(B), size : Sizes, out : Seq(B), sent : A]
        /\ e.optdata = r.optdata /\ e.out = <<>>
    BY <2>1, <2>2
  <2>4. QED
    BY <2>1, <2>3, Zenon DEF ParserState, A, Sizes
<1>2. e.state = r.state /\ e.code = r.code /\ e.optdata = r.optdata /\ e.size = r.size /\ e.sent = r.sent
  BY DEF ParserState
<1>3. ASSUME NEW a, NEW u \in ParserState(B), Follows(r, a, u) PROVE Follows(e, u.out, u)
  <2>1. u.out \in Seq(B)
    BY DEF ParserState
  <2>2. u.out \o <<>> = u.out
    BY <2>1, ConcatEmptySeq, Zenon
  <2>3. QED
    BY <1>1, <1>2, <1>3, <2>2, Zenon DEF Follows
<1>4. QED
  BY <1>1, <1>3, Zenon

\* The session at its start.
LEMMA SessionInit_Inv ==
    ASSUME SessionInit PROVE SessionInv
<1>1. LinesInv
  <2>1. /\ <<>> \in Seq(Nat) /\ <<>> \o <<>> \o <<>> = <<>> /\ [i \in 1 .. 0 |-> i] = <<>>
    OBVIOUS
  <2>2. QED
    BY <2>1 DEF SessionInit, LinesInv, OutputInOrder
<1>2. DrainedInv
  BY DEF SessionInit, DrainedInv, AtEnd
<1>3. BytesInv
  BY StreamsAssumption DEF SessionInit, BytesInv
<1>4. ParserInv
  <2>1. /\ stream \in Seq(ToSet(stream)) /\ pos = 0 /\ dropped = 0 /\ ts = NewTermstate
        /\ typed = <<>> /\ bi = <<>>
    BY StreamsAssumption, Zenon DEF SessionInit
  <2>2. ts \in ParserState(ToSet(stream)) /\ ts.out = <<>>
    <3>1. NewTermstate \in ParserState(ToSet(stream))
      BY NewTermstateIs
    <3>2. NewTermstate.out = <<>>
      BY DEF NewTermstate
    <3>3. QED
      BY <2>1, <3>1, <3>2, Zenon
  <2>3. <<>> \in Seq(ToSet(stream)) /\ Len(<<>>) <= Len(stream) /\ 0 \in 0 .. Len(stream)
    BY <2>1
  <2>4. Handled
    <3>1. PICK f \in [0 .. Len(stream) - 0 -> ParserState(ToSet(stream))] :
            /\ Runs(f, NewTermstate, SubSeq(stream, 0 + 1, Len(stream)))
            /\ f[0] = NewTermstate /\ Follows(NewTermstate, f[0].out, f[0])
      BY <2>1, <2>3, FreshParser, Zenon
    <3>2. f[0].out = <<>> /\ <<>> \o <<>> = <<>>
      BY <3>1 DEF NewTermstate
    <3>3. pos - dropped = 0
      BY <2>1
    <3>4. QED
      BY <2>1, <3>1, <3>2, <3>3, Zenon DEF Handled
  <2>5. QED
    BY <2>1, <2>2, <2>3, <2>4, Zenon DEF ParserInv
<1>5. ControlInv
  <2>1. printed \in 0 .. Prints
    BY StreamsAssumption DEF SessionInit
  <2>2. shell = "running" /\ client = "there" /\ loop = "start" /\ peer \in {"none", "running"}
    BY Zenon DEF SessionInit
  <2>3. killed \in BOOLEAN /\ sigs \in BOOLEAN /\ heeded \in BOOLEAN /\ stopped \in BOOLEAN /\ reparsed \in BOOLEAN
    BY Zenon DEF SessionInit
  <2>4. /\ shell \in {"running", "zombie", "reaped"} /\ peer \in {"none", "running", "zombie", "reaped"}
        /\ client \in {"there", "closed", "gone"}
        /\ loop \in {"start", "select", "out", "write", "end", "wait", "over"}
    BY <2>2
  <2>5. QED
    BY <2>1, <2>3, <2>4, Zenon DEF ControlInv
<1>6. QED
  BY <1>1, <1>2, <1>3, <1>4, <1>5, Zenon DEF SessionInv

\* Lines are read from the pty, written to the socket, printed.
LEMMA LinesStay ==
    ASSUME LinesInv, SessionNext PROVE LinesInv'
<1>1. CASE UNCHANGED outputVars
  BY <1>1 DEF LinesInv, OutputInOrder, outputVars
<1>2. CASE ReadPty
  <2>1. PICK k \in 1 .. Len(ptyq) : bo' = SubSeq(ptyq, 1, k) /\ ptyq' = SubSeq(ptyq, k + 1, Len(ptyq))
    BY <1>2 DEF ReadPty
  <2>2. bo = <<>> /\ shown' = shown /\ printed' = printed
    BY <1>2 DEF ReadPty
  <2>3. k \in 0 .. Len(ptyq) /\ ptyq \in Seq(Nat) /\ shown \in Seq(Nat)
    BY DEF LinesInv
  <2>4. ptyq' \in Seq(Nat) /\ bo' \in Seq(Nat)
    BY <2>1, <2>3, SplitIs, Zenon
  <2>5. (shown \o bo') \o ptyq' = shown \o ptyq
    BY <2>1, <2>3, MoveIs, Zenon
  <2>6. shown \o bo = shown
    BY <2>2, <2>3, ConcatEmptySeq, Zenon
  <2>7. QED
    BY <2>2, <2>4, <2>5, <2>6 DEF LinesInv, OutputInOrder
<1>3. CASE WriteSocket
  <2>1. PICK n \in 0 .. Len(bo) : shown' = shown \o SubSeq(bo, 1, n) /\ bo' = SubSeq(bo, n + 1, Len(bo))
    BY <1>3, Zenon DEF WriteSocket
  <2>2. ptyq' = ptyq /\ printed' = printed
    BY <1>3, Zenon DEF WriteSocket
  <2>3. bo \in Seq(Nat) /\ shown \in Seq(Nat)
    BY DEF LinesInv
  <2>4. bo' \in Seq(Nat)
    BY <2>1, <2>3, SplitIs, Zenon
  <2>5. shown' \in Seq(Nat) /\ shown' \o bo' = shown \o bo
    BY <2>1, <2>3, MoveIs, Zenon
  <2>6. QED
    BY <2>2, <2>4, <2>5 DEF LinesInv, OutputInOrder
<1>4. CASE ShellPrints
  <2>1. printed' = printed + 1 /\ ptyq' = Append(ptyq, printed + 1) /\ bo' = bo /\ shown' = shown
    BY <1>4, Zenon DEF ShellPrints
  <2>2. PICK u \in Seq(Nat) : u = shown \o bo
    BY ConcatProperties, Zenon DEF LinesInv
  <2>3. PICK w \in Seq(Nat) : w = u \o ptyq
    BY ConcatProperties, Zenon DEF LinesInv
  <2>4. w = [i \in 1 .. printed |-> i] /\ printed \in Nat /\ ptyq \in Seq(Nat)
    BY <2>2, <2>3, Zenon DEF LinesInv, OutputInOrder
  <2>5. PICK e \in Nat : e = printed + 1
    BY <2>4
  <2>6. PICK one : one = <<e>>
    OBVIOUS
  <2>7. one \in Seq(Nat) /\ Append(ptyq, e) = ptyq \o one /\ Append(w, e) = w \o one
    BY <2>4, <2>6
  <2>8. w \o one = u \o (ptyq \o one)
    <3>1. u \in Seq(Nat) /\ ptyq \in Seq(Nat) /\ one \in Seq(Nat)
      BY <2>2, <2>4, <2>7, Zenon
    <3>2. (u \o ptyq) \o one = u \o (ptyq \o one)
      <4>1. Associates(u, ptyq, one)
        BY <3>1, JoiningIs, Zenon
      <4>2. QED
        BY <4>1, Zenon DEF Associates
    <3>3. QED
      BY <2>3, <3>2, Zenon
  <2>9. Append(w, e) = [i \in 1 .. e |-> i]
    BY <2>4, <2>5
  <2>10. ptyq' \in Seq(Nat) /\ printed' \in Nat /\ ptyq' = Append(ptyq, e) /\ printed' = e
    BY <2>1, <2>4, <2>5
  <2>11. shown' \o bo' \o ptyq' = [i \in 1 .. printed' |-> i]
    BY <2>1, <2>2, <2>7, <2>8, <2>9, <2>10, Zenon
  <2>12. QED
    BY <2>1, <2>10, <2>11 DEF LinesInv, OutputInOrder
<1>5. UNCHANGED outputVars \/ ReadPty \/ WriteSocket \/ ShellPrints
  BY Zenon DEF SessionNext, Handshake, Input, InputInterrupted, Timeout, ResumeWrite, StillPending, WriteFails, Written,
     OutputDone, Stop, Quit, Wait, SessionSigdead, ShellEnds, PeerEnds, Leave, outputVars
<1>6. QED
  BY <1>1, <1>2, <1>3, <1>4, <1>5

\* Nothing is queued behind a loop that was left for the shell's sake.
LEMMA DrainedStays ==
    ASSUME LinesInv, DrainedInv, SessionNext PROVE DrainedInv'
<1>1. killed => killed'
  BY Zenon DEF SessionNext, Handshake, Input, InputInterrupted, Timeout, ReadPty, ResumeWrite, WriteSocket, WriteFails,
     Written, OutputDone, Stop, Quit, Wait, SessionSigdead, ShellPrints, ShellEnds, PeerEnds, Leave, childVars
<1>2. stopped => stopped'
  BY Zenon DEF SessionNext, Handshake, Input, InputInterrupted, Timeout, ReadPty, ResumeWrite, WriteSocket, WriteFails,
     Written, OutputDone, Stop, Quit, Wait, SessionSigdead, ShellPrints, ShellEnds, PeerEnds, Leave, childVars
<1>3. shell # "running" => shell' # "running"
  <2>1. shell' = shell \/ shell' \in {"zombie", "reaped"}
    BY Zenon DEF SessionNext, Handshake, Input, InputInterrupted, Timeout, ReadPty, ResumeWrite, WriteSocket, WriteFails,
       Written, OutputDone, Stop, Quit, Wait, SessionSigdead, ShellPrints, ShellEnds, PeerEnds, Leave, childVars
  <2>2. QED
    BY <2>1
<1>4. ptyq' = ptyq \/ ReadPty \/ ShellPrints
  BY Zenon DEF SessionNext, Handshake, Input, InputInterrupted, Timeout, ResumeWrite, StillPending, WriteSocket, WriteFails,
     Written, OutputDone, Stop, Quit, Wait, SessionSigdead, ShellEnds, PeerEnds, Leave, childVars, outputVars
<1>5. CASE AtEnd
  <2>1. ~ReadPty /\ (ShellPrints => shell = "running")
    BY <1>5 DEF ReadPty, ShellPrints, AtEnd
  <2>2. QED
    BY <1>1, <1>2, <1>3, <1>4, <1>5, <2>1, Zenon DEF DrainedInv
<1>6. CASE ~AtEnd /\ AtEnd'
  <2>1. loop \notin {"end", "wait", "over"} /\ loop' \in {"end", "wait", "over"}
    BY <1>6 DEF AtEnd
  <2>2. CASE Input
    <3>1. loop' = "out" \/ killed' = TRUE
      BY <2>2, Zenon DEF Input
    <3>2. QED
      BY <2>1, <3>1 DEF DrainedInv
  <2>3. CASE OutputDone
    BY <2>1, <2>3 DEF OutputDone, outputVars, childVars, DrainedInv
  <2>4. CASE Stop
    BY <2>4 DEF Stop, childVars, DrainedInv
  <2>5. CASE Handshake \/ InputInterrupted \/ Timeout \/ ReadPty \/ ResumeWrite \/ WriteFails \/ Written \/ Quit \/ Wait
    BY <2>1, <2>5 DEF Handshake, InputInterrupted, Timeout, ReadPty, ResumeWrite, WriteFails, Written, Quit, Wait
  <2>6. CASE WriteSocket
    BY <2>1, <2>6 DEF WriteSocket
  <2>7. CASE SessionSigdead \/ ShellPrints \/ ShellEnds \/ PeerEnds \/ Leave
    <3>1. loop' = loop
      BY <2>7, Zenon DEF SessionSigdead, ShellPrints, ShellEnds, PeerEnds, Leave
    <3>2. QED
      BY <2>1, <3>1
  <2>8. QED
    BY <2>2, <2>3, <2>4, <2>5, <2>6, <2>7 DEF SessionNext
<1>7. CASE ~AtEnd'
  BY <1>7 DEF DrainedInv
<1>8. QED
  BY <1>5, <1>6, <1>7

\* The bytes stay right while no more are read.
LEMMA BytesUntouched ==
    ASSUME BytesInv, UNCHANGED inputVars, AtEnd => AtEnd', loop' = "start" => loop = "start"
    PROVE  BytesInv'
<1>1. /\ stream' = stream /\ pos' = pos /\ dropped' = dropped /\ istelnet' = istelnet
      /\ bi' = bi /\ typed' = typed
  BY DEF inputVars
<1>2. /\ stream \in Streams /\ pos \in 0 .. Len(stream) /\ dropped \in 0 .. pos
      /\ loop = "start" => typed = <<>> /\ bi = <<>>
      /\ ~istelnet => /\ typed \in Seq(ToSet(stream)) /\ bi \in Seq(ToSet(stream))
                      /\ ~(AtEnd /\ bi # <<>>) => typed \o bi = SubSeq(stream, dropped + 1, pos)
  BY Zenon DEF BytesInv
<1>3. /\ stream' \in Streams /\ pos' \in 0 .. Len(stream') /\ dropped' \in 0 .. pos'
      /\ loop' = "start" => typed' = <<>> /\ bi' = <<>>
      /\ ~istelnet' => /\ typed' \in Seq(ToSet(stream')) /\ bi' \in Seq(ToSet(stream'))
                       /\ ~(AtEnd' /\ bi' # <<>>) => typed' \o bi' = SubSeq(stream', dropped' + 1, pos')
  BY <1>1, <1>2, Zenon
<1>4. QED
  BY <1>3, Zenon DEF BytesInv

\* What is parsed in a turn, when there are no telnet commands.
LEMMA PlainIs ==
    ASSUME BytesInv, ~istelnet, ~AtEnd, NEW k \in 0 .. Len(stream) - pos, k = 0 <=> (pos = Len(stream) \/ bi # <<>>)
    PROVE  /\ Parsed(k).out = Fresh(k) /\ Fresh(k) \in Seq(ToSet(stream))
           /\ typed \o Fresh(k) = SubSeq(stream, dropped + 1, pos + k)
<1>1. stream \in Seq(ToSet(stream)) /\ pos \in 0 .. Len(stream) /\ dropped \in 0 .. pos
  BY StreamsAssumption, Zenon DEF BytesInv
<1>2. /\ typed \in Seq(ToSet(stream)) /\ bi \in Seq(ToSet(stream))
      /\ typed \o bi = SubSeq(stream, dropped + 1, pos)
  BY Zenon DEF BytesInv
<1>3. Parsed(k).out = Fresh(k)
  <2>1. PICK f : f = Fresh(k)
    OBVIOUS
  <2>2. Parsed(k) = [ts EXCEPT !.out = f]
    BY <2>1, Zenon DEF Parsed
  <2>3. QED
    BY <2>1, <2>2
<1>4. CASE bi # <<>>
  <2>1. k = 0 /\ Fresh(k) = bi
    BY <1>4 DEF Fresh
  <2>2. pos + k = pos
    BY <1>1, <2>1
  <2>3. QED
    BY <1>2, <1>3, <2>1, <2>2, Zenon
<1>5. CASE bi = <<>>
  <2>1. PICK f : f = SubSeq(stream, pos + 1, pos + k)
    OBVIOUS
  <2>2. Fresh(k) = f
    BY <1>5, <2>1, Zenon DEF Fresh
  <2>3. pos + 1 \in 1 .. Len(stream) + 1 /\ pos + k \in (pos + 1) - 1 .. Len(stream)
    BY <1>1
  <2>4. f \in Seq(ToSet(stream))
    BY <1>1, <2>1, <2>3, PartIs, Zenon
  <2>5. dropped + 1 \in 1 .. Len(stream) + 1 /\ pos \in (dropped + 1) - 1 .. Len(stream) /\ pos + k \in pos .. Len(stream)
    BY <1>1
  <2>6. SubSeq(stream, dropped + 1, pos) \o SubSeq(stream, pos + 1, pos + k) = SubSeq(stream, dropped + 1, pos + k)
    BY <1>1, <2>5, ConcatAdjacentSubSeq, Zenon
  <2>7. typed = SubSeq(stream, dropped + 1, pos)
    <3>1. typed \o <<>> = typed
      BY <1>2, ConcatEmptySeq, Zenon
    <3>2. QED
      BY <1>2, <1>5, <3>1, Zenon
  <2>8. QED
    BY <1>3, <2>1, <2>2, <2>4, <2>6, <2>7, Zenon
<1>6. QED
  BY <1>4, <1>5

\* Bytes are read, parsed and typed.
LEMMA BytesStay ==
    ASSUME BytesInv, SessionNext PROVE BytesInv'
<1>1. CASE Handshake
  <2>1. PICK k \in 0 .. Len(stream) : pos' = k /\ dropped' = k
    BY <1>1, Zenon DEF Handshake
  <2>2. /\ loop = "start" /\ loop' = "select" /\ stream' = stream /\ typed' = typed /\ bi' = bi
    BY <1>1, Zenon DEF Handshake
  <2>3. typed' = <<>> /\ bi' = <<>> /\ stream' \in Streams /\ Len(stream) \in Nat
    BY <2>2, StreamsAssumption DEF BytesInv
  <2>4. SubSeq(stream', dropped' + 1, pos') = <<>>
    BY <2>1, SubSeqEmpty
  <2>5. <<>> \o <<>> = <<>> /\ <<>> \in Seq(ToSet(stream'))
    OBVIOUS
  <2>6. pos' \in 0 .. Len(stream') /\ dropped' \in 0 .. pos' /\ loop' # "start"
    BY <2>1, <2>2, <2>3
  <2>7. QED
    BY <2>3, <2>4, <2>5, <2>6, Zenon DEF BytesInv
<1>2. CASE Input
  <2>1. PICK k \in 0 .. Len(stream) - pos :
          /\ k = 0 <=> (pos = Len(stream) \/ bi # <<>>)
          /\ pos' = pos + k
          /\ LET data == Parsed(k).out
             IN  \E n \in 0 .. Len(data) :
                    /\ n = 0 => data = <<>>
                    /\ typed' = typed \o SubSeq(data, 1, n)
                    /\ IF n > 0 /\ data[1] = "EOT"
                       THEN bi' = data /\ killed' = TRUE /\ loop' = "end"
                       ELSE bi' = SubSeq(data, n + 1, Len(data)) /\ loop' = "out" /\ UNCHANGED killed
    BY <1>2, Zenon DEF Input
  <2>2. stream' = stream /\ dropped' = dropped /\ istelnet' = istelnet /\ loop = "select"
    BY <1>2, Zenon DEF Input
  <2>3. PICK data : data = Parsed(k).out
    OBVIOUS
  <2>4. PICK n \in 0 .. Len(data) :
          /\ n = 0 => data = <<>>
          /\ typed' = typed \o SubSeq(data, 1, n)
          /\ IF n > 0 /\ data[1] = "EOT"
             THEN bi' = data /\ killed' = TRUE /\ loop' = "end"
             ELSE bi' = SubSeq(data, n + 1, Len(data)) /\ loop' = "out" /\ UNCHANGED killed
    BY <2>1, <2>3, Zenon
  <2>5. loop' \in {"end", "out"}
    BY <2>4, Zenon
  <2>6. /\ stream' \in Streams /\ pos' \in 0 .. Len(stream') /\ dropped' \in 0 .. pos' /\ loop' # "start"
    <3>1. stream \in Seq(ToSet(stream)) /\ stream \in Streams /\ pos \in 0 .. Len(stream) /\ dropped \in 0 .. pos
      BY StreamsAssumption, Zenon DEF BytesInv
    <3>2. QED
      BY <2>1, <2>2, <2>5, <3>1
  <2>7. ASSUME ~istelnet
        PROVE  /\ typed' \in Seq(ToSet(stream)) /\ bi' \in Seq(ToSet(stream))
               /\ ~(AtEnd' /\ bi' # <<>>) => typed' \o bi' = SubSeq(stream, dropped + 1, pos + k)
    <3>1. ~AtEnd
      BY <2>2 DEF AtEnd
    <3>2. data \in Seq(ToSet(stream)) /\ typed \o data = SubSeq(stream, dropped + 1, pos + k)
      BY <2>1, <2>3, <2>7, <3>1, PlainIs, Zenon
    <3>3. typed \in Seq(ToSet(stream))
      BY <2>7, Zenon DEF BytesInv
    <3>4. typed' \in Seq(ToSet(stream)) /\ typed' \o SubSeq(data, n + 1, Len(data)) = typed \o data
      <4>1. PICK S : S = ToSet(stream)
        OBVIOUS
      <4>2. data \in Seq(S) /\ typed \in Seq(S) /\ n \in 0 .. Len(data)
        BY <2>4, <3>2, <3>3, <4>1, Zenon
      <4>3. /\ typed \o SubSeq(data, 1, n) \in Seq(S)
            /\ (typed \o SubSeq(data, 1, n)) \o SubSeq(data, n + 1, Len(data)) = typed \o data
        BY <4>2, MoveIs, Zenon
      <4>4. QED
        BY <2>4, <4>1, <4>3, Zenon
    <3>5. SubSeq(data, n + 1, Len(data)) \in Seq(ToSet(stream))
      BY <2>4, <3>2, SplitIs, Zenon
    <3>6. CASE bi' = SubSeq(data, n + 1, Len(data))
      BY <3>2, <3>4, <3>5, <3>6, Zenon
    <3>7. CASE n > 0 /\ bi' = data /\ loop' = "end"
      <4>1. data # <<>>
        BY <2>4, <3>7
      <4>2. AtEnd'
        BY <3>7 DEF AtEnd
      <4>3. QED
        BY <3>2, <3>4, <3>7, <4>1, <4>2, Zenon
    <3>8. QED
      BY <2>4, <3>6, <3>7, Zenon
  <2>8. QED
    BY <2>1, <2>2, <2>6, <2>7, Zenon DEF BytesInv
<1>3. CASE InputInterrupted
  <2>1. /\ loop = "select" /\ bi # <<>> /\ bi' = Parsed(0).out
        /\ stream' = stream /\ pos' = pos /\ dropped' = dropped /\ istelnet' = istelnet /\ typed' = typed /\ loop' = loop
    BY <1>3, Zenon DEF InputInterrupted
  <2>2. ~istelnet => bi' = bi
    <3>1. Fresh(0) = bi
      BY <2>1, Zenon DEF Fresh
    <3>2. ~istelnet => Parsed(0) = [ts EXCEPT !.out = bi]
      BY <3>1, Zenon DEF Parsed
    <3>3. [ts EXCEPT !.out = bi].out = bi
      OBVIOUS
    <3>4. QED
      BY <2>1, <3>2, <3>3, Zenon
  <2>3. /\ stream \in Streams /\ pos \in 0 .. Len(stream) /\ dropped \in 0 .. pos
        /\ ~istelnet => /\ typed \in Seq(ToSet(stream)) /\ bi \in Seq(ToSet(stream))
                        /\ ~(AtEnd /\ bi # <<>>) => typed \o bi = SubSeq(stream, dropped + 1, pos)
    BY Zenon DEF BytesInv
  <2>4. ~AtEnd /\ loop' # "start"
    BY <2>1 DEF AtEnd
  <2>5. QED
    BY <2>1, <2>2, <2>3, <2>4, Zenon DEF BytesInv
<1>4. CASE Timeout \/ ReadPty \/ ResumeWrite \/ WriteFails \/ Written \/ OutputDone \/ Stop \/ Quit \/ Wait
  <2>1. UNCHANGED inputVars
    BY <1>4, Zenon DEF Timeout, ReadPty, ResumeWrite, WriteFails, Written, OutputDone, Stop, Quit, Wait
  <2>2. (AtEnd => AtEnd') /\ loop' # "start"
    BY <1>4 DEF Timeout, ReadPty, ResumeWrite, WriteFails, Written, OutputDone, Stop, Quit, Wait, AtEnd
  <2>3. QED
    BY <2>1, <2>2, BytesUntouched, Zenon
<1>5. CASE WriteSocket
  <2>1. UNCHANGED inputVars
    BY <1>5, Zenon DEF WriteSocket
  <2>2. (AtEnd => AtEnd') /\ loop' # "start"
    BY <1>5 DEF WriteSocket, AtEnd
  <2>3. QED
    BY <2>1, <2>2, BytesUntouched, Zenon
<1>6. CASE SessionSigdead \/ ShellPrints \/ ShellEnds \/ PeerEnds \/ Leave
  <2>1. UNCHANGED inputVars /\ loop' = loop
    BY <1>6, Zenon DEF SessionSigdead, ShellPrints, ShellEnds, PeerEnds, Leave
  <2>2. AtEnd => AtEnd'
    BY <2>1 DEF AtEnd
  <2>3. QED
    BY <2>1, <2>2, BytesUntouched, Zenon
<1>7. QED
  BY <1>1, <1>2, <1>3, <1>4, <1>5, <1>6, Zenon DEF SessionNext

\* The handshake: the parser has the rest of the stream before it.
LEMMA ParserBegins ==
    ASSUME BytesInv, ParserInv, Handshake PROVE ParserInv'
<1>1. PICK k \in 0 .. Len(stream) : pos' = k /\ dropped' = k
  BY Zenon DEF Handshake
<1>2. /\ loop = "start" /\ loop' = "select" /\ stream' = stream /\ ts' = ts /\ bi' = bi /\ typed' = typed
  BY Zenon DEF Handshake
<1>3. stream \in Seq(ToSet(stream))
  BY StreamsAssumption, Zenon DEF BytesInv
<1>4. ts = NewTermstate /\ typed = <<>> /\ bi = <<>>
  BY <1>2, Zenon DEF BytesInv, ParserInv
<1>5. Handled'
  <2>1. PICK f \in [0 .. Len(stream) - k -> ParserState(ToSet(stream))] :
          /\ Runs(f, NewTermstate, SubSeq(stream, k + 1, Len(stream)))
          /\ f[0] = NewTermstate /\ Follows(NewTermstate, f[0].out, f[0])
    BY <1>3, FreshParser, Zenon
  <2>2. f[0].out = <<>> /\ <<>> \o <<>> = <<>>
    BY <2>1 DEF NewTermstate
  <2>3. pos' - dropped' = 0
    BY <1>1
  <2>4. QED
    BY <1>1, <1>2, <1>4, <2>1, <2>2, <2>3, Zenon DEF Handled
<1>6. /\ ts \in ParserState(ToSet(stream)) /\ ts.out = <<>>
      /\ typed \in Seq(ToSet(stream)) /\ bi \in Seq(ToSet(stream)) /\ Len(bi) <= Len(stream)
  BY Zenon DEF ParserInv
<1>7. loop' # "start"
  BY <1>2
<1>8. QED
  BY <1>2, <1>5, <1>6, <1>7, Zenon DEF ParserInv

\* Bytes are read, parsed and typed.
LEMMA ParserGoesOn ==
    ASSUME BytesInv, ParserInv, Input PROVE ParserInv'
<1>1. PICK k \in 0 .. Len(stream) - pos :
        /\ pos' = pos + k
        /\ ts' = [Parsed(k) EXCEPT !.out = <<>>]
        /\ reparsed' = (reparsed \/ (istelnet /\ bi # <<>>))
        /\ LET data == Parsed(k).out
           IN  \E n \in 0 .. Len(data) :
                  /\ n = 0 => data = <<>>
                  /\ typed' = typed \o SubSeq(data, 1, n)
                  /\ IF n > 0 /\ data[1] = "EOT"
                     THEN bi' = data /\ killed' = TRUE /\ loop' = "end"
                     ELSE bi' = SubSeq(data, n + 1, Len(data)) /\ loop' = "out" /\ UNCHANGED killed
  BY Zenon DEF Input
<1>2. stream' = stream /\ dropped' = dropped /\ istelnet' = istelnet /\ loop = "select"
  BY Zenon DEF Input
<1>3. PICK B : B = ToSet(stream)
  OBVIOUS
<1>4. PICK r \in ParserState(B) : r = Parsed(k)
  BY <1>3, TurnIs, Zenon
<1>5. r.out \in Seq(B) /\ Len(r.out) <= Len(stream) /\ Len(stream) \in Nat
  <2>1. r.out \in Seq(B)
    BY DEF ParserState
  <2>2. Len(r.out) <= Len(stream)
    BY <1>4, TurnIs, Zenon
  <2>3. Len(stream) \in Nat
    BY StreamsAssumption DEF BytesInv
  <2>4. QED
    BY <2>1, <2>2, <2>3
<1>6. PICK data \in Seq(B) : data = r.out
  BY <1>5
<1>7. PICK n \in 0 .. Len(data) :
        /\ n = 0 => data = <<>>
        /\ typed' = typed \o SubSeq(data, 1, n)
        /\ IF n > 0 /\ data[1] = "EOT"
           THEN bi' = data /\ killed' = TRUE /\ loop' = "end"
           ELSE bi' = SubSeq(data, n + 1, Len(data)) /\ loop' = "out" /\ UNCHANGED killed
  BY <1>1, <1>4, <1>6, Zenon
<1>8. ts' \in ParserState(B) /\ ts'.out = <<>>
      /\ \A a, u : Follows(r, a, u) /\ u \in ParserState(B) => Follows(ts', u.out, u)
  BY <1>1, <1>4, EmptiedIs, Zenon
<1>9. typed \in Seq(B) /\ bi \in Seq(B)
  BY <1>3, Zenon DEF ParserInv
<1>10. PICK rest \in Seq(B) : rest = SubSeq(data, n + 1, Len(data))
  BY SplitIs, Zenon
<1>11. Len(rest) <= Len(data) /\ Len(data) <= Len(stream) /\ Len(rest) \in Nat /\ Len(data) \in Nat
  <2>1. n + 1 \in 1 .. Len(data) + 1 /\ Len(data) \in (n + 1) - 1 .. Len(data)
    OBVIOUS
  <2>2. Len(rest) = Len(data) - (n + 1) + 1
    BY <1>10, <2>1, PartIs, Zenon
  <2>3. QED
    BY <1>5, <1>6, <2>2
<1>12. typed' \in Seq(B) /\ typed' \o rest = typed \o data
  <2>1. /\ typed \o SubSeq(data, 1, n) \in Seq(B)
        /\ (typed \o SubSeq(data, 1, n)) \o SubSeq(data, n + 1, Len(data)) = typed \o data
    BY <1>9, MoveIs, Zenon
  <2>2. typed' = typed \o SubSeq(data, 1, n)
    BY <1>7, Zenon
  <2>3. QED
    BY <1>10, <2>1, <2>2, Zenon
<1>13. loop' # "start" /\ (bi' = rest \/ (bi' = data /\ data # <<>> /\ loop' = "end"))
  <2>1. n > 0 => data # <<>>
    OBVIOUS
  <2>2. CASE n > 0 /\ data[1] = "EOT"
    <3>1. bi' = data /\ loop' = "end"
      BY <1>7, <2>2, Zenon
    <3>2. QED
      BY <2>1, <2>2, <3>1
  <2>3. CASE ~(n > 0 /\ data[1] = "EOT")
    <3>1. bi' = rest /\ loop' = "out"
      BY <1>7, <1>10, <2>3, Zenon
    <3>2. QED
      BY <3>1
  <2>4. QED
    BY <2>2, <2>3
<1>14. bi' \in Seq(B) /\ Len(bi') <= Len(stream)
  <2>1. Len(rest) <= Len(stream)
    BY <1>5, <1>11
  <2>2. QED
    BY <1>11, <1>13, <2>1, Zenon
<1>15. ASSUME istelnet, ~reparsed' PROVE Handled'
  <2>1. ~reparsed /\ bi = <<>> /\ ~AtEnd
    BY <1>1, <1>2, <1>15 DEF AtEnd
  <2>2. PICK f \in [0 .. Len(stream) - dropped -> ParserState(B)] :
          /\ Runs(f, NewTermstate, SubSeq(stream, dropped + 1, Len(stream)))
          /\ Follows(ts, f[pos - dropped].out, f[pos - dropped])
          /\ typed \o bi = f[pos - dropped].out
    BY <1>3, <1>15, <2>1, Zenon DEF ParserInv, Handled
  <2>3. /\ stream \in Seq(B) /\ pos \in 0 .. Len(stream) /\ dropped \in 0 .. pos
    BY <1>3, StreamsAssumption, Zenon DEF BytesInv
  <2>4. PICK m : m = pos - dropped
    OBVIOUS
  <2>5. PICK w \in Seq(B) : w = SubSeq(stream, dropped + 1, Len(stream)) /\ Len(w) = Len(stream) - dropped
                          /\ \A i \in 1 .. Len(stream) - dropped : w[i] = stream[dropped + i]
    <3>1. dropped + 1 \in 1 .. Len(stream) + 1 /\ Len(stream) \in (dropped + 1) - 1 .. Len(stream)
      BY <2>3
    <3>2. /\ SubSeq(stream, dropped + 1, Len(stream)) \in Seq(B)
          /\ Len(SubSeq(stream, dropped + 1, Len(stream))) = Len(stream) - (dropped + 1) + 1
      BY <2>3, <3>1, PartIs, Zenon
    <3>3. PICK w : w = SubSeq(stream, dropped + 1, Len(stream))
      OBVIOUS
    <3>4. Len(w) = Len(stream) - dropped
      BY <2>3, <3>2, <3>3
    <3>5. \A i \in 1 .. Len(stream) - dropped : w[i] = stream[dropped + i]
      BY <2>3, <3>3
    <3>6. QED
      BY <3>2, <3>3, <3>4, <3>5, Zenon
  <2>6. m \in 0 .. Len(w) /\ k \in 0 .. Len(w) - m /\ m + k \in 0 .. Len(w)
    <3>1. Len(w) = Len(stream) - dropped /\ Len(stream) \in Nat /\ Len(w) \in Nat
      BY <1>5, <2>5, LenProperties, Zenon
    <3>2. k \in Nat /\ pos + k <= Len(stream) /\ pos \in Nat /\ dropped \in Nat /\ dropped <= pos
      BY <2>3, <3>1
    <3>3. QED
      BY <2>4, <3>1, <3>2
  <2>7. f \in [0 .. Len(w) -> ParserState(B)] /\ Runs(f, NewTermstate, w) /\ Follows(ts, f[m].out, f[m])
    BY <2>2, <2>4, <2>5, Zenon
  <2>8. PICK a \in Seq(B) : a = f[m].out
    <3>1. f[m] \in ParserState(B)
      BY <2>6, <2>7
    <3>2. f[m].out \in Seq(B)
      BY <3>1 DEF ParserState
    <3>3. QED
      BY <3>2
  <2>9. PICK s \in Seq(B) : s = Fresh(k)
    BY <1>3, TurnIs, Zenon
  <2>10. Len(s) = k /\ \A j \in 1 .. k : s[j] = w[m + j]
    <3>1. Len(s) = k /\ \A j \in 1 .. k : s[j] = stream[pos + j]
      BY <2>1, <2>9, TurnIs, Zenon
    <3>2. \A j \in 1 .. k : m + j \in 1 .. Len(stream) - dropped /\ dropped + (m + j) = pos + j
      BY <2>3, <2>4
    <3>3. \A j \in 1 .. k : w[m + j] = stream[pos + j]
      BY <2>5, <3>2
    <3>4. QED
      BY <3>1, <3>3
  <2>11. r = ParseBytes(ts, s)
    BY <1>4, <1>15, <2>9, TurnIs, Zenon
  <2>12. ts \in ParserState(B)
    BY <1>3, Zenon DEF ParserInv
  <2>13. Follows(r, a, f[m + k])
    BY <2>6, <2>7, <2>8, <2>10, <2>11, <2>12, ReadFollows, Zenon
  <2>14. PICK u \in ParserState(B) : u = f[m + k]
    BY <2>6, <2>7
  <2>15. Follows(ts', u.out, u) /\ u.out = a \o data
    <3>1. Follows(ts', u.out, u)
      BY <1>8, <2>13, <2>14, Zenon
    <3>2. u.out = a \o data
      BY <1>6, <2>13, <2>14, Zenon DEF Follows
    <3>3. QED
      BY <3>1, <3>2
  <2>16. typed = a
    <3>1. typed \o <<>> = typed
      BY <1>9, ConcatEmptySeq, Zenon
    <3>2. QED
      BY <2>1, <2>2, <2>4, <2>8, <3>1, Zenon
  <2>17. pos' - dropped' = m + k
    <3>1. pos' = pos + k /\ dropped' = dropped
      BY <1>1, <1>2, Zenon
    <3>2. pos \in Int /\ dropped \in Int /\ k \in Int
      BY <2>3
    <3>3. (pos + k) - dropped = m + k
      BY <2>4, <3>2
    <3>4. QED
      BY <3>1, <3>3, Zenon
  <2>18. ~(AtEnd' /\ bi' # <<>>) => typed' \o bi' = u.out
    <3>1. CASE bi' = rest
      BY <1>12, <2>15, <2>16, <3>1, Zenon
    <3>2. CASE bi' = data /\ data # <<>> /\ loop' = "end"
      BY <3>2 DEF AtEnd
    <3>3. QED
      BY <1>13, <3>1, <3>2
  <2>19. QED
    BY <1>2, <1>3, <2>2, <2>14, <2>15, <2>17, <2>18, Zenon DEF Handled
<1>16. QED
  BY <1>2, <1>3, <1>8, <1>12, <1>13, <1>14, <1>15, Zenon DEF ParserInv

\* The same bytes once more.
LEMMA ParserIsInterrupted ==
    ASSUME BytesInv, ParserInv, InputInterrupted PROVE ParserInv'
<1>1. /\ loop = "select" /\ bi # <<>> /\ ts' = [Parsed(0) EXCEPT !.out = <<>>] /\ bi' = Parsed(0).out
      /\ reparsed' = (reparsed \/ istelnet) /\ stream' = stream /\ istelnet' = istelnet /\ typed' = typed /\ loop' = loop
  BY Zenon DEF InputInterrupted
<1>2. PICK B : B = ToSet(stream)
  OBVIOUS
<1>3. 0 \in 0 .. Len(stream) - pos
  BY StreamsAssumption DEF BytesInv
<1>4. PICK r \in ParserState(B) : r = Parsed(0)
  BY <1>2, <1>3, TurnIs, Zenon
<1>5. r.out \in Seq(B) /\ Len(r.out) <= Len(stream)
  <2>1. r.out \in Seq(B)
    BY DEF ParserState
  <2>2. Len(r.out) <= Len(stream)
    BY <1>3, <1>4, TurnIs, Zenon
  <2>3. QED
    BY <2>1, <2>2
<1>6. ts' \in ParserState(B) /\ ts'.out = <<>>
  BY <1>1, <1>4, EmptiedIs, Zenon
<1>7. loop' # "start" /\ ~(istelnet /\ ~reparsed')
  BY <1>1
<1>8. typed \in Seq(B)
  BY <1>2, Zenon DEF ParserInv
<1>9. QED
  BY <1>1, <1>2, <1>4, <1>5, <1>6, <1>7, <1>8, Zenon DEF ParserInv

\* The parser and what comes out of it, in every step.
LEMMA ParserStays ==
    ASSUME BytesInv, ParserInv, SessionNext PROVE ParserInv'
<1>1. CASE Handshake
  BY <1>1, ParserBegins, Zenon
<1>2. CASE Input
  BY <1>2, ParserGoesOn, Zenon
<1>3. CASE InputInterrupted
  BY <1>3, ParserIsInterrupted, Zenon
<1>4. CASE Timeout \/ ReadPty \/ ResumeWrite \/ WriteFails \/ Written \/ OutputDone \/ Stop \/ Quit \/ Wait
  <2>1. UNCHANGED inputVars
    BY <1>4, Zenon DEF Timeout, ReadPty, ResumeWrite, WriteFails, Written, OutputDone, Stop, Quit, Wait
  <2>2. (AtEnd => AtEnd') /\ loop' # "start"
    BY <1>4 DEF Timeout, ReadPty, ResumeWrite, WriteFails, Written, OutputDone, Stop, Quit, Wait, AtEnd
  <2>3. QED
    BY <2>1, <2>2, ParserUntouched, Zenon
<1>5. CASE WriteSocket
  <2>1. UNCHANGED inputVars
    BY <1>5, Zenon DEF WriteSocket
  <2>2. (AtEnd => AtEnd') /\ loop' # "start"
    BY <1>5 DEF WriteSocket, AtEnd
  <2>3. QED
    BY <2>1, <2>2, ParserUntouched, Zenon
<1>6. CASE SessionSigdead \/ ShellPrints \/ ShellEnds \/ PeerEnds \/ Leave
  <2>1. UNCHANGED inputVars /\ loop' = loop
    BY <1>6, Zenon DEF SessionSigdead, ShellPrints, ShellEnds, PeerEnds, Leave
  <2>2. AtEnd => AtEnd'
    BY <2>1 DEF AtEnd
  <2>3. QED
    BY <2>1, <2>2, ParserUntouched, Zenon
<1>7. QED
  BY <1>1, <1>2, <1>3, <1>4, <1>5, <1>6, Zenon DEF SessionNext

\* Where everybody is after a step.
LEMMA ControlStays ==
    ASSUME LinesInv, ControlInv, SessionNext PROVE ControlInv'
<1>1. /\ printed \in 0 .. Prints
      /\ shell \in {"running", "zombie", "reaped"} /\ peer \in {"none", "running", "zombie", "reaped"}
      /\ client \in {"there", "closed", "gone"}
      /\ killed \in BOOLEAN /\ sigs \in BOOLEAN /\ heeded \in BOOLEAN /\ stopped \in BOOLEAN /\ reparsed \in BOOLEAN
      /\ loop \in {"start", "select", "out", "write", "end", "wait", "over"}
  BY Zenon DEF ControlInv
<1>2. printed' \in 0 .. Prints
  <2>1. printed' = printed \/ (printed < Prints /\ printed' = printed + 1)
    BY Zenon DEF SessionNext, Handshake, Input, InputInterrupted, Timeout, ReadPty, ResumeWrite, WriteSocket, WriteFails,
       Written, OutputDone, Stop, Quit, Wait, SessionSigdead, ShellPrints, ShellEnds, PeerEnds, Leave, outputVars
  <2>2. QED
    BY <1>1, <2>1, StreamsAssumption
<1>3. shell' \in {"running", "zombie", "reaped"}
  <2>1. shell' = shell \/ shell' = "zombie" \/ shell' = "reaped"
    BY Zenon DEF SessionNext, Handshake, Input, InputInterrupted, Timeout, ReadPty, ResumeWrite, WriteSocket, WriteFails,
       Written, OutputDone, Stop, Quit, Wait, SessionSigdead, ShellPrints, ShellEnds, PeerEnds, Leave, childVars
  <2>2. QED
    BY <1>1, <2>1
<1>4. peer' \in {"none", "running", "zombie", "reaped"}
  <2>1. peer' = peer \/ peer' = "zombie" \/ peer' = "reaped"
    BY Zenon DEF SessionNext, Handshake, Input, InputInterrupted, Timeout, ReadPty, ResumeWrite, WriteSocket, WriteFails,
       Written, OutputDone, Stop, Quit, Wait, SessionSigdead, ShellPrints, ShellEnds, PeerEnds, Leave, childVars
  <2>2. QED
    BY <1>1, <2>1
<1>5. client' \in {"there", "closed", "gone"}
  <2>1. client' = client \/ client' \in {"closed", "gone"} \ {client}
    BY Zenon DEF SessionNext, Handshake, Input, InputInterrupted, Timeout, ReadPty, ResumeWrite, WriteSocket, WriteFails,
       Written, OutputDone, Stop, Quit, Wait, SessionSigdead, ShellPrints, ShellEnds, PeerEnds, Leave, childVars
  <2>2. QED
    BY <1>1, <2>1
<1>6. killed' \in BOOLEAN /\ heeded' \in BOOLEAN /\ sigs' \in BOOLEAN
  <2>1. killed' = killed \/ killed' = TRUE
    BY Zenon DEF SessionNext, Handshake, Input, InputInterrupted, Timeout, ReadPty, ResumeWrite, WriteSocket, WriteFails,
       Written, OutputDone, Stop, Quit, Wait, SessionSigdead, ShellPrints, ShellEnds, PeerEnds, Leave, childVars
  <2>2. heeded' = heeded \/ heeded' = FALSE
    BY Zenon DEF SessionNext, Handshake, Input, InputInterrupted, Timeout, ReadPty, ResumeWrite, WriteSocket, WriteFails,
       Written, OutputDone, Stop, Quit, Wait, SessionSigdead, ShellPrints, ShellEnds, PeerEnds, Leave, childVars
  <2>3. sigs' = sigs \/ sigs' = FALSE \/ sigs' = TRUE
    BY Zenon DEF SessionNext, Handshake, Input, InputInterrupted, Timeout, ReadPty, ResumeWrite, WriteSocket, WriteFails,
       Written, OutputDone, Stop, Quit, Wait, SessionSigdead, ShellPrints, ShellEnds, PeerEnds, Leave, childVars
  <2>4. QED
    BY <1>1, <2>1, <2>2, <2>3
<1>7. stopped' \in BOOLEAN
  <2>1. stopped' = stopped \/ stopped' = TRUE
        \/ stopped' = (stopped \/ (heeded /\ shell = "zombie" /\ ~ZombieAnswers))
    BY Zenon DEF SessionNext, Handshake, Input, InputInterrupted, Timeout, ReadPty, ResumeWrite, WriteSocket, WriteFails,
       Written, OutputDone, Stop, Quit, Wait, SessionSigdead, ShellPrints, ShellEnds, PeerEnds, Leave, childVars
  <2>2. QED
    BY <1>1, <2>1
<1>8. reparsed' \in BOOLEAN
  <2>1. \/ reparsed' = reparsed \/ reparsed' = (reparsed \/ (istelnet /\ bi # <<>>))
        \/ reparsed' = (reparsed \/ istelnet)
    BY Zenon DEF SessionNext, Handshake, Input, InputInterrupted, Timeout, ReadPty, ResumeWrite, WriteSocket, WriteFails,
       Written, OutputDone, Stop, Quit, Wait, SessionSigdead, ShellPrints, ShellEnds, PeerEnds, Leave, inputVars
  <2>2. QED
    BY <1>1, <2>1
<1>9. loop' \in {"start", "select", "out", "write", "end", "wait", "over"}
  <2>1. loop' = loop \/ loop' = "select" \/ loop' = "out" \/ loop' = "write" \/ loop' = "end" \/ loop' = "wait" \/ loop' = "over"
    <3>1. CASE Input
      BY <3>1, Zenon DEF Input
    <3>2. CASE WriteSocket
      <4>1. \E n \in 0 .. Len(bo) : loop' = IF n = 0 THEN "out" ELSE loop
        BY <3>2, Zenon DEF WriteSocket
      <4>2. QED
        BY <4>1
    <3>3. CASE OutputDone
      BY <3>3 DEF OutputDone
    <3>4. QED
      BY <3>1, <3>2, <3>3, Zenon DEF SessionNext, Handshake, InputInterrupted, Timeout, ReadPty, ResumeWrite, WriteFails,
         Written, Stop, Quit, Wait, SessionSigdead, ShellPrints, ShellEnds, PeerEnds, Leave
  <2>2. QED
    BY <1>1, <2>1
<1>10. QED
  BY <1>2, <1>3, <1>4, <1>5, <1>6, <1>7, <1>8, <1>9, Zenon DEF ControlInv

\* Nothing happens to a session in a step of another.
LEMMA SessionStays ==
    ASSUME SessionInv, UNCHANGED sessionVars PROVE SessionInv'
<1>1. UNCHANGED inputVars /\ UNCHANGED outputVars /\ UNCHANGED childVars /\ loop' = loop
  BY Zenon DEF sessionVars
<1>2. LinesInv'
  BY <1>1 DEF SessionInv, LinesInv, OutputInOrder, outputVars
<1>3. DrainedInv'
  BY <1>1 DEF SessionInv, DrainedInv, AtEnd, outputVars, childVars
<1>4. AtEnd => AtEnd'
  BY <1>1 DEF AtEnd
<1>5. BytesInv'
  BY <1>1, <1>4, BytesUntouched, Zenon DEF SessionInv
<1>6. ParserInv'
  BY <1>1, <1>4, ParserUntouched, Zenon DEF SessionInv
<1>7. ControlInv'
  BY <1>1, Zenon DEF SessionInv, ControlInv, inputVars, outputVars, childVars
<1>8. QED
  BY <1>2, <1>3, <1>5, <1>6, <1>7, Zenon DEF SessionInv

\* What was read and not parsed twice is what the stream so far means: its data
\* are typed or will be, and its options are answered.
LEMMA MeantIsGiven ==
    ASSUME BytesInv, ParserInv, istelnet, ~reparsed, NEW s, s = SubSeq(stream, dropped + 1, pos),
           ~MeaningOf(s).doubled
    PROVE  /\ ~(AtEnd /\ bi # <<>>) => typed \o bi = MeaningOf(s).data
           /\ ts.sent = MeaningOf(s).answers
<1>1. PICK B : B = ToSet(stream)
  OBVIOUS
<1>2. stream \in Seq(B) /\ pos \in 0 .. Len(stream) /\ dropped \in 0 .. pos
  BY <1>1, StreamsAssumption, Zenon DEF BytesInv
<1>3. PICK m : m = pos - dropped
  OBVIOUS
<1>4. PICK f \in [0 .. Len(stream) - dropped -> ParserState(B)] :
        /\ Runs(f, NewTermstate, SubSeq(stream, dropped + 1, Len(stream)))
        /\ Follows(ts, f[m].out, f[m])
        /\ ~(AtEnd /\ bi # <<>>) => typed \o bi = f[m].out
  BY <1>1, <1>3, Zenon DEF ParserInv, Handled
<1>5. PICK w : w = SubSeq(stream, dropped + 1, Len(stream))
  OBVIOUS
<1>6. Len(stream) \in Nat /\ dropped \in Nat /\ m \in Nat /\ m <= Len(stream) - dropped
  BY <1>2, <1>3
<1>7. s \in Seq(B) /\ Len(s) = m
  <2>1. dropped + 1 \in 1 .. Len(stream) + 1 /\ pos \in (dropped + 1) - 1 .. Len(stream) /\ pos - (dropped + 1) + 1 = m
    BY <1>2, <1>3
  <2>2. /\ SubSeq(stream, dropped + 1, pos) \in Seq(B)
        /\ Len(SubSeq(stream, dropped + 1, pos)) = pos - (dropped + 1) + 1
    BY <1>2, <2>1, PartIs, Zenon
  <2>3. QED
    BY <2>1, <2>2, Zenon
<1>8. w \in Seq(B) /\ Len(w) = Len(stream) - dropped
  <2>1. dropped + 1 \in 1 .. Len(stream) + 1 /\ Len(stream) \in (dropped + 1) - 1 .. Len(stream)
        /\ Len(stream) - (dropped + 1) + 1 = Len(stream) - dropped
    BY <1>2
  <2>2. /\ SubSeq(stream, dropped + 1, Len(stream)) \in Seq(B)
        /\ Len(SubSeq(stream, dropped + 1, Len(stream))) = Len(stream) - (dropped + 1) + 1
    BY <1>2, <2>1, PartIs, Zenon
  <2>3. QED
    BY <1>5, <2>1, <2>2, Zenon
<1>9. \A i \in 1 .. m : s[i] = stream[dropped + i] /\ w[i] = stream[dropped + i]
  <2>1. \A i \in 1 .. m : s[i] = stream[dropped + i]
    BY <1>2, <1>3
  <2>2. \A i \in 1 .. Len(stream) - dropped : w[i] = stream[dropped + i]
    BY <1>2, <1>5
  <2>3. \A i \in 1 .. m : i \in 1 .. Len(stream) - dropped
    <3>1. PICK l \in Nat : l = Len(stream)
      BY <1>6
    <3>2. \A i \in 1 .. m : i \in 1 .. l - dropped
      BY <1>6, <3>1
    <3>3. QED
      BY <3>1, <3>2
  <2>4. QED
    BY <2>1, <2>2, <2>3, Zenon
<1>10. PICK g \in [0 .. Len(s) -> ParserState(B)] : \A i \in 0 .. m : g[i] = f[i]
  <2>1. \A i \in 0 .. m : i \in 0 .. Len(stream) - dropped
    <3>1. PICK l \in Nat : l = Len(stream)
      BY <1>6
    <3>2. \A i \in 0 .. m : i \in 0 .. l - dropped
      BY <1>6, <3>1
    <3>3. QED
      BY <3>1, <3>2
  <2>2. \A i \in 0 .. m : f[i] \in ParserState(B)
    BY <2>1
  <2>3. [i \in 0 .. m |-> f[i]] \in [0 .. m -> ParserState(B)]
    BY <2>2
  <2>4. QED
    BY <1>7, <2>3
<1>11. Runs(g, NewTermstate, s)
  <2>1. f[0] = NewTermstate /\ \A i \in 1 .. Len(w) : f[i] = ParseByte(f[i - 1], w[i])
    BY <1>4, <1>5, Zenon DEF Runs
  <2>2. g[0] = NewTermstate
    BY <1>6, <1>10, <2>1
  <2>3. ASSUME NEW i \in 1 .. Len(s) PROVE g[i] = ParseByte(g[i - 1], s[i])
    <3>1. i \in 1 .. m /\ i \in 0 .. m /\ i - 1 \in 0 .. m /\ i \in 1 .. Len(w)
      BY <1>6, <1>7, <1>8
    <3>2. f[i] = ParseByte(f[i - 1], w[i])
      BY <2>1, <3>1, Zenon
    <3>3. g[i] = f[i] /\ g[i - 1] = f[i - 1]
      BY <1>10, <3>1, Zenon
    <3>4. s[i] = w[i]
      BY <1>9, <3>1
    <3>5. QED
      BY <3>2, <3>3, <3>4, Zenon
  <2>4. QED
    BY <2>2, <2>3, Zenon DEF Runs
<1>12. g[Len(s)].out = MeaningOf(s).data /\ g[Len(s)].sent = MeaningOf(s).answers
  BY <1>7, <1>11, ParsedIsMeant, Zenon
<1>13. g[Len(s)] = f[m]
  BY <1>6, <1>7, <1>10
<1>14. ts.sent = f[m].sent
  BY <1>4, Zenon DEF Follows
<1>15. QED
  BY <1>4, <1>12, <1>13, <1>14, Zenon

\* Of any length of stream, cuts and number of lines: what a telnet client sends
\* is typed without its commands and its options are answered, what an rlogin
\* client sends is typed byte for byte - once and in order, wherever the reads
\* were cut; nothing the shell prints is lost, doubled or moved, and a session
\* that ends with its shell has shown all of it.
THEOREM SessionCarries == SessionSpec => []SessionIsRight
<1>1. SessionInit => SessionInv
  BY SessionInit_Inv
<1>2. SessionInv /\ [SessionNext]_sessionVars => SessionInv'
  BY LinesStay, DrainedStays, BytesStay, ParserStays, ControlStays, SessionStays, Zenon DEF SessionInv
<1>3. SessionInv => SessionIsRight
  <2> SUFFICES ASSUME SessionInv PROVE SessionIsRight
    OBVIOUS
  <2>1. OutputInOrder
    BY DEF SessionInv, LinesInv
  <2>2. LastOutputIsShown
    BY DEF SessionInv, DrainedInv, LastOutputIsShown, AtEnd
  <2>3. PICK s : s = SubSeq(stream, dropped + 1, pos)
    OBVIOUS
  <2>4. ShellGetsTheData
    <3>1. ASSUME ~reparsed, ~MeaningOf(s).doubled, ~(AtEnd /\ bi # <<>>), istelnet
          PROVE  typed \o bi = MeaningOf(s).data
      BY <2>3, <3>1, MeantIsGiven, Zenon DEF SessionInv
    <3>2. ASSUME ~(AtEnd /\ bi # <<>>), ~istelnet PROVE typed \o bi = s
      BY <2>3, <3>2, Zenon DEF SessionInv, BytesInv
    <3>3. QED
      BY <2>3, <3>1, <3>2, Zenon DEF ShellGetsTheData, AtEnd
  <2>5. OptionsAreAnswered
    <3>1. ASSUME ~reparsed, ~MeaningOf(s).doubled, istelnet PROVE ts.sent = MeaningOf(s).answers
      BY <2>3, <3>1, MeantIsGiven, Zenon DEF SessionInv
    <3>2. QED
      BY <2>3, <3>1, Zenon DEF OptionsAreAnswered
  <2>6. SessionTypeOK
    <3>1. ts.state \in {"NORMAL", "IAC", "OPT", "SB", "OPTDAT", "SE"} /\ Len(ts.optdata) <= OptdataSize
      <4>1. ts \in ParserState(ToSet(stream))
        BY Zenon DEF SessionInv, ParserInv
      <4>2. QED
        BY <4>1 DEF ParserState
    <3>2. {killed, sigs, heeded, stopped, reparsed} \subseteq BOOLEAN
      BY Zenon DEF SessionInv, ControlInv
    <3>3. QED
      BY <3>1, <3>2, Zenon DEF SessionTypeOK, SessionInv, ControlInv, BytesInv, ParserInv
  <2>7. QED
    BY <2>1, <2>2, <2>4, <2>5, <2>6, Zenon DEF SessionIsRight
<1>4. QED
  BY <1>1, <1>2, <1>3, PTL DEF SessionSpec

-----------------------------------------------------------------------------
\* The boot front end

\* An answer from which a machine that is not the configured one learns
\* nothing, at whichever stage another server has left it.
Harmless(words) ==
    /\ words[1] # 0
    /\ words[1] = 1 => Len(words) <= 8
    /\ words[1] = 2 => Len(words) # 12
    /\ words[1] = 4 => Len(words) # 8

\* What a call gets when it is served, if it is not the configured machine's.
GetsNothing(words, prog) ==
    LET r == Dispatch(words, prog)
    IN  (r.answer # <<>> => Harmless(r.answer)) /\ r.mounts # "add"

\* Another machine stands where it began.
OthersInv ==
    \A h \in Machine \ {Mine} :
        /\ stage[h] \in {0, 1, 2, 4}
        /\ known[h].ip = (IF stage[h] > 0 THEN Ip(h) ELSE 0)
        /\ known[h].name = (IF stage[h] > 1 THEN NameOf(h) ELSE 0)
        /\ known[h].root = 0 /\ known[h].handle = 0
        /\ stage[h] = 2 => known[h].port = PortOf[BOOTPARAMD]
        /\ stage[h] = 4 => known[h].port = PortOf[MOUNTD]
        /\ h \notin exported

FrameIsRight(f) ==
    /\ f.type \in {"rarp", "udp", "other"}
    /\ f.type = "udp" /\ f.from # Mine => GetsNothing(f.words, PORTMAPPERD)

FramesInv == \A i \in 1 .. Len(frames) : FrameIsRight(frames[i])

\* No call asks the portmapper to pass something on to mountd, so only mountd's
\* own callers reach it.
CallIsRight(c) ==
    /\ c.prog \in DOMAIN PortOf
    /\ Len(c.words) >= 6 /\ \E S : c.words \in Seq(S)
    /\ c.words[4] = PORTMAPPERD /\ c.words[6] = 5 => At(c.words, Args(c.words)) # MOUNTD
    /\ c.from # Mine => GetsNothing(c.words, c.prog)

CallsInv == \A c \in calls : CallIsRight(c)

AnswersInv == \A a \in answers : a.to # Mine => Harmless(a.words)

\* Where the machines are and what the packet filter holds.
FrontShape ==
    /\ stage \in [Machine -> 0 .. 9] /\ DOMAIN known = Machine
    /\ \E S : frames \in Seq(S)

FrontInv ==
    /\ FrontShape
    /\ OthersInv
    /\ FramesInv
    /\ CallsInv
    /\ AnswersInv

\* The numbers of the programs differ, and so do their ports.
LEMMA ProgramsDiffer ==
    /\ DOMAIN PortOf = {PORTMAPPERD, NFSD, MOUNTD, LOCKD, BOOTPARAMD}
    /\ PortOf[PORTMAPPERD] = 111 /\ PortOf[NFSD] = 2049 /\ PortOf[MOUNTD] = 6135
    /\ PortOf[LOCKD] = 41045 /\ PortOf[BOOTPARAMD] = 2050
BY DEF PortOf, PORTMAPPERD, NFSD, MOUNTD, LOCKD, BOOTPARAMD

\* Addresses and names of different machines differ, whichever is taken for which.
LEMMA MachinesDiffer ==
    ASSUME NEW h \in Machine \ {Mine}
    PROVE  /\ Ip(h) \in Nat /\ NameOf(h) \in Nat /\ Ip(h) # 0 /\ NameOf(h) # 0
           /\ Ip(h) # Ip(Mine) /\ NameOf(h) # NameOf(Mine) /\ NameOf(h) # Ip(Mine)
BY MineAssumption DEF Ip, NameOf

\* What is behind the header of a packet leaves it alone.
Behind(w, a, S) ==
    /\ w \in Seq(S) /\ Len(w) >= 6
    /\ w[1] = a[1] /\ w[2] = a[2] /\ w[3] = a[3] /\ w[4] = a[4] /\ w[5] = a[5] /\ w[6] = a[6]

\* Two parts of a packet, one behind the other.
Parts(w, u, v, S) ==
    /\ w \in Seq(S)
    /\ Len(w) = Len(u) + Len(v)
    /\ \A i \in 1 .. Len(u) : w[i] = u[i]
    /\ \A i \in 1 .. Len(v) : w[Len(u) + i] = v[i]

\* What is written behind words moves none of them.
LEMMA PartsAre ==
    ASSUME NEW S, NEW u \in Seq(S), NEW v \in Seq(S)
    PROVE  Parts(u \o v, u, v, S)
<1>1. /\ u \o v \in Seq(S)
      /\ Len(u \o v) = Len(u) + Len(v)
      /\ \A i \in 1 .. Len(u) + Len(v) : (u \o v)[i] = IF i <= Len(u) THEN u[i] ELSE v[i - Len(u)]
  BY ConcatProperties
<1>2. ASSUME NEW i \in 1 .. Len(v)
      PROVE  (u \o v)[Len(u) + i] = v[i]
  <2>1. PICK j : j = Len(u) + i
    OBVIOUS
  <2>2. j \in 1 .. Len(u) + Len(v) /\ ~(j <= Len(u)) /\ j - Len(u) = i
    BY <2>1
  <2>3. QED
    BY <1>1, <2>1, <2>2
<1>3. QED
  BY <1>1, <1>2 DEF Parts

\* A packet keeps its header whatever is written behind it.
LEMMA HeaderStays ==
    ASSUME NEW S, NEW u \in Seq(S), NEW v \in Seq(S), NEW a, Behind(u, a, S)
    PROVE  Behind(u \o v, a, S)
<1>1. PICK w : w = u \o v
  OBVIOUS
<1>2. Parts(w, u, v, S)
  BY <1>1, PartsAre, Zenon
<1>3. \A i \in 1 .. 6 : i \in 1 .. Len(u)
  BY DEF Behind
<1>4. Behind(w, a, S)
  BY <1>2, <1>3 DEF Parts, Behind
<1>5. QED
  BY <1>1, <1>4, Zenon

\* The words of a call of a program: header, credentials, verifier, arguments.
Called(w, x, p, v, q, cred, d) ==
    /\ w \in Seq(Nat) /\ Len(w) = 8 + Len(cred) + Len(d)
    /\ w[1] = x /\ w[2] = CALL /\ w[3] = 2 /\ w[4] = p /\ w[5] = v /\ w[6] = q
    /\ \A i \in 1 .. Len(cred) : w[6 + i] = cred[i]
    /\ w[7 + Len(cred)] = 0 /\ w[8 + Len(cred)] = 0
    /\ \A i \in 1 .. Len(d) : w[8 + Len(cred) + i] = d[i]

\* The header of a call.
LEMMA HeaderIs ==
    ASSUME NEW x \in Nat, NEW p \in Nat, NEW v \in Nat, NEW q \in Nat, NEW a, a = RpcHeader(x, p, v, q)
    PROVE  /\ a \in Seq(Nat) /\ Len(a) = 6
           /\ a[1] = x /\ a[2] = CALL /\ a[3] = 2 /\ a[4] = p /\ a[5] = v /\ a[6] = q
BY DEF RpcHeader, CALL

\* Empty credentials.
LEMMA NullIs == AUTH_NULL \in Seq(Nat) /\ Len(AUTH_NULL) = 2 /\ AUTH_NULL[1] = 0 /\ AUTH_NULL[2] = 0
BY DEF AUTH_NULL

\* The credentials of a machine.
LEMMA UnixIs ==
    ASSUME NEW h \in Machine
    PROVE  /\ Unix(h) \in Seq(Nat) /\ Len(Unix(h)) = 8
           /\ Unix(h)[1] = 1 /\ Unix(h)[2] = 24 /\ Unix(h)[3] = 7 /\ Unix(h)[4] = 4
           /\ Unix(h)[5] = NameOf(h) /\ Unix(h)[6] = 0 /\ Unix(h)[7] = 0 /\ Unix(h)[8] = 0
<1>1. NameOf(h) \in Nat
  BY MineAssumption DEF NameOf
<1>2. QED
  BY <1>1 DEF Unix

\* Where the words of a call are.
LEMMA CalledIs ==
    ASSUME NEW x \in Nat, NEW p \in Nat, NEW v \in Nat, NEW q \in Nat,
           NEW cred \in Seq(Nat), NEW d \in Seq(Nat)
    PROVE  Called(RpcHeader(x, p, v, q) \o cred \o AUTH_NULL \o d, x, p, v, q, cred, d)
<1>1. PICK a : a = RpcHeader(x, p, v, q)
  OBVIOUS
<1>2. /\ a \in Seq(Nat) /\ Len(a) = 6
      /\ a[1] = x /\ a[2] = CALL /\ a[3] = 2 /\ a[4] = p /\ a[5] = v /\ a[6] = q
  BY <1>1 DEF RpcHeader, CALL
<1>3. PICK null : null = AUTH_NULL
  OBVIOUS
<1>4. null \in Seq(Nat) /\ Len(null) = 2 /\ null[1] = 0 /\ null[2] = 0
  BY <1>3, NullIs
<1>5. PICK ab : ab = a \o cred
  OBVIOUS
<1>6. Parts(ab, a, cred, Nat)
  BY <1>2, <1>5, PartsAre, Zenon
<1>7. PICK abc : abc = ab \o null
  OBVIOUS
<1>8. Parts(abc, ab, null, Nat)
  <2>1. ab \in Seq(Nat)
    BY <1>6 DEF Parts
  <2>2. QED
    BY <1>4, <1>7, <2>1, PartsAre, Zenon
<1>9. PICK w : w = abc \o d
  OBVIOUS
<1>10. Parts(w, abc, d, Nat)
  <2>1. abc \in Seq(Nat)
    BY <1>8 DEF Parts
  <2>2. QED
    BY <1>9, <2>1, PartsAre, Zenon
<1>11. PICK n \in Nat : n = Len(cred)
  OBVIOUS
<1>12. Len(ab) = 6 + n /\ Len(abc) = 8 + n /\ Len(w) = 8 + n + Len(d) /\ w \in Seq(Nat)
  BY <1>2, <1>4, <1>6, <1>8, <1>10, <1>11 DEF Parts
<1>13. \A i \in 1 .. 8 + n : w[i] = abc[i]
  BY <1>10, <1>12 DEF Parts
<1>14. \A i \in 1 .. 6 + n : abc[i] = ab[i] /\ i \in 1 .. 8 + n
  BY <1>8, <1>12 DEF Parts
<1>15. \A i \in 1 .. 6 : ab[i] = a[i] /\ i \in 1 .. 6 + n
  <2>1. \A i \in 1 .. Len(a) : ab[i] = a[i]
    BY <1>6, Zenon DEF Parts
  <2>2. \A i \in 1 .. 6 : ab[i] = a[i]
    BY <1>2, <2>1
  <2>3. QED
    BY <1>11, <2>2
<1>16. \A i \in 1 .. n : ab[6 + i] = cred[i] /\ 6 + i \in 1 .. 6 + n
  <2>1. \A i \in 1 .. Len(cred) : ab[Len(a) + i] = cred[i]
    BY <1>6, Zenon DEF Parts
  <2>2. \A i \in 1 .. n : ab[6 + i] = cred[i]
    BY <1>2, <1>11, <2>1
  <2>3. QED
    BY <2>2
<1>17. abc[7 + n] = 0 /\ abc[8 + n] = 0
  <2>1. abc[6 + n + 1] = null[1] /\ abc[6 + n + 2] = null[2]
    BY <1>4, <1>8, <1>12 DEF Parts
  <2>2. 6 + n + 1 = 7 + n /\ 6 + n + 2 = 8 + n
    OBVIOUS
  <2>3. QED
    BY <1>4, <2>1, <2>2
<1>18. \A i \in 1 .. 6 : w[i] = a[i]
  BY <1>13, <1>14, <1>15
<1>19. \A i \in 1 .. n : w[6 + i] = cred[i]
  BY <1>13, <1>14, <1>16
<1>20. \A i \in 1 .. Len(d) : w[8 + n + i] = d[i]
  BY <1>10, <1>12 DEF Parts
<1>21. w[7 + n] = 0 /\ w[8 + n] = 0
  BY <1>13, <1>17
<1>22. Called(w, x, p, v, q, cred, d)
  BY <1>2, <1>11, <1>12, <1>18, <1>19, <1>20, <1>21 DEF Called
<1>23. QED
  BY <1>1, <1>3, <1>5, <1>7, <1>9, <1>22, Zenon

\* The last part of an answer follows five words, of which the first is that of
\* the call.
LEMMA AcceptedIs ==
    ASSUME NEW b, NEW rest \in Seq(Nat)
    PROVE  /\ Len(Accepted(b, rest)) = 5 + Len(rest)
           /\ Accepted(b, rest)[1] = b[1]
           /\ Accepted(b, rest) # <<>>
<1>1. PICK first : first = b[1]
  OBVIOUS
<1>2. PICK T : T = Nat \cup {first}
  OBVIOUS
<1>3. PICK u : u = <<first, REPLY, 0, 0, 0>>
  OBVIOUS
<1>4. u \in Seq(T) /\ Len(u) = 5 /\ u[1] = first
  BY <1>2, <1>3 DEF REPLY
<1>5. rest \in Seq(T)
  BY <1>2
<1>6. Len(u \o rest) = Len(u) + Len(rest) /\ (u \o rest)[1] = u[1] /\ u \o rest \in Seq(T)
  <2>1. \A i \in 1 .. Len(u) + Len(rest) : (u \o rest)[i] = IF i <= Len(u) THEN u[i] ELSE rest[i - Len(u)]
    BY <1>4, <1>5, ConcatProperties
  <2>2. Len(u \o rest) = Len(u) + Len(rest) /\ u \o rest \in Seq(T)
    BY <1>4, <1>5, ConcatProperties
  <2>3. 1 \in 1 .. Len(u) + Len(rest) /\ 1 <= Len(u)
    BY <1>4, <1>5
  <2>4. QED
    BY <2>1, <2>2, <2>3
<1>7. Accepted(b, rest) = u \o rest
  BY <1>1, <1>3, Zenon DEF Accepted
<1>8. QED
  BY <1>1, <1>4, <1>5, <1>6, <1>7

\* The arguments of a call with empty credentials follow its verifier.
LEMMA NullArgs ==
    ASSUME NEW w, NEW x, NEW p, NEW v, NEW q, NEW d \in Seq(Nat), Called(w, x, p, v, q, AUTH_NULL, d)
    PROVE  /\ Len(w) = 10 + Len(d) /\ Args(w) = 11
           /\ \A i \in 1 .. Len(d) : w[10 + i] = d[i]
<1>1. PICK null : null = AUTH_NULL
  OBVIOUS
<1>2. Len(null) = 2 /\ null[1] = 0 /\ null[2] = 0
  BY <1>1, NullIs, Zenon
<1>3. Called(w, x, p, v, q, null, d)
  BY <1>1, Zenon
<1>4. Len(w) = 10 + Len(d) /\ \A i \in 1 .. Len(d) : w[10 + i] = d[i]
  BY <1>2, <1>3 DEF Called
<1>5. w[7] = 0 /\ w[8] = 0 /\ w[9] = 0 /\ w[10] = 0
  <2>1. \A i \in 1 .. 2 : w[6 + i] = null[i]
    BY <1>2, <1>3 DEF Called
  <2>2. w[6 + 1] = null[1] /\ w[6 + 2] = null[2]
    BY <2>1
  <2>3. w[7 + 2] = 0 /\ w[8 + 2] = 0
    BY <1>2, <1>3 DEF Called
  <2>4. QED
    BY <1>2, <2>2, <2>3
<1>6. get_credentials(w) = 9
  <2>1. At(w, 7) = 0 /\ At(w, 8) = 0
    BY <1>4, <1>5 DEF At
  <2>2. ~(At(w, 7) = 1) /\ 9 + At(w, 8) \div 4 = 9
    BY <2>1
  <2>3. QED
    BY <2>2, Zenon DEF get_credentials
<1>7. get_verifier(w, 9) = 11
  BY <1>4, <1>5 DEF get_verifier, At
<1>8. QED
  BY <1>4, <1>6, <1>7 DEF Args

\* The words of credentials, and where the arguments begin: behind them for the
\* configured machine, in the middle of them for another.
LEMMA UnixArgs ==
    ASSUME NEW w, NEW x, NEW p, NEW v, NEW q, NEW d \in Seq(Nat), NEW h \in Machine,
           Called(w, x, p, v, q, Unix(h), d)
    PROVE  /\ Len(w) = 16 + Len(d)
           /\ h = Mine => Args(w) = 17
           /\ h # Mine => Args(w) = 12 /\ w[13] = 0
           /\ \A i \in 1 .. Len(d) : w[16 + i] = d[i]
<1>1. PICK cred : cred = Unix(h)
  OBVIOUS
<1>2. /\ Len(cred) = 8
      /\ cred[1] = 1 /\ cred[2] = 24 /\ cred[3] = 7 /\ cred[4] = 4
      /\ cred[5] = NameOf(h) /\ cred[6] = 0 /\ cred[7] = 0 /\ cred[8] = 0
  BY <1>1, UnixIs, Zenon
<1>3. Called(w, x, p, v, q, cred, d)
  BY <1>1, Zenon
<1>4. Len(w) = 16 + Len(d) /\ \A i \in 1 .. Len(d) : w[16 + i] = d[i]
  BY <1>2, <1>3 DEF Called
<1>5. /\ w[7] = 1 /\ w[8] = 24 /\ w[9] = 7 /\ w[10] = 4 /\ w[11] = NameOf(h) /\ w[13] = 0
      /\ w[15] = 0 /\ w[16] = 0
  <2>1. \A i \in 1 .. 8 : w[6 + i] = cred[i]
    BY <1>2, <1>3 DEF Called
  <2>2. w[6 + 1] = cred[1] /\ w[6 + 2] = cred[2] /\ w[6 + 3] = cred[3] /\ w[6 + 4] = cred[4]
        /\ w[6 + 5] = cred[5] /\ w[6 + 7] = cred[7]
    BY <2>1
  <2>3. w[7 + 8] = 0 /\ w[8 + 8] = 0
    BY <1>2, <1>3 DEF Called
  <2>4. QED
    BY <1>2, <2>2, <2>3
<1>6. At(w, 7) = 1 /\ At(w, 8) = 24 /\ At(w, 10) = 4 /\ At(w, 11) = NameOf(h) /\ At(w, 16) = 0
  BY <1>4, <1>5 DEF At
<1>7. CASE h = Mine
  <2>1. get_credentials(w) = 15
    BY <1>6, <1>7 DEF get_credentials
  <2>2. get_verifier(w, 15) = 17
    BY <1>6 DEF get_verifier
  <2>3. QED
    BY <1>4, <1>7, <2>1, <2>2 DEF Args
<1>8. CASE h # Mine
  <2>1. get_credentials(w) = 9
    BY <1>6, <1>8, MachinesDiffer DEF get_credentials
  <2>2. get_verifier(w, 9) = 12
    BY <1>6 DEF get_verifier
  <2>3. QED
    BY <1>4, <1>5, <1>8, <2>1, <2>2 DEF Args
<1>9. QED
  BY <1>7, <1>8

\* A call of a program passes the program's own check.
LEMMA CalledIsValid ==
    ASSUME NEW w, NEW x \in Nat, NEW p \in DOMAIN PortOf, NEW v \in Nat \ {0}, NEW q \in Nat, NEW cred, NEW d,
           Called(w, x, p, v, q, cred, d)
    PROVE  validate(w, p).vers = v
BY DEF Called, validate, CALL

\* Whom the run loop gives a call that passed.
LEMMA DispatchIs ==
    ASSUME NEW w
    PROVE  /\ validate(w, PORTMAPPERD).vers # 0 => Dispatch(w, PORTMAPPERD) = portmapperprog(w)
           /\ validate(w, MOUNTD).vers # 0 => Dispatch(w, MOUNTD) = mountprog(w, FALSE)
           /\ validate(w, BOOTPARAMD).vers # 0 => Dispatch(w, BOOTPARAMD) = bootparamprog(w, FALSE)
           /\ validate(w, LOCKD).vers # 0 => Dispatch(w, LOCKD) = lockprog(w, FALSE)
           /\ validate(w, NFSD).vers # 0 => Dispatch(w, NFSD) \in {nfsprog(w, FALSE), Says(<<>>)}
           /\ \A p \in DOMAIN PortOf : validate(w, p).vers = 0 => Dispatch(w, p) = Says(validate(w, p).answer)
<1>1. /\ MOUNTD # PORTMAPPERD /\ LOCKD # PORTMAPPERD /\ BOOTPARAMD # PORTMAPPERD /\ NFSD # PORTMAPPERD
      /\ LOCKD # MOUNTD /\ BOOTPARAMD # MOUNTD /\ NFSD # MOUNTD
      /\ BOOTPARAMD # LOCKD /\ NFSD # LOCKD /\ NFSD # BOOTPARAMD
  BY DEF PORTMAPPERD, MOUNTD, LOCKD, BOOTPARAMD, NFSD
<1>2. ASSUME validate(w, PORTMAPPERD).vers # 0 PROVE Dispatch(w, PORTMAPPERD) = portmapperprog(w)
  BY <1>1, <1>2, Zenon DEF Dispatch
<1>3. ASSUME validate(w, MOUNTD).vers # 0 PROVE Dispatch(w, MOUNTD) = mountprog(w, FALSE)
  BY <1>1, <1>3, Zenon DEF Dispatch
<1>4. ASSUME validate(w, BOOTPARAMD).vers # 0 PROVE Dispatch(w, BOOTPARAMD) = bootparamprog(w, FALSE)
  BY <1>1, <1>4, Zenon DEF Dispatch
<1>5. ASSUME validate(w, LOCKD).vers # 0 PROVE Dispatch(w, LOCKD) = lockprog(w, FALSE)
  BY <1>1, <1>5, Zenon DEF Dispatch
<1>6. ASSUME validate(w, NFSD).vers # 0 PROVE Dispatch(w, NFSD) \in {nfsprog(w, FALSE), Says(<<>>)}
  BY <1>1, <1>6, Zenon DEF Dispatch
<1>7. ASSUME NEW p \in DOMAIN PortOf, validate(w, p).vers = 0 PROVE Dispatch(w, p) = Says(validate(w, p).answer)
  BY <1>7, Zenon DEF Dispatch
<1>8. QED
  BY <1>2, <1>3, <1>4, <1>5, <1>6, <1>7, Zenon

\* When a call gets nothing.
LEMMA NothingIs ==
    ASSUME NEW w, NEW p, NEW u, Dispatch(w, p) = [answer |-> u, mounts |-> "keep"], Harmless(u)
    PROVE  GetsNothing(w, p)
<1>1. PICK r : r = Dispatch(w, p)
  OBVIOUS
<1>2. r.answer = u /\ r.mounts # "add"
  BY <1>1
<1>3. QED
  BY <1>1, <1>2, Zenon DEF GetsNothing

\* When a call is right.
LEMMA RightCall ==
    ASSUME NEW h, NEW p \in DOMAIN PortOf, NEW S, NEW w \in Seq(S), Len(w) >= 6,
           w[4] = PORTMAPPERD /\ w[6] = 5 => At(w, Args(w)) # MOUNTD,
           h # Mine => GetsNothing(w, p)
    PROVE  CallIsRight([from |-> h, prog |-> p, words |-> w])
<1>1. PICK c : c = [from |-> h, prog |-> p, words |-> w]
  OBVIOUS
<1>2. c.from = h /\ c.prog = p /\ c.words = w
  BY <1>1
<1>3. CallIsRight(c)
  BY <1>2, Zenon DEF CallIsRight
<1>4. QED
  BY <1>1, <1>3, Zenon

\* What GETFILE tells a machine whose name is not the configured one.
LEMMA GetFileTellsNothing ==
    ASSUME NEW h \in Machine \ {Mine}, stage[h] = 2, known[h].name = NameOf(h)
    PROVE  CallIsRight([from |-> h, prog |-> BOOTPARAMD, words |-> Question(h, 2)])
<1>1. PICK d : d = <<4, NameOf(h), 4, Root>>
  OBVIOUS
<1>2. d \in Seq(Nat) /\ Len(d) = 4 /\ d[2] = NameOf(h)
  BY <1>1, MachinesDiffer DEF Root
<1>3. PICK w : w = Question(h, 2)
  OBVIOUS
<1>4. w = RpcHeader(2, BOOTPARAMD, 1, 2) \o AUTH_NULL \o AUTH_NULL \o d
  BY <1>1, <1>3, SMTT(20) DEF Question
<1>5. Called(w, 2, BOOTPARAMD, 1, 2, AUTH_NULL, d)
  <2>1. BOOTPARAMD \in Nat
    BY DEF BOOTPARAMD
  <2>2. QED
    BY <1>2, <1>4, <2>1, NullIs, CalledIs
<1>6. Len(w) = 14 /\ Args(w) = 11 /\ At(w, 12) = NameOf(h)
  <2>1. Len(w) = 10 + Len(d) /\ Args(w) = 11 /\ \A i \in 1 .. Len(d) : w[10 + i] = d[i]
    BY <1>2, <1>5, NullArgs, Zenon
  <2>2. w[10 + 2] = d[2]
    BY <1>2, <2>1
  <2>3. QED
    BY <1>2, <2>1, <2>2 DEF At
<1>7. w[1] = 2 /\ w[4] = BOOTPARAMD /\ w[6] = 2
  BY <1>5 DEF Called
<1>8. validate(w, BOOTPARAMD).vers = 1
  <2>1. BOOTPARAMD \in DOMAIN PortOf
    BY DEF PortOf
  <2>2. QED
    BY <1>5, <2>1, CalledIsValid
<1>9. bootparamprog(w, FALSE) = Says(Accepted(w, <<SUCCESS>> \o <<NFSERR>>))
  <2>1. At(w, Args(w) + 0 + 1) # NameOf(Mine)
    BY <1>6, MachinesDiffer
  <2>2. QED
    BY <1>7, <2>1 DEF bootparamprog
<1>10. Dispatch(w, BOOTPARAMD) = Says(Accepted(w, <<SUCCESS>> \o <<NFSERR>>))
  <2>1. validate(w, BOOTPARAMD).vers # 0
    BY <1>8
  <2>2. QED
    BY <1>9, <2>1, DispatchIs, Zenon
<1>11. PICK rest : rest = <<SUCCESS>> \o <<NFSERR>>
  OBVIOUS
<1>12. rest \in Seq(Nat) /\ Len(rest) = 2
  BY <1>11 DEF SUCCESS, NFSERR
<1>13. Len(Accepted(w, rest)) = 5 + Len(rest) /\ Accepted(w, rest)[1] = w[1]
  BY <1>12, AcceptedIs, Zenon
<1>14. Harmless(Accepted(w, rest))
  BY <1>7, <1>12, <1>13 DEF Harmless
<1>15. GetsNothing(w, BOOTPARAMD)
  BY <1>10, <1>11, <1>14, NothingIs, Zenon DEF Says
<1>16. w \in Seq(Nat) /\ w[4] # PORTMAPPERD /\ Len(w) >= 6 /\ BOOTPARAMD \in DOMAIN PortOf
  BY <1>5, <1>6, <1>7 DEF Called, PORTMAPPERD, BOOTPARAMD, PortOf
<1>17. CallIsRight([from |-> h, prog |-> BOOTPARAMD, words |-> w])
  BY <1>15, <1>16, RightCall, Zenon
<1>18. QED
  BY <1>3, <1>17, Zenon

\* MNT with another machine's credentials is refused: what stands where the
\* path is looked for is no path.
LEMMA MountIsRefused ==
    ASSUME NEW h \in Machine \ {Mine}
    PROVE  CallIsRight([from |-> h, prog |-> MOUNTD, words |-> Question(h, 4)])
<1>1. PICK d : d = <<4, Root>>
  OBVIOUS
<1>2. d \in Seq(Nat) /\ Len(d) = 2
  BY <1>1 DEF Root
<1>3. PICK w : w = Question(h, 4)
  OBVIOUS
<1>4. w = RpcHeader(4, MOUNTD, 1, 1) \o Unix(h) \o AUTH_NULL \o d
  BY <1>1, <1>3, SMTT(20) DEF Question
<1>5. Called(w, 4, MOUNTD, 1, 1, Unix(h), d)
  <2>1. MOUNTD \in Nat
    BY DEF MOUNTD
  <2>2. Unix(h) \in Seq(Nat)
    BY UnixIs
  <2>3. QED
    BY <1>2, <1>4, <2>1, <2>2, CalledIs
<1>6. Len(w) = 18 /\ Args(w) = 12 /\ w[13] = 0
  <2>1. Len(w) = 16 + Len(d) /\ Args(w) = 12 /\ w[13] = 0
    BY <1>2, <1>5, UnixArgs, Zenon
  <2>2. QED
    BY <1>2, <2>1
<1>7. w[1] = 4 /\ w[4] = MOUNTD /\ w[6] = 1
  BY <1>5 DEF Called
<1>8. validate(w, MOUNTD).vers = 1
  <2>1. MOUNTD \in DOMAIN PortOf
    BY DEF PortOf
  <2>2. QED
    BY <1>5, <2>1, CalledIsValid
<1>9. PICK rest : rest = Told(FALSE, MOUNTD) \o <<2>>
  OBVIOUS
<1>10. rest \in Seq(Nat) /\ Len(rest) = 2
  BY <1>9 DEF Told, SUCCESS
<1>11. mountprog(w, FALSE) = [answer |-> Accepted(w, rest), mounts |-> "keep"]
  <2>1. At(w, Args(w) + 1) # Root
    BY <1>6 DEF At, Root
  <2>2. QED
    BY <1>7, <1>9, <2>1 DEF mountprog
<1>12. Dispatch(w, MOUNTD) = [answer |-> Accepted(w, rest), mounts |-> "keep"]
  <2>1. validate(w, MOUNTD).vers # 0
    BY <1>8
  <2>2. QED
    BY <1>11, <2>1, DispatchIs, Zenon
<1>13. Len(Accepted(w, rest)) = 5 + Len(rest) /\ Accepted(w, rest)[1] = w[1]
  BY <1>10, AcceptedIs, Zenon
<1>14. Harmless(Accepted(w, rest))
  BY <1>7, <1>10, <1>13 DEF Harmless
<1>15. GetsNothing(w, MOUNTD)
  BY <1>12, <1>14, NothingIs, Zenon
<1>16. w \in Seq(Nat) /\ w[4] # PORTMAPPERD /\ Len(w) >= 6 /\ MOUNTD \in DOMAIN PortOf
  BY <1>5, <1>6, <1>7 DEF Called, PORTMAPPERD, MOUNTD, PortOf
<1>17. CallIsRight([from |-> h, prog |-> MOUNTD, words |-> w])
  BY <1>15, <1>16, RightCall, Zenon
<1>18. QED
  BY <1>3, <1>17, Zenon

\* The call inside a CALLIT: what the broadcast of a machine is rolled to.
LEMMA RolledIs ==
    ASSUME NEW w \in Seq(Nat), Len(w) = 16, Args(w) = 11
    PROVE  /\ Rolled(w)[1] = w[1] /\ Rolled(w)[6] = w[13]
           /\ \A i \in 7 .. 10 : At(Rolled(w), i) = w[i]
           /\ At(Rolled(w), 13) = w[16]
<1>1. \A i \in 1 .. 16 : w[i] \in Nat
  <2>1. \A i \in 1 .. Len(w) : w[i] \in Nat
    BY ElementOfSeq, Zenon
  <2>2. QED
    BY <2>1
<1>2. PICK u : u = SubSeq(w, 1, 10)
  OBVIOUS
<1>3. u \in Seq(Nat) /\ Len(u) = 10 /\ \A i \in 1 .. 10 : u[i] = w[i]
  <2>1. ASSUME NEW i \in 1 .. 10 PROVE w[i] \in Nat
    <3>1. i \in 1 .. 16
      OBVIOUS
    <3>2. QED
      BY <1>1, <3>1, Zenon
  <2>2. /\ SubSeq(w, 1, 10) \in Seq(Nat)
        /\ Len(SubSeq(w, 1, 10)) = (IF 1 <= 10 THEN 10 - 1 + 1 ELSE 0)
        /\ \A i \in 1 .. 10 - 1 + 1 : SubSeq(w, 1, 10)[i] = w[1 + i - 1]
    BY <2>1, SubSeqProperties
  <2>3. QED
    BY <1>2, <2>2
<1>4. PICK v : v = SubSeq(w, 14, 16)
  OBVIOUS
<1>5. v \in Seq(Nat) /\ Len(v) = 3 /\ v[3] = w[16]
  <2>1. ASSUME NEW i \in 14 .. 16 PROVE w[i] \in Nat
    <3>1. i \in 1 .. 16
      OBVIOUS
    <3>2. QED
      BY <1>1, <3>1, Zenon
  <2>2. /\ SubSeq(w, 14, 16) \in Seq(Nat)
        /\ Len(SubSeq(w, 14, 16)) = (IF 14 <= 16 THEN 16 - 14 + 1 ELSE 0)
        /\ \A i \in 1 .. 16 - 14 + 1 : SubSeq(w, 14, 16)[i] = w[14 + i - 1]
    BY <2>1, SubSeqProperties
  <2>3. QED
    BY <1>4, <2>2
<1>6. PICK z : z = <<Stale, Stale, Stale>>
  OBVIOUS
<1>7. z \in Seq(Nat) /\ Len(z) = 3
  BY <1>6 DEF Stale
<1>8. PICK uv : uv = u \o v
  OBVIOUS
<1>9. Parts(uv, u, v, Nat)
  BY <1>3, <1>5, <1>8, PartsAre, Zenon
<1>10. uv \in Seq(Nat) /\ Len(uv) = 13 /\ uv[13] = w[16] /\ \A i \in 1 .. 10 : uv[i] = w[i]
  <2>1. uv \in Seq(Nat) /\ Len(uv) = 13
    BY <1>3, <1>5, <1>9 DEF Parts
  <2>2. \A i \in 1 .. 10 : uv[i] = u[i]
    BY <1>3, <1>9 DEF Parts
  <2>3. uv[10 + 3] = v[3]
    BY <1>3, <1>5, <1>9 DEF Parts
  <2>4. QED
    BY <1>3, <1>5, <2>1, <2>2, <2>3
<1>11. PICK t : t = uv \o z
  OBVIOUS
<1>12. Parts(t, uv, z, Nat)
  BY <1>7, <1>10, <1>11, PartsAre, Zenon
<1>13. t \in Seq(Nat) /\ Len(t) = 16 /\ t[13] = w[16] /\ \A i \in 1 .. 10 : t[i] = w[i]
  <2>1. t \in Seq(Nat) /\ Len(t) = 16
    BY <1>7, <1>10, <1>12 DEF Parts
  <2>2. \A i \in 1 .. 13 : t[i] = uv[i]
    BY <1>10, <1>12 DEF Parts
  <2>3. QED
    BY <1>10, <2>1, <2>2
<1>14. At(w, 13) = w[13]
  BY DEF At
<1>15. PICK r : r = [t EXCEPT ![6] = w[13]]
  OBVIOUS
<1>16. r \in Seq(Nat) /\ Len(r) = 16 /\ r[6] = w[13] /\ r[13] = w[16]
       /\ \A i \in 1 .. 10 : i # 6 => r[i] = w[i]
  <2>1. w[13] \in Nat
    BY <1>1
  <2>2. DOMAIN r = 1 .. 16 /\ r[6] = w[13] /\ \A i \in 1 .. 16 : i # 6 => r[i] = t[i]
    BY <1>13, <1>15
  <2>3. r \in Seq(Nat) /\ Len(r) = Len(t)
    <3>1. 6 \in 1 .. Len(t) /\ t \in Seq(Nat)
      BY <1>13
    <3>2. PICK e \in Nat : e = w[13]
      BY <2>1
    <3>3. [t EXCEPT ![6] = e] \in Seq(Nat) /\ Len([t EXCEPT ![6] = e]) = Len(t)
      BY <3>1, ExceptSeq
    <3>4. QED
      BY <1>15, <3>2, <3>3, Zenon
  <2>4. QED
    BY <1>13, <2>2, <2>3
<1>17. Rolled(w) = r
  <2>1. 11 - 1 = 10 /\ 11 + 3 = 14 /\ 11 + 2 = 13
    OBVIOUS
  <2>2. Rolled(w) = [SubSeq(w, 1, 11 - 1) \o SubSeq(w, 11 + 3, Len(w)) \o <<Stale, Stale, Stale>> EXCEPT ![6] = At(w, 11 + 2)]
    BY Zenon DEF Rolled
  <2>3. QED
    BY <1>2, <1>4, <1>6, <1>8, <1>11, <1>14, <1>15, <2>1, <2>2, Zenon
<1>18. r[1] = w[1] /\ r[6] = w[13] /\ (\A i \in 7 .. 10 : At(r, i) = w[i]) /\ At(r, 13) = w[16]
  BY <1>16 DEF At
<1>19. QED
  BY <1>17, <1>18, Zenon

\* Nobody but the configured machine hears its name from a broadcast.
LEMMA WhoAmITellsNothing ==
    ASSUME NEW h \in Machine \ {Mine}, known[h].ip = Ip(h)
    PROVE  GetsNothing(Question(h, 1), PORTMAPPERD)
<1>1. PICK d : d = <<BOOTPARAMD, 1, 1, 8, 1, Ip(h)>>
  OBVIOUS
<1>2. d \in Seq(Nat) /\ Len(d) = 6 /\ d[1] = BOOTPARAMD /\ d[3] = 1 /\ d[6] = Ip(h)
  BY <1>1, MachinesDiffer DEF BOOTPARAMD
<1>3. PICK w : w = Question(h, 1)
  OBVIOUS
<1>4. w = RpcHeader(1, PORTMAPPERD, 2, 5) \o AUTH_NULL \o AUTH_NULL \o d
  BY <1>1, <1>3, SMTT(20) DEF Question
<1>5. Called(w, 1, PORTMAPPERD, 2, 5, AUTH_NULL, d)
  <2>1. PORTMAPPERD \in Nat
    BY DEF PORTMAPPERD
  <2>2. QED
    BY <1>2, <1>4, <2>1, NullIs, CalledIs
<1>6. /\ w \in Seq(Nat) /\ Len(w) = 16 /\ Args(w) = 11
      /\ w[7] = 0 /\ w[8] = 0 /\ w[9] = 0 /\ w[10] = 0 /\ w[11] = BOOTPARAMD /\ w[13] = 1 /\ w[16] = Ip(h)
  <2>1. Len(w) = 10 + Len(d) /\ Args(w) = 11 /\ \A i \in 1 .. Len(d) : w[10 + i] = d[i]
    BY <1>2, <1>5, NullArgs, Zenon
  <2>2. w[10 + 1] = d[1] /\ w[10 + 3] = d[3] /\ w[10 + 6] = d[6]
    BY <1>2, <2>1
  <2>3. PICK null : null = AUTH_NULL
    OBVIOUS
  <2>4. Len(null) = 2 /\ null[1] = 0 /\ null[2] = 0 /\ Called(w, 1, PORTMAPPERD, 2, 5, null, d)
    BY <1>5, <2>3, NullIs, Zenon
  <2>5. w \in Seq(Nat) /\ w[6 + 1] = null[1] /\ w[6 + 2] = null[2] /\ w[7 + 2] = 0 /\ w[8 + 2] = 0
    BY <2>4 DEF Called
  <2>6. QED
    BY <1>2, <2>1, <2>2, <2>4, <2>5
<1>7. w[1] = 1 /\ w[6] = 5
  BY <1>5 DEF Called
<1>8. Dispatch(w, PORTMAPPERD) = portmapperprog(w)
  <2>1. PORTMAPPERD \in DOMAIN PortOf
    BY DEF PortOf
  <2>2. validate(w, PORTMAPPERD).vers = 2
    BY <1>5, <2>1, CalledIsValid
  <2>3. validate(w, PORTMAPPERD).vers # 0
    BY <2>2
  <2>4. QED
    BY <2>3, DispatchIs, Zenon
<1>9. portmapperprog(w) = bootparamprog(Rolled(w), TRUE)
  <2>1. /\ BOOTPARAMD # MOUNTD /\ BOOTPARAMD # LOCKD /\ BOOTPARAMD # NFSD
        /\ MOUNTD # LOCKD /\ MOUNTD # NFSD /\ LOCKD # NFSD
    BY DEF MOUNTD, LOCKD, BOOTPARAMD, NFSD
  <2>2. At(w, Args(w)) = BOOTPARAMD
    BY <1>6 DEF At
  <2>3. w[6] # 3 /\ w[6] = 5
    BY <1>7
  <2>4. QED
    BY <2>1, <2>2, <2>3, Zenon DEF portmapperprog
<1>10. PICK r : r = Rolled(w)
  OBVIOUS
<1>11. r[1] = 1 /\ r[6] = 1 /\ At(r, 7) = 0 /\ At(r, 8) = 0 /\ At(r, 10) = 0 /\ At(r, 13) = Ip(h)
  <2>1. r[1] = w[1] /\ r[6] = w[13] /\ (\A i \in 7 .. 10 : At(r, i) = w[i]) /\ At(r, 13) = w[16]
    BY <1>6, <1>10, RolledIs, Zenon
  <2>2. At(r, 7) = w[7] /\ At(r, 8) = w[8] /\ At(r, 10) = w[10]
    BY <2>1
  <2>3. QED
    BY <1>6, <1>7, <2>1, <2>2
<1>12. Args(r) = 11
  <2>1. ~(At(r, 7) = 1) /\ 9 + At(r, 8) \div 4 = 9
    BY <1>11
  <2>2. get_credentials(r) = 9
    BY <2>1, Zenon DEF get_credentials
  <2>3. get_verifier(r, 9) = 11
    BY <1>11 DEF get_verifier
  <2>4. QED
    BY <2>2, <2>3 DEF Args
<1>13. PICK rest : rest = <<SUCCESS>> \o <<>>
  OBVIOUS
<1>14. rest \in Seq(Nat) /\ Len(rest) = 1
  BY <1>13 DEF SUCCESS
<1>15. bootparamprog(r, TRUE) = Says(Accepted(r, rest))
  <2>1. ~whoami(r, 12)
    BY <1>11, MachinesDiffer DEF whoami
  <2>2. QED
    BY <1>11, <1>12, <1>13, <2>1 DEF bootparamprog
<1>16. Len(Accepted(r, rest)) = 5 + Len(rest) /\ Accepted(r, rest)[1] = r[1]
  BY <1>14, AcceptedIs, Zenon
<1>17. Harmless(Accepted(r, rest))
  BY <1>11, <1>14, <1>16 DEF Harmless
<1>18. QED
  BY <1>3, <1>8, <1>9, <1>10, <1>15, <1>17, NothingIs, Zenon DEF Says

\* A call begins with its header.
LEMMA Headed ==
    ASSUME NEW S, NEW a \in Seq(S), Len(a) = 6, NEW cred \in Seq(S), NEW z \in Seq(S), NEW d \in Seq(S)
    PROVE  Behind(a \o cred \o z, a, S) /\ Behind(a \o cred \o z \o d, a, S)
<1>1. Behind(a, a, S)
  BY DEF Behind
<1>2. PICK ab : ab = a \o cred
  OBVIOUS
<1>3. Behind(ab, a, S)
  BY <1>1, <1>2, HeaderStays, Zenon
<1>4. PICK abc : abc = ab \o z
  OBVIOUS
<1>5. Behind(abc, a, S)
  <2>1. ab \in Seq(S)
    BY <1>3 DEF Behind
  <2>2. QED
    BY <1>3, <1>4, <2>1, HeaderStays, Zenon
<1>6. Behind(abc \o d, a, S)
  <2>1. abc \in Seq(S)
    BY <1>5 DEF Behind
  <2>2. QED
    BY <1>5, <2>1, HeaderStays, Zenon
<1>7. QED
  BY <1>2, <1>4, <1>5, <1>6, Zenon

\* The configured machine's calls are right at whichever stage it is: the only
\* one that asks the portmapper to pass it on is for NFS.
LEMMA OwnCalls ==
    ASSUME NEW s \in 2 .. 8, NEW p \in DOMAIN PortOf
    PROVE  CallIsRight([from |-> Mine, prog |-> p, words |-> Question(Mine, s)])
<1>1. PICK w : w = Question(Mine, s)
  OBVIOUS
<1>2. PICK unix : unix = Unix(Mine)
  OBVIOUS
<1>3. PICK null : null = AUTH_NULL
  OBVIOUS
<1>4. unix \in Seq(Nat) /\ null \in Seq(Nat)
  BY <1>2, <1>3, MineAssumption, NullIs, UnixIs, Zenon
<1>5. PORTMAPPERD \in Nat /\ NFSD \in Nat /\ MOUNTD \in Nat /\ LOCKD \in Nat /\ BOOTPARAMD \in Nat
  BY DEF PORTMAPPERD, NFSD, MOUNTD, LOCKD, BOOTPARAMD
<1>6. /\ NFSD # PORTMAPPERD /\ MOUNTD # PORTMAPPERD /\ LOCKD # PORTMAPPERD /\ BOOTPARAMD # PORTMAPPERD
      /\ NFSD # MOUNTD
  BY DEF PORTMAPPERD, NFSD, MOUNTD, LOCKD, BOOTPARAMD
<1>7. SUFFICES \E S : /\ w \in Seq(S) /\ Len(w) >= 6
                      /\ w[4] = PORTMAPPERD /\ w[6] = 5 => At(w, Args(w)) # MOUNTD
  <2>1. PICK S : /\ w \in Seq(S) /\ Len(w) >= 6
                 /\ w[4] = PORTMAPPERD /\ w[6] = 5 => At(w, Args(w)) # MOUNTD
    BY <1>7
  <2>2. CallIsRight([from |-> Mine, prog |-> p, words |-> w])
    BY <2>1, RightCall, Zenon
  <2>3. QED
    BY <1>1, <2>2, Zenon
<1>8. CASE s = 2
  <2>1. PICK S : S = Nat \cup {known[Mine].name}
    OBVIOUS
  <2>2. PICK d : d = <<4, known[Mine].name, 4, Root>>
    OBVIOUS
  <2>3. d \in Seq(S) /\ null \in Seq(S)
    <3>1. PICK name : name = known[Mine].name
      OBVIOUS
    <3>2. 4 \in S /\ Root \in S /\ name \in S /\ Nat \subseteq S
      BY <2>1, <3>1 DEF Root
    <3>3. <<4, name, 4, Root>> \in Seq(S)
      BY <3>2
    <3>4. null \in Seq(S)
      BY <1>4, <3>2
    <3>5. QED
      BY <2>2, <3>1, <3>3, <3>4, Zenon
  <2>4. PICK a : a = RpcHeader(2, BOOTPARAMD, 1, 2)
    OBVIOUS
  <2>5. a \in Seq(S) /\ Len(a) = 6 /\ a[4] = BOOTPARAMD
    BY <1>5, <2>1, <2>4, 0 \in Nat, 1 \in Nat, 2 \in Nat DEF RpcHeader, CALL
  <2>6. w = a \o null \o null \o d
    BY <1>1, <1>3, <1>8, <2>2, <2>4, SMTT(20) DEF Question
  <2>7. Behind(w, a, S)
    BY <2>3, <2>5, <2>6, Headed, Zenon
  <2>8. QED
    BY <1>6, <2>5, <2>7 DEF Behind
<1>9. CASE s \in {3, 5}
  <2>1. PICK d \in Seq(Nat) : d = IF s = 3 THEN <<MOUNTD, 1, UDP, 0>> ELSE <<LOCKD, 4, UDP, 0>>
    <3>1. PICK e : e = IF s = 3 THEN <<MOUNTD, 1, UDP, 0>> ELSE <<LOCKD, 4, UDP, 0>>
      OBVIOUS
    <3>2. e \in Seq(Nat)
      BY <1>5, <3>1 DEF UDP
    <3>3. QED
      BY <3>1, <3>2, Zenon
  <2>2. PICK cred \in Seq(Nat) : cred = IF s = 3 THEN null ELSE unix
    BY <1>4
  <2>3. PICK a : a = RpcHeader(s, PORTMAPPERD, 2, 3)
    OBVIOUS
  <2>4. a \in Seq(Nat) /\ Len(a) = 6 /\ a[6] = 3
    BY <1>5, <2>3 DEF RpcHeader, CALL
  <2>5. w = a \o cred \o null \o d
    <3>1. CASE s = 3
      BY <1>1, <1>3, <2>1, <2>2, <2>3, <3>1, SMTT(20) DEF Question
    <3>2. CASE s = 5
      BY <1>1, <1>2, <1>3, <2>1, <2>2, <2>3, <3>2, SMTT(20) DEF Question
    <3>3. QED
      BY <1>9, <3>1, <3>2
  <2>6. Behind(w, a, Nat)
    BY <1>4, <2>4, <2>5, Headed, Zenon
  <2>7. QED
    BY <2>4, <2>6 DEF Behind
<1>10. CASE s \in {4, 6}
  <2>1. PICK d \in Seq(Nat) : d = <<4, Root>>
    <3>1. PICK e : e = <<4, Root>>
      OBVIOUS
    <3>2. e \in Seq(Nat)
      BY <3>1 DEF Root
    <3>3. QED
      BY <3>1, <3>2, Zenon
  <2>2. PICK a : a = IF s = 4 THEN RpcHeader(4, MOUNTD, 1, 1) ELSE RpcHeader(6, LOCKD, 4, 2)
    OBVIOUS
  <2>3. a \in Seq(Nat) /\ Len(a) = 6 /\ a[4] \in {MOUNTD, LOCKD}
    BY <1>5, <2>2 DEF RpcHeader, CALL
  <2>4. w = a \o unix \o null \o d
    <3>1. CASE s = 4
      BY <1>1, <1>2, <1>3, <2>1, <2>2, <3>1, SMTT(20) DEF Question
    <3>2. CASE s = 6
      BY <1>1, <1>2, <1>3, <2>1, <2>2, <3>2, SMTT(20) DEF Question
    <3>3. QED
      BY <1>10, <3>1, <3>2
  <2>5. Behind(w, a, Nat)
    BY <1>4, <2>1, <2>3, <2>4, Headed, Zenon
  <2>6. QED
    BY <1>6, <2>3, <2>5 DEF Behind
<1>11. CASE s = 7
  <2>1. PICK d : d = <<NFSD, 2, 0, 0>>
    OBVIOUS
  <2>2. d \in Seq(Nat) /\ Len(d) = 4 /\ d[1] = NFSD
    BY <1>5, <2>1
  <2>3. w = RpcHeader(7, PORTMAPPERD, 2, 5) \o Unix(Mine) \o AUTH_NULL \o d
    BY <1>1, <1>11, <2>1, SMTT(20) DEF Question
  <2>4. Mine \in Machine /\ Unix(Mine) \in Seq(Nat)
    BY <1>2, <1>4, MineAssumption
  <2>5. Called(w, 7, PORTMAPPERD, 2, 5, Unix(Mine), d)
    BY <1>5, <2>2, <2>3, <2>4, CalledIs
  <2>6. Len(w) = 16 + Len(d) /\ Args(w) = 17 /\ \A i \in 1 .. Len(d) : w[16 + i] = d[i]
    BY <2>2, <2>4, <2>5, UnixArgs, Zenon
  <2>7. w[16 + 1] = d[1] /\ Len(w) = 20
    BY <2>2, <2>6
  <2>8. At(w, Args(w)) = NFSD
    BY <2>2, <2>6, <2>7 DEF At
  <2>9. w \in Seq(Nat)
    BY <2>5 DEF Called
  <2>10. QED
    BY <1>6, <2>7, <2>8, <2>9
<1>12. CASE s = 8
  <2>1. PICK a : a = RpcHeader(8, NFSD, 2, 0)
    OBVIOUS
  <2>2. a \in Seq(Nat) /\ Len(a) = 6 /\ a[4] = NFSD
    BY <1>5, <2>1 DEF RpcHeader, CALL
  <2>3. w = a \o unix \o null
    BY <1>1, <1>2, <1>3, <1>12, <2>1, SMTT(20) DEF Question
  <2>4. Behind(w, a, Nat)
    BY <1>4, <2>2, <2>3, Headed, Zenon
  <2>5. QED
    BY <1>6, <2>2, <2>4 DEF Behind
<1>13. s \in {2, 3, 4, 5, 6, 7, 8}
  OBVIOUS
<1>14. QED
  BY <1>8, <1>9, <1>10, <1>11, <1>12, <1>13

\* A call that passes is a call, of version 2 of RPC, of that program.
LEMMA ValidIs ==
    ASSUME NEW w, NEW p, validate(w, p).vers # 0
    PROVE  w[2] = CALL /\ w[3] = 2 /\ w[4] = p /\ w[5] # 0
BY DEF validate

\* What a rejected call is told begins with its number.
LEMMA RejectedIs ==
    ASSUME NEW w, NEW p \in Nat
    PROVE  validate(w, p).answer = <<>> \/ validate(w, p).answer[1] = w[1]
<1>1. CASE w[2] # CALL
  <2>1. PICK rest : rest = <<4>>
    OBVIOUS
  <2>2. rest \in Seq(Nat)
    BY <2>1
  <2>3. validate(w, p).answer = Accepted(w, rest)
    BY <1>1, <2>1 DEF validate
  <2>4. QED
    BY <2>2, <2>3, AcceptedIs, Zenon
<1>2. CASE w[2] = CALL /\ w[3] # 2
  <2>1. PICK x : x = w[1]
    OBVIOUS
  <2>2. validate(w, p).answer = <<x, REPLY, 1, 2, 2, 2>>
    BY <1>2, <2>1 DEF validate
  <2>3. QED
    BY <2>1, <2>2
<1>3. CASE w[2] = CALL /\ w[3] = 2 /\ w[4] # p
  <2>1. PICK rest : rest = <<2, p, p>>
    OBVIOUS
  <2>2. rest \in Seq(Nat)
    BY <2>1
  <2>3. validate(w, p).answer = Accepted(w, rest)
    BY <1>3, <2>1 DEF validate
  <2>4. QED
    BY <2>2, <2>3, AcceptedIs, Zenon
<1>4. CASE w[2] = CALL /\ w[3] = 2 /\ w[4] = p
  BY <1>4 DEF validate
<1>5. QED
  BY <1>1, <1>2, <1>3, <1>4

\* What a call does to the mounts: only mountd's own UMNTALL clears them.
LEMMA ClearIsUmntall ==
    ASSUME NEW w, NEW p \in DOMAIN PortOf,
           w[4] = PORTMAPPERD /\ w[6] = 5 => At(w, Args(w)) # MOUNTD
    PROVE  /\ Dispatch(w, p).mounts \in {"add", "clear", "keep"}
           /\ Dispatch(w, p).mounts = "clear" =>
                w[2] = CALL /\ w[3] = 2 /\ w[4] = MOUNTD /\ w[5] # 0 /\ w[6] = 4
<1>1. \A words : Says(words).mounts = "keep"
  BY DEF Says
<1>2. \A b, internal : lockprog(b, internal).mounts = "keep"
  <2>1. ASSUME NEW b, NEW internal PROVE lockprog(b, internal).mounts = "keep"
    <3>1. PICK u : u = Accepted(b, Told(internal, LOCKD) \o IF b[6] \in 1 .. 4 THEN <<0>> ELSE <<>>)
      OBVIOUS
    <3>2. lockprog(b, internal) = Says(u)
      BY <3>1, Zenon DEF lockprog
    <3>3. QED
      BY <1>1, <3>2, Zenon
  <2>2. QED
    BY <2>1
<1>3. \A b, internal : nfsprog(b, internal).mounts = "keep"
  BY <1>1, Zenon DEF nfsprog
<1>4. \A b, internal : bootparamprog(b, internal).mounts = "keep"
  BY <1>1, Zenon DEF bootparamprog
<1>5. CASE validate(w, p).vers = 0
  BY <1>1, <1>5, DispatchIs, Zenon
<1>6. ASSUME validate(w, p).vers # 0, p = PORTMAPPERD
      PROVE  Dispatch(w, p).mounts = "keep"
  <2>1. Dispatch(w, p) = portmapperprog(w) /\ w[4] = PORTMAPPERD
    BY <1>6, DispatchIs, ValidIs, Zenon
  <2>2. PICK prog : prog = At(w, Args(w))
    OBVIOUS
  <2>3. 3 # 5
    OBVIOUS
  <2>4. CASE w[6] = 3
    BY <1>1, <2>1, <2>3, <2>4, Zenon DEF portmapperprog
  <2>5. CASE w[6] = 5
    <3>1. /\ BOOTPARAMD # MOUNTD /\ BOOTPARAMD # LOCKD /\ BOOTPARAMD # NFSD
          /\ MOUNTD # LOCKD /\ MOUNTD # NFSD /\ LOCKD # NFSD
      BY DEF MOUNTD, LOCKD, BOOTPARAMD, NFSD
    <3>2. prog # MOUNTD
      BY <2>1, <2>2, <2>5
    <3>3. portmapperprog(w) \in {lockprog(Rolled(w), TRUE), nfsprog(Rolled(w), TRUE), bootparamprog(Rolled(w), TRUE), Says(<<>>)}
      BY <2>2, <2>3, <2>5, <3>1, <3>2, Zenon DEF portmapperprog
    <3>4. QED
      BY <1>1, <1>2, <1>3, <1>4, <2>1, <3>3, Zenon
  <2>6. CASE w[6] # 3 /\ w[6] # 5
    BY <1>1, <2>1, <2>6, Zenon DEF portmapperprog
  <2>7. QED
    BY <2>4, <2>5, <2>6
<1>7. ASSUME validate(w, p).vers # 0, p = MOUNTD
      PROVE  /\ Dispatch(w, p).mounts \in {"add", "clear", "keep"}
             /\ Dispatch(w, p).mounts = "clear" => w[6] = 4
  <2>1. Dispatch(w, p) = mountprog(w, FALSE)
    BY <1>7, DispatchIs, Zenon
  <2>2. CASE w[6] = 1
    <3>1. mountprog(w, FALSE).mounts \in {"add", "keep"}
      BY <2>2 DEF mountprog
    <3>2. QED
      BY <2>1, <3>1
  <2>3. CASE w[6] = 4
    <3>1. mountprog(w, FALSE).mounts = "clear"
      BY <2>3 DEF mountprog
    <3>2. QED
      BY <2>1, <2>3, <3>1
  <2>4. CASE w[6] # 1 /\ w[6] # 4
    <3>1. mountprog(w, FALSE).mounts = "keep"
      BY <2>4 DEF mountprog, Says
    <3>2. QED
      BY <2>1, <3>1
  <2>5. QED
    BY <2>2, <2>3, <2>4
<1>8. ASSUME validate(w, p).vers # 0, p \in {LOCKD, BOOTPARAMD, NFSD}
      PROVE  Dispatch(w, p).mounts = "keep"
  <2>1. CASE p = LOCKD
    BY <1>2, <1>8, <2>1, DispatchIs, Zenon
  <2>2. CASE p = BOOTPARAMD
    BY <1>4, <1>8, <2>2, DispatchIs, Zenon
  <2>3. CASE p = NFSD
    BY <1>1, <1>3, <1>8, <2>3, DispatchIs, Zenon
  <2>4. QED
    BY <1>8, <2>1, <2>2, <2>3, Zenon
<1>9. p \in {PORTMAPPERD, NFSD, MOUNTD, LOCKD, BOOTPARAMD}
  BY ProgramsDiffer
<1>10. CASE validate(w, p).vers # 0
  <2>1. CASE p = MOUNTD
    BY <1>7, <1>10, <2>1, ValidIs, Zenon
  <2>2. CASE p # MOUNTD
    <3>1. Dispatch(w, p).mounts = "keep"
      BY <1>6, <1>8, <1>9, <1>10, <2>2, Zenon
    <3>2. QED
      BY <3>1
  <2>3. QED
    BY <2>1, <2>2, Zenon
<1>11. QED
  BY <1>5, <1>10, Zenon

\* The probes of mountd are right, and their answers tell nothing.
LEMMA ProbesAreRight ==
    ASSUME NEW h \in Machine, NEW header \in Odd \cup {RpcHeader(90, MOUNTD, 1, 4)},
           NEW p \in DOMAIN PortOf, PortOf[p] = PortOf[MOUNTD]
    PROVE  CallIsRight([from |-> h, prog |-> p, words |-> header \o Unix(h) \o AUTH_NULL])
<1>1. p = MOUNTD
  BY ProgramsDiffer
<1>2. header \in Seq(Nat) /\ Len(header) = 6 /\ header[1] = 90 /\ header[4] \in {MOUNTD, NFSD} /\ header[6] = 4
  <2>1. MOUNTD \in Nat /\ NFSD \in Nat
    BY DEF MOUNTD, NFSD
  <2>2. ASSUME NEW a \in Nat, NEW b \in Nat, NEW c \in {NFSD, MOUNTD}, NEW d \in Nat, header = <<90, a, b, c, d, 4>>
        PROVE  header \in Seq(Nat) /\ Len(header) = 6 /\ header[1] = 90 /\ header[4] \in {MOUNTD, NFSD} /\ header[6] = 4
    BY <2>1, <2>2
  <2>3. 0 \in Nat /\ 1 \in Nat /\ 2 \in Nat /\ 3 \in Nat /\ CALL \in Nat /\ REPLY \in Nat
    BY DEF CALL, REPLY
  <2>4. \/ header = <<90, REPLY, 2, MOUNTD, 1, 4>>
        \/ header = <<90, CALL, 3, MOUNTD, 1, 4>>
        \/ header = <<90, CALL, 2, NFSD, 2, 4>>
        \/ header = <<90, CALL, 2, MOUNTD, 0, 4>>
        \/ header = <<90, CALL, 2, MOUNTD, 1, 4>>
    BY Zenon DEF Odd, RpcHeader
  <2>5. QED
    BY <2>2, <2>3, <2>4, Zenon
<1>3. PICK w : w = header \o Unix(h) \o AUTH_NULL
  OBVIOUS
<1>4. Behind(w, header, Nat)
  <2>1. Unix(h) \in Seq(Nat) /\ AUTH_NULL \in Seq(Nat)
    BY NullIs, UnixIs, Zenon
  <2>2. QED
    BY <1>2, <1>3, <2>1, Headed, Zenon
<1>5. w \in Seq(Nat) /\ Len(w) >= 6 /\ w[1] = 90 /\ w[4] # PORTMAPPERD /\ w[6] = 4
  BY <1>2, <1>4 DEF Behind, MOUNTD, NFSD, PORTMAPPERD
<1>6. \A u : u[1] = 90 => Harmless(u)
  BY DEF Harmless
<1>7. GetsNothing(w, MOUNTD)
  <2>1. CASE validate(w, MOUNTD).vers = 0
    <3>1. MOUNTD \in Nat /\ MOUNTD \in DOMAIN PortOf
      BY ProgramsDiffer DEF MOUNTD
    <3>2. PICK u : u = validate(w, MOUNTD).answer
      OBVIOUS
    <3>3. Dispatch(w, MOUNTD) = Says(u) /\ (u = <<>> \/ u[1] = w[1])
      BY <2>1, <3>1, <3>2, DispatchIs, RejectedIs, Zenon
    <3>4. u # <<>> => Harmless(u)
      BY <1>5, <1>6, <3>3, Zenon
    <3>5. Says(u).answer = u /\ Says(u).mounts # "add"
      BY DEF Says
    <3>6. QED
      BY <3>3, <3>4, <3>5, Zenon DEF GetsNothing
  <2>2. CASE validate(w, MOUNTD).vers # 0
    <3>1. PICK rest : rest = Told(FALSE, MOUNTD)
      OBVIOUS
    <3>2. rest \in Seq(Nat)
      BY <3>1 DEF Told, SUCCESS
    <3>3. PICK u : u = Accepted(w, rest)
      OBVIOUS
    <3>4. mountprog(w, FALSE) = [answer |-> u, mounts |-> "clear"]
      BY <1>5, <3>1, <3>3 DEF mountprog
    <3>5. Dispatch(w, MOUNTD) = [answer |-> u, mounts |-> "clear"]
      BY <2>2, <3>4, DispatchIs, Zenon
    <3>6. Harmless(u)
      BY <1>5, <1>6, <3>2, <3>3, AcceptedIs, Zenon
    <3>7. PICK r : r = Dispatch(w, MOUNTD)
      OBVIOUS
    <3>8. r.answer = u /\ r.mounts # "add"
      BY <3>5, <3>7
    <3>9. QED
      BY <3>6, <3>7, <3>8, Zenon DEF GetsNothing
  <2>3. QED
    BY <2>1, <2>2, Zenon
<1>8. CallIsRight([from |-> h, prog |-> MOUNTD, words |-> w])
  <2>1. MOUNTD \in DOMAIN PortOf
    BY ProgramsDiffer
  <2>2. QED
    BY <1>5, <1>7, <2>1, RightCall, Zenon
<1>9. QED
  BY <1>1, <1>3, <1>8, Zenon

\* A right frame behind the others leaves all of them right.
LEMMA FramesGrow ==
    ASSUME FrontShape, FramesInv, NEW f, FrameIsRight(f), frames' = Append(frames, f)
    PROVE  (\E S : frames \in Seq(S))' /\ FramesInv'
<1>1. PICK S : frames \in Seq(S)
  BY DEF FrontShape
<1>2. PICK T : T = S \cup {f}
  OBVIOUS
<1>3. frames \in Seq(T) /\ f \in T
  BY <1>1, <1>2
<1>4. /\ frames' \in Seq(T) /\ Len(frames') = Len(frames) + 1 /\ frames'[Len(frames) + 1] = f
      /\ \A i \in 1 .. Len(frames) : frames'[i] = frames[i]
  BY <1>3
<1>5. ASSUME NEW i \in 1 .. Len(frames') PROVE FrameIsRight(frames'[i])
  <2>1. CASE i = Len(frames) + 1
    BY <1>4, <2>1
  <2>2. CASE i # Len(frames) + 1
    <3>1. i \in 1 .. Len(frames)
      BY <1>3, <1>4, <2>2
    <3>2. frames'[i] = frames[i] /\ FrameIsRight(frames[i])
      BY <1>4, <3>1, Zenon DEF FramesInv
    <3>3. QED
      BY <3>2, Zenon
  <2>3. QED
    BY <2>1, <2>2
<1>6. QED
  BY <1>4, <1>5, Zenon DEF FramesInv

\* So does reading one frame, or all of them.
LEMMA FramesShrink ==
    ASSUME FrontShape, FramesInv, frames # <<>>, frames' \in {Tail(frames), <<>>}
    PROVE  (\E S : frames \in Seq(S))' /\ FramesInv'
<1>1. PICK S : frames \in Seq(S)
  BY DEF FrontShape
<1>2. CASE frames' = <<>>
  <2>1. frames' \in Seq(S) /\ Len(frames') = 0
    BY <1>2
  <2>2. \A i \in 1 .. Len(frames') : FrameIsRight(frames'[i])
    BY <2>1
  <2>3. QED
    BY <2>1, <2>2, Zenon DEF FramesInv
<1>3. CASE frames' = Tail(frames)
  <2>1. /\ frames' \in Seq(S) /\ Len(frames') = Len(frames) - 1
        /\ \A i \in 1 .. Len(frames') : frames'[i] = frames[i + 1]
    BY <1>1, <1>3, HeadTailProperties
  <2>2. ASSUME NEW i \in 1 .. Len(frames') PROVE FrameIsRight(frames'[i])
    <3>1. i + 1 \in 1 .. Len(frames)
      BY <1>1, <2>1
    <3>2. frames'[i] = frames[i + 1] /\ FrameIsRight(frames[i + 1])
      BY <2>1, <3>1, Zenon DEF FramesInv
    <3>3. QED
      BY <3>2, Zenon
  <2>3. QED
    BY <2>1, <2>2, Zenon DEF FramesInv
<1>4. QED
  BY <1>2, <1>3

\* The others stand where they stood when nothing of theirs changed.
LEMMA OthersStay ==
    ASSUME OthersInv,
           \A h \in Machine \ {Mine} :
              stage'[h] = stage[h] /\ known'[h] = known[h] /\ (h \notin exported => h \notin exported')
    PROVE  OthersInv'
<1>1. ASSUME NEW h \in Machine \ {Mine}
      PROVE  (/\ stage[h] \in {0, 1, 2, 4}
              /\ known[h].ip = (IF stage[h] > 0 THEN Ip(h) ELSE 0)
              /\ known[h].name = (IF stage[h] > 1 THEN NameOf(h) ELSE 0)
              /\ known[h].root = 0 /\ known[h].handle = 0
              /\ stage[h] = 2 => known[h].port = PortOf[BOOTPARAMD]
              /\ stage[h] = 4 => known[h].port = PortOf[MOUNTD]
              /\ h \notin exported)'
  <2>1. /\ stage[h] \in {0, 1, 2, 4}
        /\ known[h].ip = (IF stage[h] > 0 THEN Ip(h) ELSE 0)
        /\ known[h].name = (IF stage[h] > 1 THEN NameOf(h) ELSE 0)
        /\ known[h].root = 0 /\ known[h].handle = 0
        /\ stage[h] = 2 => known[h].port = PortOf[BOOTPARAMD]
        /\ stage[h] = 4 => known[h].port = PortOf[MOUNTD]
        /\ h \notin exported
    BY Zenon DEF OthersInv
  <2>2. stage'[h] = stage[h] /\ known'[h] = known[h] /\ h \notin exported'
    BY <2>1, Zenon
  <2>3. QED
    BY <2>1, <2>2, Zenon
<1>2. QED
  BY <1>1 DEF OthersInv

\* At the start nothing is on its way, and the others know what they came with.
LEMMA FrontInit_Inv ==
    ASSUME FrontInit PROVE FrontInv
<1>1. FrontShape
  <2>1. stage \in [Machine -> 0 .. 9] /\ DOMAIN known = Machine
    BY DEF FrontInit
  <2>2. frames \in Seq({})
    BY DEF FrontInit
  <2>3. QED
    BY <2>1, <2>2, Zenon DEF FrontShape
<1>2. OthersInv
  BY DEF FrontInit, OthersInv
<1>3. FramesInv
  <2>1. Len(frames) = 0
    BY DEF FrontInit
  <2>2. QED
    BY <2>1 DEF FramesInv
<1>4. CallsInv /\ AnswersInv
  BY DEF FrontInit, CallsInv, AnswersInv
<1>5. QED
  BY <1>1, <1>2, <1>3, <1>4 DEF FrontInv

\* A call is served.
LEMMA ServeStep ==
    ASSUME FrontInv, NEW h \in Machine, Serve(h)
    PROVE  /\ FrontInv'
           /\ \A x \in exported \ exported' :
                \E c \in calls : SubSeq(c.words, 2, 4) = <<CALL, 2, MOUNTD>> /\ c.words[5] # 0 /\ c.words[6] = 4
<1>1. PICK c \in calls :
        /\ c.from = h
        /\ LET r == Dispatch(c.words, c.prog)
           IN  /\ answers' = answers \cup To(h, r.answer)
               /\ exported' = CASE r.mounts = "add" -> exported \cup {h}
                                [] r.mounts = "clear" -> {}
                                [] r.mounts = "keep" -> exported
               /\ \/ calls' = calls \ {c} /\ UNCHANGED trouble
                  \/ trouble < MaxTrouble /\ trouble' = trouble + 1 /\ UNCHANGED calls
               /\ UNCHANGED <<build, frames, stage, known>>
  BY Zenon DEF Serve
<1>2. PICK r : r = Dispatch(c.words, c.prog)
  OBVIOUS
<1>3. CallIsRight(c)
  BY <1>1 DEF FrontInv, CallsInv
<1>4. c.prog \in DOMAIN PortOf /\ (c.words[4] = PORTMAPPERD /\ c.words[6] = 5 => At(c.words, Args(c.words)) # MOUNTD)
  BY <1>3, Zenon DEF CallIsRight
<1>5. /\ r.mounts \in {"add", "clear", "keep"}
      /\ r.mounts = "clear" => c.words[2] = CALL /\ c.words[3] = 2 /\ c.words[4] = MOUNTD /\ c.words[5] # 0 /\ c.words[6] = 4
  BY <1>2, <1>4, ClearIsUmntall, Zenon
<1>6. h # Mine => (r.answer # <<>> => Harmless(r.answer)) /\ r.mounts # "add"
  BY <1>1, <1>2, <1>3, Zenon DEF CallIsRight, GetsNothing
<1>7. exported' = CASE r.mounts = "add" -> exported \cup {h}
                    [] r.mounts = "clear" -> {}
                    [] r.mounts = "keep" -> exported
  BY <1>1, <1>2, Zenon
<1>8. /\ r.mounts = "add" => exported' = exported \cup {h}
      /\ r.mounts = "clear" => exported' = {}
      /\ r.mounts = "keep" => exported' = exported
  BY <1>7
<1>9. UNCHANGED <<build, frames, stage, known>> /\ calls' \subseteq calls /\ answers' = answers \cup To(h, r.answer)
  BY <1>1, <1>2, Zenon
<1>10. FrontShape' /\ FramesInv'
  BY <1>9, Zenon DEF FrontInv, FrontShape, FramesInv
<1>11. CallsInv'
  BY <1>9, Zenon DEF FrontInv, CallsInv
<1>12. OthersInv'
  <2>1. \A x \in Machine \ {Mine} : x \notin exported => x \notin exported'
    BY <1>5, <1>6, <1>8, Zenon
  <2>2. QED
    BY <1>9, <2>1, OthersStay, Zenon DEF FrontInv
<1>13. AnswersInv'
  <2>1. ASSUME NEW a \in answers', a.to # Mine PROVE Harmless(a.words)
    <3>1. CASE a \in answers
      BY <2>1, <3>1, Zenon DEF FrontInv, AnswersInv
    <3>2. CASE a \in To(h, r.answer)
      <4>1. r.answer # <<>> /\ a = [to |-> h, words |-> r.answer]
        BY <3>2, Zenon DEF To
      <4>2. a.to = h /\ a.words = r.answer
        BY <4>1
      <4>3. QED
        BY <1>6, <2>1, <4>1, <4>2, Zenon
    <3>3. QED
      BY <1>9, <2>1, <3>1, <3>2, Zenon
  <2>2. QED
    BY <2>1 DEF AnswersInv
<1>14. ASSUME NEW x \in exported \ exported'
       PROVE  SubSeq(c.words, 2, 4) = <<CALL, 2, MOUNTD>> /\ c.words[5] # 0 /\ c.words[6] = 4
  <2>1. r.mounts = "clear"
    BY <1>5, <1>8, <1>14, Zenon
  <2>2. PICK S : c.words \in Seq(S) /\ Len(c.words) >= 6
    BY <1>3, Zenon DEF CallIsRight
  <2>3. PICK w : w = c.words
    OBVIOUS
  <2>4. w \in Seq(S) /\ Len(w) >= 6 /\ w[2] = CALL /\ w[3] = 2 /\ w[4] = MOUNTD /\ w[5] # 0 /\ w[6] = 4
    BY <1>5, <2>1, <2>2, <2>3, Zenon
  <2>5. SubSeq(w, 2, 4) = <<w[2], w[3], w[4]>>
    <3>1. \A i \in 1 .. Len(w) : w[i] \in S
      BY <2>4, ElementOfSeq, Zenon
    <3>2. ASSUME NEW i \in 2 .. 4 PROVE w[i] \in S
      <4>1. i \in 1 .. Len(w)
        BY <2>4
      <4>2. QED
        BY <3>1, <4>1, Zenon
    <3>3. PICK t : t = SubSeq(w, 2, 4)
      OBVIOUS
    <3>4. /\ t \in Seq(S)
          /\ Len(t) = (IF 2 <= 4 THEN 4 - 2 + 1 ELSE 0)
          /\ \A i \in 1 .. 4 - 2 + 1 : t[i] = w[2 + i - 1]
      BY <3>2, <3>3, SubSeqProperties
    <3>5. t \in Seq(S) /\ Len(t) = 3 /\ t[1] = w[2] /\ t[2] = w[3] /\ t[3] = w[4]
      BY <3>4
    <3>6. t = <<w[2], w[3], w[4]>>
      BY <3>5
    <3>7. QED
      BY <3>3, <3>6, Zenon
  <2>6. QED
    BY <2>3, <2>4, <2>5, Zenon
<1>15. QED
  BY <1>1, <1>10, <1>11, <1>12, <1>13, <1>14, Zenon DEF FrontInv

\* Frames are read.
LEMMA ReadFramesStep ==
    ASSUME FrontInv, ReadFrames PROVE FrontInv' /\ exported' = exported
<1>1. FrontShape /\ OthersInv /\ FramesInv /\ CallsInv /\ AnswersInv
  BY DEF FrontInv
<1>2. /\ frames # <<>> /\ frames' \in {Tail(frames), <<>>}
      /\ UNCHANGED <<build, calls, stage, known, exported, trouble>>
  BY Zenon DEF ReadFrames
<1>3. (\E S : frames \in Seq(S))' /\ FramesInv'
  BY <1>1, <1>2, FramesShrink, Zenon
<1>4. FrontShape' /\ CallsInv'
  BY <1>1, <1>2, <1>3, Zenon DEF FrontShape, CallsInv
<1>5. OthersInv'
  BY <1>1, <1>2, OthersStay, Zenon
<1>6. AnswersInv'
  <2>1. ASSUME NEW a \in answers', a.to # Mine PROVE Harmless(a.words)
    <3>1. CASE a \in answers
      BY <1>1, <2>1, <3>1, Zenon DEF AnswersInv
    <3>2. CASE a \notin answers
      <4>1. PICK k \in 1 .. Len(frames) :
              a \in CASE frames[k].type = "rarp" -> Rarp(frames[k])
                      [] frames[k].type = "udp" -> To(frames[k].from, Dispatch(frames[k].words, PORTMAPPERD).answer)
                      [] frames[k].type = "other" -> {}
        <5>1. build # "linux"
          BY <2>1, <3>2, Zenon DEF ReadFrames
        <5>2. a \in UNION {LET f == frames[k]
                           IN  CASE f.type = "rarp" -> Rarp(f)
                                 [] f.type = "udp" -> To(f.from, Dispatch(f.words, PORTMAPPERD).answer)
                                 [] f.type = "other" -> {} :
                           k \in {k \in 1 .. Len(frames) : Reached(k)}}
          BY <2>1, <3>2, <5>1, Zenon DEF ReadFrames
        <5>3. QED
          BY <5>2, Zenon
      <4>2. PICK f : f = frames[k]
        OBVIOUS
      <4>3. FrameIsRight(f)
        BY <1>1, <4>2, Zenon DEF FramesInv
      <4>4. a \in CASE f.type = "rarp" -> Rarp(f)
                    [] f.type = "udp" -> To(f.from, Dispatch(f.words, PORTMAPPERD).answer)
                    [] f.type = "other" -> {}
        BY <4>1, <4>2, Zenon
      <4>5. CASE f.type = "rarp"
        <5>1. a \in Rarp(f)
          BY <4>4, <4>5
        <5>2. f.from = Mine /\ a = [to |-> f.from, words |-> <<0, Ip(Mine)>>]
          BY <5>1, Zenon DEF Rarp
        <5>3. QED
          BY <2>1, <5>2
      <4>6. CASE f.type = "udp"
        <5>1. PICK u : u = Dispatch(f.words, PORTMAPPERD).answer
          OBVIOUS
        <5>2. PICK T : T = To(f.from, u)
          OBVIOUS
        <5>3. a \in T
          BY <4>4, <4>6, <5>1, <5>2
        <5>4. u # <<>> /\ a = [to |-> f.from, words |-> u]
          BY <5>2, <5>3, Zenon DEF To
        <5>5. a.to = f.from /\ a.words = u
          BY <5>4
        <5>6. GetsNothing(f.words, PORTMAPPERD)
          BY <2>1, <4>3, <4>6, <5>5, Zenon DEF FrameIsRight
        <5>7. QED
          BY <5>1, <5>4, <5>5, <5>6, Zenon DEF GetsNothing
      <4>7. CASE f.type = "other"
        BY <4>4, <4>7
      <4>8. QED
        BY <4>3, <4>5, <4>6, <4>7, Zenon DEF FrameIsRight
    <3>3. QED
      BY <3>1, <3>2
  <2>2. QED
    BY <2>1 DEF AnswersInv
<1>7. QED
  BY <1>2, <1>3, <1>4, <1>5, <1>6, Zenon DEF FrontInv

\* A machine asks.
LEMMA AskStep ==
    ASSUME FrontInv, NEW h \in Machine, Ask(h) PROVE FrontInv' /\ exported' = exported
<1>1. FrontShape /\ OthersInv /\ FramesInv /\ CallsInv /\ AnswersInv
  BY DEF FrontInv
<1>2. UNCHANGED <<build, answers, stage, known, exported, trouble>>
  BY Zenon DEF Ask
<1>3. PICK s : s = stage[h]
  OBVIOUS
<1>4. s \in 0 .. 8
  BY <1>1, <1>3 DEF Ask, Up, FrontShape
<1>5. PICK port : port = IF s \in {3, 5, 7} THEN PortOf[PORTMAPPERD] ELSE known[h].port
  OBVIOUS
<1>6. IF s = 0 THEN frames' = Append(frames, Frame(h, "rarp", <<>>)) /\ UNCHANGED calls
      ELSE IF s = 1
      THEN /\ frames' = IF build = "apple" THEN Append(frames, Frame(h, "udp", Question(h, 1))) ELSE frames
           /\ UNCHANGED calls
      ELSE calls' = calls \cup Sent(h, port, Question(h, s)) /\ UNCHANGED frames
  BY <1>3, <1>5, Zenon DEF Ask
<1>7. AnswersInv'
  BY <1>1, <1>2, Zenon DEF AnswersInv
<1>8. OthersInv'
  BY <1>1, <1>2, OthersStay, Zenon
<1>9. h # Mine => /\ s \in {0, 1, 2, 4}
                  /\ s = 1 => known[h].ip = Ip(h)
                  /\ s = 2 => known[h].name = NameOf(h) /\ known[h].port = PortOf[BOOTPARAMD]
                  /\ s = 4 => known[h].port = PortOf[MOUNTD]
  BY <1>1, <1>3 DEF OthersInv
<1>10. (\E S : frames \in Seq(S))' /\ FramesInv'
  <2>1. CASE frames' = frames
    BY <1>1, <2>1, Zenon DEF FrontShape, FramesInv
  <2>2. CASE s = 0
    <3>1. PICK f : f = Frame(h, "rarp", <<>>)
      OBVIOUS
    <3>2. FrameIsRight(f)
      BY <3>1 DEF FrameIsRight, Frame
    <3>3. frames' = Append(frames, f)
      BY <1>6, <2>2, <3>1, Zenon
    <3>4. QED
      BY <1>1, <3>2, <3>3, FramesGrow, Zenon
  <2>3. CASE s = 1 /\ build = "apple"
    <3>1. PICK f : f = Frame(h, "udp", Question(h, 1))
      OBVIOUS
    <3>2. f.type = "udp" /\ f.from = h /\ f.words = Question(h, 1)
      BY <3>1 DEF Frame
    <3>3. h # Mine => GetsNothing(Question(h, 1), PORTMAPPERD)
      BY <1>9, <2>3, WhoAmITellsNothing, Zenon
    <3>4. FrameIsRight(f)
      BY <3>2, <3>3, Zenon DEF FrameIsRight
    <3>5. s # 0
      BY <2>3
    <3>6. frames' = Append(frames, f)
      BY <1>6, <2>3, <3>1, <3>5, Zenon
    <3>7. QED
      BY <1>1, <3>4, <3>6, FramesGrow, Zenon
  <2>4. frames' = frames \/ s = 0 \/ (s = 1 /\ build = "apple")
    BY <1>6, Zenon
  <2>5. QED
    BY <2>1, <2>2, <2>3, <2>4, Zenon
<1>11. CallsInv'
  <2>1. CASE calls' = calls
    BY <1>1, <2>1, Zenon DEF CallsInv
  <2>2. CASE s \in 2 .. 8
    <3>1. calls' = calls \cup Sent(h, port, Question(h, s))
      BY <1>6, <2>2
    <3>2. ASSUME NEW p \in DOMAIN PortOf, PortOf[p] = port
          PROVE  CallIsRight([from |-> h, prog |-> p, words |-> Question(h, s)])
      <4>1. CASE h = Mine
        BY <2>2, <4>1, OwnCalls, Zenon
      <4>2. CASE h # Mine
        <5>1. s = 2 \/ s = 4
          BY <1>9, <2>2, <4>2
        <5>2. CASE s = 2
          <6>1. known[h].name = NameOf(h) /\ known[h].port = PortOf[BOOTPARAMD] /\ port = known[h].port
            BY <1>5, <1>9, <4>2, <5>2
          <6>2. p = BOOTPARAMD
            BY <3>2, <6>1, ProgramsDiffer
          <6>3. QED
            BY <1>3, <4>2, <5>2, <6>1, <6>2, GetFileTellsNothing, Zenon
        <5>3. CASE s = 4
          <6>1. known[h].port = PortOf[MOUNTD] /\ port = known[h].port
            BY <1>5, <1>9, <4>2, <5>3
          <6>2. p = MOUNTD
            BY <3>2, <6>1, ProgramsDiffer
          <6>3. QED
            BY <4>2, <5>3, <6>2, MountIsRefused, Zenon
        <5>4. QED
          BY <5>1, <5>2, <5>3
      <4>3. QED
        BY <4>1, <4>2
    <3>3. QED
      BY <1>1, <3>1, <3>2, Zenon DEF CallsInv, Sent
  <2>3. s = 0 \/ s = 1 \/ s \in 2 .. 8
    BY <1>4
  <2>4. QED
    BY <1>6, <2>1, <2>2, <2>3, Zenon
<1>12. FrontShape'
  BY <1>1, <1>2, <1>10, Zenon DEF FrontShape
<1>13. QED
  BY <1>2, <1>7, <1>8, <1>10, <1>11, <1>12, Zenon DEF FrontInv

\* An answer is heard.
LEMMA HearStep ==
    ASSUME FrontInv, NEW h \in Machine, Hear(h) PROVE FrontInv' /\ exported' = exported
<1>1. FrontShape /\ OthersInv /\ FramesInv /\ CallsInv /\ AnswersInv
  BY DEF FrontInv
<1>2. PICK a \in answers :
        /\ a.to = h
        /\ LET learned == IF stage[h] # Up /\ a.words[1] = stage[h] THEN Learned(known[h], stage[h], a.words) ELSE {}
           IN  /\ answers' = answers \ {a}
               /\ \/ learned = {} /\ UNCHANGED <<stage, known>>
                  \/ \E k \in learned : known' = [known EXCEPT ![h] = k] /\ stage' = [stage EXCEPT ![h] = @ + 1]
               /\ UNCHANGED <<build, frames, calls, exported, trouble>>
  BY Zenon DEF Hear
<1>3. PICK learned : learned = IF stage[h] # Up /\ a.words[1] = stage[h] THEN Learned(known[h], stage[h], a.words) ELSE {}
  OBVIOUS
<1>4. /\ answers' = answers \ {a}
      /\ \/ learned = {} /\ UNCHANGED <<stage, known>>
         \/ \E k \in learned : known' = [known EXCEPT ![h] = k] /\ stage' = [stage EXCEPT ![h] = @ + 1]
      /\ UNCHANGED <<build, frames, calls, exported, trouble>>
  BY <1>2, <1>3, Zenon
<1>5. AnswersInv' /\ CallsInv' /\ FramesInv' /\ (\E S : frames \in Seq(S))'
  BY <1>1, <1>4, Zenon DEF FrontShape, FramesInv, CallsInv, AnswersInv
<1>6. CASE learned = {} /\ UNCHANGED <<stage, known>>
  <2>1. FrontShape'
    BY <1>1, <1>4, <1>6, Zenon DEF FrontShape
  <2>2. OthersInv'
    BY <1>1, <1>4, <1>6, OthersStay, Zenon
  <2>3. QED
    BY <1>4, <1>5, <2>1, <2>2, Zenon DEF FrontInv
<1>7. ASSUME NEW k \in learned, known' = [known EXCEPT ![h] = k], stage' = [stage EXCEPT ![h] = @ + 1]
      PROVE  FrontInv' /\ exported' = exported
  <2>1. stage[h] # Up /\ a.words[1] = stage[h] /\ k \in Learned(known[h], stage[h], a.words)
    BY <1>3, <1>7, Zenon
  <2>2. FrontShape'
    <3>1. stage[h] + 1 \in 0 .. 9
      BY <1>1, <2>1 DEF FrontShape, Up
    <3>2. stage' \in [Machine -> 0 .. 9] /\ DOMAIN known' = Machine
      BY <1>1, <1>7, <3>1 DEF FrontShape
    <3>3. QED
      BY <1>5, <3>2, Zenon DEF FrontShape
  <2>3. h = Mine
    <3>1. SUFFICES ASSUME h # Mine PROVE FALSE
      OBVIOUS
    <3>2. PICK w : w = a.words
      OBVIOUS
    <3>3. PICK s : s = stage[h]
      OBVIOUS
    <3>4. PICK kn : kn = known[h]
      OBVIOUS
    <3>5. Harmless(w)
      BY <1>1, <1>2, <3>1, <3>2, Zenon DEF AnswersInv
    <3>6. s \in {0, 1, 2, 4}
      BY <1>1, <3>1, <3>3, Zenon DEF OthersInv
    <3>7. w[1] = s /\ k \in Learned(kn, s, w)
      BY <2>1, <3>2, <3>3, <3>4, Zenon
    <3>8. CASE s = 0
      BY <3>5, <3>7, <3>8 DEF Harmless
    <3>9. CASE s = 1
      <4>1. ~(Len(w) > 8)
        BY <3>5, <3>7, <3>9 DEF Harmless
      <4>2. Learned(kn, s, w) = {}
        BY <3>9, <4>1, SMTT(20) DEF Learned
      <4>3. QED
        BY <3>7, <4>2
    <3>10. CASE s = 2
      <4>1. ~(Len(w) = 12)
        BY <3>5, <3>7, <3>10 DEF Harmless
      <4>2. Learned(kn, s, w) = {}
        BY <3>10, <4>1, SMTT(20) DEF Learned
      <4>3. QED
        BY <3>7, <4>2
    <3>11. CASE s = 4
      <4>1. ~(Len(w) = 8)
        BY <3>5, <3>7, <3>11 DEF Harmless
      <4>2. Learned(kn, s, w) = {}
        BY <3>11, <4>1, SMTT(20) DEF Learned
      <4>3. QED
        BY <3>7, <4>2
    <3>12. QED
      BY <3>6, <3>8, <3>9, <3>10, <3>11
  <2>4. OthersInv'
    <3>1. \A x \in Machine \ {Mine} : stage'[x] = stage[x] /\ known'[x] = known[x]
      BY <1>1, <1>7, <2>3 DEF FrontShape
    <3>2. QED
      BY <1>1, <1>4, <3>1, OthersStay, Zenon
  <2>5. QED
    BY <1>4, <1>5, <2>2, <2>4, Zenon DEF FrontInv
<1>8. QED
  BY <1>4, <1>6, <1>7, Zenon

\* Something is lost, or comes in between.
LEMMA TroubleStep ==
    ASSUME FrontInv, Trouble PROVE FrontInv' /\ exported' = exported
<1>1. FrontShape /\ OthersInv /\ FramesInv /\ CallsInv /\ AnswersInv
  BY DEF FrontInv
<1>2. UNCHANGED <<build, stage, known, exported>>
  BY Zenon DEF Trouble
<1>3. calls' \subseteq calls /\ answers' \subseteq answers
  BY Zenon DEF Trouble
<1>4. CallsInv' /\ AnswersInv'
  BY <1>1, <1>3, Zenon DEF CallsInv, AnswersInv
<1>5. OthersInv'
  BY <1>1, <1>2, OthersStay, Zenon
<1>6. (\E S : frames \in Seq(S))' /\ FramesInv'
  <2>1. CASE UNCHANGED frames
    BY <1>1, <2>1, Zenon DEF FrontShape, FramesInv
  <2>2. PICK f : f = [type |-> "other", from |-> 0, words |-> <<>>, aligned |-> FALSE]
    OBVIOUS
  <2>3. CASE frames' = Append(frames, f)
    <3>1. FrameIsRight(f)
      BY <2>2 DEF FrameIsRight
    <3>2. QED
      BY <1>1, <2>3, <3>1, FramesGrow, Zenon
  <2>4. QED
    BY <2>1, <2>2, <2>3, Zenon DEF Trouble
<1>7. QED
  BY <1>1, <1>2, <1>4, <1>5, <1>6, Zenon DEF FrontInv, FrontShape

\* A machine probes mountd.
LEMMA ProbeStep ==
    ASSUME FrontInv, NEW h \in Machine, Probe(h) PROVE FrontInv' /\ exported' = exported
<1>1. FrontShape /\ OthersInv /\ FramesInv /\ CallsInv /\ AnswersInv
  BY DEF FrontInv
<1>2. UNCHANGED <<build, frames, answers, stage, known, exported>>
  BY Zenon DEF Probe
<1>3. PICK header \in Odd \cup {RpcHeader(90, MOUNTD, 1, 4)} :
        calls' = calls \cup Sent(h, PortOf[MOUNTD], header \o Unix(h) \o AUTH_NULL)
  BY Zenon DEF Probe
<1>4. CallsInv'
  BY <1>1, <1>3, ProbesAreRight, Zenon DEF CallsInv, Sent
<1>5. OthersInv'
  BY <1>1, <1>2, OthersStay, Zenon
<1>6. QED
  BY <1>1, <1>2, <1>4, <1>5, Zenon DEF FrontInv, FrontShape, FramesInv, AnswersInv

\* Every step keeps the invariant, and clears the mounts only for a call of
\* mountd's UMNTALL.
LEMMA FrontStep ==
    ASSUME FrontInv, [FrontNext]_frontVars
    PROVE  /\ FrontInv'
           /\ \A h \in exported \ exported' :
                \E c \in calls : SubSeq(c.words, 2, 4) = <<CALL, 2, MOUNTD>> /\ c.words[5] # 0 /\ c.words[6] = 4
<1>1. CASE UNCHANGED frontVars
  <2>1. UNCHANGED <<build, frames, calls, answers, stage, known, exported, trouble>>
    BY <1>1 DEF frontVars
  <2>2. OthersInv'
    BY <2>1, OthersStay, Zenon DEF FrontInv
  <2>3. FrontShape' /\ FramesInv' /\ CallsInv' /\ AnswersInv'
    BY <2>1, Zenon DEF FrontInv, FrontShape, FramesInv, CallsInv, AnswersInv
  <2>4. QED
    BY <2>1, <2>2, <2>3, Zenon DEF FrontInv
<1>2. ASSUME NEW m \in Machine, Serve(m)
      PROVE  /\ FrontInv'
             /\ \A h \in exported \ exported' :
                  \E c \in calls : SubSeq(c.words, 2, 4) = <<CALL, 2, MOUNTD>> /\ c.words[5] # 0 /\ c.words[6] = 4
  BY <1>2, ServeStep, Zenon
<1>3. CASE ReadFrames \/ Trouble \/ \E h \in Machine : Ask(h) \/ Hear(h) \/ Probe(h)
  <2>1. FrontInv' /\ exported' = exported
    BY <1>3, ReadFramesStep, TroubleStep, AskStep, HearStep, ProbeStep, Zenon
  <2>2. QED
    BY <2>1, Zenon
<1>4. QED
  BY <1>1, <1>2, <1>3, Zenon DEF FrontNext

\* Only the machine of the command line is served, and the mounts are cleared by
\* nothing but a well-formed call of mountd's UMNTALL.
THEOREM OnlyMineIsServed == FrontSpec => FrontIsRight
<1>1. FrontInit => FrontInv
  BY FrontInit_Inv
<1>2. FrontInv /\ [FrontNext]_frontVars => FrontInv'
  BY FrontStep
<1>3. FrontInv => OnlyMine
  BY DEF FrontInv, OthersInv, OnlyMine
<1>4. FrontInv /\ [FrontNext]_frontVars =>
        [\A h \in exported \ exported' :
           \E c \in calls : SubSeq(c.words, 2, 4) = <<CALL, 2, MOUNTD>> /\ c.words[5] # 0 /\ c.words[6] = 4]_frontVars
  BY FrontStep
<1>5. FrontSpec => []FrontInv
  BY <1>1, <1>2, PTL DEF FrontSpec
<1>6. FrontSpec => []OnlyMine
  BY <1>3, <1>5, PTL
<1>7. FrontSpec => OnlyCallsCount
  BY <1>4, <1>5, PTL DEF FrontSpec, OnlyCallsCount
<1>8. QED
  BY <1>6, <1>7, PTL DEF FrontIsRight

=============================================================================
