------------------------------ MODULE RpcFront ------------------------------
(***************************************************************************)
(* nfsd as the boot server of one machine: RARP and the broadcasts that    *)
(* come through the packet filter, the portmapper with CALLIT, bootparam,  *)
(* mount, lock and NFS, as a diskless machine uses them one after another. *)
(* A packet is a sequence of words; the server reads it from a position    *)
(* crp, which each get_ moves on.  An address, a name and a path are one   *)
(* word each.                                                              *)
(*                                                                         *)
(* The machines are boot PROMs (external): each asks until it is answered, *)
(* over a network that loses and repeats.                                  *)
(***************************************************************************)
EXTENDS Naturals, Sequences, FiniteSets

CONSTANTS
    Machine,    \* machines that boot, numbers
    Mine,       \* the one the command line describes
    Builds,     \* which #ifdef of the packet filter is compiled
    MaxTrouble  \* bound of the model: packets lost or doubled, frames in the way, probes

ASSUME MineAssumption == Mine \in Machine /\ Machine \subseteq 1 .. 9
ASSUME BuildAssumption == Builds \subseteq {"apple", "linux"}

VARIABLES
    build,
    frames,    \* what the packet filter holds, a sequence
    calls,     \* datagrams at the server's sockets
    answers,   \* packets on their way to the machines
    stage,     \* how far each machine is
    known,     \* what it was told: address, name, root and the port to use next
    exported,  \* mount_array: the machines whose mounts are registered
    trouble

frontVars == <<build, frames, calls, answers, stage, known, exported, trouble>>

\* Programs and ports.
PORTMAPPERD == 100000
NFSD == 100003
MOUNTD == 100005
LOCKD == 100024
BOOTPARAMD == 100026
PortOf == [p \in {PORTMAPPERD, NFSD, MOUNTD, LOCKD, BOOTPARAMD} |->
             CASE p = PORTMAPPERD -> 111 [] p = MOUNTD -> 6135 [] p = NFSD -> 2049
               [] p = LOCKD -> 41045 [] p = BOOTPARAMD -> 2050]
UDP == 17

\* Words: addresses, names, paths, and what lies behind the end of a packet.
Ip(h) == 10 + h
NameOf(h) == 20 + h
Root == 30
Server == 31
Gateway == 32
Stale == 99

CALL == 0
REPLY == 1
SUCCESS == 0
PROG_UNAVAIL == 1
NFSERR == 5

-----------------------------------------------------------------------------
\* Reading a packet, and the parts of an answer

At(b, i) == IF i <= Len(b) THEN b[i] ELSE Stale

\* get_credentials: where it leaves crp.  A name that is not the configured
\* machine's is "REJECT"ed before crp passes the credentials.
get_credentials(b) ==
    LET name == At(b, 11)
    IN  IF At(b, 7) = 1 /\ name # 0 /\ name \notin {NameOf(Mine), Ip(Mine)}
        THEN 9 ELSE 9 + At(b, 8) \div 4

get_verifier(b, crp) == crp + 2 + At(b, crp + 1) \div 4

\* Where the arguments begin.
Args(b) == get_verifier(b, get_credentials(b))

Accepted(b, rest) == <<b[1], REPLY, 0, 0, 0>> \o rest

\* add_length_marker and update_length.
Marked(rest) == <<4 * Len(rest)>> \o rest

\* A front end that leaves the program number to the services.
validate_AnyProgram(b, prog) ==
    [vers |-> IF b[2] = CALL /\ b[3] = 2 THEN b[5] ELSE 0, answer |-> <<>>]

\* validate: the version, or 0 and the answer it sends itself.
validate(b, prog) ==
    IF b[2] # CALL THEN [vers |-> 0, answer |-> Accepted(b, <<4>>)]
    ELSE IF b[3] # 2 THEN [vers |-> 0, answer |-> <<b[1], REPLY, 1, 2, 2, 2>>]
    ELSE IF b[4] # prog THEN [vers |-> 0, answer |-> Accepted(b, <<2, prog, prog>>)]
    ELSE [vers |-> b[5], answer |-> <<>>]

-----------------------------------------------------------------------------
\* The services: [answer |-> words, mounts |-> what becomes of exported]

Says(words) == [answer |-> words, mounts |-> "keep"]

whoami(b, args) == At(b, args + 1) = Ip(Mine)

\* WHOAMI and GETFILE.  Asked through CALLIT the arguments have a length
\* before them, and the answer a port and a length.
bootparamprog(b, internal) ==
    LET args == Args(b) + (IF internal THEN 1 ELSE 0)
        Known(rest) == IF internal THEN <<PortOf[BOOTPARAMD]>> \o Marked(rest) ELSE rest
        unknown == IF internal THEN <<>> ELSE <<NFSERR>>
    IN  Says(Accepted(b, <<SUCCESS>> \o
          CASE b[6] = 1 ->
                 IF whoami(b, args) THEN Known(<<4, NameOf(Mine), 4, Server, 1, Gateway>>) ELSE unknown
            [] b[6] = 2 ->
                 IF At(b, args + 1) = NameOf(Mine)
                 THEN Known(<<4, Server, 1, Server>> \o IF At(b, args + 3) = Root THEN <<4, Root>> ELSE <<>>)
                 ELSE unknown
            [] OTHER -> <<>>))

Told(internal, prog) == <<SUCCESS>> \o IF internal THEN <<PortOf[prog]>> ELSE <<>>

\* MNT of the exported root, and UMNTALL.
mountprog(b, internal) ==
    LET found == At(b, Args(b) + 1) = Root
    IN  CASE b[6] = 1 -> [answer |-> Accepted(b, Told(internal, MOUNTD) \o IF found THEN <<0, Root>> ELSE <<2>>),
                          mounts |-> IF found THEN "add" ELSE "keep"]
          [] b[6] = 4 -> [answer |-> Accepted(b, Told(internal, MOUNTD)), mounts |-> "clear"]
          [] OTHER -> Says(Accepted(b, Told(internal, MOUNTD)))

\* Every lock is granted.
lockprog(b, internal) ==
    Says(Accepted(b, Told(internal, LOCKD) \o IF b[6] \in 1 .. 4 THEN <<0>> ELSE <<>>))

\* The null procedure of NFS, all that the boot needs of it here.
nfsprog(b, internal) == Says(Accepted(b, Told(internal, NFSD)))

registeredport(prog, vers, prot) ==
    IF prot = UDP /\ (prog \in {NFSD, MOUNTD, BOOTPARAMD} \/ (prog = LOCKD /\ vers = 4))
    THEN PortOf[prog] ELSE 0

GetPort(b) ==
    LET port == registeredport(At(b, Args(b)), At(b, Args(b) + 1), At(b, Args(b) + 2))
    IN  Accepted(b, IF port # 0 THEN <<0, port>> ELSE <<PROG_UNAVAIL>>)

\* The call inside a CALLIT takes the place of the arguments: what follows
\* them moves up, what lay behind the packet with it, and the header gets the
\* procedure.
Rolled(b) ==
    LET at == Args(b)
    IN  [SubSeq(b, 1, at - 1) \o SubSeq(b, at + 3, Len(b)) \o <<Stale, Stale, Stale>>
           EXCEPT ![6] = At(b, at + 2)]

portmapperprog(b) ==
    LET prog == At(b, Args(b))
        vers == At(b, Args(b) + 1)
    IN  CASE b[6] = 3 -> Says(GetPort(b))
          [] b[6] = 5 -> CASE prog = MOUNTD -> mountprog(Rolled(b), TRUE)
                           [] prog = LOCKD -> lockprog(Rolled(b), TRUE)
                           [] prog = NFSD /\ vers \in {2, 3} -> nfsprog(Rolled(b), TRUE)
                           [] prog = BOOTPARAMD -> bootparamprog(Rolled(b), TRUE)
                           [] OTHER -> Says(<<>>)
          [] OTHER -> Says(Accepted(b, <<0>>))

\* What the run loop does with a datagram of one of its sockets.
Dispatch(b, prog) ==
    LET v == validate(b, prog)
    IN  IF v.vers = 0 THEN Says(v.answer)
        ELSE CASE prog = PORTMAPPERD -> portmapperprog(b)
               [] prog = MOUNTD -> mountprog(b, FALSE)
               [] prog = LOCKD -> lockprog(b, FALSE)
               [] prog = BOOTPARAMD -> bootparamprog(b, FALSE)
               [] prog = NFSD -> IF v.vers \in {2, 3} THEN nfsprog(b, FALSE) ELSE Says(<<>>)

To(h, words) == IF words = <<>> THEN {} ELSE {[to |-> h, words |-> words]}

\* A datagram is served; the network may have doubled it.
Serve(h) ==
    \E c \in {d \in calls : d.from = h} :
        LET r == Dispatch(c.words, c.prog)
        IN  /\ answers' = answers \cup To(h, r.answer)
            /\ exported' = CASE r.mounts = "add" -> exported \cup {h}
                             [] r.mounts = "clear" -> {}
                             [] r.mounts = "keep" -> exported
            /\ \/ calls' = calls \ {c} /\ UNCHANGED trouble
               \/ trouble < MaxTrouble /\ trouble' = trouble + 1 /\ UNCHANGED calls
            /\ UNCHANGED <<build, frames, stage, known>>

\* Which frames of a read are looked at: the step to the next one leaves out
\* the alignment, so behind a frame of odd length none is found.
Reached(k) == \A i \in 1 .. k - 1 : frames[i].aligned

\* A reverse ARP reply goes to the configured machine only.
Rarp(f) == IF f.from = Mine THEN {[to |-> f.from, words |-> <<0, Ip(Mine)>>]} ELSE {}

\* RARP requests are answered, broadcasts to port 111 go to the portmapper.
\* On Linux the frame is read and nothing is done with it.
ReadFrames ==
    /\ frames # <<>>
    /\ IF build = "linux" THEN frames' = Tail(frames) /\ UNCHANGED answers
       ELSE /\ frames' = <<>>
            /\ answers' = answers \cup UNION
                 {LET f == frames[k]
                  IN  CASE f.type = "rarp" -> Rarp(f)
                        [] f.type = "udp" -> To(f.from, Dispatch(f.words, PORTMAPPERD).answer)
                        [] f.type = "other" -> {} :
                  k \in {k \in 1 .. Len(frames) : Reached(k)}}
    /\ UNCHANGED <<build, calls, stage, known, exported, trouble>>

-----------------------------------------------------------------------------
\* The machines and the network

AUTH_NULL == <<0, 0>>
Unix(h) == <<1, 24, 7, 4, NameOf(h), 0, 0, 0>>

RpcHeader(xid, prog, vers, proc) == <<xid, CALL, 2, prog, vers, proc>>

\* What a machine asks for at each stage, the xid being the stage.
Question(h, s) ==
    CASE s = 1 -> RpcHeader(1, PORTMAPPERD, 2, 5) \o AUTH_NULL \o AUTH_NULL \o <<BOOTPARAMD, 1, 1, 8, 1, known[h].ip>>
      [] s = 2 -> RpcHeader(2, BOOTPARAMD, 1, 2) \o AUTH_NULL \o AUTH_NULL \o <<4, known[h].name, 4, Root>>
      [] s = 3 -> RpcHeader(3, PORTMAPPERD, 2, 3) \o AUTH_NULL \o AUTH_NULL \o <<MOUNTD, 1, UDP, 0>>
      [] s = 4 -> RpcHeader(4, MOUNTD, 1, 1) \o Unix(h) \o AUTH_NULL \o <<4, Root>>
      [] s = 5 -> RpcHeader(5, PORTMAPPERD, 2, 3) \o Unix(h) \o AUTH_NULL \o <<LOCKD, 4, UDP, 0>>
      [] s = 6 -> RpcHeader(6, LOCKD, 4, 2) \o Unix(h) \o AUTH_NULL \o <<4, Root>>
      [] s = 7 -> RpcHeader(7, PORTMAPPERD, 2, 5) \o Unix(h) \o AUTH_NULL \o <<NFSD, 2, 0, 0>>
      [] s = 8 -> RpcHeader(8, NFSD, 2, 0) \o Unix(h) \o AUTH_NULL

Up == 9

Frame(h, type, words) == [type |-> type, from |-> h, words |-> words, aligned |-> TRUE]

\* A call arrives at the socket its port belongs to, or nowhere.
Sent(h, port, words) ==
    {[from |-> h, prog |-> p, words |-> words] : p \in {q \in DOMAIN PortOf : PortOf[q] = port}}

InFlight(h) ==
    \/ \E i \in 1 .. Len(frames) : frames[i].from = h
    \/ \E c \in calls : c.from = h
    \/ \E a \in answers : a.to = h

\* A machine asks, or asks again when nothing came back.
Ask(h) ==
    /\ stage[h] # Up
    /\ ~InFlight(h)
    /\ LET s == stage[h]
           port == IF s \in {3, 5, 7} THEN PortOf[PORTMAPPERD] ELSE known[h].port
       IN  IF s = 0 THEN frames' = Append(frames, Frame(h, "rarp", <<>>)) /\ UNCHANGED calls
           ELSE IF s = 1
           THEN /\ frames' = IF build = "apple" THEN Append(frames, Frame(h, "udp", Question(h, 1))) ELSE frames
                /\ UNCHANGED calls
           ELSE calls' = calls \cup Sent(h, port, Question(h, s)) /\ UNCHANGED frames
    /\ UNCHANGED <<build, answers, stage, known, exported, trouble>>

\* What an answer tells at a stage, or nothing when it does not decode.
Learned(k, s, w) ==
    LET n == Len(w)
    IN  CASE s = 0 -> {[k EXCEPT !.ip = w[2]]}
          [] s = 1 -> IF n > 8 /\ n = 8 + w[8] \div 4
                      THEN {[k EXCEPT !.name = w[10], !.port = w[7]]} ELSE {}
          [] s = 2 -> IF n = 12 THEN {[k EXCEPT !.root = w[12]]} ELSE {}
          [] s \in {3, 5} -> IF n = 7 THEN {[k EXCEPT !.port = w[7]]} ELSE {}
          [] s = 4 -> IF n = 8 /\ w[7] = 0 THEN {[k EXCEPT !.handle = w[8]]} ELSE {}
          [] s = 6 -> IF n = 7 THEN {k} ELSE {}
          [] s = 7 -> IF n = 7 THEN {[k EXCEPT !.port = w[7]]} ELSE {}
          [] s = 8 -> IF n = 6 THEN {k} ELSE {}

Hear(h) ==
    \E a \in {b \in answers : b.to = h} :
        LET learned == IF stage[h] # Up /\ a.words[1] = stage[h] THEN Learned(known[h], stage[h], a.words) ELSE {}
        IN  /\ answers' = answers \ {a}
            /\ \/ learned = {} /\ UNCHANGED <<stage, known>>
               \/ \E k \in learned : known' = [known EXCEPT ![h] = k] /\ stage' = [stage EXCEPT ![h] = @ + 1]
            /\ UNCHANGED <<build, frames, calls, exported, trouble>>

\* A packet is lost, or another broadcast comes in between.
Trouble ==
    /\ trouble < MaxTrouble
    /\ trouble' = trouble + 1
    /\ \/ \E c \in calls : calls' = calls \ {c} /\ UNCHANGED <<frames, answers>>
       \/ \E a \in answers : answers' = answers \ {a} /\ UNCHANGED <<frames, calls>>
       \/ build = "apple" /\ UNCHANGED <<calls, answers>>
          /\ frames' = Append(frames, [type |-> "other", from |-> 0, words |-> <<>>, aligned |-> FALSE])
    /\ UNCHANGED <<build, stage, known, exported>>

\* Headers that mountd should not take for UMNTALL, and that of UMNTALL.
Odd == {<<90, REPLY, 2, MOUNTD, 1, 4>>, <<90, CALL, 3, MOUNTD, 1, 4>>, <<90, CALL, 2, NFSD, 2, 4>>, <<90, CALL, 2, MOUNTD, 0, 4>>}

\* A machine sends mountd one of them, or unmounts everything.
Probe(h) ==
    /\ trouble < MaxTrouble
    /\ trouble' = trouble + 1
    /\ \E header \in Odd \cup {RpcHeader(90, MOUNTD, 1, 4)} :
         calls' = calls \cup Sent(h, PortOf[MOUNTD], header \o Unix(h) \o AUTH_NULL)
    /\ UNCHANGED <<build, frames, answers, stage, known, exported>>

\* Another server may have told the other machines their address, or their
\* name as well.
FrontInit ==
    /\ build \in Builds
    /\ frames = <<>> /\ calls = {} /\ answers = {} /\ exported = {} /\ trouble = 0
    /\ stage \in [Machine -> {0, 1, 2, 4}] /\ stage[Mine] = 0
    /\ known = [h \in Machine |->
         [ip |-> IF stage[h] > 0 THEN Ip(h) ELSE 0, name |-> IF stage[h] > 1 THEN NameOf(h) ELSE 0, root |-> 0, handle |-> 0,
          port |-> IF stage[h] = 2 THEN PortOf[BOOTPARAMD] ELSE IF stage[h] = 4 THEN PortOf[MOUNTD] ELSE 0]]

FrontNext ==
    \/ ReadFrames
    \/ Trouble
    \/ \E h \in Machine : Serve(h) \/ Ask(h) \/ Hear(h) \/ Probe(h)

FrontSpec == FrontInit /\ [][FrontNext]_frontVars

-----------------------------------------------------------------------------

\* Only the machine of the command line boots from this server.  Another gets
\* no address, name or root from it and mounts nothing, wherever it begins and
\* whatever answers are on their way: the hardware address, the network
\* address and the name are each compared, and what a rejected credential
\* leaves of the arguments is no path.
OnlyMine ==
    \A h \in Machine \ {Mine} :
        /\ known[h].ip \in {0, Ip(h)} /\ known[h].name \in {0, NameOf(h)}
        /\ known[h].root = 0 /\ known[h].handle = 0
        /\ h \notin exported

\* The mounts are cleared by nothing but a call of mountd's own UMNTALL.
OnlyCallsCount ==
    [][\A h \in exported \ exported' :
          \E c \in calls : SubSeq(c.words, 2, 4) = <<CALL, 2, MOUNTD>> /\ c.words[5] # 0 /\ c.words[6] = 4]_frontVars

\* What the machines see of the front end: only the configured one is served,
\* and nothing but a well-formed call of its own program counts.
FrontIsRight == []OnlyMine /\ OnlyCallsCount

\* The configured machine hears RARP and broadcasts answered; and it is up, its
\* root mounted.
MineMustBoot == build = "apple"
MineIsUp == stage[Mine] = Up /\ known[Mine].root = Root /\ known[Mine].handle = Root

=============================================================================
