-------------------------------- MODULE Tftp --------------------------------
(***************************************************************************)
(* nfsd's run loop with the TFTP server in it.  The loop serves one        *)
(* datagram of the first socket that is ready; tftp() does not return to   *)
(* it before the file is sent or something unexpected arrives.  It waits   *)
(* for each ACK in recvfrom, without a timeout, and answers whoever sent   *)
(* the last datagram.                                                      *)
(*                                                                         *)
(* The clients are boot PROMs: they read one file block by block, begin    *)
(* again when nothing happens any more, and never give up.                 *)
(***************************************************************************)
EXTENDS Naturals, Sequences

CONSTANTS
    Client,      \* TFTP clients; each reads a file of its own
    Lengths,     \* what there can be to read: per client the blocks of its file, or 0
    Short,       \* the clients whose file ends with a short block
    Socket,      \* the sockets besides TFTP's
    Before,      \* those of them the loop looks at before it
    WIRE,        \* block numbers on the wire are modulo this
    NoSession,
    MaxArrivals, \* bound of the model: datagrams for the other sockets
    MaxFaults,   \* bound of the model: lost, doubled, or needlessly repeated
    MaxQueue     \* datagrams the socket holds

ASSUME LengthAssumption == Lengths \subseteq [Client -> Nat]
ASSUME ShortAssumption == Short \subseteq Client
ASSUME BeforeAssumption == Before \subseteq Socket
\* A file of 2^16 blocks (32 MB) and more is outside the model.
ASSUME WireAssumption == WIRE \in Nat /\ \A n \in Lengths, c \in Client : n[c] < WIRE
ASSUME BoundAssumption == MaxArrivals \in Nat /\ MaxFaults \in Nat /\ MaxQueue \in Nat

Session == [file : Client, to : Client, block : Nat, pos : Nat]

ASSUME SessionAssumption == NoSession \notin Session

VARIABLES
    Length,    \* the blocks of each client's file, 0 if there is none of that name
    inbox,     \* datagrams at the TFTP socket
    waiting,   \* how many are at each of the other sockets
    session,   \* the transfer tftp() is in: fp, blocknum and request->from
    flying,    \* packets on their way to each client
    client,    \* what each client does
    got,       \* and the blocks it has
    arrivals,
    faults,
    crossed    \* history: a transfer took the ACK of another client for its own

vars == <<Length, inbox, waiting, session, flying, client, got, arrivals, faults, crossed>>

\* Packets.  `from' is the sender the server sees.
Rrq(c) == [op |-> "RRQ", from |-> c, block |-> 0]
Ack(c, n) == [op |-> "ACK", from |-> c, block |-> n % WIRE]
DataBlock(s) ==
    [op |-> "DATA", block |-> s.block % WIRE, file |-> s.file, pos |-> s.pos,
     last |-> s.pos = Length[s.file] /\ s.file \in Short]

Error == [op |-> "ERROR"]

\* A datagram that finds the socket full is lost.
Arriving(p) == IF Len(inbox) < MaxQueue THEN Append(inbox, p) ELSE inbox

To(c, p) == [flying EXCEPT ![c] = @ \cup {p}]

-----------------------------------------------------------------------------
\* The daemon

Fread(s) == s.pos <= Length[s.file]

\* The next block is read and sent; at the end of the file tftp() returns.
SendBlock(s) ==
    IF Fread(s)
    THEN session' = s /\ flying' = To(s.to, DataBlock(s))
    ELSE session' = NoSession /\ UNCHANGED flying

\* A datagram at one of the other sockets is served.
ServeOther(s) ==
    /\ session = NoSession
    /\ waiting[s] > 0
    /\ \A t \in Before : waiting[t] > 0 => s \in Before
    /\ s \notin Before => inbox = <<>>
    /\ waiting' = [waiting EXCEPT ![s] = @ - 1]
    /\ UNCHANGED <<Length, inbox, session, flying, client, got, arrivals, faults, crossed>>

\* tftp() begins a transfer; of what is not a read request it takes no notice.
TakeRequest ==
    /\ session = NoSession
    /\ inbox # <<>>
    /\ \A t \in Before : waiting[t] = 0
    /\ inbox' = Tail(inbox)
    /\ LET p == Head(inbox)
       IN  IF p.op # "RRQ" THEN UNCHANGED <<session, flying>>
           ELSE IF Length[p.from] = 0
           THEN flying' = To(p.from, Error) /\ UNCHANGED session
           ELSE SendBlock([file |-> p.from, to |-> p.from, block |-> 1, pos |-> 1])
    /\ UNCHANGED <<Length, waiting, client, got, arrivals, faults, crossed>>

\* A server that takes the number of the next block from the ACK.
Advance_TrustAck(s, p) == [s EXCEPT !.to = p.from, !.block = p.block + 1, !.pos = @ + 1]

\* One that keeps the block number.
Advance_SameBlock(s, p) ==
    IF p.op = "ACK" /\ p.block = s.block % WIRE THEN [s EXCEPT !.pos = @ + 1] ELSE NoSession

\* One that stays in the transfer and repeats the block.
Advance_Stay(s, p) ==
    IF p.op = "ACK" /\ p.block = s.block % WIRE
    THEN [s EXCEPT !.to = p.from, !.block = @ + 1, !.pos = @ + 1]
    ELSE s

\* "OPCODE mismatch" and "ACK mismatch" end the transfer.
Advance(s, p) ==
    IF p.op = "ACK" /\ p.block = s.block % WIRE
    THEN [s EXCEPT !.to = p.from, !.block = @ + 1, !.pos = @ + 1]
    ELSE NoSession

\* The datagram tftp() waits for, whatever it is and from whom.
TakeAck ==
    /\ session # NoSession
    /\ inbox # <<>>
    /\ inbox' = Tail(inbox)
    /\ LET s == Advance(session, Head(inbox))
       IN  IF s = NoSession THEN session' = NoSession /\ UNCHANGED flying
           ELSE SendBlock(s)
    /\ crossed' = (crossed \/ (session' # NoSession /\ session'.to # session'.file))
    /\ UNCHANGED <<Length, waiting, client, got, arrivals, faults>>

-----------------------------------------------------------------------------
\* The clients, the network and the other services' clients

Quiet(c) == inbox = <<>> /\ flying[c] = {}

\* A client asks for its file, at first or over again.
Ask(c) ==
    /\ client[c] = "idle"
    /\ client' = [client EXCEPT ![c] = "reading"]
    /\ got' = [got EXCEPT ![c] = <<>>]
    /\ inbox' = Arriving(Rrq(c))
    /\ UNCHANGED <<Length, waiting, session, flying, arrivals, faults, crossed>>

GiveUp(c) ==
    /\ client[c] = "reading"
    /\ Quiet(c)
    /\ client' = [client EXCEPT ![c] = "idle"]
    /\ UNCHANGED <<Length, inbox, waiting, session, flying, got, arrivals, faults, crossed>>

\* A client takes the block it expects and acknowledges it, acknowledges one
\* it has had once more, and drops any other.
Get(c) ==
    \E p \in flying[c] :
        LET next == Len(got[c]) + 1
            takes == client[c] = "reading" /\ p.op = "DATA" /\ p.block = next
            repeats == client[c] # "idle" /\ p.op = "DATA" /\ p.block < next
        IN  /\ flying' = [flying EXCEPT ![c] = @ \ {p}]
            /\ got' = IF takes THEN [got EXCEPT ![c] = Append(@, <<p.file, p.pos>>)] ELSE got
            /\ client' = IF takes /\ p.last THEN [client EXCEPT ![c] = "done"]
                         ELSE IF p.op = "ERROR" /\ client[c] = "reading"
                         THEN [client EXCEPT ![c] = "failed"] ELSE client
            /\ inbox' = IF takes \/ repeats THEN Arriving(Ack(c, p.block)) ELSE inbox
            /\ UNCHANGED <<Length, waiting, session, arrivals, faults, crossed>>

\* The network loses a packet, or a client repeats itself too early.
Fault ==
    /\ faults < MaxFaults
    /\ faults' = faults + 1
    /\ \/ \E c \in Client : \E p \in flying[c] :
             flying' = [flying EXCEPT ![c] = @ \ {p}] /\ UNCHANGED inbox
       \/ inbox # <<>> /\ inbox' = Tail(inbox) /\ UNCHANGED flying
       \/ \E c \in Client :
             /\ client[c] = "reading"
             /\ inbox' = Arriving(IF got[c] = <<>> THEN Rrq(c) ELSE Ack(c, Len(got[c])))
             /\ UNCHANGED flying
    /\ UNCHANGED <<Length, waiting, session, client, got, arrivals, crossed>>

Arrive(s) ==
    /\ arrivals < MaxArrivals
    /\ arrivals' = arrivals + 1
    /\ waiting' = [waiting EXCEPT ![s] = @ + 1]
    /\ UNCHANGED <<Length, inbox, session, flying, client, got, faults, crossed>>

Init ==
    /\ Length \in Lengths
    /\ inbox = <<>>
    /\ waiting = [s \in Socket |-> 0]
    /\ session = NoSession
    /\ flying = [c \in Client |-> {}]
    /\ client \in [Client -> {"off", "idle"}]
    /\ got = [c \in Client |-> <<>>]
    /\ arrivals = 0
    /\ faults = 0
    /\ crossed = FALSE

Daemon == TakeRequest \/ TakeAck \/ \E s \in Socket : ServeOther(s)

Next ==
    \/ Daemon
    \/ \E c \in Client : Ask(c) \/ GiveUp(c) \/ Get(c)
    \/ Fault
    \/ \E s \in Socket : Arrive(s)

Spec == Init /\ [][Next]_vars

\* The daemon keeps running; a client answers what it gets and starts over
\* when nothing comes.
FairSpec ==
    /\ Spec
    /\ WF_vars(Daemon)
    /\ \A c \in Client : WF_vars(Ask(c)) /\ WF_vars(GiveUp(c)) /\ WF_vars(Get(c))

-----------------------------------------------------------------------------

Datagram == [op : {"RRQ", "ACK"}, from : Client, block : 0 .. WIRE - 1]
Data == [op : {"DATA"}, block : 0 .. WIRE - 1, file : Client, pos : Nat, last : BOOLEAN]

TypeOK ==
    /\ Length \in Lengths
    /\ inbox \in Seq(Datagram) /\ Len(inbox) <= MaxQueue
    /\ flying \in [Client -> SUBSET (Data \cup {Error})]
    /\ waiting \in [Socket -> Nat]
    /\ session \in Session \cup {NoSession}
    /\ client \in [Client -> {"off", "idle", "reading", "done", "failed"}]
    /\ got \in [Client -> Seq(Client \X Nat)]
    /\ arrivals \in 0 .. MaxArrivals /\ faults \in 0 .. MaxFaults /\ crossed \in BOOLEAN

\* What a client has is the beginning of its own file, block after block, and
\* when it thinks it is done all of it: however often it began again, and
\* whatever was lost, repeated or left over from the attempt before.  It lasts
\* until a transfer takes another client's ACK of the same number for its own
\* and goes on with that client.
FileIsWhole ==
    ~crossed => \A c \in Client :
        /\ \A i \in 1 .. Len(got[c]) : got[c][i] = <<c, i>>
        /\ client[c] = "done" => Len(got[c]) = Length[c]

\* c is the only client that boots.
Alone(c) == \A d \in Client \ {c} : client[d] = "off"

\* A client that boots alone gets its file in the end, although a packet lost
\* or sent twice ends the transfer and the next request is eaten by a transfer
\* that waits for an ACK.  (Two that begin again in step can stop one another
\* for ever.)
FileArrives ==
    \A c \in Short : (Length[c] > 0 /\ client[c] # "off" /\ Alone(c)) => <>(client[c] = "done")

\* "provide all boot services": a datagram for another service is served.
OthersAreServed ==
    \A s \in Socket : waiting[s] > 0 ~> waiting[s] = 0

\* tftp() in recvfrom, and no client left that would send to it.
Deserted ==
    session # NoSession /\ inbox = <<>> /\ \A c \in Client : client[c] \in {"off", "done", "failed"} /\ flying[c] = {}

\* While one client boots, the only thing that can keep the other services from
\* being served is a transfer whose client has its file and whose last ACK was
\* lost; as long as the client still wants something it moves the daemon on.
OnlyLastAckStops ==
    \A s \in Socket, c \in Client :
        (Alone(c) /\ waiting[s] > 0) ~> (waiting[s] = 0 \/ Deserted)

=============================================================================
