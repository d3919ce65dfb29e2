----------------------------- MODULE ScreenCast -----------------------------
(***************************************************************************)
(* The screen cast daemon.  It serves one client after another, in the     *)
(* process that accepts: frame after frame, each a header and the rows in  *)
(* blocks, with writes that may be partial or fail.  SIGTERM closes the    *)
(* listening socket and clears `state', which only the accept loop reads.  *)
(***************************************************************************)
EXTENDS Integers, Sequences

CONSTANTS
    FrameSize,      \* bytes of a frame (in small units)
    MAXWRITE,
    MaxFrames,      \* bound of the model: frames watched of one client
    MaxClients      \* bound of the model

ASSUME CastAssumption == {FrameSize, MAXWRITE, MaxFrames, MaxClients} \subseteq Nat \ {0}

VARIABLES
    state,      \* "RUNNING" or "STOPPED"
    sock,       \* the listening socket: "open" or "closed"
    main,       \* "check", "accept", "header", "body" or "exit"
    bytes,      \* of the frame, still to be written
    viewer,     \* "none", "connected" or "gone"
    received,   \* what the client has: 0 is a header, k the k-th byte of a frame
    termed,     \* SIGTERM was sent
    clients

castvars == <<state, sock, main, bytes, viewer, received, termed, clients>>

CastInit ==
    /\ state = "RUNNING" /\ sock = "open" /\ main = "check" /\ bytes = 0
    /\ viewer = "none" /\ received = <<>> /\ termed = FALSE /\ clients = 0

\* while (state == RUNNING); with none running the socket is closed again.
Check ==
    /\ main = "check"
    /\ IF state = "RUNNING" THEN main' = "accept" /\ UNCHANGED sock
                            ELSE main' = "exit" /\ sock' = "closed"
    /\ UNCHANGED <<state, bytes, viewer, received, termed, clients>>

\* accept gives a socket, or fails and is tried again unless a signal has
\* closed the socket.
AcceptViewer ==
    /\ main = "accept" /\ sock = "open" /\ viewer = "connected"
    /\ main' = "header"
    /\ received' = <<>>
    /\ UNCHANGED <<state, sock, bytes, viewer, termed, clients>>

AcceptClosed ==
    /\ main = "accept" /\ sock = "closed"
    /\ main' = "exit"
    /\ UNCHANGED <<state, sock, bytes, viewer, received, termed, clients>>

\* rdp_session writes the header of the next frame; any failure, and a short
\* write too, ends the session.
HangUp == main' = "check" /\ viewer' = "none"
Header ==
    /\ main = "header"
    /\ \/ /\ viewer = "connected"
          /\ Len(received) < MaxFrames * (FrameSize + 1)
          /\ received' = Append(received, 0)
          /\ main' = "body" /\ bytes' = FrameSize
          /\ UNCHANGED viewer
       \/ /\ viewer = "gone"
          /\ HangUp
          /\ UNCHANGED <<bytes, received>>
    /\ UNCHANGED <<state, sock, termed, clients>>

\* The rows, in blocks; a short write is carried on with the rest.
Rest_Whole(b, n) == b - (IF b > MAXWRITE THEN MAXWRITE ELSE b)
Rest(b, n) == b - n
Body ==
    /\ main = "body" /\ viewer = "connected" /\ bytes > 0
    /\ \E n \in 1 .. (IF bytes > MAXWRITE THEN MAXWRITE ELSE bytes) :
        /\ received' = received \o [i \in 1 .. n |-> FrameSize - bytes + i]
        /\ bytes' = Rest(bytes, n)
    /\ UNCHANGED <<state, sock, main, viewer, termed, clients>>

\* A write that fails ends the frame only: the next write is a header's.
BodyFails ==
    /\ main = "body" /\ bytes > 0
    /\ viewer = "gone"
    /\ main' = "header" /\ bytes' = 0
    /\ UNCHANGED <<state, sock, viewer, received, termed, clients>>

FrameDone ==
    /\ main = "body" /\ bytes = 0
    /\ main' = "header"
    /\ UNCHANGED <<state, sock, bytes, viewer, received, termed, clients>>

cast_cleanup_and_exit == state' = "STOPPED" /\ sock' = "closed"
Sigterm ==
    /\ ~termed /\ main # "exit"
    /\ termed' = TRUE
    /\ cast_cleanup_and_exit
    /\ \/ UNCHANGED <<main, bytes>>
       \/ main = "accept" /\ main' = "check" /\ UNCHANGED bytes
       \/ main = "body" /\ main' = "header" /\ bytes' = 0
    /\ UNCHANGED <<viewer, received, clients>>

ClientComes ==
    /\ viewer = "none" /\ sock = "open" /\ clients < MaxClients
    /\ viewer' = "connected" /\ clients' = clients + 1
    /\ UNCHANGED <<state, sock, main, bytes, received, termed>>

\* A client that is served goes.
ClientGoes ==
    /\ viewer = "connected" /\ main \in {"header", "body"}
    /\ viewer' = "gone"
    /\ UNCHANGED <<state, sock, main, bytes, received, termed, clients>>

CastNext ==
    \/ Check \/ AcceptViewer \/ AcceptClosed \/ Header \/ Body \/ BodyFails \/ FrameDone
    \/ Sigterm \/ ClientComes \/ ClientGoes

CastSpec == CastInit /\ [][CastNext]_castvars

\* What the daemon does by itself.
CastGoesOn == Check \/ AcceptViewer \/ AcceptClosed \/ Header \/ Body \/ BodyFails \/ FrameDone

-----------------------------------------------------------------------------

\* Until SIGTERM comes, what a client has is whole frames and the beginning of
\* one: each with its header, every byte of it once and in order, however the
\* writes were cut.  (A SIGTERM that interrupts a write leaves a frame torn and
\* goes on with the next.)
FramesAreWhole ==
    ~termed => \A k \in 1 .. Len(received) :
        received[k] = IF k = 1 \/ received[k - 1] = FrameSize THEN 0 ELSE received[k - 1] + 1

\* SIGTERM has come; and the end of the daemon.
CastMustEnd == termed
CastEnded == main = "exit"

=============================================================================
