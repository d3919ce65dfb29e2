---------------------------- MODULE TelnetSession ----------------------------
(***************************************************************************)
(* One session of telnetd, as built for the 4404: a loop that carries what *)
(* the client types to the shell's pty and what the shell prints to the    *)
(* client's socket, until the shell is gone.  The pty may take part of a   *)
(* write, the socket too; SIGDEAD may come at any time, from the shell or  *)
(* from a session that was started by this one's process.                  *)
(***************************************************************************)
EXTENDS TelnetParser, SequencesExt, FiniteSets

CONSTANTS
    Streams,        \* what clients send
    Prints,         \* how many lines the shell prints at most
    ZombieAnswers   \* whether kill(pid, 0) finds a child that is dead and not waited for

ASSUME StreamsAssumption ==
    /\ \A s \in Streams : s \in Seq(ToSet(s))
    /\ Prints \in Nat

VARIABLES
    stream,     \* what the client sends in this session
    pos,        \* how much of it was read
    dropped,    \* of it by the look for an rlogin handshake
    istelnet,   \* the handshake was not there
    ts,         \* struct termstate without its buffers
    bi,         \* ts.bi: what the pty has still to take
    typed,      \* what it took
    reparsed,   \* history: parse() ran over bytes it had parsed before
    printed,    \* lines the shell has printed so far
    ptyq,       \* of them queued in the pty
    bo,         \* ts.bo: read from it and not yet written to the socket
    shown,      \* written to the socket
    client,     \* "there", "closed" (it reads on) or "gone"
    shell,      \* "running", "zombie" or "reaped"
    killed,     \* it was sent SIGHUP or SIGQUIT
    peer,       \* the other session that is a child of this process
    sigs,       \* SIGDEAD is pending
    heeded,     \* cleanup_child is installed
    stopped,    \* session_state
    loop        \* where telnet_session is

inputVars == <<stream, pos, dropped, istelnet, ts, bi, typed, reparsed>>
outputVars == <<printed, ptyq, bo, shown>>
childVars == <<client, shell, killed, peer, sigs, heeded, stopped>>
sessionVars == <<inputVars, outputVars, childVars, loop>>

SessionInit ==
    /\ stream \in Streams
    /\ pos = 0 /\ dropped = 0 /\ istelnet = TRUE
    /\ ts = NewTermstate /\ bi = <<>> /\ typed = <<>> /\ reparsed = FALSE
    /\ printed = 0 /\ ptyq = <<>> /\ bo = <<>> /\ shown = <<>>
    /\ client = "there" /\ shell = "running" /\ killed = FALSE
    /\ peer \in {"none", "running"}
    /\ sigs = FALSE /\ heeded = TRUE /\ stopped = FALSE
    /\ loop = "start"

-----------------------------------------------------------------------------
\* main, when /etc/server has made the connection: one read that does not wait
\* looks for the NUL an rlogin client begins with.  Whatever it read is gone.
Handshake ==
    /\ loop = "start"
    /\ \E k \in 0 .. Len(stream) :
          /\ pos' = k /\ dropped' = k
          /\ istelnet' = ~(k > 0 /\ stream[1] = "NUL")
    /\ loop' = "select"
    /\ UNCHANGED <<stream, ts, bi, typed, reparsed, outputVars, childVars>>

\* Input: socket to pty.

\* What is parsed in this turn: bytes just read, or those left over.
Fresh(k) == IF bi = <<>> THEN SubSeq(stream, pos + 1, pos + k) ELSE bi

Parsed(k) == IF istelnet THEN parse(ts, Fresh(k)) ELSE [ts EXCEPT !.out = Fresh(k)]

\* The socket is readable: there are bytes, or the client has closed it.
Readable == pos < Len(stream) \/ client # "there"

\* select() says so.  The bytes are read unless some are left over, parsed,
\* and written; the pty takes some of them.  A Ctrl-D it was given at the
\* front ends the session.
Input ==
    /\ loop = "select" /\ ~stopped
    /\ Readable
    /\ \E k \in 0 .. Len(stream) - pos :
          /\ k = 0 <=> (pos = Len(stream) \/ bi # <<>>)
          /\ pos' = pos + k
          /\ ts' = [Parsed(k) EXCEPT !.out = <<>>]
          /\ reparsed' = (reparsed \/ (istelnet /\ bi # <<>>))
          /\ LET data == Parsed(k).out
             IN  \E n \in 0 .. Len(data) :
                    /\ n = 0 => data = <<>>
                    /\ typed' = typed \o SubSeq(data, 1, n)
                    /\ IF n > 0 /\ data[1] = "EOT"
                       THEN bi' = data /\ killed' = TRUE /\ loop' = "end"
                       ELSE bi' = SubSeq(data, n + 1, Len(data)) /\ loop' = "out" /\ UNCHANGED killed
    /\ UNCHANGED <<stream, dropped, istelnet, outputVars, client, shell, peer, sigs, heeded, stopped>>

\* The write to the pty was interrupted by a signal: nothing was taken, and
\* the next turn parses the same bytes.
InputInterrupted ==
    /\ loop = "select" /\ ~stopped
    /\ bi # <<>> /\ Readable /\ sigs
    /\ ts' = [Parsed(0) EXCEPT !.out = <<>>]
    /\ bi' = Parsed(0).out
    /\ reparsed' = (reparsed \/ istelnet)
    /\ UNCHANGED <<stream, pos, dropped, istelnet, typed, outputVars, childVars, loop>>

\* select() timed out.
Timeout ==
    /\ loop = "select" /\ ~stopped
    /\ loop' = "out"
    /\ UNCHANGED <<inputVars, outputVars, childVars>>

-----------------------------------------------------------------------------
\* Output: pty to socket, as long as the pty has something queued.

ReadPty ==
    /\ loop = "out"
    /\ ptyq # <<>> /\ bo = <<>>
    /\ \E k \in 1 .. Len(ptyq) :
          /\ bo' = SubSeq(ptyq, 1, k)
          /\ ptyq' = SubSeq(ptyq, k + 1, Len(ptyq))
    /\ loop' = "write"
    /\ UNCHANGED <<inputVars, printed, shown, childVars>>

\* "still pending output"
StillPending == UNCHANGED <<bo, ptyq>>

ResumeWrite ==
    /\ loop = "out"
    /\ ptyq # <<>> /\ bo # <<>>
    /\ StillPending
    /\ loop' = "write"
    /\ UNCHANGED <<inputVars, printed, shown, childVars>>

\* The socket takes some bytes; or none, which ends the inner loop.
WriteSocket ==
    /\ loop = "write" /\ bo # <<>> /\ client # "gone"
    /\ \E n \in 0 .. Len(bo) :
          /\ shown' = shown \o SubSeq(bo, 1, n)
          /\ bo' = SubSeq(bo, n + 1, Len(bo))
          /\ loop' = IF n = 0 THEN "out" ELSE loop
    /\ UNCHANGED <<inputVars, printed, ptyq, childVars>>

\* EPIPE: session_state is stopped, and the inner loop left.
WriteFails ==
    /\ loop = "write" /\ bo # <<>> /\ client = "gone"
    /\ stopped' = TRUE
    /\ loop' = "out"
    /\ UNCHANGED <<inputVars, outputVars, client, shell, killed, peer, sigs, heeded>>

Written ==
    /\ loop = "write" /\ bo = <<>>
    /\ loop' = "out"
    /\ UNCHANGED <<inputVars, outputVars, childVars>>

\* A loop that has only SIGDEAD to end it.
OutputDone_Deaf ==
    /\ loop = "out" /\ ptyq = <<>>
    /\ loop' = "select"
    /\ UNCHANGED <<inputVars, outputVars, childVars>>

\* Nothing queued any more: the loop goes round, or ends with the shell (PTY_EOF).
OutputDone ==
    /\ loop = "out" /\ ptyq = <<>>
    /\ loop' = IF shell # "running" THEN "end" ELSE "select"
    /\ UNCHANGED <<inputVars, outputVars, childVars>>

\* session_state is looked at between two turns only.
Stop ==
    /\ loop = "select" /\ stopped
    /\ loop' = "end"
    /\ UNCHANGED <<inputVars, outputVars, childVars>>

-----------------------------------------------------------------------------
\* The end: SIGQUIT for the shell, and one wait for whichever child it is.

Quit ==
    /\ loop = "end"
    /\ killed' = TRUE
    /\ loop' = "wait"
    /\ UNCHANGED <<inputVars, outputVars, client, shell, peer, sigs, heeded, stopped>>

Wait ==
    /\ loop = "wait"
    /\ \/ shell = "zombie" /\ shell' = "reaped" /\ UNCHANGED peer
       \/ peer = "zombie" /\ peer' = "reaped" /\ UNCHANGED shell
    /\ loop' = "over"
    /\ UNCHANGED <<inputVars, outputVars, client, killed, sigs, heeded, stopped>>

\* cleanup_child.  It is not installed again.
SessionSigdead ==
    /\ sigs /\ loop # "over"
    /\ sigs' = FALSE
    /\ stopped' = (stopped \/ (heeded /\ shell = "zombie" /\ ~ZombieAnswers))
    /\ heeded' = FALSE
    /\ UNCHANGED <<inputVars, outputVars, client, shell, killed, peer, loop>>

-----------------------------------------------------------------------------
\* The shell, the client and the peer session.

ShellPrints ==
    /\ shell = "running" /\ printed < Prints
    /\ printed' = printed + 1
    /\ ptyq' = Append(ptyq, printed + 1)
    /\ UNCHANGED <<inputVars, bo, shown, childVars, loop>>

ShellEnds ==
    /\ shell = "running"
    /\ shell' = "zombie"
    /\ sigs' = TRUE
    /\ UNCHANGED <<inputVars, outputVars, client, killed, peer, heeded, stopped, loop>>

PeerEnds ==
    /\ peer = "running" /\ loop # "over"
    /\ peer' = "zombie"
    /\ sigs' = TRUE
    /\ UNCHANGED <<inputVars, outputVars, client, shell, killed, heeded, stopped, loop>>

Leave ==
    /\ client # "gone" /\ pos = Len(stream) /\ loop # "over"
    /\ client' \in {"closed", "gone"} \ {client}
    /\ UNCHANGED <<inputVars, outputVars, shell, killed, peer, sigs, heeded, stopped, loop>>

SessionNext ==
    \/ Handshake \/ Input \/ InputInterrupted \/ Timeout
    \/ ReadPty \/ ResumeWrite \/ WriteSocket \/ WriteFails \/ Written \/ OutputDone \/ Stop
    \/ Quit \/ Wait \/ SessionSigdead
    \/ ShellPrints \/ ShellEnds \/ PeerEnds \/ Leave

SessionSpec == SessionInit /\ [][SessionNext]_sessionVars

\* What the loop does by itself, the way out of the socket aside.
OutputGoesOn == ReadPty \/ ResumeWrite \/ Written \/ OutputDone \/ Stop \/ Quit \/ Wait \/ WriteFails

-----------------------------------------------------------------------------

SessionTypeOK ==
    /\ stream \in Streams /\ pos \in 0 .. Len(stream)
    /\ ts.state \in {"NORMAL", "IAC", "OPT", "SB", "OPTDAT", "SE"}
    /\ Len(ts.optdata) <= OptdataSize
    /\ Len(bi) <= Len(stream)
    /\ printed \in 0 .. Prints
    /\ shell \in {"running", "zombie", "reaped"} /\ peer \in {"none", "running", "zombie", "reaped"}
    /\ client \in {"there", "closed", "gone"}
    /\ {killed, sigs, heeded, stopped, reparsed} \subseteq BOOLEAN
    /\ loop \in {"start", "select", "out", "write", "end", "wait", "over"}

\* What the shell is typed, with what the pty has still to take, is the data of
\* the stream read so far without its telnet commands (for rlogin: all of it),
\* however the stream was cut into reads - as long as parse() never runs over the same bytes twice,
\* and no subnegotiation holds a doubled IAC.
ShellGetsTheData ==
    LET s == SubSeq(stream, dropped + 1, pos)
    IN  (~reparsed /\ ~MeaningOf(s).doubled /\ ~(loop \in {"end", "wait", "over"} /\ bi # <<>>))
            => typed \o bi = IF istelnet THEN MeaningOf(s).data ELSE s

\* Every option is answered once and in order, wherever the reads were cut.
OptionsAreAnswered ==
    LET s == SubSeq(stream, dropped + 1, pos)
    IN  (istelnet /\ ~reparsed /\ ~MeaningOf(s).doubled) => ts.sent = MeaningOf(s).answers

\* Nothing the shell prints is lost, doubled or moved on its way to the socket.
OutputInOrder ==
    shown \o bo \o ptyq = [i \in 1 .. printed |-> i]

\* A session that ends because the shell has ended has shown all of its output
\* to a client that is there - when no SIGDEAD stops it before.
LastOutputIsShown ==
    (loop \in {"end", "wait", "over"} /\ ~stopped /\ ~killed) => ptyq = <<>>

\* The shell has ended, the client is there; and the end of the session.
SessionMustEnd == shell = "zombie" /\ client # "gone"
SessionEnded == loop \in {"wait", "over"} \/ client = "gone"

\* What goes through a session: every byte, command and line comes out once and
\* in order, up to its end.
SessionIsRight ==
    /\ SessionTypeOK
    /\ ShellGetsTheData
    /\ OptionsAreAnswered
    /\ OutputInOrder
    /\ LastOutputIsShown

=============================================================================
