------------------------------ MODULE MCDaemons ------------------------------
(***************************************************************************)
(* The daemons that share nothing, side by side: which of them runs is     *)
(* chosen at the start, and the others stay as they are.  The states are   *)
(* the sum of theirs.                                                      *)
(***************************************************************************)
EXTENDS MCMountTable, TelnetSession, TelnetServer, Dhcp, NtpClock, ScreenCast, RpcFront

VARIABLE machine

\* The commands, a size in two parts, and bytes of which one ends the shell.
MCStreams == {<<"a", "IAC", "IAC", "IAC", "DO", "TTYPE">>,
              <<"IAC", "SB", "NAWS", "n", "n", "n", "n", "IAC", "SE">>,
              <<"NUL", "IAC", "EOT">>}
MCYears == 2008 .. 2075
MCHosts == {<<1>>, <<2, 2>>}
MCAddresses == {<<7, 7, 7, 7>>, <<8, 8, 8, 8>>}

daemonVars == <<machine, vars, sessionVars, serverVars, dhcpvars, clockvars, castvars, frontVars>>

\* A daemon that does not run begins in one state.
DaemonsInit ==
    /\ machine \in {"mounts", "session", "server", "dhcp", "clock", "cast", "front"}
    /\ Init /\ ServerInit /\ DhcpInit /\ CastInit
    /\ SessionInit
    /\ machine # "session" => Len(stream) = 3 /\ peer = "none"
    /\ ClockInit
    /\ machine # "clock" => now = <<2025, 1, 1>>
    /\ FrontInit
    /\ machine # "front" => build = "apple" /\ \A h \in Machine : stage[h] = 0

DaemonsNext ==
    \/ /\ machine = "mounts" /\ Next
       /\ UNCHANGED <<machine, sessionVars, serverVars, dhcpvars, clockvars, castvars, frontVars>>
    \/ /\ machine = "session" /\ SessionNext
       /\ UNCHANGED <<machine, vars, serverVars, dhcpvars, clockvars, castvars, frontVars>>
    \/ /\ machine = "server" /\ ServerNext
       /\ UNCHANGED <<machine, vars, sessionVars, dhcpvars, clockvars, castvars, frontVars>>
    \/ /\ machine = "dhcp" /\ DhcpNext
       /\ UNCHANGED <<machine, vars, sessionVars, serverVars, clockvars, castvars, frontVars>>
    \/ /\ machine = "clock" /\ ClockNext
       /\ UNCHANGED <<machine, vars, sessionVars, serverVars, dhcpvars, castvars, frontVars>>
    \/ /\ machine = "cast" /\ CastNext
       /\ UNCHANGED <<machine, vars, sessionVars, serverVars, dhcpvars, clockvars, frontVars>>
    \/ /\ machine = "front" /\ FrontNext
       /\ UNCHANGED <<machine, vars, sessionVars, serverVars, dhcpvars, clockvars, castvars>>

\* The session goes on with what it can read and write; a socket that takes
\* bytes again and again is written to.  A shell that was sent SIGHUP dies.
SessionFairness ==
    /\ WF_sessionVars(machine = "session" /\ Handshake)
    /\ WF_sessionVars(machine = "session" /\ Input)
    /\ WF_sessionVars(machine = "session" /\ Timeout)
    /\ WF_sessionVars(machine = "session" /\ OutputGoesOn)
    /\ SF_sessionVars(machine = "session" /\ WriteSocket /\ bo' # bo)
    /\ WF_sessionVars(machine = "session" /\ SessionSigdead)
    /\ WF_sessionVars(machine = "session" /\ killed /\ ShellEnds)

\* Clients need not connect nor sessions die; the server and its handlers go on.
ServerFairness ==
    /\ WF_serverVars(machine = "server" /\ AcceptFails)
    /\ WF_serverVars(machine = "server" /\ ForkSession)
    /\ WF_serverVars(machine = "server" /\ Wake)
    /\ WF_serverVars(machine = "server" /\ Sigdead)
    /\ WF_serverVars(machine = "server" /\ cleanup_session)

\* A viewer leaves in the end.
CastFairness ==
    /\ WF_castvars(machine = "cast" /\ CastGoesOn)
    /\ WF_castvars(machine = "cast" /\ ClientGoes)

\* The loop serves far faster than machines ask again; a machine asks again
\* and reads its answers.
FrontFairness ==
    /\ WF_frontVars(machine = "front" /\ ReadFrames)
    /\ \A h \in Machine :
         /\ WF_frontVars(machine = "front" /\ Serve(h))
         /\ WF_frontVars(machine = "front" /\ Ask(h))
         /\ WF_frontVars(machine = "front" /\ Hear(h))

DaemonsSpec ==
    /\ DaemonsInit /\ [][DaemonsNext]_daemonVars
    /\ SessionFairness /\ ServerFairness /\ CastFairness /\ FrontFairness

\* The clients of DHCP and NTP end with what is theirs: the address offered to
\* them, asked for in packets a server can read, and the day it is.
ClientsAreRight == AddressIsMine /\ OptionsAreRead /\ DateIsRight

\* What has to come to an end, of the daemon that runs, and the end.
MustEnd ==
    \/ machine = "session" /\ SessionMustEnd
    \/ machine = "server" /\ ServerMustEnd
    \/ machine = "cast" /\ CastMustEnd
    \/ machine = "front" /\ MineMustBoot

Ended ==
    CASE machine = "session" -> SessionEnded
      [] machine = "server" -> ServerEnded
      [] machine = "cast" -> CastEnded
      [] OTHER -> MineIsUp

\* A session ends when its shell has: what the socket does not take at once it
\* takes later, and a SIGDEAD that is missed keeps nobody.  SIGTERM ends telnetd
\* and screencastd wherever it finds them, once their client has gone.  The
\* configured machine boots: each answer has the port, the length and the names
\* where the next question needs them, through CALLIT and without it.
DaemonsGoOn == MustEnd ~> Ended

=============================================================================
