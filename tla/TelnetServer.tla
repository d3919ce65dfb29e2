---------------------------- MODULE TelnetServer ----------------------------
(***************************************************************************)
(* `telnetd -s': a process that accepts connections, forks a session for   *)
(* each and sleeps two seconds.  SIGDEAD says that some session has ended, *)
(* and its handler waits for one; SIGTERM stops the server.  A signal is a *)
(* flag: two deaths may leave one.                                         *)
(***************************************************************************)
EXTENDS Naturals, FiniteSets

CONSTANTS
    Conns,      \* connections clients make
    Backlog     \* the 5 of listen()

VARIABLES
    listening,  \* server_sock is open
    running,    \* session_state
    waiting,    \* connections nobody has accepted
    sessions,   \* what became of each: "none", "running", "zombie" or "reaped"
    dead,       \* SIGDEAD is pending
    handler,    \* cleanup_session is in wait()
    at          \* where main is: "accept", "accepted", "sleep" or "over"

serverVars == <<listening, running, waiting, sessions, dead, handler, at>>

In(state) == {c \in Conns : sessions[c] = state}

ServerInit ==
    /\ listening = TRUE /\ running = TRUE
    /\ waiting = {} /\ sessions = [c \in Conns |-> "none"]
    /\ dead = FALSE /\ handler = FALSE
    /\ at = "accept"

Connect(c) ==
    /\ listening /\ c \in In("none") \ waiting
    /\ Cardinality(waiting) < Backlog
    /\ waiting' = waiting \cup {c}
    /\ UNCHANGED <<listening, running, sessions, dead, handler, at>>

Accept(c) ==
    /\ at = "accept" /\ ~handler /\ listening
    /\ c \in waiting
    /\ waiting' = waiting \ {c}
    /\ sessions' = [sessions EXCEPT ![c] = "accepted"]
    /\ at' = "accepted"
    /\ UNCHANGED <<listening, running, dead, handler>>

\* server_sock was closed: EBADF, or session_state is seen first.
AcceptFails ==
    /\ at = "accept" /\ ~handler /\ ~listening
    /\ at' = "over"
    /\ UNCHANGED <<listening, running, waiting, sessions, dead, handler>>

\* A connection that was accepted when SIGTERM came is dropped.
ForkSession ==
    /\ at = "accepted" /\ ~handler
    /\ at' = IF running THEN "sleep" ELSE "over"
    /\ sessions' = [c \in Conns |-> IF sessions[c] # "accepted" THEN sessions[c]
                                    ELSE IF running THEN "running" ELSE "none"]
    /\ UNCHANGED <<listening, running, waiting, dead, handler>>

\* The end of sleep(2), by the clock or by a signal.
Wake ==
    /\ at = "sleep" /\ ~handler
    /\ at' = IF running THEN "accept" ELSE "over"
    /\ UNCHANGED <<listening, running, waiting, sessions, dead, handler>>

\* A signal that comes while its handler runs may be lost.
SessionDies(c) ==
    /\ sessions[c] = "running"
    /\ sessions' = [sessions EXCEPT ![c] = "zombie"]
    /\ dead' \in {TRUE} \cup (IF handler THEN {dead} ELSE {})
    /\ UNCHANGED <<listening, running, waiting, handler, at>>

Sigdead ==
    /\ dead /\ ~handler /\ at # "over"
    /\ dead' = FALSE /\ handler' = TRUE
    /\ UNCHANGED <<listening, running, waiting, sessions, at>>

\* A handler that reaps all there is to reap.
cleanup_session_All ==
    /\ handler /\ In("zombie") # {}
    /\ sessions' = [c \in Conns |-> IF sessions[c] = "zombie" THEN "reaped" ELSE sessions[c]]
    /\ handler' = FALSE
    /\ UNCHANGED <<listening, running, waiting, dead, at>>

\* wait() returns with some child that is dead.
cleanup_session ==
    /\ handler
    /\ \E c \in In("zombie") : sessions' = [sessions EXCEPT ![c] = "reaped"]
    /\ handler' = FALSE
    /\ UNCHANGED <<listening, running, waiting, dead, at>>

\* SIGTERM.
cleanup_and_exit ==
    /\ running /\ at # "over"
    /\ running' = FALSE /\ listening' = FALSE
    /\ UNCHANGED <<waiting, sessions, dead, handler, at>>

ServerNext ==
    \/ \E c \in Conns : Connect(c) \/ Accept(c) \/ SessionDies(c)
    \/ AcceptFails \/ ForkSession \/ Wake
    \/ Sigdead \/ cleanup_session \/ cleanup_and_exit

ServerSpec == ServerInit /\ [][ServerNext]_serverVars

-----------------------------------------------------------------------------

\* The handler never waits for a session that lives: for every SIGDEAD that is
\* pending or being handled there is a dead child of its own.
Signals == (IF dead THEN 1 ELSE 0) + (IF handler THEN 1 ELSE 0)
HandlerNeverWaits == Signals <= Cardinality(In("zombie"))

\* SIGTERM was heeded; and the end of the server.
ServerMustEnd == ~running
ServerEnded == at = "over"

=============================================================================
