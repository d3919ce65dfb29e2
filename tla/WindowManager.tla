---------------------------- MODULE WindowManager ----------------------------
(***************************************************************************)
(* wmgr's window table.  allwindows holds the windows in slots             *)
(* 0 .. numwindows-1, `next' chains them from the front (wintopmost) to    *)
(* the back, and each has a child process.  A child's death is seen by the *)
(* SIGDEAD handler and, where the pty can be selected on, by the main loop *)
(* too; both call WindowDestroy, which gives the slot to the window in the *)
(* last one.                                                               *)
(***************************************************************************)
EXTENDS Integers, FiniteSets

CONSTANTS
    Builds,     \* of {"4404", "modern"}
    Null,
    MaxCreated  \* bound of the model: windows made in one run

ASSUME BuildsAssumption == Builds \subseteq {"4404", "modern"}
ASSUME CreatedAssumption == MaxCreated \in Nat /\ MaxCreated >= 2
ASSUME NullAssumption == Null \notin 0 .. MaxCreated

VARIABLES
    build,      \* "4404": ptys are polled, and a signal that arrives in its own
                \* handler is lost; "modern": select tells of a closed pty too,
                \* and the signal waits
    allwindows,
    numwindows,
    wintopmost,
    process,    \* of each window: "none", "running", "closed" (its terminal),
                \* "zombie" or "reaped"
    killed,     \* windows whose process was sent SIGTERM
    created,    \* windows made so far
    sigdead,    \* a SIGDEAD is pending
    handler,    \* where cleanup_window is
    main,       \* where the main loop is
    up,         \* "up", "exited" by the watchdog, "crashed" in a broken chain
    middle,     \* history: a slot was given away while it was in the chain
    raced       \* history: a SIGDEAD was handled while a window was being made

table == <<allwindows, numwindows, wintopmost>>
vars == <<build, table, process, killed, created, sigdead, handler, main, up, middle, raced>>

Id == 1 .. MaxCreated
Slot == 0 .. MaxCreated - 1
Used(n) == 0 .. n - 1

WINSHELL == "shell"
WINCONSOLE == "console"
WINLOGIN == "login"

Window == [id : Id \cup {0}, type : {WINSHELL, WINCONSOLE, WINLOGIN}, next : Slot \cup {Null}]
NoWindow == [id |-> 0, type |-> WINSHELL, next |-> Null]

\* Where cleanup_window and the main loop can be.
Rest == [pc |-> "rest", wid |-> 0, id |-> 0]
At(pc, wid) == [pc |-> pc, wid |-> wid, id |-> 0]

\* A window system [tab, n, top]: the operators below take one and give one.
Windows == [tab |-> allwindows, n |-> numwindows, top |-> wintopmost]

SetWindows(w) == allwindows' = w.tab /\ numwindows' = w.n /\ wintopmost' = w.top

\* Front to back: the k-th window of the chain, Null behind its end.
Chain(w) ==
    LET at[k \in 0 .. MaxCreated] ==
            IF k = 0 THEN w.top ELSE IF at[k - 1] = Null THEN Null ELSE w.tab[at[k - 1]].next
    IN  at

\* The slot the walk along the chain comes from when it meets s.
Before(w, s) == {Chain(w)[k - 1] : k \in {j \in 1 .. w.n - 1 : Chain(w)[j] = s}}

\* The chain leads through every slot in use and ends behind the last.
WellFormed(w) ==
    /\ {Chain(w)[k] : k \in Used(w.n)} = Used(w.n)
    /\ Chain(w)[w.n] = Null

-----------------------------------------------------------------------------

\* The first steps of WindowDestroy.  The loop walks numwindows windows along
\* the chain, so it runs into a null pointer if the chain is shorter.
Unlink(w, wid) ==
    [tab |-> [s \in Slot |->
        IF s \in Before(w, wid) THEN [w.tab[s] EXCEPT !.next = w.tab[wid].next] ELSE w.tab[s]],
     n |-> w.n,
     top |-> w.top]

Broken(w) == \E k \in Used(w.n) : Chain(w)[k] = Null

\* "reclaim the window slot by swapping with last entry"
Renamed(s, last, wid) == IF s = last THEN 0 ELSE s

\* wintopmost after the window in wid is gone and the last one is in wid.
NewTop_Kept(w, wid) == IF w.top = wid THEN w.tab[wid].next ELSE w.top
NewTop(w, wid) ==
    LET t == IF w.top = wid THEN w.tab[wid].next ELSE w.top
    IN  IF t = w.n - 1 THEN wid ELSE t

\* The copy made the wrong way.
Moved_Back(w, wid) == w.tab
Moved(w, wid) == [w.tab EXCEPT ![wid] = w.tab[w.n - 1]]

Reclaim(w, wid) ==
    [tab |-> [s \in Slot |->
                 LET m == Moved(w, wid)[s]
                 IN  IF s \in Used(w.n) THEN [m EXCEPT !.next = Renamed(@, w.n - 1, wid)] ELSE m],
     n |-> w.n - 1,
     top |-> NewTop(w, wid)]

\* "link it": a new window in slot s, in front of all others.
Linked(w, s, id, type) ==
    [tab |-> [w.tab EXCEPT ![s] = [id |-> id, type |-> type, next |-> w.top]],
     n |-> w.n + 1,
     top |-> s]

\* WindowCreate takes the next slot.
Created(w, id, type) == Linked(w, w.n, id, type)

\* WindowTop
Topped(w, s) ==
    IF s = w.top THEN w
    ELSE [tab |-> [Unlink(w, s).tab EXCEPT ![s] = [@ EXCEPT !.next = w.top]], n |-> w.n, top |-> s]

\* After a login window the next is made.
Respawns_Never(type) == FALSE
Respawns(type) == type = WINLOGIN

-----------------------------------------------------------------------------

Init ==
    /\ build \in Builds
    /\ LET nothing == [tab |-> [s \in Slot |-> NoWindow], n |-> 0, top |-> Null]
           w == Created(Created(nothing, 1, WINCONSOLE), 2, WINLOGIN)
       IN  allwindows = w.tab /\ numwindows = w.n /\ wintopmost = w.top
    /\ process = [i \in Id |-> IF i \in {1, 2} THEN "running" ELSE "none"]
    /\ killed = {}
    /\ created = 2
    /\ sigdead = FALSE
    /\ handler = Rest
    /\ main = Rest
    /\ up = "up"
    /\ middle = FALSE
    /\ raced = FALSE

Zombies == {i \in Id : process[i] = "zombie"}
Children == {i \in Id : process[i] \in {"running", "closed", "zombie"}}

\* A child ends: its terminal is closed, then its parent is told.
CloseTerminal(i) ==
    /\ process[i] = "running"
    /\ process' = [process EXCEPT ![i] = "closed"]
    /\ UNCHANGED <<build, table, killed, created, sigdead, handler, main, up, middle, raced>>

Die(i) ==
    /\ process[i] = "closed"
    /\ process' = [process EXCEPT ![i] = "zombie"]
    /\ sigdead' = (sigdead \/ build = "modern" \/ handler = Rest)
    /\ UNCHANGED <<build, table, killed, created, handler, main, up, middle, raced>>

\* SIGDEAD interrupts whatever the program is doing.
Interrupt ==
    /\ up = "up" /\ sigdead /\ handler = Rest
    /\ sigdead' = FALSE
    /\ handler' = At("wait", 0)
    /\ raced' = (raced \/ main.pc = "create")
    /\ UNCHANGED <<build, table, process, killed, created, main, up, middle>>

\* wait() blocks while there are children and none is a zombie.
Reap(i) ==
    /\ Zombies # {} => i \in Zombies /\ process' = [process EXCEPT ![i] = "reaped"]
    /\ Zombies = {} => Children = {} /\ i = 0 /\ UNCHANGED process

\* cleanup_window: the window of the child that died, if there is one.
HandlerReap ==
    /\ up = "up" /\ handler.pc = "wait"
    /\ \E i \in Id \cup {0} :
          LET mine == {s \in Used(numwindows) : allwindows[s].id = i}
              wid == CHOOSE s \in mine : \A t \in mine : s <= t
          IN  /\ Reap(i)
              /\ IF mine = {} THEN handler' = Rest /\ UNCHANGED <<table, up>>
                 ELSE IF Broken(Windows) THEN up' = "crashed" /\ UNCHANGED <<table, handler>>
                 ELSE /\ SetWindows(Unlink(Windows, wid))
                      /\ handler' = At("destroy", wid)
                      /\ UNCHANGED up
    /\ UNCHANGED <<build, killed, created, sigdead, main, middle, raced>>

\* The main loop reads a window whose terminal is closed, waits for the child
\* that was there, and destroys the window in the slot it read from.
ReadEof(s) ==
    /\ up = "up" /\ handler = Rest /\ main = Rest /\ build = "modern"
    /\ s \in Used(numwindows)
    /\ process[allwindows[s].id] # "running"
    /\ main' = At("wait", s)
    /\ UNCHANGED <<build, table, process, killed, created, sigdead, handler, up, middle, raced>>

MainReap ==
    /\ up = "up" /\ handler = Rest /\ main.pc = "wait"
    /\ \E i \in Id \cup {0} : Reap(i)
    /\ IF Broken(Windows) THEN up' = "crashed" /\ UNCHANGED <<table, main>>
       ELSE /\ SetWindows(Unlink(Windows, main.wid))
            /\ main' = At("destroy", main.wid)
            /\ UNCHANGED up
    /\ UNCHANGED <<build, killed, created, sigdead, handler, middle, raced>>

Shells == {s \in Used(numwindows) : allwindows[s].type = WINSHELL}

\* "kill all WINSHELL windows", again and again until there is none.
KillShells(wid) ==
    /\ allwindows[wid].type = WINLOGIN /\ Shells # {}
    /\ killed' = killed \cup {allwindows[s].id : s \in Shells}
    /\ UNCHANGED <<build, table, process, created, sigdead, handler, main, up, middle, raced>>

\* The rest of WindowDestroy.  (In the modern build two deaths can be taken
\* for one another until no window is left to destroy; the model ends there.)
FinishDestroy(wid) ==
    /\ ~(allwindows[wid].type = WINLOGIN /\ Shells # {})
    /\ numwindows > 0
    /\ LET w == Reclaim(Windows, wid)
           again == Respawns(allwindows[wid].type) /\ created < MaxCreated
       IN  /\ SetWindows(IF again THEN Created(w, created + 1, WINLOGIN) ELSE w)
           /\ created' = IF again THEN created + 1 ELSE created
           /\ process' = IF again THEN [process EXCEPT ![created + 1] = "running"] ELSE process
    /\ middle' = (middle \/ (0 < wid /\ wid < numwindows - 1 /\ wintopmost # numwindows - 1))
    /\ UNCHANGED <<build, killed, sigdead, up, raced>>

\* WindowDestroy goes on in the handler, or in the main loop when no handler
\* interrupts it.
Destroy ==
    /\ up = "up"
    /\ \/ /\ handler.pc = "destroy"
          /\ \/ KillShells(handler.wid)
             \/ FinishDestroy(handler.wid) /\ handler' = Rest /\ UNCHANGED main
       \/ /\ handler = Rest /\ main.pc = "destroy"
          /\ \/ KillShells(main.wid)
             \/ FinishDestroy(main.wid) /\ main' = Rest /\ UNCHANGED handler

AtRest == up = "up" /\ handler = Rest /\ main = Rest

\* The user opens a shell: WindowCreate picks the slot, starts the child and
\* links the window; a SIGDEAD may come between.  What the program does with a
\* broken chain is not followed further.
NewShell ==
    /\ AtRest /\ WellFormed(Windows)
    /\ created < MaxCreated - 1
    /\ main' = [pc |-> "create", wid |-> numwindows, id |-> created + 1]
    /\ process' = [process EXCEPT ![created + 1] = "running"]
    /\ created' = created + 1
    /\ UNCHANGED <<build, table, killed, sigdead, handler, up, middle, raced>>

LinkShell ==
    /\ up = "up" /\ handler = Rest /\ main.pc = "create"
    /\ SetWindows(Linked(Windows, main.wid, main.id, WINSHELL))
    /\ main' = Rest
    /\ UNCHANGED <<build, process, killed, created, sigdead, handler, up, middle, raced>>

\* Or brings a window to the front.
Click(s) ==
    /\ AtRest /\ WellFormed(Windows)
    /\ s \in Used(numwindows)
    /\ SetWindows(Topped(Windows, s))
    /\ UNCHANGED <<build, process, killed, created, sigdead, handler, main, up, middle, raced>>

\* The main loop has not come around for 15 seconds: a wait without a zombie,
\* or a login window that waits for its shells to go, in the handler that
\* would have to see them go.
Stuck ==
    \/ (handler.pc = "wait" \/ (handler = Rest /\ main.pc = "wait")) /\ Zombies = {} /\ Children # {}
    \/ handler.pc = "destroy" /\ allwindows[handler.wid].type = WINLOGIN /\ Shells # {}

Watchdog ==
    /\ up = "up" /\ Stuck
    /\ up' = "exited"
    /\ UNCHANGED <<build, table, process, killed, created, sigdead, handler, main, middle, raced>>

Next ==
    \/ \E i \in Id : CloseTerminal(i) \/ Die(i)
    \/ Interrupt \/ HandlerReap \/ MainReap \/ Destroy \/ Watchdog
    \/ \E s \in Slot : ReadEof(s) \/ Click(s)
    \/ NewShell \/ LinkShell

Spec == Init /\ [][Next]_vars

\* The program runs; a child that was killed dies, and one that closed its
\* terminal too.
FairSpec ==
    /\ Spec
    /\ WF_vars(Interrupt) /\ WF_vars(HandlerReap) /\ WF_vars(MainReap) /\ WF_vars(LinkShell)
    /\ WF_vars(Destroy) /\ WF_vars(Watchdog)
    /\ \A i \in Id : WF_vars(Die(i)) /\ WF_vars(i \in killed /\ CloseTerminal(i))

-----------------------------------------------------------------------------

TypeOK ==
    /\ build \in Builds
    /\ allwindows \in [Slot -> Window]
    /\ numwindows \in 0 .. MaxCreated
    /\ wintopmost \in (IF build = "4404" /\ ~middle /\ ~raced THEN Used(numwindows) ELSE Slot) \cup {Null}
    /\ process \in [Id -> {"none", "running", "closed", "zombie", "reaped"}]
    /\ killed \subseteq Id
    /\ created \in 2 .. MaxCreated
    /\ sigdead \in BOOLEAN /\ middle \in BOOLEAN /\ raced \in BOOLEAN
    /\ handler \in [pc : {"rest", "wait", "destroy"}, wid : Slot, id : {0}]
    /\ main \in [pc : {"rest", "wait", "destroy", "create"}, wid : Slot, id : Id \cup {0}]
    /\ up \in {"up", "exited", "crashed"}

\* Between two turns of the main loop every child that was not reaped has a
\* slot of its own, and a slot never stands for a child that is gone: slots
\* move, and nobody must hold on to an old one.  (Without ~raced it fails: a
\* window that is being made holds on to the slot it picked.)
SlotPerChild ==
    (AtRest /\ build = "4404" /\ ~raced) => \A i \in Id :
        Cardinality({s \in Used(numwindows) : allwindows[s].id = i})
            = IF i \in Children THEN 1 ELSE 0

\* A window goes when its own process has ended and not before.
DeathTakesItsWindow ==
    [][\A s \in Used(numwindows) :
          LET i == allwindows[s].id
          IN  (build = "4404" /\ ~raced' /\ \A t \in Used(numwindows') : allwindows'[t].id # i)
                  => process[i] \in {"zombie", "reaped"}]_vars

\* The chain holds every window once, whoever dies and whatever was in front:
\* unless a window goes that is neither in slot 0 nor in the last slot while
\* the window in the last slot has another before it.
ChainKept ==
    (AtRest /\ build = "4404" /\ ~middle /\ ~raced) => WellFormed(Windows)

\* "reclaim the window slot by swapping with last entry": nothing else changes.
ChainHoldsWindows ==
    (AtRest /\ build = "4404" /\ ~raced) => WellFormed(Windows)

\* One can always log in: at rest there is one login window, unless the
\* bound of the model keeps it from being made.
OneLogin ==
    (AtRest /\ build = "4404" /\ ~raced /\ created < MaxCreated) =>
        Cardinality({s \in Used(numwindows) : allwindows[s].type = WINLOGIN}) = 1

\* "spawn a new login": who logs out finds another login window.
LogoutEnds ==
    \A s \in Slot :
        (handler = At("destroy", s) /\ allwindows[s].type = WINLOGIN /\ created < MaxCreated)
            ~> AtRest

=============================================================================
