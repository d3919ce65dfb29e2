----------------------------- MODULE KeyEvents -----------------------------
(***************************************************************************)
(* The way of a key to the window in front.  On the 4404 the system queues *)
(* presses, releases and time stamps (external); on a modern host          *)
(* EGetCount fills a ring from SDL's queue.  readkeyboardevents turns the  *)
(* events into characters and repeats the last key while it is held, and   *)
(* the main loop writes them to the pty of the top window.                 *)
(***************************************************************************)
EXTENDS Integers, Sequences

CONSTANTS
    Hosts,      \* of {"4404", "sdl"}
    Keys,       \* the keys that are typed, by their unshifted code
    RingSize,   \* of eventqueue: 32
    MaxLen,     \* room in inputbuffer: 32
    MaxTyped,   \* bound of the model: keys typed in one run
    MaxPending  \* bound of the model: events the host queues

ASSUME KeysAssumption ==
    /\ Hosts \subseteq {"4404", "sdl"}
    /\ Keys \subseteq 97 .. 122 \cup 49 .. 57 \cup {13, 32}
    /\ RingSize \in Nat \ {0, 1} /\ MaxLen \in Nat \ {0} /\ {MaxTyped, MaxPending} \subseteq Nat

VARIABLES
    host,
    held,       \* keys that are down
    pending,    \* events the host has queued
    eventqueue, eread, ewrite,  \* the ring
    keymap,     \* keys readkeyboardevents takes to be down
    lastkey,    \* the character that repeats; 0 for none
    wintopmost, \* "console" or "shell"
    hangup,     \* the shell was sent SIGHUP
    running,    \* the main loop has not been left
    typed,      \* history: keys typed
    owed,       \* history: the characters they stand for that are still to come
    misfired       \* history: another character was delivered than was owed

keyvars == <<host, held, pending, eventqueue, eread, ewrite, keymap, lastkey,
             wintopmost, hangup, running, typed, owed, misfired>>

SHIFT == 136    \* 0x88
CONTROL == 138  \* 0x8a
CTRLD == 4
None == 0

IsLetter(k) == k \in 97 .. 122
IsDigit(k) == k \in 49 .. 57

\* shifted[], the part of it the keys need.
shifted(k) ==
    IF IsLetter(k) THEN k - 32
    ELSE IF IsDigit(k) THEN <<33, 64, 35, 36, 37, 94, 38, 42, 40>>[k - 48] ELSE k

-----------------------------------------------------------------------------

\* An event as it is queued.
PressKey(ch) == [etype |-> "press", eparam |-> ch]
ReleaseKey(ch) == [etype |-> "release", eparam |-> ch]
AbsTime == <<[etype |-> "abstime", eparam |-> 0], [etype |-> "word", eparam |-> 0],
             [etype |-> "word", eparam |-> 0]>>

\* EGetCount on a KEYDOWN: SDL tells the key and the modifiers held with it.
\* A letter with Shift and Ctrl comes out of the byte's range and wraps.
SdlPress(k, mods) ==
    IF IsLetter(k)
    THEN PressKey((k - (IF SHIFT \in mods THEN 32 ELSE 0) - (IF CONTROL \in mods THEN 96 ELSE 0)) % 256)
    ELSE PressKey(IF SHIFT \in mods THEN shifted(k) ELSE k)

EGetCount_Stuck(r, e) == [r EXCEPT !.queue[r.write] = e, !.write = (@ + 1) % (RingSize + 1)]
EGetCount(r, e) == [r EXCEPT !.queue[r.write] = e, !.write = (@ + 1) % RingSize]

\* The ring r after EGetCount has put events of SDL's queue into it.  A key that
\* goes up puts nothing there; a mouse button does.
FilledBy(r, events) ==
    LET filled[n \in 0 .. Len(events)] ==
            IF n = 0 THEN r
            ELSE IF events[n].etype = "keyup" THEN filled[n - 1] ELSE EGetCount(filled[n - 1], events[n])
    IN  filled[Len(events)]

Ring == [queue |-> eventqueue, write |-> ewrite]
Filled == FilledBy(Ring, pending)

\* The events between eread and ewrite.
InRing(r) == [i \in 1 .. (r.write - eread + RingSize) % RingSize |-> r.queue[(eread + i - 1) % RingSize]]

\* The ring with the n oldest events read: what stays in their slots is never
\* looked at again.
Forgotten(queue, n) ==
    [i \in DOMAIN queue |-> IF (i - eread + RingSize) % RingSize < n THEN PressKey(None) ELSE queue[i]]

\* The words EGetNext would hand out, were it called till none is left.
Queued == IF host = "sdl" THEN InRing(Filled) ELSE pending

-----------------------------------------------------------------------------

\* The character of a pressed key, from keymap.
Char(k, map) ==
    LET ch == IF SHIFT \in map THEN shifted(k) ELSE k
    IN  IF CONTROL \in map THEN (ch - 96) % 256 ELSE ch

ReadEvent(acc, e) ==
    CASE e.etype = "press" /\ e.eparam >= 128 -> [acc EXCEPT !.keymap = @ \cup {e.eparam}]
      [] e.etype = "press" /\ e.eparam < 128 ->
            LET ch == Char(e.eparam, acc.keymap \cup {e.eparam})
            IN  [acc EXCEPT !.keymap = @ \cup {e.eparam}, !.out = Append(@, ch), !.lastkey = ch]
      [] e.etype = "release" -> [acc EXCEPT !.keymap = @ \ {e.eparam}, !.lastkey = None]
      [] OTHER -> acc

\* The loop of readkeyboardevents: it ends when the buffer is full.
ReadEvents(words, map, last, room) ==
    LET read[n \in 0 .. Len(words)] ==
            IF n = 0 THEN [keymap |-> map, lastkey |-> last, out |-> <<>>, used |-> 0]
            ELSE IF Len(read[n - 1].out) >= room THEN read[n - 1]
            ELSE [ReadEvent(read[n - 1], words[n]) EXCEPT !.used = @ + 1]
    IN  read[Len(words)]

-----------------------------------------------------------------------------

KeysInit ==
    /\ host \in Hosts
    /\ wintopmost = "shell"
    /\ held = {} /\ pending = <<>>
    /\ eventqueue = [i \in 0 .. RingSize - 1 |-> PressKey(None)] /\ eread = 0 /\ ewrite = 0
    /\ keymap = {} /\ lastkey = None
    /\ hangup = FALSE /\ running = TRUE
    /\ typed = 0 /\ owed = <<>> /\ misfired = FALSE

ringvars == <<eventqueue, eread, ewrite>>
readvars == <<keymap, lastkey>>

\* A key goes down; the 4404 may put a time stamp in front.  Before the loop
\* comes round no more is typed than the ring can tell from nothing.
KeyDown(k) ==
    /\ running
    /\ k \notin held /\ (k \in Keys => typed < MaxTyped)
    /\ Len(pending) < MaxPending
    /\ host = "sdl" => Len(Queued) < RingSize - 1
    /\ held' = held \cup {k}
    /\ IF host = "sdl"
       THEN pending' = IF k \in Keys THEN Append(pending, SdlPress(k, held)) ELSE pending
       ELSE \E stamp \in {<<>>, AbsTime} : pending' = Append(pending \o stamp, PressKey(k))
    /\ typed' = IF k \in Keys THEN typed + 1 ELSE typed
    /\ owed' = IF k \notin Keys \/ (host = "sdl" /\ SdlPress(k, held).eparam >= 128) THEN owed
               ELSE Append(owed, IF host = "sdl" THEN SdlPress(k, held).eparam ELSE Char(k, held))
    /\ UNCHANGED <<host, ringvars, readvars, wintopmost, hangup, running, misfired>>

KeyUp(k) ==
    /\ running
    /\ k \in held
    /\ Len(pending) < MaxPending
    /\ held' = held \ {k}
    /\ pending' = Append(pending, IF host = "sdl" THEN [etype |-> "keyup", eparam |-> k] ELSE ReleaseKey(k))
    /\ UNCHANGED <<host, ringvars, readvars, wintopmost, hangup, running, typed, owed, misfired>>

\* SDL tells of the mouse button too.
MouseUp ==
    /\ running
    /\ Len(pending) < MaxPending
    /\ host = "sdl" /\ Len(Queued) < RingSize - 1
    /\ pending' = Append(pending, ReleaseKey(4))
    /\ UNCHANGED <<host, held, ringvars, readvars, wintopmost, hangup, running, typed, owed, misfired>>

\* The window in front changes.
Switch ==
    /\ running
    /\ wintopmost' = IF wintopmost = "shell" THEN "console" ELSE "shell"
    /\ UNCHANGED <<host, held, pending, ringvars, readvars, hangup, running, typed, owed, misfired>>

\* GetButtons: on a modern host it reads SDL's queue for the mouse and lets
\* the keys in it go.
GetButtons ==
    /\ running
    /\ host = "sdl" /\ pending # <<>>
    /\ pending' = <<>>
    /\ owed' = ReadEvents(InRing(Ring), {}, None, RingSize).out
    /\ UNCHANGED <<host, held, ringvars, readvars, wintopmost, hangup, running, typed, misfired>>

\* What the main loop does with characters: the console takes none, and a
\* write that fails loses them, or ends the main loop.
Deliver(chars, write) ==
    /\ hangup' = (hangup \/ (wintopmost = "shell" /\ chars[1] = CTRLD))
    /\ running' = (wintopmost = "shell" => write # "dead")
    /\ owed' = SubSeq(owed, Len(chars) + 1, Len(owed))
    /\ misfired' = (misfired \/ chars # SubSeq(owed, 1, Len(chars)))

\* A round of the main loop with events: readkeyboardevents, then Deliver.
Round(write) ==
    LET words == Queued
        read == ReadEvents(words, keymap, lastkey, MaxLen)
    IN  /\ running
        /\ words # <<>>
        /\ keymap' = read.keymap
        /\ lastkey' = read.lastkey
        /\ IF host = "sdl"
           THEN /\ pending' = <<>>
                /\ eventqueue' = Forgotten(Filled.queue, read.used)
                /\ ewrite' = Filled.write
                /\ eread' = (eread + read.used) % RingSize
           ELSE /\ pending' = SubSeq(words, read.used + 1, Len(words))
                /\ UNCHANGED ringvars
        /\ IF read.out # <<>> THEN Deliver(read.out, write) ELSE UNCHANGED <<owed, misfired, hangup, running>>
        /\ UNCHANGED <<host, held, wintopmost, typed>>

\* A round without: lastkey repeats if currtime > lastrepeat, that is, at some
\* of these rounds.
Repeat(write) ==
    /\ running
    /\ Queued = <<>>
    /\ lastkey # None
    /\ hangup' = (hangup \/ (wintopmost = "shell" /\ lastkey = CTRLD))
    /\ running' = (wintopmost = "shell" => write # "dead")
    /\ pending' = <<>>
    /\ UNCHANGED <<host, held, ringvars, readvars, wintopmost, typed, owed, misfired>>

KeysNext ==
    \/ \E k \in Keys \cup {SHIFT, CONTROL} : KeyDown(k) \/ KeyUp(k)
    \/ MouseUp
    \/ Switch
    \/ GetButtons
    \/ \E write \in {"ok", "again", "dead"} : Round(write) \/ Repeat(write)

KeysSpec == KeysInit /\ [][KeysNext]_keyvars

-----------------------------------------------------------------------------

\* Every key arrives once, in the order of typing and with the modifiers it
\* was typed with, whatever the ring, the full buffer and the time stamps
\* between do.  (Keys GetButtons meets, and those the console or a failed write
\* takes, are gone: they are not owed.)
KeysAreDelivered ==
    ~misfired /\ ReadEvents(Queued, keymap, None, MaxTyped + 1).out = owed

\* On the 4404 a key does not go on repeating when it is up and the release
\* has been read.
OnlyHeldKeysRepeat ==
    host = "4404" /\ pending = <<>> /\ lastkey # None =>
        \E k \in held : lastkey \in {Char(k, m) : m \in SUBSET {SHIFT, CONTROL}}

\* Keys are delivered as they were typed, and only held ones again.
KeysAreRight == KeysAreDelivered /\ OnlyHeldKeysRepeat

=============================================================================
