--------------------------- MODULE HandleDirectory ---------------------------
(***************************************************************************)
(* What nfsd's file handles promise a client, without the tokens: while    *)
(* one run of the daemon lasts, handles and paths correspond one to one,   *)
(* and a correspondence once given out is never changed.                   *)
(***************************************************************************)

CONSTANTS
    Handle,   \* what a client is sent
    Name      \* what it stands for

VARIABLE
    dir       \* the pairs <<handle, name>> given out by this run

Init == dir = {}

\* A client is sent h for p: the old handle of a known name, or a new one.
Grant(h, p) ==
    /\ \A e \in dir : e[1] = h <=> e[2] = p
    /\ dir' = dir \cup {<<h, p>>}

\* The daemon is restarted.
Forget == dir' = {}

Next == Forget \/ \E h \in Handle, p \in Name : Grant(h, p)

Spec == Init /\ [][Next]_dir

=============================================================================
