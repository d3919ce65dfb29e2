---------------------------- MODULE MCNfsServer ----------------------------
(* An export with two names, one of which can become a directory. *)
EXTENDS NfsServer, TLC

CONSTANTS ex, a, b, c1, c2, d1

MCExport == <<ex>>
MCTreePath == {<<ex>>, <<ex, a>>, <<ex, b>>, <<ex, b, a>>}
MCPresent == <<<<ex, a>>>>
MCMountedExport == {<<ex>>}
MCName == {a, b}
MCClient == {c1, c2}
MCData == {d1}

\* Menus: every procedure; and those whose answer is lost most easily.
MenuAll == Procs2 \cup Procs3
MenuMoves == {"REMOVE", "RENAME"}

Symmetry == Permutations(MCClient)

=============================================================================
