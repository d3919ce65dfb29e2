------------------------------- MODULE MCTftp -------------------------------
(* One booting client, or two; one service before TFTP in the loop and one  *)
(* behind it.                                                                *)
EXTENDS Tftp

CONSTANTS c1, c2

OneClient == {c1}
TwoClients == {c1, c2}
\* The second client's file is shorter, or missing.
MCLengths == {[c \in Client |-> IF c = c1 THEN 3 ELSE n] : n \in {0, 2}}
MCShort == Client
MCSocket == {"nfs", "bootparam"}
MCBefore == {"nfs"}

=============================================================================
