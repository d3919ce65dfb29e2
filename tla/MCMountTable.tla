---------------------------- MODULE MCMountTable ----------------------------
(* MountTable with three slots and paths of which one begins another. *)
EXTENDS MountTable

CONSTANTS usr, bin, etc, tmp

MCExported == {<<usr>>, <<usr, bin>>, <<etc>>}
MCPath == MCExported \cup {<<tmp>>}

=============================================================================
