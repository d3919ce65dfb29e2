---------------------------- MODULE MCPathTokens ----------------------------
(* A small instance of PathTokens: handles of two tokens, a table that two fill. *)
EXTENDS PathTokens

CONSTANTS usr, bin, etc

MCComponent == {usr, bin, etc}

\* Shared and swapped components, a path that fills a handle, one too deep.
MCPath == {<<>>, <<usr>>, <<bin, usr>>, <<usr, bin>>, <<etc>>, <<usr, bin, usr>>}

=============================================================================
