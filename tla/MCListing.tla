----------------------------- MODULE MCListing -----------------------------
(* A directory of three entries and a hole; pages of one entry or two. *)
EXTENDS Listing

CONSTANTS dot, a, b, c

MCName == {dot, a, b, c}
MCNameLength == [n \in MCName |-> IF n = dot THEN 1 ELSE IF n = a THEN 5 ELSE 8]
MCStanding == <<dot, a, b>>
MCStandingHole == <<dot, Free, a, b>>
AllProcedures == {"READDIR", "READDIR3", "READDIRPLUS3"}

=============================================================================
