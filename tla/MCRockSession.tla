----------------------------- MODULE MCRockSession -----------------------------
(* Two profiles of one server, which share the record that the earliest    *)
(* release kept per origin, and two logins.                                *)
EXTENDS RockSession, TLC

CONSTANTS p1, p2, o1

MCOriginOf == [p \in Profiles |-> o1]
Symmetry == Permutations(Profiles) \cup Permutations(Logins)
=============================================================================
