-------------------------- MODULE MCProfileLifecycle --------------------------
(* Two profiles, of different servers or of one.                           *)
EXTENDS ProfileLifecycle, TLC

CONSTANTS p1, p2, o1, o2

MCOriginOf == (p1 :> o1) @@ (p2 :> o2)
MCOneServer == (p1 :> o1) @@ (p2 :> o1)
Symmetry == Permutations(Logins)
=============================================================================
