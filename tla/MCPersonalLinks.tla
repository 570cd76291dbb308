---------------------------- MODULE MCPersonalLinks ----------------------------
(* Two people and one URL; in every run a confirmation of the panel and    *)
(* one of the command line can meet.                                       *)
EXTENDS PersonalLinks

CONSTANTS a1, a2, u1

Symmetry == Permutations(Accounts)
=============================================================================
