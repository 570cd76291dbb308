------------------------------- MODULE MCJobRuns -------------------------------
(* A job that may be replaced, placed in one of two pages.                 *)
EXTENDS JobRuns, TLC

CONSTANTS p1, p2, j1, j2, a1, a2

Symmetry == Permutations(Jobs) \cup Permutations(Places) \cup Permutations(Profiles)
=============================================================================
