-------------------------------- MODULE MCMagnus -------------------------------
(* Two profiles of one server, an app and a file, or two apps.              *)
EXTENDS Magnus, TLC

CONSTANTS p1, p2, a1, a2, f1

Symmetry == Permutations(Profiles) \cup Permutations(Apps)
================================================================================
