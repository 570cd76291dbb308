------------------------------- MODULE MCUpdates -------------------------------
(* Two workers and three commits, of which one is broken or none is.       *)
EXTENDS Updates, TLC

CONSTANTS w1, w2

Symmetry == Permutations(Workers)
================================================================================
