------------------------------ MODULE MCShortcuts ------------------------------
EXTENDS Shortcuts, TLC

CONSTANTS w1, w2, c1, c2

Symmetry == Permutations(Writers) \cup Permutations(Combos)
================================================================================
