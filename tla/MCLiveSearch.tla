------------------------------ MODULE MCLiveSearch -----------------------------
(* Two categories, people and groups, the first with more records than a     *)
(* page holds, and two links, one of them of a shared section.               *)
EXTENDS LiveSearch, TLC

CONSTANTS people, groups, r1, r2, r3, l1, l2, p1, p2

MCRecordsOf == [c \in {people, groups} |-> IF c = people THEN {r1, r3} ELSE {r2}]

Symmetry == Permutations(Profiles)
================================================================================
