---------------------------- MODULE ConfirmedAction ----------------------------
(***************************************************************************)
(* What the panel promises of an action on the Rock server that the user   *)
(* confirms: each confirmation does it at most once, and the user is told  *)
(* that it was done, that it was not, or that the server had it already,   *)
(* only when that is so, now and later.  JobRuns and PersonalLinks         *)
(* implement it.                                                           *)
(***************************************************************************)
EXTENDS Naturals

CONSTANT Confirmations

VARIABLES
    times,  \* how often the server did what a confirmation asked for
    told    \* what the user was told of it

vars == <<times, told>>

Outcomes == {"unasked", "open", "done", "not_done", "found", "unknown"}

TypeOK ==
    /\ times \in [Confirmations -> Nat]
    /\ told \in [Confirmations -> Outcomes]

Init ==
    /\ times = [c \in Confirmations |-> 0]
    /\ told = [c \in Confirmations |-> "unasked"]

(* With no connection the outcome is called unknown at once.               *)
Confirm(c) ==
    /\ told[c] = "unasked"
    /\ \E t \in {"open", "unknown"} : told' = [told EXCEPT ![c] = t]
    /\ UNCHANGED times

(* Once the user was told of an unknown outcome it may still happen; the   *)
(* user may be told so at that moment.                                     *)
Do(c) ==
    /\ told[c] \in {"open", "unknown"}
    /\ times[c] = 0
    /\ times' = [times EXCEPT ![c] = 1]
    /\ \/ UNCHANGED told
       \/ told' = [told EXCEPT ![c] = "unknown"]

Tell(c) ==
    /\ told[c] = "open"
    /\ \E t \in IF times[c] = 1 THEN {"done", "unknown"}
                                 ELSE {"not_done", "found", "unknown"} :
        told' = [told EXCEPT ![c] = t]
    /\ UNCHANGED times

Next == \E c \in Confirmations : Confirm(c) \/ Do(c) \/ Tell(c)

Spec == Init /\ [][Next]_vars
=============================================================================
