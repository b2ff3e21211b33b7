------------------------------ MODULE Register ------------------------------
(***************************************************************************)
(* What a store that is kept twice promises to those who use it: one       *)
(* value that lasts.  A save puts the value in use into it at one instant, *)
(* or, if the power goes off before, not at all; a start uses what is in   *)
(* it.  There are no sectors, no numbers and no erased flash.              *)
(***************************************************************************)
CONSTANTS
    Values,     \* what may be kept
    Default     \* what is kept before anything was saved

VARIABLES
    working,    \* the value in use
    lasting     \* the value that a start finds

vars == <<working, lasting>>

Init == working = Default /\ lasting = Default

Change  == working' \in Values /\ UNCHANGED lasting
Save    == lasting' = working /\ UNCHANGED working
Restart == working' = lasting /\ UNCHANGED lasting

Next == Change \/ Save \/ Restart

Spec == Init /\ [][Next]_vars
=============================================================================
