------------------------------ MODULE EventLog ------------------------------
(***************************************************************************)
(* What the event history promises to those who use it: a log of the last  *)
(* N events, newest first.  A caller's event enters it at one instant      *)
(* between the call and its return, once or, if the call fails, not at     *)
(* all; events stand in the order of their times; nothing but an erasure   *)
(* or a restart takes an event out before N newer ones have come.          *)
(***************************************************************************)
EXTENDS Naturals

CONSTANTS
    N,          \* the events that are kept
    Callers,    \* those that report events
    Kinds,      \* what an event says
    Times       \* timestamps

VARIABLES
    recent,     \* recent[0] is the latest event, recent[1] the one before it...
    call        \* the kind a caller is reporting, "logged" when that is done, or "none"

vars == <<recent, call>>

Entry   == [time : Times, data : Kinds]
NoEvent == [time |-> 0, data |-> "INVALID"]

TypeOK ==
    /\ recent \in [0..N-1 -> Entry \cup {NoEvent}]
    /\ call \in [Callers -> Kinds \cup {"none", "logged"}]

Cleared == [i \in 0..N-1 |-> NoEvent]

Init == recent = Cleared /\ call = [c \in Callers |-> "none"]

Begin(c) ==
    /\ call[c] = "none"
    /\ \E kind \in Kinds : call' = [call EXCEPT ![c] = kind]
    /\ UNCHANGED recent

Add(c) ==
    /\ call[c] \in Kinds
    /\ \E t \in Times :
         /\ recent[0].time <= t
         /\ recent' = [i \in 0..N-1 |-> IF i = 0 THEN [time |-> t, data |-> call[c]]
                                                 ELSE recent[i - 1]]
    /\ call' = [call EXCEPT ![c] = "logged"]

(* It returns, having logged its event or having failed. *)
Return(c) ==
    /\ call[c] # "none"
    /\ call' = [call EXCEPT ![c] = "none"]
    /\ UNCHANGED recent

Erase == recent' = Cleared /\ UNCHANGED call

Restart == Init'

Next ==
    \/ \E c \in Callers : Begin(c) \/ Add(c) \/ Return(c)
    \/ Erase
    \/ Restart

Spec == Init /\ [][Next]_vars
=============================================================================
