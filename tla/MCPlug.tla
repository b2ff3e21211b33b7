------------------------------- MODULE MCPlug -------------------------------
(* The button and what switches the relay, each by itself: a press that is  *)
(* reported is a switch of Plug at any time.                                *)
EXTENDS Plug, Button

VARIABLE part    \* which of the two a behaviour is about

MCvars == <<vars, buttonvars, part>>

Switching(A) == part = "plug" /\ A /\ UNCHANGED <<buttonvars, part>>
Pressing(A)  == part = "button" /\ A /\ UNCHANGED <<vars, part>>

(* The part that stands still has one initial state. *)
MCInit ==
    /\ Init /\ ButtonInit
    /\ \/ part = "plug" /\ pin = 0
       \/ part = "button" /\ tEvent = "none" /\ ~tConfigure.button

MCNext == Switching(Next) \/ Pressing(ButtonNext)

(* The fairness of FairSpec and of ButtonFairSpec. *)
MCSpec ==
    /\ MCInit /\ [][MCNext]_MCvars
    /\ \A c \in Contexts : SF_MCvars(Switching(Proceed(c)))
    /\ SF_MCvars(Switching(CleanParameters)) /\ SF_MCvars(Switching(Calib))
    /\ WF_MCvars(Pressing(Interrupt)) /\ WF_MCvars(Pressing(key_50ms_cb))
    /\ WF_MCvars(Pressing(key_50ms_low \/ key_50ms_high \/ user_plug_long_press \/ user_plug_short_press))
=============================================================================
