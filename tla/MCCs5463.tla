------------------------------ MODULE MCCs5463 ------------------------------
(* The task of the energy meter in its two models, each by itself.          *)
(*                                                                          *)
(* Calibration: three measurements of which the second is a gain: one       *)
(* without, one with and one without the relay closed, and a last one that  *)
(* is not a gain, as in the code.                                           *)
(*                                                                          *)
(* Meter: words around the threshold, where one byte less or more makes the *)
(* difference, and a power below zero.                                      *)
EXTENDS Calibration, Meter

VARIABLE part    \* which of the two a behaviour is about

MCGainStages == {2}

MCIRMS      == {4194303, 4194304}      \* 3FFFFF and 400000
MCPACTIVE   == {12582913}              \* C00001, below zero
MCThreshold == 4259838                 \* 40FFFE
MCCalib     == [r \in CalibRegisters |-> 4194304 + r]
MCResult    == [r \in CalibRegisters |-> 8388608 + 257 * r]

MCvars == <<vars, metervars, part>>

InCalibration(A) == part = "calibration" /\ A /\ UNCHANGED <<metervars, part>>
InMeter(A)       == part = "meter" /\ A /\ UNCHANGED <<vars, part>>

(* The part that stands still has one initial state. *)
MCInit ==
    /\ Init /\ MeterInit
    /\ \/ part = "calibration" /\ mode = "calib"
       \/ part = "meter" /\ flash = Defaults

MCNext == InCalibration(Next) \/ InMeter(MeterNext)

(* The fairness of FairSpec; what Meter promises is safety. *)
MCSpec == MCInit /\ [][MCNext]_MCvars /\ WF_MCvars(InCalibration(Cs5463))
=============================================================================
