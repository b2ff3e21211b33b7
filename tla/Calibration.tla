---------------------------- MODULE Calibration ----------------------------
(***************************************************************************)
(* The calibration of the CS5463 energy meter and everything that touches  *)
(* the relay or the parameters while it runs: the cs5463_manager task      *)
(* (app/user/cs5463.c), the button (user_plug_short_press), the HTTP       *)
(* server (switch, manual and reset of user_cgi.c), the schedule timer     *)
(* (user_esp_platform_timer.c) and a reboot at any moment (user_main.c).   *)
(*                                                                         *)
(* The cs5463 task has the lowest priority (2) of those that matter, the   *)
(* HTTP server runs at 4 and handlers of the timer context at once, so     *)
(* their work up to a point where they may block is one step; the task is  *)
(* cut wherever it may be preempted to an effect.                          *)
(***************************************************************************)
EXTENDS Naturals, FiniteSets

CONSTANTS
    NSTAGE,        \* measurements of a calibration, 6 in the code, done in order
    GainStages     \* those made with the relay closed, a load drawing current

ASSUME NStageAssumption == NSTAGE \in Nat \ {0}
ASSUME GainStagesAssumption == GainStages \subseteq 1..NSTAGE

Stages  == 1..NSTAGE
WAITING == 0             \* CS5463_CALI_STATE_WAITING_START
RESET   == NSTAGE + 1    \* CS5463_CALI_STATE_RESET
STOP    == NSTAGE + 2    \* CS5463_CALI_STATE_STOP

VARIABLES
    ram,           \* tSmartSocketParameter: what calibration and button use of it
    flash,         \* its copy in the flash
    bCS5463Cali,   \* tConfigure.bCS5463Cali: a calibration is running
    relay,         \* "OPEN" or "CLOSE"
    caliSem,       \* the binary xSmartSocketCaliSemaphore: 1 when given
    paramSem,      \* the holder of xSmartSocketParameterSemaphore, or "free"
    cs,            \* where the cs5463 task stands
    tCaliState,    \* the local tCaliState of CS5463IF_Calib
    http           \* where the HTTP server stands

(* History. *)
VARIABLES
    closedBy       \* who closed the relay last

task    == <<cs, tCaliState>>
history == <<closedBy>>
vars    == <<ram, flash, bCS5463Cali, relay, caliSem, paramSem, task, http, history>>

Parameters == [valid : BOOLEAN, meas : SUBSET Stages, button : BOOLEAN]

CalibSteps == {"enter", "drain", "loop", "begin", "ready", "prompt", "take", "save", "exit"}
Closers    == {"cs5463", "button", "http", "schedule"}

TypeOK ==
    /\ ram \in Parameters /\ flash \in Parameters
    /\ bCS5463Cali \in BOOLEAN
    /\ relay \in {"OPEN", "CLOSE"}
    /\ caliSem \in {0, 1}
    /\ paramSem \in {"free", "cs5463"}
    /\ cs \in CalibSteps \cup {"manager", "routine"}
    /\ tCaliState \in 0..STOP
    /\ http \in {"idle", "saving"}
    /\ closedBy \in Closers

(* DAT_nFlashDataClean: nothing measured, the button enabled. *)
Defaults == [valid |-> FALSE, meas |-> {}, button |-> TRUE]

(* systemInit on a plug of which the flash holds p. *)
Init ==
    /\ \/ flash = Defaults
       \/ \E b \in BOOLEAN : flash = [valid |-> TRUE, meas |-> Stages, button |-> b]
    /\ ram = flash
    /\ bCS5463Cali = FALSE /\ relay = "OPEN"
    /\ caliSem = 1 /\ paramSem = "free"
    /\ cs = "manager" /\ tCaliState = STOP /\ http = "idle"
    /\ closedBy = "cs5463"

Switch(status, who) ==
    /\ relay' = status
    /\ closedBy' = IF status = "CLOSE" THEN who ELSE closedBy

-----------------------------------------------------------------------------
(* The cs5463 task.                                                        *)

(* CS5463_Manager: calibrate when the parameters are not validated. *)
CS5463_Manager ==
    /\ cs = "manager"
    /\ IF ram.valid
         THEN /\ cs' = "routine"
              /\ UNCHANGED <<tCaliState, bCS5463Cali>>
         ELSE /\ cs' = "enter"
              /\ tCaliState' = WAITING
              /\ bCS5463Cali' = TRUE
    /\ UNCHANGED <<ram, flash, relay, caliSem, paramSem, http, history>>

(* The flag is up; now the relay is opened. *)
CalibEnter ==
    /\ cs = "enter"
    /\ Switch("OPEN", "cs5463")
    /\ cs' = "drain"
    /\ UNCHANGED <<ram, flash, bCS5463Cali, caliSem, paramSem, tCaliState, http>>

(* The token of an earlier press, or of the creation, is thrown away (for  *)
(* at most a second).                                                      *)
Drain(left) ==
    /\ cs = "drain"
    /\ caliSem' = left
    /\ cs' = "loop"
    /\ UNCHANGED <<ram, flash, bCS5463Cali, relay, paramSem, tCaliState, http, history>>

DrainCaliSemaphore == Drain(0)

(* The condition of the while loop, and its switch. *)
Calibrating_unchecked == tCaliState # STOP    \* mutant: a reset does not end it

Calibrating == bCS5463Cali /\ tCaliState # STOP

LoopHead ==
    /\ cs = "loop"
    /\ IF Calibrating
         THEN cs' = IF tCaliState = WAITING THEN "prompt" ELSE "begin"
         ELSE cs' = "exit"
    /\ UNCHANGED <<ram, flash, bCS5463Cali, relay, caliSem, paramSem, tCaliState, http, closedBy>>

(* A stage: the command is sent, after closing the relay for a gain. *)
StageBegin ==
    /\ cs = "begin" /\ tCaliState \in Stages
    /\ cs' = "ready"
    /\ IF tCaliState \in GainStages
         THEN Switch("CLOSE", "cs5463")
         ELSE UNCHANGED <<relay, closedBy>>
    /\ UNCHANGED <<ram, flash, bCS5463Cali, caliSem, paramSem, tCaliState, http>>

(* After a gain the relay is opened whether or not the data came. *)
OpenAfterGain_forgotten == UNCHANGED <<relay, closedBy>>    \* mutant

OpenAfterGain ==
    IF tCaliState \in GainStages
      THEN Switch("OPEN", "cs5463")
      ELSE UNCHANGED <<relay, closedBy>>

(* waitDataReady succeeded: keep the constant and ask for the next press;  *)
(* the last stage asks for none.                                           *)
StageMeasured ==
    /\ cs = "ready"
    /\ OpenAfterGain
    /\ ram' = [ram EXCEPT !.meas = @ \cup {tCaliState}]
    /\ IF tCaliState = NSTAGE
         THEN /\ tCaliState' = RESET
              /\ cs' = "loop"
         ELSE /\ cs' = "prompt"
              /\ UNCHANGED tCaliState
    /\ UNCHANGED <<flash, bCS5463Cali, caliSem, paramSem, http>>

(* waitDataReady timed out. *)
StageFailed ==
    /\ cs = "ready"
    /\ OpenAfterGain
    /\ tCaliState' = STOP
    /\ cs' = "loop"
    /\ UNCHANGED <<ram, flash, bCS5463Cali, caliSem, paramSem, http>>

(* The wait for the operator's press: it comes... *)
PressTaken ==
    /\ cs = "prompt" /\ caliSem = 1
    /\ caliSem' = 0
    /\ tCaliState' = tCaliState + 1
    /\ cs' = "loop"
    /\ UNCHANGED <<ram, flash, bCS5463Cali, relay, paramSem, http, history>>

(* ...or two minutes pass. *)
GiveUp(state) ==
    /\ cs = "prompt" /\ caliSem = 0
    /\ tCaliState' = state
    /\ cs' = "loop"
    /\ UNCHANGED <<ram, flash, bCS5463Cali, relay, caliSem, paramSem, http, history>>

PressTimeout_again == GiveUp(tCaliState)    \* mutant: ask again for ever

PressTimeout == GiveUp(STOP)

(* CS5463_CALI_STATE_RESET: validate, end the calibration, save. *)
Validate ==
    /\ cs = "begin" /\ tCaliState = RESET
    /\ ram' = [ram EXCEPT !.valid = TRUE]
    /\ bCS5463Cali' = FALSE
    /\ cs' = "take"
    /\ UNCHANGED <<flash, relay, caliSem, paramSem, tCaliState, http, history>>

TakeParameterSemaphore ==
    /\ cs = "take" /\ paramSem = "free"
    /\ paramSem' = "cs5463"
    /\ cs' = "save"
    /\ UNCHANGED <<ram, flash, bCS5463Cali, relay, caliSem, tCaliState, http, history>>

SaveCalibration ==
    /\ cs = "save"
    /\ flash' = ram
    /\ paramSem' = "free"
    /\ tCaliState' = STOP
    /\ cs' = "loop"
    /\ UNCHANGED <<ram, bCS5463Cali, relay, caliSem, http, history>>

(* The end of CS5463IF_Calib, however it came about. *)
CalibExit ==
    /\ cs = "exit"
    /\ bCS5463Cali' = FALSE
    /\ Switch("OPEN", "cs5463")
    /\ cs' = "manager"
    /\ UNCHANGED <<ram, flash, caliSem, paramSem, tCaliState, http>>

Cs5463 ==
    \/ CS5463_Manager \/ CalibEnter \/ DrainCaliSemaphore \/ LoopHead
    \/ StageBegin \/ StageMeasured \/ StageFailed
    \/ PressTaken \/ PressTimeout
    \/ Validate \/ TakeParameterSemaphore \/ SaveCalibration \/ CalibExit

-----------------------------------------------------------------------------
(* The others.                                                             *)

(* user_plug_short_press: a press confirms a stage during a calibration    *)
(* and toggles the relay otherwise.                                        *)
user_plug_short_press ==
    /\ ram.button
    /\ IF bCS5463Cali
         THEN /\ caliSem' = 1
              /\ UNCHANGED <<relay, closedBy>>
         ELSE /\ Switch(IF relay = "CLOSE" THEN "OPEN" ELSE "CLOSE", "button")
              /\ UNCHANGED caliSem
    /\ UNCHANGED <<ram, flash, bCS5463Cali, paramSem, task, http>>

(* switch_status_set: refused during a calibration. *)
SwitchRefused == bCS5463Cali

switch_status_set ==
    /\ http = "idle" /\ ~SwitchRefused
    /\ \E status \in {"OPEN", "CLOSE"} : Switch(status, "http")
    /\ UNCHANGED <<ram, flash, bCS5463Cali, caliSem, paramSem, task, http>>

(* manual_enable_set: the parameter is changed, then saved under the semaphore. *)
manual_enable_set ==
    /\ http = "idle"
    /\ \E enable \in BOOLEAN : ram' = [ram EXCEPT !.button = enable]
    /\ http' = "saving"
    /\ UNCHANGED <<flash, bCS5463Cali, relay, caliSem, paramSem, task, history>>

ManualSaved ==
    /\ http = "saving" /\ paramSem = "free"
    /\ flash' = ram
    /\ http' = "idle"
    /\ UNCHANGED <<ram, bCS5463Cali, relay, caliSem, paramSem, task, history>>

(* Ten seconds pass and the semaphore is still held: nothing is saved. *)
ManualSaveTimeout ==
    /\ http = "saving" /\ paramSem # "free"
    /\ http' = "idle"
    /\ UNCHANGED <<ram, flash, bCS5463Cali, relay, caliSem, paramSem, task, history>>

(* system_status_reset: everything back to the defaults, in both places. *)
DAT_nFlashDataClean ==
    /\ http = "idle" /\ paramSem = "free"
    /\ ram' = Defaults
    /\ bCS5463Cali' = FALSE
    /\ flash' = Defaults
    /\ UNCHANGED <<relay, caliSem, paramSem, task, http, history>>

(* user_esp_platform_device_action: the schedule asks nobody. *)
user_esp_platform_device_action ==
    /\ \E status \in {"OPEN", "CLOSE"} : Switch(status, "schedule")
    /\ UNCHANGED <<ram, flash, bCS5463Cali, caliSem, paramSem, task, http>>

(* user_set_reboot, or the power goes: the flash is all that is left. *)
Reboot ==
    /\ ram' = flash
    /\ bCS5463Cali' = FALSE /\ relay' = "OPEN"
    /\ caliSem' = 1 /\ paramSem' = "free"
    /\ cs' = "manager" /\ tCaliState' = STOP /\ http' = "idle"
    /\ UNCHANGED <<flash, history>>

Next ==
    \/ Cs5463
    \/ user_plug_short_press
    \/ switch_status_set \/ manual_enable_set \/ ManualSaved \/ ManualSaveTimeout
    \/ DAT_nFlashDataClean
    \/ user_esp_platform_device_action
    \/ Reboot

Spec == Init /\ [][Next]_vars

(* Every wait of the task has a timeout and nothing above it runs for good. *)
FairSpec == Spec /\ WF_vars(Cs5463)

-----------------------------------------------------------------------------
(* The flash never holds a calibration that is validated and half done,    *)
(* whatever resets, reboots and saves of other parameters come in between: *)
(* the plug never measures with some constants measured and others zero.   *)
AllOrNothing == flash.valid => flash.meas \in {{}, Stages}

(* What makes it inductive.  From the loop head on, a calibration that was *)
(* not reset has measured every stage before the present one.              *)
Measured == IF tCaliState \in Stages /\ cs # "prompt" THEN 1..(tCaliState - 1)
            ELSE 1..tCaliState \cap Stages

Progress ==
    /\ cs \in {"enter", "drain"} => tCaliState = WAITING
    /\ cs = "prompt" => tCaliState < NSTAGE
    /\ cs = "begin" => tCaliState \in Stages \cup {RESET}
    /\ cs = "ready" => tCaliState \in Stages
    /\ bCS5463Cali => cs \in {"enter", "drain", "loop", "begin", "ready", "prompt", "exit"}
    /\ bCS5463Cali /\ tCaliState # STOP => Measured \subseteq ram.meas
    /\ cs = "begin" /\ tCaliState = RESET => ram.meas \in {{}, Stages}
    /\ cs \in {"enter", "drain", "begin", "ready", "prompt"} => ~ram.valid
    /\ cs \in {"take", "save"} => tCaliState = RESET
    /\ cs = "loop" /\ ram.valid => tCaliState = STOP
    /\ ram.valid => ram.meas \in {{}, Stages}

StageInv == TypeOK /\ Progress

(* Once a calibration has opened it, the relay is closed only for the      *)
(* measurement of a gain, or because the schedule closed it: neither the   *)
(* button nor an HTTP request gets through, whenever it comes.             *)
RelayOwner ==
    bCS5463Cali /\ cs # "enter" /\ relay = "CLOSE" =>
        \/ closedBy = "schedule"
        \/ closedBy = "cs5463" /\ cs = "ready" /\ tCaliState \in GainStages

CalibrationInv == StageInv /\ AllOrNothing /\ RelayOwner

(* A calibration ends, by finishing, by a timeout or by a reset. *)
CalibrationEnds == cs \in CalibSteps ~> cs = "manager"
=============================================================================
