------------------------- MODULE Calibration_proofs -------------------------
(***************************************************************************)
(* Proofs about the calibration: CalibrationInv is inductive whatever the  *)
(* number of stages and whichever of them close the relay.                 *)
(* Proofs about the meter it works with: MeterInd is inductive, down to the*)
(* bits on the wire.                                                       *)
(***************************************************************************)
EXTENDS Calibration, Meter, TLAPS

(* The states of CS5463IF_Calib are distinct numbers. *)
LEMMA StateNumbers ==
    /\ Stages \subseteq 0..STOP /\ WAITING \in 0..STOP /\ RESET \in 0..STOP /\ STOP \in 0..STOP
    /\ WAITING \notin Stages /\ RESET \notin Stages /\ STOP \notin Stages
    /\ RESET # WAITING /\ STOP # WAITING /\ STOP # RESET
  BY NStageAssumption DEF Stages, WAITING, RESET, STOP

(* What a calibration that reached a given state has measured. *)
LEMMA MeasuredUpTo ==
    /\ (1..RESET) \cap Stages = Stages
    /\ \A t \in Stages : (1..t) \cap Stages = 1..t
  BY NStageAssumption DEF Stages, RESET

(* systemInit leaves a state that satisfies the invariant. *)
LEMMA CalibrationInit == Init => CalibrationInv
<1> SUFFICES ASSUME Init PROVE CalibrationInv
  OBVIOUS
<1> USE StateNumbers DEF Init, Defaults
<1>1. TypeOK
  <2>1. flash \in Parameters
    <3>1. CASE flash = Defaults
      BY <3>1 DEF Parameters
    <3>2. CASE \E b \in BOOLEAN : flash = [valid |-> TRUE, meas |-> Stages, button |-> b]
      BY <3>2 DEF Parameters
    <3> QED
      BY <3>1, <3>2
  <2> QED
    BY <2>1 DEF TypeOK, CalibSteps, Closers
<1>2. AllOrNothing /\ RelayOwner
  BY DEF AllOrNothing, RelayOwner
<1>3. Progress
  BY DEF Progress
<1> QED
  BY <1>1, <1>2, <1>3 DEF CalibrationInv, StageInv

(* The relay: every step keeps its ownership rule. *)
LEMMA RelayStep == CalibrationInv /\ [Next]_vars => RelayOwner'
<1> SUFFICES ASSUME CalibrationInv, [Next]_vars PROVE RelayOwner'
  OBVIOUS
<1> USE StateNumbers DEF CalibrationInv, StageInv, TypeOK, RelayOwner, Switch, task, history
<1>1. CASE Cs5463
  <2>1. CASE CS5463_Manager
    BY <2>1 DEF CS5463_Manager
  <2>2. CASE CalibEnter
    BY <2>2 DEF CalibEnter
  <2>3. CASE DrainCaliSemaphore
    BY <2>3 DEF DrainCaliSemaphore, Drain
  <2>4. CASE LoopHead
    BY <2>4 DEF LoopHead
  <2>5. CASE StageBegin
    BY <2>5 DEF StageBegin
  <2>6. CASE StageMeasured
    BY <2>6 DEF StageMeasured, OpenAfterGain
  <2>7. CASE StageFailed
    BY <2>7 DEF StageFailed, OpenAfterGain
  <2>8. CASE PressTaken
    BY <2>8 DEF PressTaken
  <2>9. CASE PressTimeout
    BY <2>9 DEF PressTimeout, GiveUp
  <2>10. CASE Validate
    BY <2>10 DEF Validate
  <2>11. CASE TakeParameterSemaphore
    BY <2>11 DEF TakeParameterSemaphore
  <2>12. CASE SaveCalibration
    BY <2>12 DEF SaveCalibration
  <2>13. CASE CalibExit
    BY <2>13 DEF CalibExit
  <2> QED
    BY <1>1, <2>1, <2>2, <2>3, <2>4, <2>5, <2>6, <2>7, <2>8, <2>9, <2>10, <2>11, <2>12, <2>13
       DEF Cs5463
<1>2. CASE user_plug_short_press
  BY <1>2 DEF user_plug_short_press
<1>3. CASE switch_status_set
  BY <1>3 DEF switch_status_set, SwitchRefused
<1>4. CASE manual_enable_set \/ ManualSaved \/ ManualSaveTimeout
  BY <1>4 DEF manual_enable_set, ManualSaved, ManualSaveTimeout
<1>5. CASE DAT_nFlashDataClean
  BY <1>5 DEF DAT_nFlashDataClean
<1>6. CASE user_esp_platform_device_action
  BY <1>6 DEF user_esp_platform_device_action
<1>7. CASE Reboot
  BY <1>7 DEF Reboot
<1>8. CASE UNCHANGED vars
  BY <1>8 DEF vars
<1> QED
  BY <1>1, <1>2, <1>3, <1>4, <1>5, <1>6, <1>7, <1>8 DEF Next

(* The parameters: both copies keep their shape. *)
LEMMA ParametersStep == CalibrationInv /\ [Next]_vars => ram' \in Parameters /\ flash' \in Parameters
<1> SUFFICES ASSUME CalibrationInv, [Next]_vars PROVE ram' \in Parameters /\ flash' \in Parameters
  OBVIOUS
<1> USE DEF CalibrationInv, StageInv, TypeOK, Parameters
<1>1. CASE UNCHANGED <<ram, flash>>
  BY <1>1
<1>2. CASE StageMeasured
  <2>1. tCaliState \in Stages
    BY <1>2 DEF StageMeasured, Progress
  <2> QED
    BY <1>2, <2>1 DEF StageMeasured
<1>3. CASE Validate
  BY <1>3 DEF Validate
<1>4. CASE SaveCalibration \/ ManualSaved
  BY <1>4 DEF SaveCalibration, ManualSaved
<1>5. CASE manual_enable_set
  BY <1>5 DEF manual_enable_set
<1>6. CASE DAT_nFlashDataClean
  BY <1>6 DEF DAT_nFlashDataClean, Defaults
<1>7. CASE Reboot
  BY <1>7 DEF Reboot
<1> QED
  BY <1>1, <1>2, <1>3, <1>4, <1>5, <1>6, <1>7
     DEF Next, Cs5463, CS5463_Manager, CalibEnter, DrainCaliSemaphore, Drain, LoopHead,
         StageBegin, StageFailed, PressTaken, PressTimeout, GiveUp, TakeParameterSemaphore,
         CalibExit, user_plug_short_press, switch_status_set, ManualSaveTimeout,
         user_esp_platform_device_action, Switch, vars

(* The other variables keep their types. *)
LEMMA TypeStep == CalibrationInv /\ [Next]_vars => TypeOK'
<1> SUFFICES ASSUME CalibrationInv, [Next]_vars PROVE TypeOK'
  OBVIOUS
<1>1. ram' \in Parameters /\ flash' \in Parameters
  BY ParametersStep
<1> USE <1>1, StateNumbers
    DEF CalibrationInv, StageInv, TypeOK, CalibSteps, Closers, Switch, task, history
<1>2. CASE CS5463_Manager \/ CalibEnter \/ DrainCaliSemaphore \/ LoopHead
  BY <1>2 DEF CS5463_Manager, CalibEnter, DrainCaliSemaphore, Drain, LoopHead
<1>3. CASE StageBegin \/ StageMeasured \/ StageFailed
  BY <1>3 DEF StageBegin, StageMeasured, StageFailed, OpenAfterGain
<1>4. CASE PressTaken
  <2>1. tCaliState + 1 \in 0..STOP
    BY <1>4, NStageAssumption DEF PressTaken, Progress, STOP
  <2> QED
    BY <1>4, <2>1 DEF PressTaken
<1>5. CASE PressTimeout \/ Validate \/ TakeParameterSemaphore \/ SaveCalibration \/ CalibExit
  BY <1>5 DEF PressTimeout, GiveUp, Validate, TakeParameterSemaphore, SaveCalibration, CalibExit
<1>6. CASE user_plug_short_press
  BY <1>6 DEF user_plug_short_press
<1>7. CASE switch_status_set
  BY <1>7 DEF switch_status_set
<1>8. CASE user_esp_platform_device_action
  BY <1>8 DEF user_esp_platform_device_action
<1>9. CASE manual_enable_set
  BY <1>9 DEF manual_enable_set
<1>10. CASE ManualSaved \/ ManualSaveTimeout
  BY <1>10 DEF ManualSaved, ManualSaveTimeout
<1>11. CASE DAT_nFlashDataClean
  BY <1>11 DEF DAT_nFlashDataClean
<1>12. CASE Reboot
  BY <1>12 DEF Reboot
<1>13. CASE UNCHANGED vars
  BY <1>13 DEF vars
<1> QED
  BY <1>2, <1>3, <1>4, <1>5, <1>6, <1>7, <1>8, <1>9, <1>10, <1>11, <1>12, <1>13
     DEF Next, Cs5463

(* The flash is written with consistent parameters only. *)
LEMMA FlashStep == CalibrationInv /\ [Next]_vars => AllOrNothing'
<1> SUFFICES ASSUME CalibrationInv, [Next]_vars PROVE AllOrNothing'
  OBVIOUS
<1> USE DEF CalibrationInv, StageInv, Progress, AllOrNothing
<1>1. CASE UNCHANGED flash
  BY <1>1
<1>2. CASE SaveCalibration \/ ManualSaved
  BY <1>2 DEF SaveCalibration, ManualSaved
<1>3. CASE DAT_nFlashDataClean
  BY <1>3 DEF DAT_nFlashDataClean, Defaults
<1> QED
  BY <1>1, <1>2, <1>3
     DEF Next, Cs5463, CS5463_Manager, CalibEnter, DrainCaliSemaphore, Drain, LoopHead,
         StageBegin, StageMeasured, StageFailed, PressTaken, PressTimeout, GiveUp, Validate,
         TakeParameterSemaphore, CalibExit, user_plug_short_press, switch_status_set,
         manual_enable_set, ManualSaveTimeout, user_esp_platform_device_action, Reboot, vars

(* The progress of the calibration: what has been measured, and when the   *)
(* parameters may be validated.                                            *)
LEMMA ProgressStep == CalibrationInv /\ [Next]_vars => Progress'
<1> SUFFICES ASSUME CalibrationInv, [Next]_vars PROVE Progress'
  OBVIOUS
<1> USE StateNumbers DEF CalibrationInv, StageInv, TypeOK, Progress, task, history
<1>1. CASE CS5463_Manager
  <2>1. CASE ram.valid
    BY <1>1, <2>1 DEF CS5463_Manager
  <2>2. CASE ~ram.valid
    <3>1. Measured' = {}
      BY <1>1, <2>2 DEF CS5463_Manager, Measured, WAITING
    <3> QED
      BY <1>1, <2>2, <3>1 DEF CS5463_Manager
  <2> QED
    BY <2>1, <2>2
<1>2. CASE CalibEnter
  BY <1>2 DEF CalibEnter, Measured
<1>3. CASE DrainCaliSemaphore
  BY <1>3 DEF DrainCaliSemaphore, Drain, Measured
<1>4. CASE LoopHead
  <2>1. CASE ~Calibrating
    BY <1>4, <2>1 DEF LoopHead, Calibrating
  <2>2. CASE Calibrating /\ tCaliState = WAITING
    <3>1. Measured' = {}
      BY <1>4, <2>2 DEF LoopHead, Measured, WAITING
    <3>2. WAITING < NSTAGE
      BY NStageAssumption DEF WAITING
    <3> QED
      BY <1>4, <2>2, <3>1, <3>2 DEF LoopHead, Calibrating
  <2>3. CASE Calibrating /\ tCaliState # WAITING
    <3>1. tCaliState \in Stages \cup {RESET}
      BY <2>3, NStageAssumption DEF Calibrating, Stages, WAITING, RESET, STOP
    <3>2. Measured \subseteq ram.meas /\ Measured' = Measured
      BY <1>4, <2>3 DEF LoopHead, Calibrating, Measured
    <3>3. tCaliState = RESET => ram.meas = Stages
      <4>1. tCaliState = RESET => Measured = Stages
        BY MeasuredUpTo DEF Measured
      <4>2. ram.meas \subseteq Stages
        BY DEF Parameters
      <4> QED
        BY <3>2, <4>1, <4>2
    <3> QED
      BY <1>4, <2>3, <3>1, <3>2, <3>3 DEF LoopHead, Calibrating
  <2> QED
    BY <2>1, <2>2, <2>3
<1>5. CASE StageBegin
  BY <1>5 DEF StageBegin, Measured
<1>6. CASE StageMeasured
  <2>1. tCaliState \in Stages /\ tCaliState # STOP /\ ~ram.valid
    BY <1>6 DEF StageMeasured
  <2>2. ram'.meas = ram.meas \cup {tCaliState} /\ ram'.valid = ram.valid
    BY <1>6 DEF StageMeasured, Parameters
  <2>3. Measured' = Measured \cup {tCaliState}
    <3>1. Measured = 1..(tCaliState - 1)
      BY <1>6, <2>1 DEF StageMeasured, Measured
    <3>2. Measured' = 1..tCaliState
      <4>1. CASE tCaliState = NSTAGE
        <5>1. Measured' = (1..RESET) \cap Stages
          BY <1>6, <4>1 DEF StageMeasured, Measured
        <5> QED
          BY <4>1, <5>1, MeasuredUpTo DEF Stages
      <4>2. CASE tCaliState # NSTAGE
        BY <1>6, <2>1, <4>2, MeasuredUpTo DEF StageMeasured, Measured
      <4> QED
        BY <4>1, <4>2
    <3> QED
      BY <2>1, <3>1, <3>2, NStageAssumption DEF Stages
  <2>4. bCS5463Cali => Measured' \subseteq ram'.meas
    BY <2>1, <2>2, <2>3
  <2>5. cs' = "prompt" => tCaliState' < NSTAGE
    BY <1>6, <2>1, NStageAssumption DEF StageMeasured, Stages
  <2>6. cs' \in {"loop", "prompt"} /\ bCS5463Cali' = bCS5463Cali
    BY <1>6 DEF StageMeasured
  <2> QED
    BY <2>1, <2>2, <2>4, <2>5, <2>6
<1>7. CASE StageFailed
  BY <1>7 DEF StageFailed
<1>8. CASE PressTaken
  <2>1. tCaliState + 1 \in Stages
    BY <1>8, NStageAssumption DEF PressTaken, Stages
  <2>2. Measured' = 1..tCaliState /\ Measured = 1..tCaliState
    BY <1>8, <2>1, NStageAssumption DEF PressTaken, Measured, Stages
  <2> QED
    BY <1>8, <2>1, <2>2 DEF PressTaken
<1>9. CASE PressTimeout
  BY <1>9 DEF PressTimeout, GiveUp
<1>10. CASE Validate
  BY <1>10 DEF Validate
<1>11. CASE TakeParameterSemaphore
  BY <1>11 DEF TakeParameterSemaphore
<1>12. CASE SaveCalibration
  BY <1>12 DEF SaveCalibration
<1>13. CASE CalibExit
  BY <1>13 DEF CalibExit
<1>14. CASE user_plug_short_press
  BY <1>14 DEF user_plug_short_press, Measured
<1>15. CASE switch_status_set \/ user_esp_platform_device_action
  BY <1>15 DEF switch_status_set, user_esp_platform_device_action, Measured
<1>16. CASE manual_enable_set
  BY <1>16 DEF manual_enable_set, Measured, Parameters
<1>17. CASE ManualSaved \/ ManualSaveTimeout
  BY <1>17 DEF ManualSaved, ManualSaveTimeout, Measured
<1>18. CASE DAT_nFlashDataClean
  BY <1>18 DEF DAT_nFlashDataClean, Defaults
<1>19. CASE Reboot
  BY <1>19 DEF Reboot, AllOrNothing
<1>20. CASE UNCHANGED vars
  BY <1>20 DEF vars, Measured
<1> QED
  BY <1>1, <1>2, <1>3, <1>4, <1>5, <1>6, <1>7, <1>8, <1>9, <1>10, <1>11, <1>12, <1>13,
     <1>14, <1>15, <1>16, <1>17, <1>18, <1>19, <1>20 DEF Next, Cs5463

LEMMA CalibrationStep == CalibrationInv /\ [Next]_vars => CalibrationInv'
  BY TypeStep, ProgressStep, FlashStep, RelayStep DEF CalibrationInv, StageInv

(* Every behaviour stays within the invariant, interrupted by resets, other *)
(* saves and reboots at any point.                                          *)
THEOREM CalibrationInvariant == Spec => []CalibrationInv
  BY CalibrationInit, CalibrationStep, PTL DEF Spec

(* DAT_nFlashDataClean against CS5463IF_Calib: validated parameters in the *)
(* flash are those of a whole calibration, or none at all.                 *)
THEOREM NeverHalfCalibrated == Spec => []AllOrNothing
<1>1. CalibrationInv => AllOrNothing
  BY DEF CalibrationInv
<1> QED
  BY <1>1, CalibrationInvariant, PTL

(* user_plug_short_press and switch_status_set against CS5463IF_Calib: no  *)
(* one but the schedule closes the relay behind a calibration's back.      *)
THEOREM RelayBelongsToCalibration == Spec => []RelayOwner
<1>1. CalibrationInv => RelayOwner
  BY DEF CalibrationInv
<1> QED
  BY <1>1, CalibrationInvariant, PTL

(***************************************************************************)
(* The meter.                                                              *)
(*                                                                         *)
(* MeterInd is inductive for every word the chip may measure, every saved  *)
(* calibration, every threshold and every number of polls:                 *)
(*   - MeterTypes, Placed: what the variables are, where a transfer can be;*)
(*   - Sending, Quiet: the bits the chip has taken of it, and that nothing *)
(*     is left of it between two transfers;                                *)
(*   - InFlight: while the chip answers, what is in memory and what is left*)
(*     in the chip are the two parts of one word, and that word is what the*)
(*     transfer was meant to read;                                         *)
(*   - Known: the protection reads last, but while it is being replaced;   *)
(*   - RoutineInv: the registers are set as far as the routine has come;   *)
(*   - CalibInv: what a stage knows at each of its seven steps.            *)
(***************************************************************************)

LEMMA BitIsBit == \A w \in Nat, i \in 0..23 : Bit(w, i) \in {0, 1}
<1> TAKE w \in Nat, i \in 0..23
<1>1. /\ Bit(w, 0) \in {0, 1} /\ Bit(w, 1) \in {0, 1} /\ Bit(w, 2) \in {0, 1}
      /\ Bit(w, 3) \in {0, 1} /\ Bit(w, 4) \in {0, 1} /\ Bit(w, 5) \in {0, 1}
      /\ Bit(w, 6) \in {0, 1} /\ Bit(w, 7) \in {0, 1} /\ Bit(w, 8) \in {0, 1}
      /\ Bit(w, 9) \in {0, 1} /\ Bit(w, 10) \in {0, 1} /\ Bit(w, 11) \in {0, 1}
      /\ Bit(w, 12) \in {0, 1} /\ Bit(w, 13) \in {0, 1} /\ Bit(w, 14) \in {0, 1}
      /\ Bit(w, 15) \in {0, 1} /\ Bit(w, 16) \in {0, 1} /\ Bit(w, 17) \in {0, 1}
      /\ Bit(w, 18) \in {0, 1} /\ Bit(w, 19) \in {0, 1} /\ Bit(w, 20) \in {0, 1}
      /\ Bit(w, 21) \in {0, 1} /\ Bit(w, 22) \in {0, 1} /\ Bit(w, 23) \in {0, 1}
  BY DEF Bit
<1> QED BY <1>1

(* Eight bits of a byte, the first one highest, are the byte. *)
LEMMA ByteOfBits ==
    ASSUME NEW x \in 0..255, NEW f, \A j \in 1..8 : f[j] = Bit(x, 8 - j)
    PROVE  Byte(f) = x
<1>1. /\ f[1] = Bit(x, 7) /\ f[2] = Bit(x, 6) /\ f[3] = Bit(x, 5) /\ f[4] = Bit(x, 4)
      /\ f[5] = Bit(x, 3) /\ f[6] = Bit(x, 2) /\ f[7] = Bit(x, 1) /\ f[8] = Bit(x, 0)
  OBVIOUS
<1>2. Byte(f) = Bit(x, 7) * 128 + Bit(x, 6) * 64 + Bit(x, 5) * 32 + Bit(x, 4) * 16
                  + Bit(x, 3) * 8 + Bit(x, 2) * 4 + Bit(x, 1) * 2 + Bit(x, 0)
  BY <1>1 DEF Byte
<1> QED BY <1>2 DEF Bit

LEMMA WordOfBytes ==
    ASSUME NEW w \in Words
    PROVE  /\ \A b \in 1..3 : Bytes(w)[b] \in 0..255
           /\ \A m : m[1] = Bytes(w)[1] /\ m[2] = Bytes(w)[2] /\ m[3] = Bytes(w)[3] => Word(m) = w
<1> DEFINE v == w \div 256
           a == w \div 65536
<1>1. /\ Bytes(w)[1] = a /\ Bytes(w)[2] = v % 256 /\ Bytes(w)[3] = w % 256
  BY DEF Bytes
<1>2. v \in Nat /\ v < 65536 /\ w = 256 * v + (w % 256) /\ w % 256 \in 0..255
  BY SMT DEF Words
<1>3. a = v \div 256
  BY SMT DEF Words
<1> HIDE DEF v, a
<1>4. a \in 0..255 /\ v = 256 * a + (v % 256) /\ v % 256 \in 0..255
  BY <1>2, <1>3
<1> QED BY <1>1, <1>2, <1>4 DEF Word

(* The bits of a byte, and those of the byte above it. *)
LEMMA BitsAbove ==
    ASSUME NEW w \in Words
    PROVE  \A k \in 0..15 : Bit(w, k + 8) = Bit(w \div 256, k)
<1> DEFINE v == w \div 256
<1>1. v \in Nat /\ w = 256 * v + (w % 256) /\ w % 256 \in 0..255 /\ w \in Nat
  BY SMT DEF Words
<1> HIDE DEF v
<1>c0. w \div 256 = v \div 1
  BY SMT, <1>1
<1>b0. Bit(w, 8) = Bit(v, 0)
  BY SMT, <1>1, <1>c0 DEF Bit
<1>c1. w \div 512 = v \div 2
  BY SMT, <1>1
<1>b1. Bit(w, 9) = Bit(v, 1)
  BY SMT, <1>1, <1>c1 DEF Bit
<1>c2. w \div 1024 = v \div 4
  BY SMT, <1>1
<1>b2. Bit(w, 10) = Bit(v, 2)
  BY SMT, <1>1, <1>c2 DEF Bit
<1>c3. w \div 2048 = v \div 8
  BY SMT, <1>1
<1>b3. Bit(w, 11) = Bit(v, 3)
  BY SMT, <1>1, <1>c3 DEF Bit
<1>c4. w \div 4096 = v \div 16
  BY SMT, <1>1
<1>b4. Bit(w, 12) = Bit(v, 4)
  BY SMT, <1>1, <1>c4 DEF Bit
<1>c5. w \div 8192 = v \div 32
  BY SMT, <1>1
<1>b5. Bit(w, 13) = Bit(v, 5)
  BY SMT, <1>1, <1>c5 DEF Bit
<1>c6. w \div 16384 = v \div 64
  BY SMT, <1>1
<1>b6. Bit(w, 14) = Bit(v, 6)
  BY SMT, <1>1, <1>c6 DEF Bit
<1>c7. w \div 32768 = v \div 128
  BY SMT, <1>1
<1>b7. Bit(w, 15) = Bit(v, 7)
  BY SMT, <1>1, <1>c7 DEF Bit
<1>c8. w \div 65536 = v \div 256
  BY SMT, <1>1
<1>b8. Bit(w, 16) = Bit(v, 8)
  BY SMT, <1>1, <1>c8 DEF Bit
<1>c9. w \div 131072 = v \div 512
  BY SMT, <1>1
<1>b9. Bit(w, 17) = Bit(v, 9)
  BY SMT, <1>1, <1>c9 DEF Bit
<1>c10. w \div 262144 = v \div 1024
  BY SMT, <1>1
<1>b10. Bit(w, 18) = Bit(v, 10)
  BY SMT, <1>1, <1>c10 DEF Bit
<1>c11. w \div 524288 = v \div 2048
  BY SMT, <1>1
<1>b11. Bit(w, 19) = Bit(v, 11)
  BY SMT, <1>1, <1>c11 DEF Bit
<1>c12. w \div 1048576 = v \div 4096
  BY SMT, <1>1
<1>b12. Bit(w, 20) = Bit(v, 12)
  BY SMT, <1>1, <1>c12 DEF Bit
<1>c13. w \div 2097152 = v \div 8192
  BY SMT, <1>1
<1>b13. Bit(w, 21) = Bit(v, 13)
  BY SMT, <1>1, <1>c13 DEF Bit
<1>c14. w \div 4194304 = v \div 16384
  BY SMT, <1>1
<1>b14. Bit(w, 22) = Bit(v, 14)
  BY SMT, <1>1, <1>c14 DEF Bit
<1>c15. w \div 8388608 = v \div 32768
  BY SMT, <1>1
<1>b15. Bit(w, 23) = Bit(v, 15)
  BY SMT, <1>1, <1>c15 DEF Bit
<1> QED BY <1>b0, <1>b1, <1>b2, <1>b3, <1>b4, <1>b5, <1>b6, <1>b7, <1>b8, <1>b9, <1>b10, <1>b11, <1>b12, <1>b13, <1>b14, <1>b15 DEF v

LEMMA BitsBelow ==
    ASSUME NEW v \in Nat
    PROVE  \A k \in 0..7 : Bit(v, k) = Bit(v % 256, k)
<1> DEFINE x == v % 256
           q == v \div 256
<1>1. q \in Nat /\ v = 256 * q + x /\ x \in 0..255
  OBVIOUS
<1> HIDE DEF x, q
<1>c0. v \div 1 = 256 * q + (x \div 1)
  BY <1>1
<1>b0. Bit(v, 0) = Bit(x, 0)
  BY <1>1, <1>c0 DEF Bit
<1>c1. v \div 2 = 128 * q + (x \div 2)
  BY <1>1
<1>b1. Bit(v, 1) = Bit(x, 1)
  BY <1>1, <1>c1 DEF Bit
<1>c2. v \div 4 = 64 * q + (x \div 4)
  BY <1>1
<1>b2. Bit(v, 2) = Bit(x, 2)
  BY <1>1, <1>c2 DEF Bit
<1>c3. v \div 8 = 32 * q + (x \div 8)
  BY <1>1
<1>b3. Bit(v, 3) = Bit(x, 3)
  BY <1>1, <1>c3 DEF Bit
<1>c4. v \div 16 = 16 * q + (x \div 16)
  BY <1>1
<1>b4. Bit(v, 4) = Bit(x, 4)
  BY <1>1, <1>c4 DEF Bit
<1>c5. v \div 32 = 8 * q + (x \div 32)
  BY <1>1
<1>b5. Bit(v, 5) = Bit(x, 5)
  BY <1>1, <1>c5 DEF Bit
<1>c6. v \div 64 = 4 * q + (x \div 64)
  BY <1>1
<1>b6. Bit(v, 6) = Bit(x, 6)
  BY <1>1, <1>c6 DEF Bit
<1>c7. v \div 128 = 2 * q + (x \div 128)
  BY <1>1
<1>b7. Bit(v, 7) = Bit(x, 7)
  BY <1>1, <1>c7 DEF Bit
<1> QED BY <1>b0, <1>b1, <1>b2, <1>b3, <1>b4, <1>b5, <1>b6, <1>b7 DEF x

(* Bit by bit, a word is its bytes. *)
LEMMA BitsOfBytes ==
    ASSUME NEW w \in Words
    PROVE  \A k \in 0..7 : /\ Bit(w, 16 + k) = Bit(Bytes(w)[1], k)
                          /\ Bit(w, 8 + k) = Bit(Bytes(w)[2], k)
                          /\ Bit(w, k) = Bit(Bytes(w)[3], k)
<1> DEFINE v == w \div 256
           a == w \div 65536
<1> TAKE k \in 0..7
<1>1. /\ Bytes(w)[1] = a /\ Bytes(w)[2] = v % 256 /\ Bytes(w)[3] = w % 256
  BY DEF Bytes
<1>2. v \in Words /\ w \in Nat /\ a = v \div 256
  BY SMT DEF Words
<1>3. Bit(w, 16 + k) = Bit(v, 8 + k) /\ Bit(w, 8 + k) = Bit(v, k) /\ Bit(v, 8 + k) = Bit(a, k)
  <2>1. \A j \in 0..15 : Bit(w, j + 8) = Bit(v, j)
    BY BitsAbove
  <2>2. \A j \in 0..15 : Bit(v, j + 8) = Bit(a, j)
    BY <1>2, BitsAbove
  <2>3. 16 + k = (8 + k) + 8 /\ 8 + k = k + 8 /\ 8 + k \in 0..15 /\ k \in 0..15
    OBVIOUS
  <2> HIDE DEF v, a
  <2> QED BY <2>1, <2>2, <2>3
<1>4. Bit(v, k) = Bit(v % 256, k) /\ Bit(w, k) = Bit(w % 256, k)
  BY <1>2, BitsBelow DEF Words
<1> QED BY <1>1, <1>3, <1>4

(* Twenty-four bits of a word, the first one highest, are the word. *)
LEMMA WordOfBits ==
    ASSUME NEW w \in Words, NEW f, \A j \in 1..24 : f[j] = Bit(w, 24 - j)
    PROVE  Decoded(f) = w
<1> DEFINE g(b) == [k \in 1..8 |-> f[8 * b - 8 + k]]
           m == [b \in 1..3 |-> Byte(g(b))]
<1>1. \A j \in 1..8 : g(1)[j] = Bit(Bytes(w)[1], 8 - j)
  <2> TAKE j \in 1..8
  <2>1. g(1)[j] = Bit(w, 16 + (8 - j))
    <3>1. 24 - j = 16 + (8 - j) /\ j \in 1..24 /\ 8 * 1 - 8 + j = j
      OBVIOUS
    <3> QED BY <3>1
  <2> QED BY <2>1, BitsOfBytes, 8 - j \in 0..7
<1>2. \A j \in 1..8 : g(2)[j] = Bit(Bytes(w)[2], 8 - j)
  <2> TAKE j \in 1..8
  <2>1. g(2)[j] = Bit(w, 8 + (8 - j))
    <3>1. 24 - (8 + j) = 8 + (8 - j) /\ 8 + j \in 1..24 /\ 8 * 2 - 8 + j = 8 + j
      OBVIOUS
    <3> QED BY <3>1
  <2> QED BY <2>1, BitsOfBytes, 8 - j \in 0..7
<1>3. \A j \in 1..8 : g(3)[j] = Bit(Bytes(w)[3], 8 - j)
  <2> TAKE j \in 1..8
  <2>1. g(3)[j] = Bit(w, 8 - j)
    <3>1. 24 - (16 + j) = 8 - j /\ 16 + j \in 1..24 /\ 8 * 3 - 8 + j = 16 + j
      OBVIOUS
    <3> QED BY <3>1
  <2> QED BY <2>1, BitsOfBytes, 8 - j \in 0..7
<1>4. \A b \in 1..3 : Bytes(w)[b] \in 0..255
  BY WordOfBytes
<1> HIDE DEF g
<1>5. m[1] = Bytes(w)[1] /\ m[2] = Bytes(w)[2] /\ m[3] = Bytes(w)[3]
  <2>1. Byte(g(1)) = Bytes(w)[1]
    <3>1. Bytes(w)[1] \in 0..255
      BY <1>4
    <3> QED BY <3>1, <1>1, ByteOfBits
  <2>2. Byte(g(2)) = Bytes(w)[2]
    <3>1. Bytes(w)[2] \in 0..255
      BY <1>4
    <3> QED BY <3>1, <1>2, ByteOfBits
  <2>3. Byte(g(3)) = Bytes(w)[3]
    <3>1. Bytes(w)[3] \in 0..255
      BY <1>4
    <3> QED BY <3>1, <1>3, ByteOfBits
  <2> QED BY <2>1, <2>2, <2>3
<1>6. Word(m) = w
  BY <1>5, WordOfBytes
<1> QED BY <1>6 DEF Decoded, g

(* What fConvert24BitToFloat adds up, in units of 2^-24, is the word. *)
LEMMA FloatIsWord ==
    ASSUME NEW bytes, \A b \in 1..3 : bytes[b] \in 0..255
    PROVE  fConvert24BitToFloat(bytes) = Word(bytes)
<1> DEFINE f == [i \in 1..24 |-> Bit(bytes[(i - 1) \div 8 + 1], 7 - ((i - 1) % 8))]
           g(b) == [k \in 1..8 |-> f[8 * b - 8 + k]]
<1>1. \A b \in 1..3, j \in 1..8 : g(b)[j] = Bit(bytes[b], 8 - j)
  <2> TAKE b \in 1..3, j \in 1..8
  <2> DEFINE i == 8 * b - 8 + j
  <2>1. i \in 1..24 /\ (i - 1) \div 8 + 1 = b /\ 7 - ((i - 1) % 8) = 8 - j
    OBVIOUS
  <2>2. f[i] = Bit(bytes[(i - 1) \div 8 + 1], 7 - ((i - 1) % 8))
    BY <2>1
  <2> HIDE DEF f
  <2> QED BY <2>1, <2>2
<1> HIDE DEF g
<1>2. \A b \in 1..3 : Byte(g(b)) = bytes[b]
  BY <1>1, ByteOfBits
<1>3. Word([b \in 1..3 |-> Byte(g(b))]) = Word(bytes)
  BY <1>2 DEF Word
<1> QED BY <1>3 DEF fConvert24BitToFloat, Decoded, g

(* The power that is reported is the magnitude of what was measured.       *)
LEMMA PowerOfBytes ==
    ASSUME NEW bytes, \A b \in 1..3 : bytes[b] \in 0..255
    PROVE  LET word == Word(bytes)
           IN  CS5463_fGetActivePower(bytes) =
                   IF word = 2^23 THEN 0 ELSE Magnitude(TwosComplement(word))
<1> DEFINE x == bytes[1]
           y == bytes[2] * 256 + bytes[3]
<1>1. Word(bytes) = x * 65536 + y /\ y \in Nat /\ y < 65536 /\ x \in 0..255
  <2>1. \A b \in 1..3 : bytes[b] \in Nat /\ bytes[b] <= 255
    OBVIOUS
  <2>2. /\ bytes[1] \in Nat /\ bytes[1] <= 255 /\ bytes[2] \in Nat /\ bytes[2] <= 255
        /\ bytes[3] \in Nat /\ bytes[3] <= 255
    BY <2>1
  <2> QED BY SMT, <2>2 DEF Word
<1>2. /\ Bit(x, 7) = IF x >= 128 THEN 1 ELSE 0
      /\ 2^23 = 8388608 /\ 2^24 = 16777216
  BY SMT, <1>1 DEF Bit
<1>3. fConvert24BitToFloat(bytes) = Word(bytes)
  BY FloatIsWord
<1> HIDE DEF x, y
<1>4. CASE x >= 128
  <2>1. fConvert24BitToCmpltFloat(bytes) = 8388608 - Word(bytes)
    BY SMT, <1>1, <1>2, <1>3, <1>4 DEF fConvert24BitToCmpltFloat, x
  <2>2. CS5463_fGetActivePower(bytes) = IF Word(bytes) > 8388608 THEN 16777216 - Word(bytes) ELSE 0
    BY SMT, <1>1, <1>2, <1>4, <2>1 DEF CS5463_fGetActivePower
  <2>3. Word(bytes) \in Nat /\ Word(bytes) >= 8388608 /\ Word(bytes) < 16777216
    BY SMT, <1>1, <1>4
  <2> QED BY SMT, <1>2, <2>2, <2>3 DEF Magnitude, TwosComplement
<1>5. CASE x < 128
  <2>1. fConvert24BitToCmpltFloat(bytes) = Word(bytes)
    BY SMT, <1>1, <1>2, <1>3, <1>5 DEF fConvert24BitToCmpltFloat, x
  <2>2. Word(bytes) \in Nat /\ Word(bytes) < 8388608
    BY SMT, <1>1, <1>5
  <2> QED BY SMT, <1>2, <2>1, <2>2 DEF Magnitude, TwosComplement, CS5463_fGetActivePower
<1> QED BY <1>1, <1>4, <1>5

Fields   == {"I_RMS", "V_RMS", "P_Active", "unPara"}
Settable == Registers \ {I_RMS, P_ACTIVE}

Transfers ==
    [kind : {"write", "cmd", "raw", "reset", "read", "poll"}, byte : Nat,
     from : {"word", "unPara", "saved"}, data : Words, into : Fields,
     reg : CalibRegisters \cup {None}]

(* What every transfer of a program is.                                    *)
Sound(op) ==
    /\ op \in Transfers
    /\ op.kind = "write" => /\ \E r \in Settable : op.byte = WR(r)
                            /\ op.from = "saved" => op.data \in CalibRegisters
    /\ op.kind = "cmd" => op.byte \in STARTS \cup {POWER_UP_HALT, START_CNTN_CNVS}
    /\ op.kind = "reset" => op.byte \in {0, 1}
    /\ op.kind = "raw" => op.byte <= 255
    /\ op.kind \in {"read", "poll"} =>
           \E r \in Registers : op.byte = RD(r) /\ (op.into = "I_RMS" => r = I_RMS)
    /\ op.kind = "poll" => op.byte = RD(STATUS) /\ op.into = "unPara"
    /\ op.kind # "read" => op.into # "I_RMS" /\ op.reg = None
    /\ op.reg # None => op.byte = RD(op.reg) /\ op.into = "unPara"

(* c is s and then t, of lengths m and n. *)
Joins(c, s, t, m, n) ==
    /\ Len(c) = m + n
    /\ \A i \in 1..m : c[i] = s[i]
    /\ \A i \in 1..n : c[m + i] = t[i]

LEMMA Joined ==
    \A S : \A s, t \in Seq(S) : s \o t \in Seq(S) /\ Joins(s \o t, s, t, Len(s), Len(t))
<1> TAKE S
<1> TAKE s, t \in Seq(S)
<1>1. /\ s \o t \in Seq(S) /\ Len(s \o t) = Len(s) + Len(t)
      /\ \A i \in 1..Len(s) : (s \o t)[i] = s[i]
      /\ \A i \in 1..Len(t) : (s \o t)[Len(s) + i] = t[i]
  OBVIOUS
<1> QED BY <1>1, Zenon DEF Joins

(* The registers are numbers. *)
LEMMA RegisterNumbers ==
    /\ CONFIG = 0 /\ DC_I_OFFSET = 1 /\ I_GAIN = 2 /\ DC_V_OFFSET = 3 /\ V_GAIN = 4
    /\ CYCLE_COUNT = 5 /\ PULSE_RATE = 6 /\ P_ACTIVE = 10 /\ I_RMS = 11 /\ V_RMS = 12
    /\ STATUS = 15 /\ AC_I_OFFSET = 16 /\ AC_V_OFFSET = 17 /\ MODE = 18 /\ T = 19
    /\ MASK = 26 /\ CTRL = 28
  BY DEF CONFIG, DC_I_OFFSET, I_GAIN, DC_V_OFFSET, V_GAIN, CYCLE_COUNT, PULSE_RATE,
     P_ACTIVE, I_RMS, V_RMS, STATUS, AC_I_OFFSET, AC_V_OFFSET, MODE, T, MASK, CTRL

LEMMA RegisterSets ==
    /\ Registers \subseteq 0..28 /\ CalibRegisters \subseteq Settable /\ Settable \subseteq Registers
    /\ DC_I_OFFSET \in CalibRegisters /\ I_GAIN \in CalibRegisters /\ AC_I_OFFSET \in CalibRegisters
    /\ DC_V_OFFSET \in CalibRegisters /\ V_GAIN \in CalibRegisters /\ AC_V_OFFSET \in CalibRegisters
    /\ STATUS \in Settable /\ CONFIG \in Settable /\ CYCLE_COUNT \in Settable
    /\ MASK \in Settable /\ MODE \in Settable /\ CTRL \in Settable /\ PULSE_RATE \in Settable
    /\ T \in Registers /\ V_RMS \in Registers /\ I_RMS \in Registers /\ P_ACTIVE \in Registers
    /\ STATUS \notin CalibRegisters /\ I_RMS \notin Settable /\ P_ACTIVE \notin Settable
<1>1. Registers \subseteq 0..28
  BY RegisterNumbers DEF Registers
<1>2. CalibRegisters \subseteq Registers /\ I_RMS \notin CalibRegisters /\ P_ACTIVE \notin CalibRegisters
  BY RegisterNumbers DEF Registers, CalibRegisters
<1>3. STATUS \notin CalibRegisters
  BY RegisterNumbers DEF CalibRegisters
<1>4. /\ STATUS \in Settable /\ CONFIG \in Settable /\ CYCLE_COUNT \in Settable
      /\ MASK \in Settable /\ MODE \in Settable /\ CTRL \in Settable /\ PULSE_RATE \in Settable
  BY RegisterNumbers DEF Registers, Settable
<1>5. /\ DC_I_OFFSET \in CalibRegisters /\ I_GAIN \in CalibRegisters /\ AC_I_OFFSET \in CalibRegisters
      /\ DC_V_OFFSET \in CalibRegisters /\ V_GAIN \in CalibRegisters /\ AC_V_OFFSET \in CalibRegisters
      /\ T \in Registers /\ V_RMS \in Registers /\ I_RMS \in Registers /\ P_ACTIVE \in Registers
  BY Zenon DEF CalibRegisters, Registers
<1>6. CalibRegisters \subseteq Settable /\ Settable \subseteq Registers
      /\ I_RMS \notin Settable /\ P_ACTIVE \notin Settable
  BY <1>2 DEF Settable
<1> QED BY <1>1, <1>3, <1>4, <1>5, <1>6

LEMMA WriteSound == \A r \in Settable, w \in Words : Sound(Write(r, w))
<1> TAKE r \in Settable, w \in Words
<1>1. WR(r) \in Nat
  BY RegisterSets DEF WR
<1>2. /\ Write(r, w).kind = "write" /\ Write(r, w).byte = WR(r) /\ Write(r, w).from = "word"
      /\ Write(r, w).into = "unPara" /\ Write(r, w).reg = None
      /\ Write(r, w) \in [kind : {"write"}, byte : {WR(r)}, from : {"word"},
                          data : {w}, into : {"unPara"}, reg : {None}]
  BY DEF Write, Transfer
<1>3. Write(r, w) \in Transfers
  BY <1>1, <1>2 DEF Transfers, Fields
<1> QED BY <1>2, <1>3 DEF Sound

LEMMA WriteBackSound == Sound(WriteBack(STATUS))
  BY RegisterNumbers, RegisterSets DEF Sound, WriteBack, Transfer, Transfers, WR, Words, Fields

LEMMA WriteSavedSound == \A r \in CalibRegisters : Sound(WriteSaved(r))
<1> TAKE r \in CalibRegisters
<1>1. r \in Words /\ r \in Settable /\ 0 \in Words
  <2>1. r \in 0..28 /\ r \in Settable
    BY RegisterSets, Zenon
  <2> QED BY <2>1 DEF Words
<1>2. /\ WriteSaved(r).kind = "write" /\ WriteSaved(r).byte = WR(r)
      /\ WriteSaved(r).from = "saved" /\ WriteSaved(r).data = r
      /\ WriteSaved(r).into = "unPara" /\ WriteSaved(r).reg = None
  BY DEF WriteSaved, Transfer
<1>3. WriteSaved(r) \in [kind : {"write"}, byte : {WR(r)}, from : {"word", "saved"},
                         data : {0, r}, into : {"unPara"}, reg : {None}]
  BY DEF WriteSaved, Transfer
<1>4. WR(r) \in Nat
  BY <1>1 DEF WR, Words
<1>5. WriteSaved(r) \in Transfers
  BY <1>1, <1>3, <1>4 DEF Transfers, Fields
<1> QED BY <1>1, <1>2, <1>5 DEF Sound

LEMMA CmdSound == \A b \in STARTS \cup {POWER_UP_HALT, START_CNTN_CNVS} : Sound(Cmd(b))
  BY RegisterNumbers DEF Sound, Cmd, Transfer, Transfers, Words, Fields, STARTS,
     POWER_UP_HALT, START_CNTN_CNVS

LEMMA RawSound == Sound(Raw(SYNC_0)) /\ Sound(Raw(SYNC_1))
  BY RegisterNumbers DEF Sound, Raw, Transfer, Transfers, Words, Fields, SYNC_0, SYNC_1

LEMMA ResetSound == Sound(RST(0)) /\ Sound(RST(1))
  BY RegisterNumbers DEF Sound, RST, Transfer, Transfers, Words, Fields

LEMMA ReadSound ==
    \A r \in Registers, f \in Fields : (f = "I_RMS" => r = I_RMS) => Sound(Read(r, f))
  BY RegisterSets DEF Sound, Read, Transfer, Transfers, RD, Words, Fields

LEMMA ReadStageSound == \A r \in CalibRegisters : Sound(ReadStage(r))
  BY RegisterSets, MeterAssumption DEF Sound, ReadStage, Transfer, Transfers, RD, Words, Fields

LEMMA PollSound == Sound(waitDataReady)
  BY RegisterNumbers, RegisterSets DEF Sound, waitDataReady, Transfer, Transfers, RD, Words, Fields

SoundOps == {op \in Transfers : Sound(op)}

(* The parts of the programs. *)
LEMMA BootIs ==
    /\ Boot \in Seq(SoundOps) /\ Len(Boot) = 16
    /\ Boot[1] = RST(0) /\ Boot[2] = RST(1)
    /\ Boot[3] = Raw(SYNC_1) /\ Boot[4] = Raw(SYNC_1) /\ Boot[5] = Raw(SYNC_1)
    /\ Boot[6] = Raw(SYNC_0)
    /\ Boot[7] = Write(STATUS, DRDY) /\ Boot[8] = Write(CONFIG, 1)
    /\ Boot[9] = Write(CYCLE_COUNT, 800) /\ Boot[10] = Write(MASK, 0)
    /\ Boot[11] = Write(MODE, 1) /\ Boot[12] = Read(MODE, "unPara")
    /\ Boot[13] = Write(CTRL, 0) /\ Boot[14] = Write(PULSE_RATE, 13468)
    /\ Boot[15] = Read(STATUS, "unPara") /\ Boot[16] = WriteBack(STATUS)
<1> DEFINE a == << RST(0), RST(1), Raw(SYNC_1), Raw(SYNC_1), Raw(SYNC_1), Raw(SYNC_0) >>
<1>1. /\ RST(0) \in SoundOps /\ RST(1) \in SoundOps
      /\ Raw(SYNC_0) \in SoundOps /\ Raw(SYNC_1) \in SoundOps
  BY ResetSound, RawSound DEF SoundOps, Sound
<1>2. /\ DRDY \in Words /\ 1 \in Words /\ 800 \in Words /\ 0 \in Words /\ 13468 \in Words
  <2>1. 2^23 = 8388608
    BY SMT
  <2> QED BY SMT, <2>1 DEF DRDY, Words
<1>3. /\ Write(STATUS, DRDY) \in SoundOps /\ Write(CONFIG, 1) \in SoundOps
      /\ Write(CYCLE_COUNT, 800) \in SoundOps /\ Write(MASK, 0) \in SoundOps
      /\ Write(MODE, 1) \in SoundOps /\ Write(CTRL, 0) \in SoundOps
      /\ Write(PULSE_RATE, 13468) \in SoundOps
  <2>1. \A r \in Settable, w \in Words : Write(r, w) \in SoundOps
    BY WriteSound DEF SoundOps, Sound
  <2>2. /\ STATUS \in Settable /\ CONFIG \in Settable /\ CYCLE_COUNT \in Settable
        /\ MASK \in Settable /\ MODE \in Settable /\ CTRL \in Settable /\ PULSE_RATE \in Settable
    BY RegisterSets
  <2> QED BY <1>2, <2>1, <2>2
<1>4. /\ Read(MODE, "unPara") \in SoundOps /\ Read(STATUS, "unPara") \in SoundOps
      /\ WriteBack(STATUS) \in SoundOps
  BY ReadSound, WriteBackSound, RegisterSets DEF SoundOps, Sound, Fields
<1>5. a \in Seq(SoundOps) /\ Len(a) = 6
  BY <1>1
<1>6. initCS5463 \in Seq(SoundOps) /\ Len(initCS5463) = 10
  BY <1>3, <1>4 DEF initCS5463
<1>7. /\ a[1] = RST(0) /\ a[2] = RST(1) /\ a[3] = Raw(SYNC_1) /\ a[4] = Raw(SYNC_1)
      /\ a[5] = Raw(SYNC_1) /\ a[6] = Raw(SYNC_0)
  OBVIOUS
<1>8. /\ initCS5463[1] = Write(STATUS, DRDY) /\ initCS5463[2] = Write(CONFIG, 1)
      /\ initCS5463[3] = Write(CYCLE_COUNT, 800) /\ initCS5463[4] = Write(MASK, 0)
      /\ initCS5463[5] = Write(MODE, 1) /\ initCS5463[6] = Read(MODE, "unPara")
      /\ initCS5463[7] = Write(CTRL, 0) /\ initCS5463[8] = Write(PULSE_RATE, 13468)
      /\ initCS5463[9] = Read(STATUS, "unPara") /\ initCS5463[10] = WriteBack(STATUS)
  BY DEF initCS5463
<1>9. Boot = a \o initCS5463
  BY DEF Boot
<1> HIDE DEF a
<1>10. Boot \in Seq(SoundOps) /\ Joins(Boot, a, initCS5463, 6, 10)
  BY <1>5, <1>6, <1>9, Joined, Zenon
<1>11. /\ Boot[1] = a[1] /\ Boot[2] = a[2] /\ Boot[3] = a[3] /\ Boot[4] = a[4]
       /\ Boot[5] = a[5] /\ Boot[6] = a[6]
       /\ Boot[7] = initCS5463[1] /\ Boot[8] = initCS5463[2] /\ Boot[9] = initCS5463[3]
       /\ Boot[10] = initCS5463[4] /\ Boot[11] = initCS5463[5] /\ Boot[12] = initCS5463[6]
       /\ Boot[13] = initCS5463[7] /\ Boot[14] = initCS5463[8] /\ Boot[15] = initCS5463[9]
       /\ Boot[16] = initCS5463[10]
  BY <1>10 DEF Joins
<1>12. Len(Boot) = 16
  BY <1>10 DEF Joins
<1> QED BY <1>7, <1>8, <1>10, <1>11, <1>12

LEMMA writeCS5463CalibIs ==
    /\ writeCS5463Calib \in Seq(SoundOps) /\ Len(writeCS5463Calib) = 6
    /\ writeCS5463Calib[1] = WriteSaved(DC_V_OFFSET) /\ writeCS5463Calib[2] = WriteSaved(V_GAIN)
    /\ writeCS5463Calib[3] = WriteSaved(AC_V_OFFSET) /\ writeCS5463Calib[4] = WriteSaved(DC_I_OFFSET)
    /\ writeCS5463Calib[5] = WriteSaved(I_GAIN) /\ writeCS5463Calib[6] = WriteSaved(AC_I_OFFSET)
<1>1. \A r \in CalibRegisters : WriteSaved(r) \in SoundOps
  BY WriteSavedSound DEF SoundOps, Sound
<1>2. /\ DC_V_OFFSET \in CalibRegisters /\ V_GAIN \in CalibRegisters
      /\ AC_V_OFFSET \in CalibRegisters /\ DC_I_OFFSET \in CalibRegisters
      /\ I_GAIN \in CalibRegisters /\ AC_I_OFFSET \in CalibRegisters
  BY RegisterSets
<1> QED BY <1>1, <1>2 DEF writeCS5463Calib

LEMMA MeasuresIs ==
    /\ Measures \in Seq(SoundOps) /\ Len(Measures) = 5
    /\ \A i \in 1..5 : Measures[i].kind = "read" /\ Measures[i].reg = None
    /\ Measures[3] = Read(I_RMS, "I_RMS")
    /\ \A i \in 1..5 : Measures[i].into = "I_RMS" => i = 3
<1>1. /\ Read(T, "unPara") \in SoundOps /\ Read(STATUS, "unPara") \in SoundOps
      /\ Read(I_RMS, "I_RMS") \in SoundOps /\ Read(V_RMS, "V_RMS") \in SoundOps
      /\ Read(P_ACTIVE, "P_Active") \in SoundOps
  BY ReadSound, RegisterSets, RegisterNumbers DEF SoundOps, Sound, Fields
<1>2. \A r, f : Read(r, f).kind = "read" /\ Read(r, f).reg = None /\ Read(r, f).into = f
  BY DEF Read, Transfer
<1> QED BY <1>1, <1>2 DEF Measures

LEMMA StageIs ==
    ASSUME NEW r \in CalibRegisters, NEW c \in STARTS, NEW w \in Words
    PROVE  /\ Stage(r, c, w) \in Seq(SoundOps) /\ Len(Stage(r, c, w)) = 7
           /\ Stage(r, c, w)[1] = clearDRDY /\ Stage(r, c, w)[2] = Cmd(POWER_UP_HALT)
           /\ Stage(r, c, w)[3] = Write(r, w) /\ Stage(r, c, w)[4] = Cmd(c)
           /\ Stage(r, c, w)[5] = waitDataReady /\ Stage(r, c, w)[6] = ReadStage(r)
           /\ Stage(r, c, w)[7] = Cmd(START_CNTN_CNVS)
<1>1. /\ clearDRDY \in SoundOps /\ Write(r, w) \in SoundOps
  <2>1. 16777215 \in Words
    BY SMT DEF Words
  <2>2. r \in Settable /\ STATUS \in Settable
    BY RegisterSets
  <2> QED BY <2>1, <2>2, WriteSound DEF SoundOps, Sound, clearDRDY
<1>2. /\ Cmd(POWER_UP_HALT) \in SoundOps /\ Cmd(c) \in SoundOps /\ Cmd(START_CNTN_CNVS) \in SoundOps
  BY CmdSound DEF SoundOps, Sound
<1>3. waitDataReady \in SoundOps /\ ReadStage(r) \in SoundOps
  BY PollSound, ReadStageSound DEF SoundOps, Sound
<1> QED BY <1>1, <1>2, <1>3 DEF Stage

LEMMA RoutineIs ==
    /\ CS5463IF_Routine \in Seq(SoundOps) /\ Len(CS5463IF_Routine) = 28
    /\ \A i \in 1..16 : CS5463IF_Routine[i] = Boot[i]
    /\ \A i \in 1..6 : CS5463IF_Routine[16 + i] = writeCS5463Calib[i]
    /\ CS5463IF_Routine[23] = Cmd(START_CNTN_CNVS)
    /\ \A i \in 1..5 : CS5463IF_Routine[23 + i] = Measures[i]
<1> DEFINE a == Boot \o writeCS5463Calib
           s == <<Cmd(START_CNTN_CNVS)>>
           b == a \o s
<1>1. s \in Seq(SoundOps) /\ Len(s) = 1 /\ s[1] = Cmd(START_CNTN_CNVS)
  BY CmdSound DEF SoundOps, Sound
<1>2. a \in Seq(SoundOps) /\ Joins(a, Boot, writeCS5463Calib, 16, 6)
  <2>1. /\ Boot \in Seq(SoundOps) /\ Len(Boot) = 16
        /\ writeCS5463Calib \in Seq(SoundOps) /\ Len(writeCS5463Calib) = 6
    BY BootIs, writeCS5463CalibIs
  <2> QED BY <2>1, Joined, Zenon
<1>3. Len(a) = 22
  BY <1>2 DEF Joins
<1> HIDE DEF s, a
<1>4. b \in Seq(SoundOps) /\ Joins(b, a, s, 22, 1)
  BY <1>1, <1>2, <1>3, Joined, Zenon
<1>5. Len(b) = 23
  BY <1>4 DEF Joins
<1>6. CS5463IF_Routine = b \o Measures
  BY DEF CS5463IF_Routine, a, s
<1> HIDE DEF b
<1>7. CS5463IF_Routine \in Seq(SoundOps) /\ Joins(CS5463IF_Routine, b, Measures, 23, 5)
  <2>1. Measures \in Seq(SoundOps) /\ Len(Measures) = 5
    BY MeasuresIs
  <2> QED BY <1>4, <1>5, <1>6, <2>1, Joined, Zenon
<1>8. Len(CS5463IF_Routine) = 28 /\ \A i \in 1..5 : CS5463IF_Routine[23 + i] = Measures[i]
  BY <1>7 DEF Joins
<1>9. \A i \in 1..23 : CS5463IF_Routine[i] = b[i]
  BY <1>7, Zenon DEF Joins
<1>10. b[23] = s[1] /\ \A i \in 1..22 : b[i] = a[i]
  BY <1>4 DEF Joins
<1>11. /\ \A i \in 1..16 : a[i] = Boot[i]
       /\ \A i \in 1..6 : a[16 + i] = writeCS5463Calib[i]
  BY <1>2, Zenon DEF Joins
<1>12. \A i \in 1..16 : CS5463IF_Routine[i] = Boot[i]
  BY <1>9, <1>10, <1>11
<1>13. \A i \in 1..6 : CS5463IF_Routine[16 + i] = writeCS5463Calib[i]
  <2> TAKE i \in 1..6
  <2>1. 16 + i \in 1..22 /\ 16 + i \in 1..23
    OBVIOUS
  <2> QED BY <2>1, <1>9, <1>10, <1>11
<1>14. CS5463IF_Routine[23] = Cmd(START_CNTN_CNVS)
  BY <1>1, <1>9, <1>10, SMTT(30)
<1> QED BY <1>7, <1>8, <1>12, <1>13, <1>14

(* The stages of a calibration: register, command, and value to start from. *)
StageReg   == <<DC_I_OFFSET, I_GAIN, AC_I_OFFSET, DC_V_OFFSET, V_GAIN, AC_V_OFFSET>>
StageCmd   == <<201, 206, 205, 209, 214, 213>>
StageFirst == <<4194304, 4194304, 0, 0, 4194304, 0>>
StageNo(j) == Stage(StageReg[j], StageCmd[j], StageFirst[j])

LEMMA StageTypes ==
    ASSUME NEW j \in 1..6
    PROVE  /\ StageReg[j] \in CalibRegisters /\ StageCmd[j] \in STARTS
           /\ StageFirst[j] \in Words /\ StageOf(StageCmd[j]) = StageReg[j]
<1>1. StageReg[j] \in CalibRegisters
  BY RegisterSets DEF StageReg
<1>2. StageCmd[j] \in STARTS
  BY DEF StageCmd, STARTS
<1>3. StageFirst[j] \in Words
  <2>1. StageFirst[j] \in {0, 4194304}
    BY DEF StageFirst
  <2>2. 0 \in Words /\ 4194304 \in Words
    BY SMT DEF Words
  <2> QED BY <2>1, <2>2
<1>4. StageOf(StageCmd[j]) = StageReg[j]
  BY DEF StageOf, StageCmd, StageReg
<1> QED BY <1>1, <1>2, <1>3, <1>4

LEMMA CalibIs ==
    /\ CS5463IF_Calib \in Seq(SoundOps) /\ Len(CS5463IF_Calib) = 59
    /\ \A i \in 1..16 : CS5463IF_Calib[i] = Boot[i]
    /\ CS5463IF_Calib[17] = Cmd(START_CNTN_CNVS)
    /\ \A j \in 1..6, k \in 1..7 : CS5463IF_Calib[10 + 7 * j + k] = StageNo(j)[k]
<1> DEFINE s  == <<Cmd(START_CNTN_CNVS)>>
           p1 == Stage(DC_I_OFFSET, 201, 4194304)
           p2 == Stage(I_GAIN, 206, 4194304)
           p3 == Stage(AC_I_OFFSET, 205, 0)
           p4 == Stage(DC_V_OFFSET, 209, 0)
           p5 == Stage(V_GAIN, 214, 4194304)
           p6 == Stage(AC_V_OFFSET, 213, 0)
           c0 == Boot \o s
           c1 == c0 \o p1
           c2 == c1 \o p2
           c3 == c2 \o p3
           c4 == c3 \o p4
           c5 == c4 \o p5
           c6 == c5 \o p6
<1>e. CS5463IF_Calib = c6
  BY DEF CS5463IF_Calib
<1>s. /\ StageNo(1) = p1 /\ StageNo(2) = p2 /\ StageNo(3) = p3
      /\ StageNo(4) = p4 /\ StageNo(5) = p5 /\ StageNo(6) = p6
  BY SMT DEF StageNo, StageReg, StageCmd, StageFirst
<1> HIDE DEF p1, p2, p3, p4, p5, p6
<1>t. /\ p1 \in Seq(SoundOps) /\ Len(p1) = 7 /\ p2 \in Seq(SoundOps) /\ Len(p2) = 7
      /\ p3 \in Seq(SoundOps) /\ Len(p3) = 7 /\ p4 \in Seq(SoundOps) /\ Len(p4) = 7
      /\ p5 \in Seq(SoundOps) /\ Len(p5) = 7 /\ p6 \in Seq(SoundOps) /\ Len(p6) = 7
  <2>1. \A j \in 1..6 : StageNo(j) \in Seq(SoundOps) /\ Len(StageNo(j)) = 7
    <3> TAKE j \in 1..6
    <3>1. StageReg[j] \in CalibRegisters /\ StageCmd[j] \in STARTS /\ StageFirst[j] \in Words
      BY StageTypes
    <3> QED BY <3>1, StageIs DEF StageNo
  <2> QED BY <2>1, <1>s
<1>1. s \in Seq(SoundOps) /\ Len(s) = 1 /\ s[1] = Cmd(START_CNTN_CNVS)
  BY CmdSound DEF SoundOps, Sound
<1> HIDE DEF s
<1>2. c0 \in Seq(SoundOps) /\ Joins(c0, Boot, s, 16, 1)
  <2>1. Boot \in Seq(SoundOps) /\ Len(Boot) = 16
    BY BootIs
  <2> QED BY <1>1, <2>1, Joined, Zenon
<1> HIDE DEF c0
<1>l0. Len(c0) = 17
  BY <1>2 DEF Joins
<1>4. c1 \in Seq(SoundOps) /\ Joins(c1, c0, p1, 17, 7)
  BY <1>2, <1>l0, <1>t, Joined, Zenon
<1> HIDE DEF c1
<1>l1. Len(c1) = 24
  BY <1>4 DEF Joins
<1>5. c2 \in Seq(SoundOps) /\ Joins(c2, c1, p2, 24, 7)
  BY <1>4, <1>l1, <1>t, Joined, Zenon
<1> HIDE DEF c2
<1>l2. Len(c2) = 31
  BY <1>5 DEF Joins
<1>6. c3 \in Seq(SoundOps) /\ Joins(c3, c2, p3, 31, 7)
  BY <1>5, <1>l2, <1>t, Joined, Zenon
<1> HIDE DEF c3
<1>l3. Len(c3) = 38
  BY <1>6 DEF Joins
<1>7. c4 \in Seq(SoundOps) /\ Joins(c4, c3, p4, 38, 7)
  BY <1>6, <1>l3, <1>t, Joined, Zenon
<1> HIDE DEF c4
<1>l4. Len(c4) = 45
  BY <1>7 DEF Joins
<1>8. c5 \in Seq(SoundOps) /\ Joins(c5, c4, p5, 45, 7)
  BY <1>7, <1>l4, <1>t, Joined, Zenon
<1> HIDE DEF c5
<1>l5. Len(c5) = 52
  BY <1>8 DEF Joins
<1>9. c6 \in Seq(SoundOps) /\ Joins(c6, c5, p6, 52, 7)
  BY <1>8, <1>l5, <1>t, Joined, ZenonT(60)
<1> HIDE DEF c6
<1>l6. Len(c6) = 59
  BY <1>9 DEF Joins
<1>10. /\ \A i \in 1..52 : c6[i] = c5[i]
       /\ \A i \in 1..45 : c5[i] = c4[i]
       /\ \A i \in 1..38 : c4[i] = c3[i]
       /\ \A i \in 1..31 : c3[i] = c2[i]
       /\ \A i \in 1..24 : c2[i] = c1[i]
       /\ \A i \in 1..17 : c1[i] = c0[i]
  BY <1>4, <1>5, <1>6, <1>7, <1>8, <1>9, Zenon DEF Joins
<1>11. /\ \A k \in 1..7 : c6[52 + k] = p6[k]
       /\ \A k \in 1..7 : c5[45 + k] = p5[k]
       /\ \A k \in 1..7 : c4[38 + k] = p4[k]
       /\ \A k \in 1..7 : c3[31 + k] = p3[k]
       /\ \A k \in 1..7 : c2[24 + k] = p2[k]
       /\ \A k \in 1..7 : c1[17 + k] = p1[k]
  BY <1>4, <1>5, <1>6, <1>7, <1>8, <1>9, Zenon DEF Joins
<1>12. \A i \in 1..17 : c6[i] = c0[i]
  BY <1>10
<1>13. (\A i \in 1..16 : c0[i] = Boot[i]) /\ c0[17] = s[1]
  BY <1>2 DEF Joins
<1>14. \A k \in 1..7 : /\ c6[17 + k] = StageNo(1)[k] /\ c6[24 + k] = StageNo(2)[k]
                       /\ c6[31 + k] = StageNo(3)[k] /\ c6[38 + k] = StageNo(4)[k]
                       /\ c6[45 + k] = StageNo(5)[k] /\ c6[52 + k] = StageNo(6)[k]
  <2> TAKE k \in 1..7
  <2>1. /\ 17 + k \in 1..24 /\ 17 + k \in 1..31 /\ 17 + k \in 1..38 /\ 17 + k \in 1..45 /\ 17 + k \in 1..52
        /\ 24 + k \in 1..31 /\ 24 + k \in 1..38 /\ 24 + k \in 1..45 /\ 24 + k \in 1..52
        /\ 31 + k \in 1..38 /\ 31 + k \in 1..45 /\ 31 + k \in 1..52
        /\ 38 + k \in 1..45 /\ 38 + k \in 1..52 /\ 45 + k \in 1..52
    OBVIOUS
  <2>2. /\ c6[17 + k] = p1[k] /\ c6[24 + k] = p2[k] /\ c6[31 + k] = p3[k]
        /\ c6[38 + k] = p4[k] /\ c6[45 + k] = p5[k] /\ c6[52 + k] = p6[k]
    BY <2>1, <1>10, <1>11
  <2> QED BY <2>2, <1>s
<1>15. \A j \in 1..6, k \in 1..7 : c6[10 + 7 * j + k] = StageNo(j)[k]
  <2> TAKE j \in 1..6, k \in 1..7
  <2>1. /\ c6[17 + k] = StageNo(1)[k] /\ c6[24 + k] = StageNo(2)[k]
        /\ c6[31 + k] = StageNo(3)[k] /\ c6[38 + k] = StageNo(4)[k]
        /\ c6[45 + k] = StageNo(5)[k] /\ c6[52 + k] = StageNo(6)[k]
    BY <1>14
  <2>2. CASE j = 1
    BY <2>1, <2>2
  <2>3. CASE j = 2
    BY <2>1, <2>3
  <2>4. CASE j = 3
    BY <2>1, <2>4
  <2>5. CASE j = 4
    BY <2>1, <2>5
  <2>6. CASE j = 5
    BY <2>1, <2>6
  <2>7. CASE j = 6
    BY <2>1, <2>7
  <2> QED BY <2>2, <2>3, <2>4, <2>5, <2>6, <2>7
<1>16. (\A i \in 1..16 : c6[i] = Boot[i]) /\ c6[17] = Cmd(START_CNTN_CNVS)
  BY <1>1, <1>12, <1>13
<1> QED BY <1>9, <1>l6, <1>15, <1>16, <1>e

(* The pins: the records they are. *)
AllPins  == Pins \cup {"CS"}
PinsType == [out : SUBSET AllPins, enabled : SUBSET AllPins, pullup : SUBSET AllPins,
             drain : SUBSET AllPins, sigma : SUBSET AllPins, intr : [Pins -> {"DISABLE"}]]
Driven   == {"RST", "MOSI", "CLK", "CS"}

LEMMA GpioSets ==
    ASSUME NEW p \in PinsType, NEW pin \in {"RST", "MOSI", "CLK"}, NEW bit \in {0, 1}
    PROVE  /\ GPIO_OUTPUT_SET(p, pin, bit) \in PinsType
           /\ GPIO_OUTPUT_SET(p, pin, bit).out = IF bit = 1 THEN p.out \cup {pin} ELSE p.out \ {pin}
           /\ GPIO_OUTPUT_SET(p, pin, bit).enabled = p.enabled \cup {pin}
  BY DEF GPIO_OUTPUT_SET, gpio_output_conf, PinsType, AllPins, Pins

LEMMA ChipSelects ==
    ASSUME NEW p \in PinsType
    PROVE  /\ CS5463_SELECT(p) \in PinsType /\ CS5463_DESELECT(p) \in PinsType
           /\ CS5463_SELECT(p).out = p.out \ {"CS"} /\ CS5463_DESELECT(p).out = p.out \cup {"CS"}
           /\ CS5463_SELECT(p).enabled = p.enabled /\ CS5463_DESELECT(p).enabled = p.enabled
  BY DEF CS5463_SELECT, CS5463_DESELECT, gpio16_output_set, PinsType, AllPins

(* q is p with one more pin, or one less, that is driven. *)
Drives(q, p, m, pin) ==
    /\ q \in PinsType
    /\ q.enabled = IF m = "Output" THEN p.enabled \cup {pin} ELSE p.enabled \ {pin}

LEMMA ConfiguresPin ==
    ASSUME NEW p \in PinsType, NEW pin \in Pins, NEW m \in {"Output", "Input"}, NEW c,
           c = [mode |-> m, pins |-> {pin}, pullup |-> FALSE, intr |-> "DISABLE"]
    PROVE  Drives(gpio_config(p, c), p, m, pin)
<1>c. c.mode = m /\ c.pins = {pin} /\ c.pullup = FALSE /\ c.intr = "DISABLE"
  OBVIOUS
<1> DEFINE enable  == IF c.mode = "Output" THEN c.pins ELSE {}
           disable == IF c.mode = "Input" THEN c.pins ELSE {}
           q == gpio_output_conf(p, {}, {}, enable, disable)
           e == [q EXCEPT !.pullup = IF c.pullup THEN @ \cup c.pins ELSE @ \ c.pins,
                          !.drain  = IF c.mode = "Out_OD" THEN @ \cup c.pins ELSE @,
                          !.sigma  = IF c.mode = "Sigma_Delta" THEN @ \cup c.pins ELSE @,
                          !.intr   = [i \in Pins |-> IF i \in c.pins THEN c.intr ELSE @[i]]]
<1>1. enable \in SUBSET AllPins /\ disable \in SUBSET AllPins /\ {} \in SUBSET AllPins
  BY <1>c DEF AllPins
<1>2. (p.enabled \cup enable) \ disable =
          IF m = "Output" THEN p.enabled \cup {pin} ELSE p.enabled \ {pin}
  BY <1>c
<1>e. gpio_config(p, c) = e
  BY DEF gpio_config
<1> HIDE DEF enable, disable
<1>3. q \in PinsType /\ q.enabled = (p.enabled \cup enable) \ disable
  BY <1>1 DEF gpio_output_conf, PinsType
<1> HIDE DEF q
<1>4. e \in PinsType /\ e.enabled = q.enabled
  BY <1>3, <1>c, ZenonT(60) DEF PinsType, AllPins
<1> HIDE DEF e
<1> QED BY <1>2, <1>3, <1>4, <1>e DEF Drives

LEMMA PinsAtStart ==
    /\ CS5463IF_Init(Reset) \in PinsType
    /\ CS5463IF_Init(Reset).enabled = Driven
    /\ "CS" \in CS5463IF_Init(Reset).out
<1> DEFINE conf(m, pin) == [mode |-> m, pins |-> {pin}, pullup |-> FALSE, intr |-> "DISABLE"]
           a == gpio_config(Reset, conf("Output", "RST"))
           b == gpio_config(a, conf("Output", "MOSI"))
           c == gpio_config(b, conf("Output", "CLK"))
           d == gpio_config(c, conf("Input", "MISO"))
<1>1. Reset \in PinsType /\ Reset.enabled = {}
  BY DEF Reset, PinsType
<1>2. ASSUME NEW p \in PinsType, NEW pin \in Pins, NEW m \in {"Output", "Input"}
      PROVE  Drives(gpio_config(p, conf(m, pin)), p, m, pin)
  BY ConfiguresPin
<1>3. "RST" \in Pins /\ "MOSI" \in Pins /\ "CLK" \in Pins /\ "MISO" \in Pins
  BY DEF Pins
<1>e. CS5463IF_Init(Reset) = gpio16_output_set(gpio16_output_conf(d), 1)
  BY DEF CS5463IF_Init
<1> HIDE DEF conf
<1>4. Drives(a, Reset, "Output", "RST")
  BY <1>1, <1>2, <1>3
<1>5. Drives(b, a, "Output", "MOSI")
  BY <1>4, <1>2, <1>3 DEF Drives
<1>6. Drives(c, b, "Output", "CLK")
  BY <1>5, <1>2, <1>3 DEF Drives
<1>7. Drives(d, c, "Input", "MISO")
  BY <1>6, <1>2, <1>3 DEF Drives
<1> HIDE DEF a, b, c, d
<1>8. d \in PinsType /\ d.enabled = {"RST", "MOSI", "CLK"}
  BY <1>1, <1>4, <1>5, <1>6, <1>7 DEF Drives
<1>9. gpio16_output_conf(d) \in PinsType /\ gpio16_output_conf(d).enabled = Driven
  BY <1>8 DEF gpio16_output_conf, PinsType, AllPins, Driven
<1> QED BY <1>9, <1>e DEF gpio16_output_set, PinsType, AllPins

(* The chip: the record it is. *)
ChipType == [regs : [Registers -> Words], to : Registers \cup {None}, sh : Seq({0, 1}),
             out : Seq({0, 1}), running : BOOLEAN, calibrating : CalibRegisters \cup {None}]

(* What a command does. *)
LEMMA CommandedIs ==
    ASSUME NEW c \in ChipType, c.to = None
    PROVE  /\ Commanded(c, START_CNTN_CNVS) = [c EXCEPT !.sh = <<>>, !.running = TRUE]
           /\ Commanded(c, POWER_UP_HALT) =
                  [c EXCEPT !.sh = <<>>, !.running = FALSE, !.calibrating = None]
           /\ \A cmd \in STARTS :
                  Commanded(c, cmd) = [c EXCEPT !.sh = <<>>, !.calibrating = StageOf(cmd)]
           /\ \A r \in Registers :
                  /\ Commanded(c, RD(r)) = [c EXCEPT !.sh = <<>>, !.out = WordBits(c.regs[r])]
                  /\ Commanded(c, WR(r)) = [c EXCEPT !.sh = <<>>, !.to = r]
           /\ Commanded(c, 255) = [c EXCEPT !.sh = <<>>]
<1>1. START_CNTN_CNVS = 232 /\ POWER_UP_HALT = 160 /\ STARTS = {201, 205, 206, 209, 213, 214}
  BY DEF START_CNTN_CNVS, POWER_UP_HALT, STARTS
<1>2. Commanded(c, START_CNTN_CNVS) = [c EXCEPT !.sh = <<>>, !.running = TRUE]
  BY <1>1 DEF Commanded
<1>3. Commanded(c, POWER_UP_HALT) = [c EXCEPT !.sh = <<>>, !.running = FALSE, !.calibrating = None]
  BY <1>1 DEF Commanded
<1>4. ASSUME NEW cmd \in STARTS
      PROVE  Commanded(c, cmd) = [c EXCEPT !.sh = <<>>, !.calibrating = StageOf(cmd)]
  <2>1. cmd # 232 /\ cmd # 160 /\ cmd \notin 64..127 /\ ~(cmd < 64) /\ cmd \in Nat
    BY <1>1
  <2>2. cmd # START_CNTN_CNVS /\ cmd # POWER_UP_HALT
    BY <1>1, <2>1
  <2> QED BY <2>1, <2>2 DEF Commanded
<1>5. ASSUME NEW r \in Registers
      PROVE  /\ Commanded(c, RD(r)) = [c EXCEPT !.sh = <<>>, !.out = WordBits(c.regs[r])]
             /\ Commanded(c, WR(r)) = [c EXCEPT !.sh = <<>>, !.to = r]
  <2>1. r \in 0..28
    BY RegisterSets
  <2>2. RD(r) \in 0..63 /\ RD(r) \div 2 = r /\ WR(r) \in 64..127 /\ (WR(r) - 64) \div 2 = r
    BY <2>1 DEF RD, WR
  <2>3. RD(r) # 232 /\ RD(r) # 160 /\ RD(r) \notin STARTS /\ RD(r) < 64
    BY <2>2, <1>1
  <2>4. WR(r) # 232 /\ WR(r) # 160 /\ WR(r) \notin STARTS /\ ~(WR(r) < 64)
    BY <2>2, <1>1
  <2>5. Commanded(c, RD(r)) = [c EXCEPT !.sh = <<>>, !.out = WordBits(c.regs[r])]
    <3>1. RD(r) # START_CNTN_CNVS /\ RD(r) # POWER_UP_HALT /\ RD(r) \notin 64..127
      BY <2>2, <2>3, <1>1
    <3> QED BY <2>2, <2>3, <3>1 DEF Commanded
  <2>6. Commanded(c, WR(r)) = [c EXCEPT !.sh = <<>>, !.to = r]
    <3>1. WR(r) # START_CNTN_CNVS /\ WR(r) # POWER_UP_HALT
      BY <2>2, <2>4, <1>1
    <3> QED BY <2>2, <2>4, <3>1 DEF Commanded
  <2> QED BY <2>5, <2>6
<1>6. Commanded(c, 255) = [c EXCEPT !.sh = <<>>]
  BY <1>1 DEF Commanded
<1> QED BY <1>2, <1>3, <1>4, <1>5, <1>6

LEMMA WordBitsType ==
    ASSUME NEW w \in Words
    PROVE  WordBits(w) \in Seq({0, 1}) /\ Len(WordBits(w)) = 24
           /\ \A j \in 1..24 : WordBits(w)[j] = Bit(w, 24 - j)
<1>1. \A j \in 1..24 : Bit(w, 24 - j) \in {0, 1}
  BY BitIsBit DEF Words
<1> QED BY <1>1 DEF WordBits

Octets == {b \in Nat : b <= 255}

MeterTypes ==
    /\ pins \in PinsType /\ pins.enabled = Driven
    /\ mode \in {"calib", "routine"} /\ step \in 1..Len(Program) /\ polls \in 1..POLLS
    /\ bus \in [at : {"idle", "send", "recv", "end"}, n : 0..31]
    /\ mem \in [Fields -> [1..3 -> Octets]] /\ saved \in [CalibRegisters -> Words]
    /\ plugStatus \in {"OPEN", "CLOSE"} /\ chip \in ChipType
    /\ last \in Words /\ incoming \in Words /\ early \in BOOLEAN

(* Where a transfer can be, and the pins meanwhile. *)
Placed ==
    /\ bus.at # "idle" => Op.kind # "reset"
    /\ bus.at = "send" => bus.n < Length
    /\ bus.at = "recv" => Reads /\ bus.n <= 23
    /\ "CS" \in pins.out <=> bus.at = "idle" \/ Op.kind = "raw"
    /\ bus.at = "recv" => "MOSI" \in pins.out

(* What the chip has taken of a transfer that is being sent... *)
Sending ==
    bus.at = "send" =>
        /\ chip.out = <<>>
        /\ Op.kind = "raw" => chip.sh = <<>> /\ chip.to = None
        /\ Op.kind # "raw" /\ bus.n < 8 =>
               /\ chip.to = None /\ Len(chip.sh) = bus.n
               /\ \A j \in 1..bus.n : chip.sh[j] = Bit(Op.byte, 8 - j)
        /\ Op.kind # "raw" /\ bus.n >= 8 =>
               /\ chip.to \in Settable /\ WR(chip.to) = Op.byte /\ Len(chip.sh) = bus.n - 8
               /\ \A j \in 1..(bus.n - 8) : chip.sh[j] = Bit(Data, 24 - j)

(* ...and while it answers. *)
Quiet ==
    /\ bus.at \in {"idle", "end"} => chip.sh = <<>> /\ chip.to = None /\ chip.out = <<>>
    /\ bus.at = "recv" => /\ chip.to = None /\ Len(chip.sh) = bus.n % 8
                          /\ \A j \in 1..(bus.n % 8) : chip.sh[j] = 1

LEMMA OpSound ==
    ASSUME mode \in {"calib", "routine"}, step \in 1..Len(Program)
    PROVE  Sound(Op) /\ Program \in Seq(SoundOps)
<1>1. Program \in Seq(SoundOps)
  BY RoutineIs, CalibIs DEF Program
<1>2. Op \in SoundOps
  BY <1>1 DEF Op
<1> QED BY <1>1, <1>2 DEF SoundOps

LEMMA OpBytes ==
    ASSUME Sound(Op)
    PROVE  /\ Op.kind # "reset" => Op.byte \in 0..255
           /\ Op.kind \in {"write", "cmd", "raw", "reset", "read", "poll"}
           /\ Length = IF Op.kind = "write" THEN 32 ELSE 8
           /\ Reads <=> Op.kind \in {"read", "poll"}
<1>1. Op.kind = "write" => Op.byte \in 0..255
  <2>1. \A r \in Settable : WR(r) \in 0..255
    <3>1. \A r \in 0..28 : WR(r) \in 0..255
      BY DEF WR
    <3> QED BY <3>1, RegisterSets
  <2> QED BY <2>1 DEF Sound
<1>2. Op.kind \in {"read", "poll"} => Op.byte \in 0..255
  <2>1. \A r \in Registers : RD(r) \in 0..255
    <3>1. \A r \in 0..28 : RD(r) \in 0..255
      BY DEF RD
    <3> QED BY <3>1, RegisterSets
  <2> QED BY <2>1 DEF Sound
<1>3. Op.kind = "cmd" => Op.byte \in 0..255
  <2>1. STARTS \cup {POWER_UP_HALT, START_CNTN_CNVS} = {201, 205, 206, 209, 213, 214, 160, 232}
    BY DEF STARTS, POWER_UP_HALT, START_CNTN_CNVS
  <2>2. Op.kind = "cmd" => Op.byte \in {201, 205, 206, 209, 213, 214, 160, 232}
    BY <2>1, Zenon DEF Sound
  <2> QED BY <2>2
<1>4. Op.kind = "raw" => Op.byte \in 0..255
  BY DEF Sound, Transfers
<1>5. Op.kind \in {"write", "cmd", "raw", "reset", "read", "poll"}
  BY DEF Sound, Transfers
<1> QED BY <1>1, <1>2, <1>3, <1>4, <1>5 DEF Length, Reads

LEMMA DataIsWord ==
    ASSUME MeterTypes, Sound(Op), Op.kind = "write"
    PROVE  Data \in Words
<1>1. Op.from \in {"word", "unPara", "saved"} /\ Op.data \in Words
  BY DEF Sound, Transfers
<1>2. CASE Op.from = "word"
  BY <1>1, <1>2 DEF Data
<1>3. CASE Op.from = "unPara"
  <2>1. Word(mem.unPara) \in Words
    <3>1. mem.unPara[1] \in Octets /\ mem.unPara[2] \in Octets /\ mem.unPara[3] \in Octets
      BY DEF MeterTypes, Fields
    <3> QED BY SMT, <3>1 DEF Octets, Word, Words
  <2> QED BY <2>1, <1>3 DEF Data
<1>4. CASE Op.from = "saved"
  BY <1>4 DEF Data, DAT_unGet, MeterTypes, Sound
<1> QED BY <1>1, <1>2, <1>3, <1>4

(* A bit of a transfer. *)
LEMMA SentIs ==
    ASSUME MeterTypes, Sound(Op), Op.kind # "reset", NEW k \in 0..31, k < Length
    PROVE  /\ Sent(k) \in {0, 1}
           /\ k < 8 => Sent(k) = Bit(Op.byte, 7 - k)
           /\ k >= 8 => Sent(k) = Bit(Data, 31 - k)
<1>1. CASE k < 8
  <2>1. Sent(k) = Bit(Op.byte, 7 - k) /\ 7 - k \in 0..23
    BY <1>1 DEF Sent
  <2>2. Op.byte \in Nat
    BY OpBytes
  <2> QED BY <1>1, <2>1, <2>2, BitIsBit
<1>2. CASE k >= 8
  <2>1. Sent(k) = Bit(Data, 31 - k) /\ 31 - k \in 0..23
    BY <1>2 DEF Sent
  <2>2. Op.kind = "write"
    BY <1>2, OpBytes
  <2>3. Data \in Nat
    BY <2>2, DataIsWord DEF Words
  <2> QED BY <1>2, <2>1, <2>3, BitIsBit
<1> QED BY <1>1, <1>2

(* A clock pulse at the chip, when it is selected. *)
LEMMA ClockedIs ==
    ASSUME NEW c \in ChipType, NEW p \in PinsType, p.enabled = Driven, "CS" \notin p.out
    PROVE  /\ c.out = <<>> => Clocked(c, p) = Rises(c, IF "MOSI" \in p.out THEN 1 ELSE 0)
           /\ c.out # <<>> => Clocked(c, p) = Rises([c EXCEPT !.out = Tail(@)],
                                                    IF "MOSI" \in p.out THEN 1 ELSE 0)
<1>1. Selected(p)
  BY DEF Selected, Driven
<1>2. c.out = <<>> => [c EXCEPT !.out = <<>>] = c
  BY DEF ChipType
<1>3. CASE c.out = <<>>
  BY <1>1, <1>2, <1>3 DEF Clocked
<1>4. CASE c.out # <<>>
  BY <1>1, <1>4 DEF Clocked
<1> QED BY <1>3, <1>4

LEMMA RisesIs ==
    ASSUME NEW c \in ChipType, NEW bit \in {0, 1}
    PROVE  /\ c.to = None /\ Len(c.sh) < 7 => Rises(c, bit) = [c EXCEPT !.sh = Append(@, bit)]
           /\ c.to # None /\ Len(c.sh) < 23 => Rises(c, bit) = [c EXCEPT !.sh = Append(@, bit)]
           /\ c.to = None /\ Len(c.sh) = 7 => Rises(c, bit) = Commanded(c, Byte(Append(c.sh, bit)))
           /\ c.to # None /\ Len(c.sh) = 23 => Rises(c, bit) = Written(c, Decoded(Append(c.sh, bit)))
<1> DEFINE sh == Append(c.sh, bit)
<1>1. Len(sh) = Len(c.sh) + 1 /\ Len(c.sh) \in Nat
  BY DEF ChipType
<1>2. Rises(c, bit) =
          CASE c.to = None /\ Len(sh) = 8  -> Commanded(c, Byte(sh))
            [] c.to # None /\ Len(sh) = 24 -> Written(c, Decoded(sh))
            [] OTHER                       -> [c EXCEPT !.sh = sh]
  BY Zenon DEF Rises
<1> HIDE DEF sh
<1>3. c.to = None /\ Len(c.sh) < 7 => Rises(c, bit) = [c EXCEPT !.sh = sh]
  BY <1>1, <1>2
<1>4. c.to # None /\ Len(c.sh) < 23 => Rises(c, bit) = [c EXCEPT !.sh = sh]
  BY <1>1, <1>2
<1>5. c.to = None /\ Len(c.sh) = 7 => Rises(c, bit) = Commanded(c, Byte(sh))
  BY <1>1, <1>2
<1>6. c.to # None /\ Len(c.sh) = 23 => Rises(c, bit) = Written(c, Decoded(sh))
  BY <1>1, <1>2
<1> QED BY <1>3, <1>4, <1>5, <1>6 DEF sh

LEMMA Appended ==
    ASSUME NEW s \in Seq({0, 1}), NEW b \in {0, 1}
    PROVE  /\ Append(s, b) \in Seq({0, 1}) /\ Len(Append(s, b)) = Len(s) + 1
           /\ Append(s, b)[Len(s) + 1] = b
           /\ \A j \in 1..Len(s) : Append(s, b)[j] = s[j]
  OBVIOUS

(* What a bit that is sent does to the chip: nothing when it is not        *)
(* selected; it is taken; with the eighth, the byte is a command; with the *)
(* last of a write, the word is written.                                   *)
LEMMA SendTakes ==
    ASSUME MeterTypes, Placed, Sending, Sound(Op), writeCS5463SPI
    PROVE  /\ Op.kind = "raw" => chip' = chip
           /\ Op.kind # "raw" /\ bus.n < 7 =>
                  chip' = [chip EXCEPT !.sh = Append(@, Bit(Op.byte, 7 - bus.n))]
           /\ Op.kind # "raw" /\ bus.n = 7 => chip' = Commanded(chip, Op.byte)
           /\ bus.n >= 8 /\ bus.n < 31 =>
                  chip' = [chip EXCEPT !.sh = Append(@, Bit(Data, 31 - bus.n))]
           /\ bus.n = 31 => chip' = Written(chip, Data)
<1> DEFINE low == GPIO_OUTPUT_SET(pins, "CLK", 0)
           b   == Sent(bus.n)
           p   == GPIO_OUTPUT_SET(low, "MOSI", b)
<1>1. bus.at = "send" /\ bus.n \in 0..31 /\ bus.n < Length /\ Op.kind # "reset"
  BY DEF writeCS5463SPI, Placed, MeterTypes
<1>2. /\ b \in {0, 1}
      /\ bus.n < 8 => b = Bit(Op.byte, 7 - bus.n)
      /\ bus.n >= 8 => b = Bit(Data, 31 - bus.n)
  BY <1>1, SentIs
<1>3. chip' = Clocked(chip, p)
  BY DEF writeCS5463SPI
<1>4. chip \in ChipType /\ chip.out = <<>>
  BY <1>1 DEF MeterTypes, Sending
<1> HIDE DEF b
<1>5. /\ low \in PinsType /\ low.enabled = Driven /\ low.out = pins.out \ {"CLK"}
  <2>1. pins \in PinsType /\ pins.enabled = Driven /\ 0 \in {0, 1} /\ "CLK" \in {"RST", "MOSI", "CLK"}
    BY DEF MeterTypes
  <2>2. /\ low \in PinsType /\ low.out = (IF 0 = 1 THEN pins.out \cup {"CLK"} ELSE pins.out \ {"CLK"})
        /\ low.enabled = pins.enabled \cup {"CLK"}
    BY <2>1, GpioSets
  <2> QED BY <2>1, <2>2 DEF Driven
<1> HIDE DEF low
<1>6. /\ p \in PinsType /\ p.enabled = Driven
      /\ "CS" \in p.out <=> "CS" \in pins.out
      /\ "MOSI" \in p.out <=> b = 1
  <2>1. /\ p \in PinsType /\ p.out = (IF b = 1 THEN low.out \cup {"MOSI"} ELSE low.out \ {"MOSI"})
        /\ p.enabled = low.enabled \cup {"MOSI"}
    BY <1>2, <1>5, GpioSets
  <2> QED BY <2>1, <1>5 DEF Driven
<1> HIDE DEF p
<1>14. bus.n \in Nat
  BY <1>1
<1>7. Op.kind = "raw" => chip' = chip
  <2>1. Op.kind = "raw" => "CS" \in p.out
    BY <1>6 DEF Placed
  <2> QED BY <1>3, <2>1 DEF Clocked, Selected
<1>8. Op.kind # "raw" => chip' = Rises(chip, b)
  <2>1. Op.kind # "raw" => "CS" \notin p.out
    BY <1>1, <1>6 DEF Placed
  <2>2. b = IF "MOSI" \in p.out THEN 1 ELSE 0
    BY <1>2, <1>6
  <2> QED BY <1>3, <1>4, <1>6, <2>1, <2>2, ClockedIs
<1>9. bus.n >= 8 => Op.kind = "write" /\ Op.kind # "raw"
  BY <1>1, OpBytes
<1>10. ASSUME Op.kind # "raw", bus.n < 7
       PROVE  chip' = [chip EXCEPT !.sh = Append(@, Bit(Op.byte, 7 - bus.n))]
  <2>1. chip.to = None /\ Len(chip.sh) < 7
    <3>1. chip.to = None /\ Len(chip.sh) = bus.n
      BY <1>1, <1>10, <1>14 DEF Sending
    <3> QED BY <3>1, <1>10
  <2>2. Rises(chip, b) = [chip EXCEPT !.sh = Append(@, b)]
    BY <1>2, <1>4, <2>1, RisesIs
  <2>3. b = Bit(Op.byte, 7 - bus.n)
    BY <1>1, <1>2, <1>10
  <2> QED BY <1>8, <1>10, <2>2, <2>3
<1>11. ASSUME Op.kind # "raw", bus.n = 7
       PROVE  chip' = Commanded(chip, Op.byte)
  <2>1. /\ chip.to = None /\ Len(chip.sh) = 7 /\ chip.sh \in Seq({0, 1})
        /\ \A j \in 1..7 : chip.sh[j] = Bit(Op.byte, 8 - j)
    BY <1>1, <1>4, <1>11 DEF Sending, ChipType
  <2>2. chip' = Commanded(chip, Byte(Append(chip.sh, b)))
    BY <1>2, <1>4, <1>8, <1>11, <2>1, RisesIs
  <2>3. b = Bit(Op.byte, 0)
    BY <1>2, <1>11
  <2>4. \A j \in 1..8 : Append(chip.sh, b)[j] = Bit(Op.byte, 8 - j)
    <3> SUFFICES ASSUME NEW j \in 1..8
                 PROVE  Append(chip.sh, b)[j] = Bit(Op.byte, 8 - j)
      OBVIOUS
    <3>1. CASE j = 8
      <4>1. Append(chip.sh, b)[8] = b /\ 8 - j = 0
        BY <2>1, <3>1
      <4> QED BY <2>3, <3>1, <4>1
    <3>2. CASE j # 8
      <4>1. j \in 1..7
        BY <3>2
      <4>2. Append(chip.sh, b)[j] = chip.sh[j]
        BY <2>1, <4>1
      <4> QED BY <2>1, <4>1, <4>2
    <3> QED BY <3>1, <3>2
  <2>5. Byte(Append(chip.sh, b)) = Op.byte
    BY <1>1, <2>4, OpBytes, ByteOfBits
  <2> QED BY <2>2, <2>5
<1>12. ASSUME bus.n >= 8, bus.n < 31
       PROVE  chip' = [chip EXCEPT !.sh = Append(@, Bit(Data, 31 - bus.n))]
  <2> HIDE DEF Data
  <2>1. chip.to \in Settable /\ Len(chip.sh) < 23
    <3>1. chip.to \in Settable /\ Len(chip.sh) = bus.n - 8
      BY <1>1, <1>9, <1>12, <1>14 DEF Sending
    <3> QED BY <3>1, <1>12, <1>14
  <2>2. chip.to # None
    BY <2>1, RegisterSets, MeterAssumption
  <2>3. Rises(chip, b) = [chip EXCEPT !.sh = Append(@, b)]
    BY <1>2, <1>4, <2>1, <2>2, RisesIs
  <2>4. b = Bit(Data, 31 - bus.n)
    BY <1>2, <1>12
  <2> QED BY <1>8, <1>9, <1>12, <2>3, <2>4
<1>13. ASSUME bus.n = 31
       PROVE  chip' = Written(chip, Data)
  <2> HIDE DEF Data
  <2>1. /\ chip.to \in Settable /\ Len(chip.sh) = 23 /\ chip.sh \in Seq({0, 1})
        /\ \A j \in 1..23 : chip.sh[j] = Bit(Data, 24 - j)
    BY <1>1, <1>4, <1>9, <1>13 DEF Sending, ChipType
  <2>2. chip.to # None
    BY <2>1, RegisterSets, MeterAssumption
  <2>3. chip' = Written(chip, Decoded(Append(chip.sh, b)))
    <3>1. Rises(chip, b) = Written(chip, Decoded(Append(chip.sh, b)))
      BY <1>2, <1>4, <2>1, <2>2, RisesIs
    <3> QED BY <1>8, <1>9, <1>13, <1>14, <3>1
  <2>4. b = Bit(Data, 0)
    BY <1>2, <1>13
  <2>5. \A j \in 1..24 : Append(chip.sh, b)[j] = Bit(Data, 24 - j)
    <3> DEFINE a == Append(chip.sh, b)
    <3>1. /\ a[Len(chip.sh) + 1] = b
          /\ \A j \in 1..Len(chip.sh) : a[j] = chip.sh[j]
      BY <1>2, <2>1, Appended
    <3>2. Len(chip.sh) = 23 /\ Len(chip.sh) + 1 = 24
      BY <2>1
    <3> HIDE DEF a
    <3>3. a[24] = b /\ \A j \in 1..23 : a[j] = chip.sh[j]
      BY <3>1, <3>2, Zenon
    <3>4. \A j \in 1..24 : a[j] = Bit(Data, 24 - j)
      <4> TAKE j \in 1..24
      <4>1. CASE j = 24
        <5>1. 24 - j = 0
          BY <4>1
        <5> QED BY <2>4, <3>3, <4>1, <5>1, Zenon
      <4>2. CASE j # 24
        <5>1. j \in 1..23
          BY <4>2
        <5> QED BY <2>1, <3>3, <5>1, Zenon
      <4> QED BY <4>1, <4>2
    <3> QED BY <3>4 DEF a
  <2>6. Data \in Words
    BY <1>9, <1>13, DataIsWord
  <2>7. Decoded(Append(chip.sh, b)) = Data
    BY <2>5, <2>6, WordOfBits
  <2> QED BY <2>3, <2>7
<1> QED BY <1>7, <1>10, <1>11, <1>12, <1>13

(* The k high bits of a byte. *)
High(x, k) == x - (x % 2^(8 - k))

LEMMA HighSteps ==
    ASSUME NEW x \in Octets
    PROVE  /\ High(x, 0) = 0 /\ High(x, 8) = x
           /\ \A k \in 0..8 : High(x, k) \in Octets /\ High(x, k) <= x
           /\ \A k \in 0..7 : High(x, k) + Bit(x, 7 - k) * 2^(7 - k) = High(x, k + 1)
<1>x. x \in 0..255 /\ x \in Nat
  BY DEF Octets
<1>1. /\ High(x, 0) = 0 /\ High(x, 1) = x - (x % 128) /\ High(x, 2) = x - (x % 64)
      /\ High(x, 3) = x - (x % 32) /\ High(x, 4) = x - (x % 16) /\ High(x, 5) = x - (x % 8)
      /\ High(x, 6) = x - (x % 4) /\ High(x, 7) = x - (x % 2) /\ High(x, 8) = x
  BY SMT, <1>x DEF High
<1>2. /\ Bit(x, 7) = (x \div 128) % 2 /\ Bit(x, 6) = (x \div 64) % 2
      /\ Bit(x, 5) = (x \div 32) % 2 /\ Bit(x, 4) = (x \div 16) % 2
      /\ Bit(x, 3) = (x \div 8) % 2 /\ Bit(x, 2) = (x \div 4) % 2
      /\ Bit(x, 1) = (x \div 2) % 2 /\ Bit(x, 0) = x % 2
  BY SMT, <1>x DEF Bit
<1>3. /\ High(x, 0) + Bit(x, 7) * 128 = High(x, 1) /\ High(x, 1) + Bit(x, 6) * 64 = High(x, 2)
      /\ High(x, 2) + Bit(x, 5) * 32 = High(x, 3) /\ High(x, 3) + Bit(x, 4) * 16 = High(x, 4)
      /\ High(x, 4) + Bit(x, 3) * 8 = High(x, 5) /\ High(x, 5) + Bit(x, 2) * 4 = High(x, 6)
      /\ High(x, 6) + Bit(x, 1) * 2 = High(x, 7) /\ High(x, 7) + Bit(x, 0) = High(x, 8)
  <2>1. High(x, 0) + Bit(x, 7) * 128 = High(x, 1)
    <3>1. x = ((x \div 128) % 2) * 128 + (x % 128)
      BY SMT, <1>x
    <3> QED BY SMT, <1>x, <1>1, <1>2, <3>1
  <2>2. High(x, 1) + Bit(x, 6) * 64 = High(x, 2)
    <3> DEFINE q == (x \div 64) % 2
               r == x % 64
               s == x % 128
    <3>1. s = q * 64 + r /\ q \in Nat /\ r \in Nat /\ s \in Nat
      BY SMT, <1>x
    <3>2. High(x, 1) = x - s /\ Bit(x, 6) = q /\ High(x, 2) = x - r
      BY <1>1, <1>2
    <3> HIDE DEF q, r, s
    <3> QED BY SMT, <1>x, <3>1, <3>2
  <2>3. High(x, 2) + Bit(x, 5) * 32 = High(x, 3)
    <3> DEFINE q == (x \div 32) % 2
               r == x % 32
               s == x % 64
    <3>1. s = q * 32 + r /\ q \in Nat /\ r \in Nat /\ s \in Nat
      BY SMT, <1>x
    <3>2. High(x, 2) = x - s /\ Bit(x, 5) = q /\ High(x, 3) = x - r
      BY <1>1, <1>2
    <3> HIDE DEF q, r, s
    <3> QED BY SMT, <1>x, <3>1, <3>2
  <2>4. High(x, 3) + Bit(x, 4) * 16 = High(x, 4)
    <3> DEFINE q == (x \div 16) % 2
               r == x % 16
               s == x % 32
    <3>1. s = q * 16 + r /\ q \in Nat /\ r \in Nat /\ s \in Nat
      BY SMT, <1>x
    <3>2. High(x, 3) = x - s /\ Bit(x, 4) = q /\ High(x, 4) = x - r
      BY <1>1, <1>2
    <3> HIDE DEF q, r, s
    <3> QED BY SMT, <1>x, <3>1, <3>2
  <2>5. High(x, 4) + Bit(x, 3) * 8 = High(x, 5)
    <3> DEFINE q == (x \div 8) % 2
               r == x % 8
               s == x % 16
    <3>1. s = q * 8 + r /\ q \in Nat /\ r \in Nat /\ s \in Nat
      BY SMT, <1>x
    <3>2. High(x, 4) = x - s /\ Bit(x, 3) = q /\ High(x, 5) = x - r
      BY <1>1, <1>2
    <3> HIDE DEF q, r, s
    <3> QED BY SMT, <1>x, <3>1, <3>2
  <2>6. High(x, 5) + Bit(x, 2) * 4 = High(x, 6)
    <3> DEFINE q == (x \div 4) % 2
               r == x % 4
               s == x % 8
    <3>1. s = q * 4 + r /\ q \in Nat /\ r \in Nat /\ s \in Nat
      BY SMT, <1>x
    <3>2. High(x, 5) = x - s /\ Bit(x, 2) = q /\ High(x, 6) = x - r
      BY <1>1, <1>2
    <3> HIDE DEF q, r, s
    <3> QED BY SMT, <1>x, <3>1, <3>2
  <2>7. High(x, 6) + Bit(x, 1) * 2 = High(x, 7)
    <3> DEFINE q == (x \div 2) % 2
               r == x % 2
               s == x % 4
    <3>1. s = q * 2 + r /\ q \in Nat /\ r \in Nat /\ s \in Nat
      BY SMT, <1>x
    <3>2. High(x, 6) = x - s /\ Bit(x, 1) = q /\ High(x, 7) = x - r
      BY <1>1, <1>2
    <3> HIDE DEF q, r, s
    <3> QED BY SMT, <1>x, <3>1, <3>2
  <2>8. High(x, 7) + Bit(x, 0) = High(x, 8)
    BY SMT, <1>x, <1>1, <1>2
  <2> QED BY <2>1, <2>2, <2>3, <2>4, <2>5, <2>6, <2>7, <2>8
<1>4. \A k \in 0..7 : High(x, k) + Bit(x, 7 - k) * 2^(7 - k) = High(x, k + 1)
  <2> TAKE k \in 0..7
  <2>0. Bit(x, 0) \in Int
    BY <1>x, <1>2
  <2>1. CASE k = 0
    BY <2>1, <1>3
  <2>2. CASE k = 1
    BY <2>2, <1>3
  <2>3. CASE k = 2
    BY <2>3, <1>3
  <2>4. CASE k = 3
    BY <2>4, <1>3
  <2>5. CASE k = 4
    BY <2>5, <1>3
  <2>6. CASE k = 5
    BY <2>6, <1>3
  <2>7. CASE k = 6
    BY <2>7, <1>3
  <2>8. CASE k = 7
    BY <2>0, <2>8, <1>3
  <2> QED BY <2>1, <2>2, <2>3, <2>4, <2>5, <2>6, <2>7, <2>8
<1>5. \A k \in 0..8 : High(x, k) \in Octets /\ High(x, k) <= x
  <2> TAKE k \in 0..8
  <2>1. High(x, k) \in {0, x - (x % 128), x - (x % 64), x - (x % 32), x - (x % 16),
                        x - (x % 8), x - (x % 4), x - (x % 2), x}
    <3>1. k \in {0, 1, 2, 3, 4, 5, 6, 7, 8}
      OBVIOUS
    <3> QED BY <1>1, <3>1
  <2> QED BY <1>x, <2>1 DEF Octets
<1> QED BY <1>1, <1>4, <1>5

(* How many bits of the answer have been read.                             *)
Got == IF bus.at = "end" THEN 24 ELSE bus.n

(* The answer w: what is left of it in the chip, the bytes that are        *)
(* complete, and the high bits of the one that is being read.              *)
Carried(w) ==
    /\ Len(chip.out) = 24 - Got
    /\ \A j \in 1..(24 - Got) : chip.out[j] = Bit(w, 24 - Got - j)
    /\ \A b \in 1..3 : 8 * b <= Got => mem[Op.into][b] = Bytes(w)[b]
    /\ Got < 24 => mem[Op.into][Got \div 8 + 1] = High(Bytes(w)[Got \div 8 + 1], Got % 8)

(* What it is the value of.                                                *)
Meant(w) ==
    /\ Op.into = "I_RMS" => w = incoming
    /\ Op.reg # None /\ ~early => w = Result[Op.reg]
    /\ Op.kind = "poll" /\ ~early /\ Bit(w, 23) = 1 =>
           /\ chip.calibrating = None
           /\ \A j \in 1..6 : step = 15 + 7 * j => chip.regs[StageReg[j]] = Result[StageReg[j]]

InFlight == bus.at \in {"recv", "end"} /\ Reads => \E w \in Words : Carried(w) /\ Meant(w)

(* The protection: last is the word it reads, unless it is being replaced. *)
Known ==
    /\ chip.regs[I_RMS] \in IRMS \cup {0} /\ incoming \in IRMS \cup {0}
    /\ ~(bus.at \in {"recv", "end"} /\ Op.into = "I_RMS") => Word(mem.I_RMS) = last

(* The registers the routine sets, the steps that set them, their values.  *)
RoutineReg  == <<CONFIG, CYCLE_COUNT, MASK, MODE, CTRL, PULSE_RATE,
                 DC_V_OFFSET, V_GAIN, AC_V_OFFSET, DC_I_OFFSET, I_GAIN, AC_I_OFFSET>>
RoutineStep == <<8, 9, 10, 11, 13, 14, 17, 18, 19, 20, 21, 22>>
RoutineWord == <<1, 800, 0, 1, 0, 13468, saved[DC_V_OFFSET], saved[V_GAIN], saved[AC_V_OFFSET],
                 saved[DC_I_OFFSET], saved[I_GAIN], saved[AC_I_OFFSET]>>

Past == IF bus.at \in {"recv", "end"} THEN step ELSE step - 1

RoutineInv ==
    mode = "routine" =>
        /\ step >= 2 => chip.calibrating = None
        /\ \A k \in 1..12 : RoutineStep[k] <= Past => chip.regs[RoutineReg[k]] = RoutineWord[k]
        /\ Past >= 23 => chip.running

(* A stage, at its k-th step, which has been sent or not.                  *)
StageAt(r, k) ==
    LET sent == bus.at \in {"recv", "end"}
    IN  /\ (k = 2 /\ sent) \/ k \in 3..6 => ~chip.running
        /\ (k = 2 /\ sent) \/ k = 3 \/ (k = 4 /\ ~sent) => chip.calibrating = None
        /\ (k = 4 /\ sent) \/ k = 5 => chip.calibrating \in {r, None}
        /\ ~early =>
               /\ (k = 1 /\ sent) \/ k \in 2..3 \/ (k = 4 /\ ~sent) => chip.regs[STATUS] = 0
               /\ (k = 4 /\ sent) \/ k = 5 =>
                      \/ chip.calibrating = r /\ chip.regs[STATUS] = 0
                      \/ chip.calibrating = None /\ chip.regs[r] = Result[r]
               /\ k = 6 => chip.calibrating = None /\ chip.regs[r] = Result[r]

CalibInv ==
    mode = "calib" => \A j \in 1..6, k \in 1..7 : step = 10 + 7 * j + k => StageAt(StageReg[j], k)

MeterInd == /\ MeterTypes /\ Placed /\ Sending /\ Quiet
            /\ InFlight /\ Known /\ RoutineInv /\ CalibInv

LEMMA SameTransfer ==
    ASSUME mode' = mode, step' = step
    PROVE  Op' = Op /\ Program' = Program /\ (Reads' <=> Reads) /\ Length' = Length
<1>1. Program' = Program
  BY DEF Program
<1>2. Op' = Op
  BY <1>1 DEF Op
<1> QED BY <1>1, <1>2 DEF Reads, Length

(* The pins after a bit was sent. *)
LEMMA SendPins ==
    ASSUME MeterTypes, Placed, Sound(Op), writeCS5463SPI
    PROVE  /\ pins' \in PinsType /\ pins'.enabled = Driven
           /\ "CS" \in pins'.out <=> "CS" \in pins.out
           /\ bus.n + 1 = Length /\ Reads => "MOSI" \in pins'.out
<1> DEFINE low == GPIO_OUTPUT_SET(pins, "CLK", 0)
           p   == GPIO_OUTPUT_SET(low, "MOSI", Sent(bus.n))
           q   == IF bus.n + 1 = Length /\ Reads THEN GPIO_OUTPUT_SET(p, "MOSI", 1) ELSE p
<1>1. bus.at = "send" /\ bus.n \in 0..31 /\ bus.n < Length /\ Op.kind # "reset"
  BY DEF writeCS5463SPI, Placed, MeterTypes
<1>2. Sent(bus.n) \in {0, 1}
  BY <1>1, SentIs
<1>3. pins' = GPIO_OUTPUT_SET(q, "CLK", 1)
  BY DEF writeCS5463SPI, Filler
<1>d. Driven = {"RST", "MOSI", "CLK", "CS"}
  BY DEF Driven
<1>4. low \in PinsType /\ low.enabled = Driven /\ low.out = pins.out \ {"CLK"}
  <2>1. pins \in PinsType /\ pins.enabled = Driven /\ 0 \in {0, 1} /\ "CLK" \in {"RST", "MOSI", "CLK"}
    BY DEF MeterTypes
  <2>2. /\ low \in PinsType /\ low.out = (IF 0 = 1 THEN pins.out \cup {"CLK"} ELSE pins.out \ {"CLK"})
        /\ low.enabled = pins.enabled \cup {"CLK"}
    BY <2>1, GpioSets
  <2> QED BY <2>1, <2>2, <1>d
<1> HIDE DEF low
<1>5. p \in PinsType /\ p.enabled = Driven /\ ("CS" \in p.out <=> "CS" \in pins.out)
  <2>1. /\ p \in PinsType
        /\ p.out = (IF Sent(bus.n) = 1 THEN low.out \cup {"MOSI"} ELSE low.out \ {"MOSI"})
        /\ p.enabled = low.enabled \cup {"MOSI"}
    BY <1>2, <1>4, GpioSets
  <2> QED BY <2>1, <1>4, <1>d
<1> HIDE DEF p
<1>6. /\ q \in PinsType /\ q.enabled = Driven /\ ("CS" \in q.out <=> "CS" \in pins.out)
      /\ bus.n + 1 = Length /\ Reads => "MOSI" \in q.out
  <2>1. LET s == GPIO_OUTPUT_SET(p, "MOSI", 1)
        IN  s \in PinsType /\ s.out = p.out \cup {"MOSI"} /\ s.enabled = p.enabled \cup {"MOSI"}
    BY <1>5, GpioSets
  <2> QED BY <2>1, <1>5, <1>d
<1> HIDE DEF q
<1>7. pins' \in PinsType /\ pins'.out = q.out \cup {"CLK"} /\ pins'.enabled = q.enabled \cup {"CLK"}
  BY <1>3, <1>6, GpioSets
<1> QED BY <1>6, <1>7, <1>d

(* A transfer that goes on. *)
LEMMA SendGoesOn ==
    ASSUME MeterTypes, Placed, Sending, Sound(Op), writeCS5463SPI, bus.n + 1 # Length
    PROVE  /\ bus' = [at |-> "send", n |-> bus.n + 1] /\ mem' = mem /\ incoming' = incoming
           /\ bus.n + 1 < Length /\ chip' \in ChipType /\ Sending'
           /\ chip'.regs = chip.regs /\ chip'.running = chip.running
           /\ chip'.calibrating = chip.calibrating
<1>1. /\ bus.at = "send" /\ bus.n \in 0..31 /\ bus.n < Length /\ Op.kind # "reset"
      /\ bus \in [at : {"idle", "send", "recv", "end"}, n : 0..31]
  BY DEF writeCS5463SPI, Placed, MeterTypes
<1>2. Length \in {8, 32} /\ (Length = 32 <=> Op.kind = "write")
  BY OpBytes
<1>3. bus.n + 1 < Length /\ bus.n < 31
  BY <1>1, <1>2
<1>4. bus' = [at |-> "send", n |-> bus.n + 1] /\ mem' = mem /\ incoming' = incoming
  <2>1. bus' = [bus EXCEPT !.n = @ + 1]
    BY Zenon DEF writeCS5463SPI
  <2>2. mem' = mem /\ incoming' = incoming
    BY Zenon DEF writeCS5463SPI
  <2> QED BY <1>1, <2>1, <2>2
<1>5. Op' = Op /\ Data' = Data
  <2>1. mode' = mode /\ step' = step /\ saved' = saved
    BY DEF writeCS5463SPI
  <2> QED BY <2>1, <1>4, SameTransfer DEF Data, DAT_unGet
<1>6. chip \in ChipType /\ chip.out = <<>>
  BY <1>1 DEF MeterTypes, Sending
<1>7. CASE Op.kind = "raw"
  <2>1. chip' = chip
    BY <1>7, SendTakes
  <2>2. bus.n + 1 < 8
    BY <1>2, <1>3, <1>7
  <2>3. chip.sh = <<>> /\ chip.to = None
    BY <1>1, <1>7 DEF Sending
  <2>4. Sending'
    BY <1>4, <1>5, <1>6, <1>7, <2>1, <2>3 DEF Sending
  <2> QED BY <1>3, <1>4, <1>6, <2>1, <2>4
<1>8. CASE Op.kind # "raw" /\ bus.n < 7
  <2> DEFINE b == Bit(Op.byte, 7 - bus.n)
  <2>1. chip' = [chip EXCEPT !.sh = Append(@, b)]
    BY <1>8, SendTakes
  <2>2. b \in {0, 1}
    BY <1>1, <1>8, OpBytes, BitIsBit
  <2>3. /\ chip.to = None /\ Len(chip.sh) = bus.n
        /\ \A j \in 1..bus.n : chip.sh[j] = Bit(Op.byte, 8 - j)
    <3>1. bus.n < 8
      BY <1>1, <1>8
    <3> QED BY <1>1, <1>8, <3>1, Zenon DEF Sending
  <2> HIDE DEF b
  <2>4. /\ Append(chip.sh, b) \in Seq({0, 1}) /\ Len(Append(chip.sh, b)) = bus.n + 1
        /\ Append(chip.sh, b)[bus.n + 1] = b
        /\ \A j \in 1..bus.n : Append(chip.sh, b)[j] = chip.sh[j]
    BY <1>6, <2>2, <2>3, Appended DEF ChipType
  <2>5. /\ chip' \in ChipType /\ chip'.out = <<>> /\ chip'.to = None /\ chip'.sh = Append(chip.sh, b)
        /\ chip'.regs = chip.regs /\ chip'.running = chip.running /\ chip'.calibrating = chip.calibrating
    BY <1>6, <2>1, <2>3, <2>4 DEF ChipType
  <2>6. \A j \in 1..(bus.n + 1) : chip'.sh[j] = Bit(Op.byte, 8 - j)
    <3> TAKE j \in 1..(bus.n + 1)
    <3>1. CASE j = bus.n + 1
      <4>1. 8 - j = 7 - bus.n
        BY <1>1, <3>1
      <4> QED BY <2>4, <2>5, <3>1, <4>1, Zenon DEF b
    <3>2. CASE j # bus.n + 1
      <4>1. j \in 1..bus.n
        BY <1>1, <3>2
      <4> QED BY <2>3, <2>4, <2>5, <4>1, Zenon
    <3> QED BY <3>1, <3>2
  <2>7. Sending'
    <3>1. bus'.n = bus.n + 1 /\ bus'.n < 8 /\ Op'.kind # "raw" /\ Op'.byte = Op.byte
      BY <1>1, <1>4, <1>5, <1>8
    <3>2. Len(chip'.sh) = bus'.n /\ \A j \in 1..bus'.n : chip'.sh[j] = Bit(Op'.byte, 8 - j)
      BY <2>4, <2>5, <2>6, <3>1
    <3>3. ~(bus'.n >= 8)
      BY <1>1, <1>8, <3>1
    <3> QED BY <2>5, <3>1, <3>2, <3>3, Zenon DEF Sending
  <2> QED BY <1>3, <1>4, <2>5, <2>7
<1>9. CASE Op.kind = "write" /\ bus.n = 7
  <2>1. PICK r \in Settable : Op.byte = WR(r)
    BY <1>9 DEF Sound
  <2>2. chip' = Commanded(chip, WR(r))
    BY <1>9, <2>1, SendTakes
  <2>3. chip.to = None /\ r \in Registers
    BY <1>1, <1>9, <2>1, RegisterSets DEF Sending
  <2>4. chip' = [chip EXCEPT !.sh = <<>>, !.to = r]
    BY <1>6, <2>2, <2>3, CommandedIs
  <2>5. /\ chip' \in ChipType /\ chip'.out = <<>> /\ chip'.to = r /\ chip'.sh = <<>>
        /\ chip'.regs = chip.regs /\ chip'.running = chip.running /\ chip'.calibrating = chip.calibrating
    BY <1>6, <2>3, <2>4 DEF ChipType
  <2>6. Sending'
    <3>1. bus'.n = 8 /\ Op'.kind = "write" /\ Op'.byte = WR(r)
      BY <1>4, <1>5, <1>9, <2>1
    <3>2. Len(chip'.sh) = 0
      BY <2>5
    <3> QED BY <2>1, <2>5, <3>1, <3>2 DEF Sending
  <2> QED BY <1>3, <1>4, <2>5, <2>6
<1>10. CASE Op.kind = "write" /\ bus.n >= 8
  <2> DEFINE b == Bit(Data, 31 - bus.n)
  <2>1. chip' = [chip EXCEPT !.sh = Append(@, b)]
    BY <1>3, <1>10, SendTakes
  <2>0. Data \in Words
    BY <1>10, DataIsWord
  <2>2. b \in {0, 1}
    BY <1>1, <1>10, <2>0, BitIsBit DEF Words
  <2>3. /\ chip.to \in Settable /\ WR(chip.to) = Op.byte /\ Len(chip.sh) = bus.n - 8
        /\ \A j \in 1..(bus.n - 8) : chip.sh[j] = Bit(Data, 24 - j)
    BY <1>1, <1>10 DEF Sending
  <2> HIDE DEF b
  <2>4. /\ Append(chip.sh, b) \in Seq({0, 1}) /\ Len(Append(chip.sh, b)) = bus.n - 7
        /\ Append(chip.sh, b)[bus.n - 7] = b
        /\ \A j \in 1..(bus.n - 8) : Append(chip.sh, b)[j] = chip.sh[j]
    <3>1. (bus.n - 8) + 1 = bus.n - 7
      BY <1>1
    <3>2. chip.sh \in Seq({0, 1})
      BY <1>6 DEF ChipType
    <3> QED BY <2>2, <2>3, <3>1, <3>2, Appended
  <2>5. /\ chip' \in ChipType /\ chip'.out = <<>> /\ chip'.to = chip.to /\ chip'.sh = Append(chip.sh, b)
        /\ chip'.regs = chip.regs /\ chip'.running = chip.running /\ chip'.calibrating = chip.calibrating
    BY <1>6, <2>1, <2>3, <2>4 DEF ChipType
  <2>6. \A j \in 1..(bus.n - 7) : chip'.sh[j] = Bit(Data, 24 - j)
    <3> TAKE j \in 1..(bus.n - 7)
    <3>1. CASE j = bus.n - 7
      <4>1. 24 - j = 31 - bus.n
        BY <1>1, <3>1
      <4> QED BY <2>4, <2>5, <3>1, <4>1, Zenon DEF b
    <3>2. CASE j # bus.n - 7
      <4>1. j \in 1..(bus.n - 8)
        BY <1>1, <3>2
      <4> QED BY <2>3, <2>4, <2>5, <4>1, Zenon
    <3> QED BY <3>1, <3>2
  <2>7. Sending'
    <3>1. /\ bus'.n = bus.n + 1 /\ bus'.n >= 8 /\ bus'.n - 8 = bus.n - 7 /\ ~(bus'.n < 8)
          /\ Op'.kind # "raw" /\ Op'.byte = Op.byte
      BY <1>1, <1>4, <1>5, <1>10
    <3>2. /\ Len(chip'.sh) = bus'.n - 8
          /\ \A j \in 1..(bus'.n - 8) : chip'.sh[j] = Bit(Data', 24 - j)
      BY <1>5, <2>4, <2>5, <2>6, <3>1, Zenon
    <3> QED BY <1>5, <2>3, <2>5, <3>1, <3>2, Zenon DEF Sending
  <2> QED BY <1>3, <1>4, <2>5, <2>7
<1> QED BY <1>1, <1>2, <1>3, <1>7, <1>8, <1>9, <1>10

(* A transfer that has been sent, as the chip takes it. *)
LEMMA SendEnds ==
    ASSUME MeterTypes, Placed, Sending, Sound(Op), writeCS5463SPI, bus.n + 1 = Length
    PROVE  /\ chip \in ChipType /\ chip.out = <<>>
           /\ bus' = [at |-> IF Reads THEN "recv" ELSE "end", n |-> 0]
           /\ mem' = IF Reads THEN [mem EXCEPT ![Op.into][1] = 0] ELSE mem
           /\ incoming' = IF Op.into = "I_RMS" THEN Decoded(chip'.out) ELSE incoming
           /\ Op.kind = "raw" => chip' = chip /\ chip.sh = <<>> /\ chip.to = None
           /\ Op.kind = "cmd" => chip' = Commanded(chip, Op.byte) /\ chip.to = None
           /\ Op.kind = "write" =>
                  /\ chip' = Written(chip, Data) /\ Data \in Words
                  /\ chip.to \in Settable /\ WR(chip.to) = Op.byte
           /\ Reads => \A r \in Registers : Op.byte = RD(r) =>
                           /\ chip' = [chip EXCEPT !.sh = <<>>, !.out = WordBits(chip.regs[r])]
                           /\ chip.to = None
<1>1. /\ bus.at = "send" /\ bus.n \in 0..31 /\ bus.n < Length /\ Op.kind # "reset"
      /\ bus \in [at : {"idle", "send", "recv", "end"}, n : 0..31]
  BY DEF writeCS5463SPI, Placed, MeterTypes
<1>2. chip \in ChipType /\ chip.out = <<>>
  BY <1>1 DEF MeterTypes, Sending
<1>3. bus' = [at |-> IF Reads THEN "recv" ELSE "end", n |-> 0]
  BY Zenon DEF writeCS5463SPI
<1>4. /\ mem' = IF Reads THEN [mem EXCEPT ![Op.into][1] = 0] ELSE mem
      /\ incoming' = IF Op.into = "I_RMS" THEN Decoded(chip'.out) ELSE incoming
  BY Zenon DEF writeCS5463SPI, Zeroed
<1>5. /\ Op.kind \in {"write", "cmd", "raw", "reset", "read", "poll"}
      /\ bus.n = IF Op.kind = "write" THEN 31 ELSE 7
  BY <1>1, OpBytes
<1>6. Op.kind = "raw" => chip' = chip /\ chip.sh = <<>> /\ chip.to = None
  BY <1>1, SendTakes DEF Sending
<1>7. ASSUME Op.kind # "raw", Op.kind # "write"
      PROVE  chip' = Commanded(chip, Op.byte) /\ chip.to = None
  <2>1. bus.n = 7
    BY <1>5, <1>7
  <2> QED BY <1>1, <1>7, <2>1, SendTakes DEF Sending
<1>8. ASSUME Op.kind = "write"
      PROVE  /\ chip' = Written(chip, Data) /\ Data \in Words
             /\ chip.to \in Settable /\ WR(chip.to) = Op.byte
  <2>1. bus.n = 31 /\ Op.kind # "raw"
    BY <1>5, <1>8
  <2>2. chip' = Written(chip, Data)
    BY <2>1, SendTakes
  <2>3. Data \in Words
    BY <1>8, DataIsWord
  <2>4. chip.to \in Settable /\ WR(chip.to) = Op.byte
    BY <1>1, <2>1 DEF Sending
  <2> QED BY <2>2, <2>3, <2>4
<1>9. ASSUME Reads, NEW r \in Registers, Op.byte = RD(r)
      PROVE  /\ chip' = [chip EXCEPT !.sh = <<>>, !.out = WordBits(chip.regs[r])]
             /\ chip.to = None
  <2>1. Op.kind # "raw" /\ Op.kind # "write"
    BY <1>9, OpBytes
  <2>2. chip' = Commanded(chip, RD(r)) /\ chip.to = None
    BY <1>7, <1>9, <2>1
  <2> QED BY <1>2, <2>2, CommandedIs
<1>10. Op.kind = "cmd" => chip' = Commanded(chip, Op.byte) /\ chip.to = None
  BY <1>7
<1> QED BY <1>2, <1>3, <1>4, <1>6, <1>8, <1>9, <1>10

(* A word that is written. *)
LEMMA WrittenIs ==
    ASSUME NEW c \in ChipType, NEW w \in Words, c.to \in Settable, c.out = <<>>
    PROVE  /\ Written(c, w) \in ChipType
           /\ Written(c, w).sh = <<>> /\ Written(c, w).to = None /\ Written(c, w).out = <<>>
           /\ Written(c, w).running = c.running /\ Written(c, w).calibrating = c.calibrating
           /\ \A r \in Registers : r # c.to => Written(c, w).regs[r] = c.regs[r]
           /\ c.to # STATUS => Written(c, w).regs[c.to] = w
           /\ c.to = STATUS /\ Bit(w, 23) = 1 => Written(c, w).regs[STATUS] = 0
<1> DEFINE v == IF c.to # STATUS THEN w ELSE IF Bit(w, 23) = 1 THEN 0 ELSE c.regs[c.to]
<1>1. c.to \in Registers /\ c.regs \in [Registers -> Words]
  BY RegisterSets DEF ChipType
<1>2. v \in Words
  <2>1. 0 \in Words
    BY DEF Words
  <2> QED BY <1>1, <2>1
<1>3. Written(c, w) = [c EXCEPT !.sh = <<>>, !.to = None, !.regs[c.to] = v]
  BY DEF Written
<1>4. /\ c.to # STATUS => v = w
      /\ c.to = STATUS /\ Bit(w, 23) = 1 => v = 0
  OBVIOUS
<1> HIDE DEF v
<1>5. /\ Written(c, w).regs = [c.regs EXCEPT ![c.to] = v]
      /\ Written(c, w).sh = <<>> /\ Written(c, w).to = None /\ Written(c, w).out = <<>>
      /\ Written(c, w).running = c.running /\ Written(c, w).calibrating = c.calibrating
  BY <1>3 DEF ChipType
<1>6. Written(c, w) \in ChipType
  <2>1. [c.regs EXCEPT ![c.to] = v] \in [Registers -> Words]
    BY <1>1, <1>2
  <2>2. <<>> \in Seq({0, 1})
    OBVIOUS
  <2> DEFINE g == [c.regs EXCEPT ![c.to] = v]
  <2>3. Written(c, w) = [c EXCEPT !.sh = <<>>, !.to = None, !.regs = g]
    BY <1>3
  <2> HIDE DEF g
  <2>4. g \in [Registers -> Words]
    BY <2>1 DEF g
  <2> QED BY <2>2, <2>3, <2>4 DEF ChipType
<1>7. /\ \A r \in Registers : r # c.to => Written(c, w).regs[r] = c.regs[r]
      /\ Written(c, w).regs[c.to] = v
  BY <1>1, <1>5
<1> QED BY <1>4, <1>5, <1>6, <1>7

(* The commands of the programs, as they leave the chip. *)
LEMMA CmdIs ==
    ASSUME NEW c \in ChipType, c.to = None, c.out = <<>>,
           NEW b \in STARTS \cup {POWER_UP_HALT, START_CNTN_CNVS}
    PROVE  /\ Commanded(c, b) \in ChipType /\ Commanded(c, b).sh = <<>>
           /\ Commanded(c, b).to = None /\ Commanded(c, b).out = <<>>
           /\ Commanded(c, b).regs = c.regs
           /\ b = START_CNTN_CNVS => /\ Commanded(c, b).running
                                     /\ Commanded(c, b).calibrating = c.calibrating
           /\ b = POWER_UP_HALT => /\ ~Commanded(c, b).running
                                   /\ Commanded(c, b).calibrating = None
           /\ b \in STARTS => /\ Commanded(c, b).running = c.running
                              /\ Commanded(c, b).calibrating = StageOf(b)
<1>1. CASE b = START_CNTN_CNVS
  <2>1. Commanded(c, b) = [c EXCEPT !.sh = <<>>, !.running = TRUE]
    BY <1>1, CommandedIs
  <2>2. b # POWER_UP_HALT /\ b \notin STARTS
    BY <1>1 DEF START_CNTN_CNVS, POWER_UP_HALT, STARTS
  <2> QED BY <2>1, <2>2 DEF ChipType
<1>2. CASE b = POWER_UP_HALT
  <2>1. Commanded(c, b) = [c EXCEPT !.sh = <<>>, !.running = FALSE, !.calibrating = None]
    BY <1>2, CommandedIs
  <2>2. b # START_CNTN_CNVS /\ b \notin STARTS
    BY <1>2 DEF START_CNTN_CNVS, POWER_UP_HALT, STARTS
  <2> QED BY <2>1, <2>2 DEF ChipType
<1>3. CASE b \in STARTS
  <2>1. Commanded(c, b) = [c EXCEPT !.sh = <<>>, !.calibrating = StageOf(b)]
    BY <1>3, CommandedIs, ZenonT(60)
  <2>2. b # POWER_UP_HALT /\ b # START_CNTN_CNVS
    BY <1>3 DEF START_CNTN_CNVS, POWER_UP_HALT, STARTS
  <2>3. StageOf(b) \in CalibRegisters
    BY <1>3, RegisterSets DEF StageOf, STARTS
  <2> HIDE DEF StageOf
  <2> QED BY <2>1, <2>2, <2>3 DEF ChipType
<1> QED BY <1>1, <1>2, <1>3

(* The n-th bit of a word, in its byte. *)
LEMMA BitInByte ==
    ASSUME NEW w \in Words, NEW n \in 0..23
    PROVE  Bit(w, 23 - n) = Bit(Bytes(w)[n \div 8 + 1], 7 - (n % 8))
<1>1. CASE n \in 0..7
  <2>1. n \div 8 + 1 = 1 /\ 23 - n = 16 + (7 - n) /\ n % 8 = n /\ 7 - n \in 0..7
    BY <1>1
  <2>2. Bit(w, 16 + (7 - n)) = Bit(Bytes(w)[1], 7 - n)
    BY <2>1, BitsOfBytes
  <2> QED BY <2>1, <2>2, Zenon
<1>2. CASE n \in 8..15
  <2>1. n \div 8 + 1 = 2 /\ 23 - n = 8 + (15 - n) /\ 7 - (n % 8) = 15 - n /\ 15 - n \in 0..7
    BY <1>2
  <2>2. Bit(w, 8 + (15 - n)) = Bit(Bytes(w)[2], 15 - n)
    BY <2>1, BitsOfBytes
  <2> QED BY <2>1, <2>2, Zenon
<1>3. CASE n \in 16..23
  <2>1. n \div 8 + 1 = 3 /\ 7 - (n % 8) = 23 - n /\ 23 - n \in 0..7
    BY <1>3
  <2>2. Bit(w, 23 - n) = Bit(Bytes(w)[3], 23 - n)
    BY <2>1, BitsOfBytes
  <2> QED BY <2>1, <2>2, Zenon
<1> QED BY <1>1, <1>2, <1>3

LEMMA OfAWord == \A n \in 0..31 : n <= 23 => n \in 0..23
  OBVIOUS

(* What a bit that is read does to the chip: it shifts out a bit, and in   *)
(* the ones of MOSI, of which eight are a command without effect.          *)
LEMMA ReadShifts ==
    ASSUME MeterTypes, Placed, Quiet, readCS5463SPI, chip.out # <<>>
    PROVE  /\ chip' \in ChipType /\ chip'.out = Tail(chip.out) /\ chip'.to = None
           /\ chip'.regs = chip.regs /\ chip'.running = chip.running
           /\ chip'.calibrating = chip.calibrating
           /\ Len(chip'.sh) = (bus.n + 1) % 8
           /\ \A j \in 1..((bus.n + 1) % 8) : chip'.sh[j] = 1
<1>1. /\ bus.at = "recv" /\ bus.n \in 0..23 /\ Reads /\ "MOSI" \in pins.out
      /\ chip \in ChipType /\ pins \in PinsType /\ pins.enabled = Driven
  <2>1. bus.at = "recv"
    BY DEF readCS5463SPI
  <2>2. bus.n \in 0..31 /\ chip \in ChipType /\ pins \in PinsType /\ pins.enabled = Driven
    BY DEF MeterTypes
  <2>3. Reads /\ "MOSI" \in pins.out
    BY <2>1, Zenon DEF Placed
  <2>4. bus.n \in 0..23
    <3>1. bus.n \in 0..31
      BY <2>2
    <3>2. bus.n <= 23
      BY <2>1, Zenon DEF Placed
    <3> QED BY <3>1, <3>2, OfAWord, Zenon
  <2> QED BY <2>1, <2>2, <2>3, <2>4
<1>2. "CS" \notin pins.out
  BY <1>1 DEF Placed, Reads
<1> DEFINE c == [chip EXCEPT !.out = Tail(@)]
<1>3. c \in ChipType /\ c.out = Tail(chip.out) /\ c.to = chip.to /\ c.sh = chip.sh
      /\ c.regs = chip.regs /\ c.running = chip.running /\ c.calibrating = chip.calibrating
  <2>1. Tail(chip.out) \in Seq({0, 1})
    BY <1>1 DEF ChipType
  <2> QED BY <1>1, <2>1 DEF ChipType
<1>4. chip' = Rises(c, 1)
  <2>1. chip' = Clocked(chip, pins)
    BY DEF readCS5463SPI
  <2>2. Clocked(chip, pins) = Rises(c, IF "MOSI" \in pins.out THEN 1 ELSE 0)
    BY <1>1, <1>2, ClockedIs
  <2> QED BY <1>1, <2>1, <2>2
<1> HIDE DEF c
<1> DEFINE k == bus.n % 8
<1>5. /\ chip.to = None /\ Len(chip.sh) = k /\ \A j \in 1..k : chip.sh[j] = 1
  BY <1>1 DEF Quiet
<1>6. k \in 0..7 /\ (bus.n + 1) % 8 = IF k = 7 THEN 0 ELSE k + 1
  BY <1>1
<1> HIDE DEF k
<1>7. CASE k < 7
  <2>1. chip' = [c EXCEPT !.sh = Append(@, 1)]
    BY <1>3, <1>4, <1>5, <1>7, RisesIs
  <2>2. chip.sh \in Seq({0, 1})
    BY <1>1 DEF ChipType
  <2>3. /\ Append(chip.sh, 1) \in Seq({0, 1}) /\ Len(Append(chip.sh, 1)) = k + 1
        /\ Append(chip.sh, 1)[k + 1] = 1 /\ \A j \in 1..k : Append(chip.sh, 1)[j] = chip.sh[j]
    BY <1>5, <2>2, Appended
  <2>4. /\ chip' \in ChipType /\ chip'.out = c.out /\ chip'.to = c.to
        /\ chip'.regs = c.regs /\ chip'.running = c.running /\ chip'.calibrating = c.calibrating
        /\ chip'.sh = Append(chip.sh, 1)
    BY <1>3, <2>1, <2>3 DEF ChipType
  <2>5. \A j \in 1..(k + 1) : chip'.sh[j] = 1
    <3> TAKE j \in 1..(k + 1)
    <3>1. j = k + 1 \/ j \in 1..k
      BY <1>6
    <3> QED BY <1>5, <2>3, <2>4, <3>1, Zenon
  <2>6. (bus.n + 1) % 8 = k + 1
    BY <1>6, <1>7
  <2> QED BY <1>3, <1>5, <2>3, <2>4, <2>5, <2>6, Zenon
<1>8. CASE k = 7
  <2>1. chip' = Commanded(c, Byte(Append(c.sh, 1)))
    BY <1>3, <1>4, <1>5, <1>8, RisesIs
  <2>2. chip.sh \in Seq({0, 1})
    BY <1>1 DEF ChipType
  <2> DEFINE a == Append(chip.sh, 1)
  <2>3. a[k + 1] = 1 /\ \A j \in 1..k : a[j] = chip.sh[j]
    BY <1>5, <2>2, Appended
  <2> HIDE DEF a
  <2>4. \A j \in 1..8 : a[j] = 1
    <3> TAKE j \in 1..8
    <3>1. j = k + 1 \/ j \in 1..k
      BY <1>8
    <3> QED BY <1>5, <2>3, <3>1, Zenon
  <2>5. Byte(a) = 255
    <3>1. /\ a[1] = 1 /\ a[2] = 1 /\ a[3] = 1 /\ a[4] = 1 /\ a[5] = 1 /\ a[6] = 1
          /\ a[7] = 1 /\ a[8] = 1
      BY <2>4
    <3> QED BY <3>1 DEF Byte
  <2>6. chip' = [c EXCEPT !.sh = <<>>]
    <3>1. chip' = Commanded(c, 255)
      BY <1>3, <2>1, <2>5, Zenon DEF a
    <3>2. Commanded(c, 255) = [c EXCEPT !.sh = <<>>]
      BY <1>3, <1>5, CommandedIs
    <3> QED BY <3>1, <3>2
  <2>7. /\ chip' \in ChipType /\ chip'.out = c.out /\ chip'.to = c.to /\ chip'.sh = <<>>
        /\ chip'.regs = c.regs /\ chip'.running = c.running /\ chip'.calibrating = c.calibrating
    <3>1. <<>> \in Seq({0, 1})
      OBVIOUS
    <3> QED BY <1>3, <2>6, <3>1 DEF ChipType
  <2>8. (bus.n + 1) % 8 = 0 /\ Len(<<>>) = 0 /\ 1..0 = {}
    BY <1>6, <1>8
  <2> QED BY <1>3, <1>5, <2>7, <2>8
<1> QED BY <1>6, <1>7, <1>8

LEMMA ReadPins ==
    ASSUME MeterTypes, Placed, readCS5463SPI
    PROVE  /\ pins' \in PinsType /\ pins'.enabled = Driven
           /\ "CS" \in pins'.out <=> "CS" \in pins.out
           /\ "MOSI" \in pins'.out
<1> DEFINE low == GPIO_OUTPUT_SET(pins, "CLK", 0)
<1>1. pins \in PinsType /\ pins.enabled = Driven /\ "MOSI" \in pins.out
  BY DEF readCS5463SPI, MeterTypes, Placed
<1>2. low \in PinsType /\ low.out = pins.out \ {"CLK"} /\ low.enabled = pins.enabled \cup {"CLK"}
  <2>1. /\ low \in PinsType /\ low.out = (IF 0 = 1 THEN pins.out \cup {"CLK"} ELSE pins.out \ {"CLK"})
        /\ low.enabled = pins.enabled \cup {"CLK"}
    BY <1>1, GpioSets
  <2> QED BY <2>1
<1>3. pins' = GPIO_OUTPUT_SET(low, "CLK", 1)
  BY DEF readCS5463SPI
<1> HIDE DEF low
<1>4. pins' \in PinsType /\ pins'.out = low.out \cup {"CLK"} /\ pins'.enabled = low.enabled \cup {"CLK"}
  BY <1>2, <1>3, GpioSets
<1> QED BY <1>1, <1>2, <1>4 DEF Driven

(* The bytes that are read. *)
LEMMA ReadCarries ==
    ASSUME MeterTypes, Placed, Quiet, readCS5463SPI, Sound(Op), NEW w \in Words, Carried(w)
    PROVE  /\ bus' = [at |-> IF bus.n = 23 THEN "end" ELSE "recv", n |-> IF bus.n = 23 THEN 0 ELSE bus.n + 1]
           /\ chip.out # <<>> /\ Len(chip'.out) = 23 - bus.n
           /\ mem' \in [Fields -> [1..3 -> Octets]]
           /\ \A f \in Fields : f # Op.into => mem'[f] = mem[f]
           /\ Carried(w)'
<1> DEFINE n == bus.n
           f == Op.into
           B == n \div 8 + 1
           k == n % 8
           x == Bytes(w)[B]
           bit == MISO(chip)
           m == [mem EXCEPT ![f][B] = @ + bit * 2^(7 - k)]
<1>1. /\ bus.at = "recv" /\ n \in 0..23 /\ chip \in ChipType
      /\ bus \in [at : {"idle", "send", "recv", "end"}, n : 0..31]
      /\ mem \in [Fields -> [1..3 -> Octets]] /\ f \in Fields
  <2>1. bus.at = "recv"
    BY DEF readCS5463SPI
  <2>2. bus.n \in 0..31 /\ chip \in ChipType /\ mem \in [Fields -> [1..3 -> Octets]]
        /\ bus \in [at : {"idle", "send", "recv", "end"}, n : 0..31]
    BY DEF MeterTypes
  <2>3. bus.n <= 23
    BY <2>1, Zenon DEF Placed
  <2>4. f \in Fields
    BY DEF Sound, Transfers
  <2>5. bus.n \in 0..23
    BY <2>2, <2>3
  <2> QED BY <2>1, <2>2, <2>4, <2>5
<1>2. /\ B \in 1..3 /\ k \in 0..7 /\ n = 8 * (B - 1) + k
  BY <1>1
<1>3. Got = n
  BY <1>1 DEF Got
<1>4. /\ Len(chip.out) = 24 - n /\ \A j \in 1..(24 - n) : chip.out[j] = Bit(w, 24 - n - j)
      /\ \A b \in 1..3 : 8 * b <= n => mem[f][b] = Bytes(w)[b]
      /\ mem[f][B] = High(x, k)
  <2>1. n < 24
    BY <1>1
  <2> QED BY <1>3, <2>1, Zenon DEF Carried
<1>5. x \in Octets /\ x \in 0..255
  <2>1. x \in 0..255
    BY <1>2, WordOfBytes
  <2> QED BY <2>1 DEF Octets
<1>6. chip.out # <<>> /\ chip.out \in Seq({0, 1}) /\ Len(chip.out) \in Nat
  BY <1>1, <1>4, SMTT(30) DEF ChipType
<1>7. bit = Bit(x, 7 - k)
  <2>1. bit = chip.out[1]
    BY <1>6 DEF MISO
  <2>2. 1 \in 1..(24 - n) /\ 24 - n - 1 = 23 - n
    BY <1>1
  <2>3. chip.out[1] = Bit(w, 23 - n)
    BY <1>4, <2>2, Zenon
  <2> QED BY <1>1, <2>1, <2>3, BitInByte
<1>8. High(x, k) + bit * 2^(7 - k) = High(x, k + 1) /\ High(x, k + 1) \in Octets
  <2> HIDE DEF k, x, bit
  <2>1. k + 1 \in 0..8 /\ k \in 0..7
    BY <1>2
  <2>2. High(x, k) + Bit(x, 7 - k) * 2^(7 - k) = High(x, k + 1)
    BY <1>5, <2>1, HighSteps
  <2>3. High(x, k + 1) \in Octets
    BY <1>5, <2>1, HighSteps
  <2> QED BY <1>7, <2>2, <2>3, Zenon
<1>9. bus' = [at |-> IF n = 23 THEN "end" ELSE "recv", n |-> IF n = 23 THEN 0 ELSE n + 1]
  <2>1. bus' = IF bus.n = 23 THEN [at |-> "end", n |-> 0] ELSE [bus EXCEPT !.n = @ + 1]
    BY DEF readCS5463SPI
  <2> QED BY <1>1, <2>1
<1>10. mem' = IF n \in {7, 15} THEN Zeroed(m, f, B + 1) ELSE m
  BY Zenon DEF readCS5463SPI
<1>o. f' = f
  <2>1. mode' = mode /\ step' = step
    BY DEF readCS5463SPI
  <2> QED BY <2>1, SameTransfer
<1>c. chip'.out = Tail(chip.out)
  BY <1>6, ReadShifts
<1> HIDE DEF f, B, k, x, bit, m
<1>11. /\ m \in [Fields -> [1..3 -> Octets]] /\ m[f][B] = High(x, k + 1)
       /\ \A b \in 1..3 : b # B => m[f][b] = mem[f][b]
       /\ \A g \in Fields : g # f => m[g] = mem[g]
  <2>1. m = [mem EXCEPT ![f] = [mem[f] EXCEPT ![B] = High(x, k + 1)]]
    BY <1>1, <1>2, <1>4, <1>8 DEF m
  <2> QED BY <1>1, <1>2, <1>8, <2>1
<1>12. /\ mem' \in [Fields -> [1..3 -> Octets]]
       /\ \A g \in Fields : g # f => mem'[g] = mem[g]
       /\ \A b \in 1..3 : 8 * b <= n => mem'[f][b] = mem[f][b]
       /\ mem'[f][B] = High(x, k + 1)
       /\ n \in {7, 15} => mem'[f][B + 1] = 0
  <2>1. CASE n \in {7, 15}
    <3>1. B + 1 \in 1..3 /\ B + 1 # B
      BY <1>2, <2>1
    <3>2. mem' = [m EXCEPT ![f] = [m[f] EXCEPT ![B + 1] = 0]]
      BY <1>1, <1>10, <1>11, <2>1 DEF Zeroed
    <3>3. 0 \in Octets
      BY DEF Octets
    <3>4. \A b \in 1..3 : 8 * b <= n => b # B /\ b # B + 1
      BY <1>1, <1>2
    <3> QED BY <1>1, <1>2, <1>11, <3>1, <3>2, <3>3, <3>4
  <2>2. CASE n \notin {7, 15}
    <3>1. \A b \in 1..3 : 8 * b <= n => b # B
      BY <1>1, <1>2
    <3> QED BY <1>10, <1>11, <2>2, <3>1
  <2> QED BY <2>1, <2>2
<1>13. /\ Len(chip'.out) = 23 - n
       /\ \A j \in 1..(23 - n) : chip'.out[j] = Bit(w, 23 - n - j)
  <2>1. /\ Len(Tail(chip.out)) = Len(chip.out) - 1
        /\ \A j \in 1..(Len(chip.out) - 1) : Tail(chip.out)[j] = chip.out[j + 1]
    BY <1>6
  <2>2. Len(chip.out) - 1 = 23 - n
    <3> DEFINE l == Len(chip.out)
    <3>1. l = 24 - n /\ n \in 0..23
      BY <1>1, <1>4, Zenon
    <3> HIDE DEF l, n
    <3>2. l - 1 = 23 - n
      BY <3>1
    <3> QED BY <3>2 DEF l
  <2>3. \A j \in 1..(23 - n) : j + 1 \in 1..(24 - n) /\ 24 - n - (j + 1) = 23 - n - j
    BY <1>1
  <2> QED BY <1>4, <1>c, <2>1, <2>2, <2>3, ZenonT(60)
<1>14. Carried(w)'
  <2>1. Got' = n + 1 /\ 24 - Got' = 23 - n
    BY <1>1, <1>9 DEF Got
  <2>2. \A b \in 1..3 : 8 * b <= n + 1 => mem'[f][b] = Bytes(w)[b]
    <3> TAKE b \in 1..3
    <3>1. CASE 8 * b <= n
      BY <1>4, <1>12, <3>1
    <3>2. CASE 8 * b = n + 1
      <4>1. b = B /\ k + 1 = 8
        BY <1>1, <1>2, <3>2
      <4>2. High(x, 8) = x
        BY <1>5, HighSteps
      <4> QED BY <1>12, <4>1, <4>2, Zenon DEF x
    <3> QED BY <1>1, <3>1, <3>2
  <2>3. n + 1 < 24 => mem'[f][(n + 1) \div 8 + 1] = High(Bytes(w)[(n + 1) \div 8 + 1], (n + 1) % 8)
    <3>1. CASE n \in {7, 15}
      <4>1. (n + 1) \div 8 + 1 = B + 1 /\ (n + 1) % 8 = 0 /\ B + 1 \in 1..3
        BY <1>1, <1>2, <3>1
      <4>2. Bytes(w)[B + 1] \in Octets
        BY <4>1, WordOfBytes DEF Octets
      <4>3. High(Bytes(w)[B + 1], 0) = 0
        BY <4>2, HighSteps
      <4> QED BY <1>12, <3>1, <4>1, <4>3, Zenon
    <3>2. CASE n \notin {7, 15} /\ n # 23
      <4>1. (n + 1) \div 8 + 1 = B /\ (n + 1) % 8 = k + 1
        BY <1>1, <1>2, <3>2
      <4> QED BY <1>12, <4>1, Zenon DEF x
    <3>3. CASE n = 23
      BY <3>3
    <3> QED BY <3>1, <3>2, <3>3
  <2>4. /\ Len(chip'.out) = 24 - Got'
        /\ \A j \in 1..(24 - Got') : chip'.out[j] = Bit(w, 24 - Got' - j)
    BY <1>13, <2>1, Zenon
  <2>5. /\ \A b \in 1..3 : 8 * b <= Got' => mem'[f'][b] = Bytes(w)[b]
        /\ Got' < 24 => mem'[f'][Got' \div 8 + 1] = High(Bytes(w)[Got' \div 8 + 1], Got' % 8)
    BY <1>o, <2>1, <2>2, <2>3, Zenon
  <2> QED BY <2>4, <2>5, Zenon DEF Carried, f
<1> QED BY <1>6, <1>9, <1>12, <1>13, <1>14 DEF f

(* The fields of the transfers. *)
LEMMA OpFields ==
    /\ \A b : /\ RST(b).kind = "reset" /\ RST(b).byte = b /\ RST(b).reg = None
              /\ RST(b).into = "unPara"
    /\ \A b : Raw(b).kind = "raw" /\ Raw(b).reg = None /\ Raw(b).into = "unPara"
    /\ \A b : Cmd(b).kind = "cmd" /\ Cmd(b).byte = b /\ Cmd(b).reg = None /\ Cmd(b).into = "unPara"
    /\ \A r, w : /\ Write(r, w).kind = "write" /\ Write(r, w).byte = WR(r)
                 /\ Write(r, w).from = "word" /\ Write(r, w).data = w
                 /\ Write(r, w).reg = None /\ Write(r, w).into = "unPara"
    /\ \A r : /\ WriteBack(r).kind = "write" /\ WriteBack(r).byte = WR(r)
              /\ WriteBack(r).reg = None /\ WriteBack(r).into = "unPara"
    /\ \A r : /\ WriteSaved(r).kind = "write" /\ WriteSaved(r).byte = WR(r)
              /\ WriteSaved(r).from = "saved" /\ WriteSaved(r).data = r
              /\ WriteSaved(r).reg = None /\ WriteSaved(r).into = "unPara"
    /\ \A r, f : /\ Read(r, f).kind = "read" /\ Read(r, f).byte = RD(r)
                 /\ Read(r, f).reg = None /\ Read(r, f).into = f
    /\ \A r : /\ ReadStage(r).kind = "read" /\ ReadStage(r).byte = RD(r)
              /\ ReadStage(r).reg = r /\ ReadStage(r).into = "unPara"
    /\ waitDataReady.kind = "poll" /\ waitDataReady.byte = RD(STATUS)
    /\ waitDataReady.reg = None /\ waitDataReady.into = "unPara"
  BY DEF RST, Raw, Cmd, Write, WriteBack, WriteSaved, Read, ReadStage, waitDataReady, Transfer

LEMMA clearDRDYIs == \E w \in Words : clearDRDY = Write(STATUS, w) /\ Bit(w, 23) = 1
<1>1. 16777215 \in Words
  BY SMT DEF Words
<1>2. Bit(16777215, 23) = 1
  BY SMT DEF Bit
<1> QED BY SMT, <1>1, <1>2 DEF clearDRDY

LEMMA Lengths ==
    ASSUME mode \in {"calib", "routine"}
    PROVE  /\ Len(Program) = IF mode = "calib" THEN 59 ELSE 28
           /\ Len(CS5463IF_Routine) = 28 /\ Len(CS5463IF_Calib) = 59
  BY RoutineIs, CalibIs DEF Program

(* The steps both programs begin with. *)
LEMMA BootOps ==
    ASSUME mode \in {"calib", "routine"}, step \in 1..16
    PROVE  /\ Op = Boot[step] /\ Op.reg = None /\ Op.kind # "poll" /\ Op.into = "unPara"
           /\ Op.kind = "reset" => step \in {1, 2}
           /\ step = 1 => Op.kind = "reset" /\ Op.byte = 0
           /\ step = 2 => Op.kind = "reset" /\ Op.byte = 1
           /\ Op.kind \notin {"cmd"}
           /\ Op.kind = "write" => step \in {7, 8, 9, 10, 11, 13, 14, 16}
           /\ step \in {7, 16} => Op.byte = WR(STATUS)
<1>1. Op = Boot[step]
  BY RoutineIs, CalibIs DEF Op, Program
<1>3. step \in {1, 2, 3, 4, 5, 6, 7, 8, 9, 10, 11, 12, 13, 14, 15, 16}
  OBVIOUS
<1>4. /\ Boot[1].kind = "reset" /\ Boot[1].byte = 0 /\ Boot[2].kind = "reset" /\ Boot[2].byte = 1
      /\ Boot[7].byte = WR(STATUS) /\ Boot[16].byte = WR(STATUS)
  BY OpFields, BootIs
<1>5. \A i \in {3, 4, 5, 6} : Boot[i].kind = "raw"
  BY OpFields, BootIs
<1>6. \A i \in {12, 15} : Boot[i].kind = "read"
  BY OpFields, BootIs
<1>7. \A i \in {7, 8, 9, 10, 11, 13, 14, 16} : Boot[i].kind = "write"
  BY OpFields, BootIs
<1>8. \A i \in {1, 2, 3, 4, 5, 6, 7, 8, 9, 10, 11, 12, 13, 14, 15, 16} :
          Boot[i].reg = None /\ Boot[i].into = "unPara"
  BY OpFields, BootIs, SMTT(30)
<1>9. Op.reg = None /\ Op.into = "unPara"
  BY <1>1, <1>3, <1>8, Zenon
<1>10. CASE step \in {1, 2}
  BY <1>1, <1>4, <1>9, <1>10
<1>11. CASE step \in {3, 4, 5, 6}
  BY <1>1, <1>5, <1>9, <1>11
<1>12. CASE step \in {12, 15}
  BY <1>1, <1>6, <1>9, <1>12
<1>13. CASE step \in {7, 8, 9, 10, 11, 13, 14, 16}
  BY <1>1, <1>4, <1>7, <1>9, <1>13
<1> QED BY <1>3, <1>10, <1>11, <1>12, <1>13

(* The rest of the routine. *)
LEMMA RoutineOps ==
    ASSUME mode = "routine", step \in 17..28
    PROVE  /\ Op.reg = None /\ Op.kind \in {"write", "cmd", "read"}
           /\ step \in 17..22 => Op.kind = "write"
           /\ step = 23 => Op.kind = "cmd" /\ Op.byte = START_CNTN_CNVS
           /\ step >= 24 => Op.kind = "read"
<1>1. Op = CS5463IF_Routine[step]
  BY DEF Op, Program
<1>2. CASE step \in 17..22
  <2>1. step - 16 \in 1..6 /\ 16 + (step - 16) = step
    BY <1>2
  <2>2. Op = writeCS5463Calib[step - 16]
    BY <1>1, <2>1, RoutineIs, Zenon
  <2>3. \A i \in 1..6 : writeCS5463Calib[i].kind = "write" /\ writeCS5463Calib[i].reg = None
    BY OpFields, writeCS5463CalibIs
  <2> QED BY <1>2, <2>1, <2>2, <2>3
<1>3. CASE step = 23
  <2>1. Op = Cmd(START_CNTN_CNVS)
    BY <1>1, <1>3, RoutineIs, Zenon
  <2> QED BY <1>3, <2>1 DEF Cmd, Transfer
<1>4. CASE step \in 24..28
  <2>1. step - 23 \in 1..5 /\ 23 + (step - 23) = step
    BY <1>4
  <2>2. Op = Measures[step - 23]
    BY <1>1, <2>1, RoutineIs, Zenon
  <2> QED BY <1>4, <2>1, <2>2, MeasuresIs, SMTT(30)
<1> QED BY <1>2, <1>3, <1>4

(* The rest of a calibration: seven steps for each of the six registers.   *)
LEMMA CalibOps ==
    ASSUME mode = "calib", NEW j \in 1..6, NEW k \in 1..7, step = 10 + 7 * j + k
    PROVE  /\ k = 1 => Op = clearDRDY
           /\ k = 2 => Op = Cmd(POWER_UP_HALT)
           /\ k = 3 => Op = Write(StageReg[j], StageFirst[j])
           /\ k = 4 => Op = Cmd(StageCmd[j])
           /\ k = 5 => Op = waitDataReady
           /\ k = 6 => Op = ReadStage(StageReg[j])
           /\ k = 7 => Op = Cmd(START_CNTN_CNVS)
<1>1. Op = StageNo(j)[k]
  BY CalibIs, Zenon DEF Op, Program
<1>2. StageReg[j] \in CalibRegisters /\ StageCmd[j] \in STARTS /\ StageFirst[j] \in Words
  BY StageTypes
<1> QED BY <1>1, <1>2, StageIs, SMTT(30) DEF StageNo

LEMMA StageSteps ==
    \A i \in 18..59 : \E j \in 1..6, k \in 1..7 : i = 10 + 7 * j + k
<1> TAKE i \in 18..59
<1> WITNESS (i - 11) \div 7 \in 1..6, ((i - 11) % 7) + 1 \in 1..7
<1> QED OBVIOUS

(* The transfers that wait for DRDY, or take what a stage has measured. *)
LEMMA StageOps ==
    ASSUME mode \in {"calib", "routine"}, step \in 1..Len(Program)
    PROVE  /\ Op.kind = "poll" => mode = "calib" /\ \E j \in 1..6 : step = 15 + 7 * j
           /\ Op.reg # None =>
                  /\ mode = "calib"
                  /\ \E j \in 1..6 : step = 16 + 7 * j /\ Op.reg = StageReg[j]
           /\ Op.kind = "reset" => step \in {1, 2}
<1>1. CASE step \in 1..16
  BY <1>1, BootOps
<1>2. CASE step > 16 /\ mode = "routine"
  <2>1. step \in 17..28
    <3>1. Len(Program) = 28
      BY <1>2, Lengths
    <3>2. step \in 1..28
      BY <3>1, Zenon
    <3> QED BY <1>2, <3>2
  <2>2. Op.reg = None /\ Op.kind \in {"write", "cmd", "read"}
    BY <1>2, <2>1, RoutineOps
  <2> QED BY <2>2
<1>3. CASE step = 17 /\ mode = "calib"
  <2>1. Op = Cmd(START_CNTN_CNVS)
    BY <1>3, CalibIs DEF Op, Program
  <2> QED BY <2>1 DEF Cmd, Transfer
<1>4. CASE step > 17 /\ mode = "calib"
  <2>1. step \in 18..59
    <3>1. Len(Program) = 59
      BY <1>4, Lengths
    <3>2. step \in 1..59
      BY <3>1, Zenon
    <3> QED BY <1>4, <3>2
  <2>2. PICK j \in 1..6, k \in 1..7 : step = 10 + 7 * j + k
    BY <2>1, StageSteps
  <2>3. /\ k # 5 => Op.kind # "poll"
        /\ k # 6 => Op.reg = None
        /\ k = 6 => Op.reg = StageReg[j]
        /\ Op.kind # "reset"
    <3>1. k \in {1, 2, 3, 4, 5, 6, 7}
      OBVIOUS
    <3>2. CASE k \in {1, 3}
      <4>1. \E r, w : Op = Write(r, w)
        BY <1>4, <2>2, <3>2, CalibOps, clearDRDYIs
      <4> QED BY <3>2, <4>1, OpFields
    <3>3. CASE k \in {2, 4, 7}
      <4>1. \E b : Op = Cmd(b)
        BY <1>4, <2>2, <3>3, CalibOps
      <4> QED BY <3>3, <4>1, OpFields
    <3>4. CASE k = 5
      <4>1. Op = waitDataReady
        BY <1>4, <2>2, <3>4, CalibOps
      <4> QED BY <3>4, <4>1, OpFields
    <3>5. CASE k = 6
      <4>1. Op = ReadStage(StageReg[j])
        BY <1>4, <2>2, <3>5, CalibOps
      <4> QED BY <3>5, <4>1, OpFields
    <3> QED BY <3>1, <3>2, <3>3, <3>4, <3>5
  <2>4. /\ k = 5 => step = 15 + 7 * j
        /\ k = 6 => step = 16 + 7 * j
    BY <2>2
  <2> QED BY <1>4, <2>3, <2>4, Zenon
<1> QED BY <1>1, <1>2, <1>3, <1>4

LEMMA AdvancesIs ==
    ASSUME mode \in {"calib", "routine"}, step \in 1..Len(Program), Advances
    PROVE  /\ mode' \in {"calib", "routine"} /\ step' \in 1..Len(Program')
           /\ \/ step' = step + 1 /\ mode' = mode /\ step < Len(Program)
              \/ step' = 24 /\ mode = "routine" /\ mode' = mode /\ step = 28
              \/ step' = 1 /\ mode' = "routine" /\ mode = "calib" /\ step = 59
<1> DEFINE l  == Len(Program)
           m  == Len(Measures)
           l2 == Len(Program')
<1>1. l = IF mode = "calib" THEN 59 ELSE 28
  BY Lengths
<1>2. mode' = mode => l2 = l
  BY DEF Program
<1>3. mode' = "routine" => l2 = 28
  BY Lengths DEF Program
<1>4. /\ step \in 1..l
      /\ \/ step < l /\ step' = step + 1 /\ mode' = mode
         \/ step = l /\ mode = "routine" /\ step' = l - m + 1 /\ mode' = mode
         \/ step = l /\ mode = "calib" /\ step' = 1 /\ mode' = "routine"
  BY Zenon DEF Advances, Goes
<1>5. m = 5
  BY MeasuresIs
<1> HIDE DEF l, m, l2
<1>6. step' \in 1..l2
  BY <1>1, <1>2, <1>3, <1>4, <1>5
<1>7. \/ step' = step + 1 /\ mode' = mode /\ step < l
      \/ step' = 24 /\ mode = "routine" /\ mode' = mode /\ step = 28
      \/ step' = 1 /\ mode' = "routine" /\ mode = "calib" /\ step = 59
  BY <1>1, <1>4, <1>5
<1> QED BY <1>4, <1>6, <1>7 DEF l, l2

Transferring == MeterTypes /\ Placed /\ Sending /\ Quiet /\ InFlight /\ Known

LEMMA OctetsWord ==
    ASSUME NEW m \in [1..3 -> Octets]
    PROVE  Word(m) \in Words
<1>1. m[1] \in Octets /\ m[2] \in Octets /\ m[3] \in Octets
  OBVIOUS
<1> QED BY SMT, <1>1 DEF Octets, Word, Words

LEMMA BusEnds ==
    ASSUME MeterTypes
    PROVE  /\ bus.at \in {"idle", "send", "recv", "end"} /\ bus.n \in 0..31
           /\ mode \in {"calib", "routine"} /\ step \in 1..Len(Program) /\ Sound(Op)
  BY OpSound DEF MeterTypes

LEMMA BeginsKeeps ==
    ASSUME MeterTypes, Placed, Quiet, Known, Begins
    PROVE  /\ Transferring' /\ bus.at = "idle" /\ bus'.at = "send"
           /\ UNCHANGED <<mode, step, saved, early, chip>>
<1>1. /\ bus.at = "idle" /\ Op.kind # "reset" /\ bus' = [at |-> "send", n |-> 0]
      /\ pins' = IF Op.kind = "raw" THEN pins ELSE CS5463_SELECT(pins)
      /\ UNCHANGED <<mode, step, polls, mem, saved, plugStatus, chip, last, incoming, early>>
  BY DEF Begins
<1>2. Op' = Op /\ Program' = Program /\ Length' = Length
  BY <1>1, SameTransfer
<1>3. pins \in PinsType /\ pins.enabled = Driven /\ Sound(Op)
  BY BusEnds DEF MeterTypes
<1>4. /\ pins' \in PinsType /\ pins'.enabled = Driven
      /\ "CS" \in pins'.out <=> Op.kind = "raw"
  <2>1. "CS" \in pins.out
    BY <1>1 DEF Placed
  <2> QED BY <1>1, <1>3, <2>1, ChipSelects
<1>5. MeterTypes'
  BY <1>1, <1>2, <1>4 DEF MeterTypes
<1>6. Placed'
  <2>1. 0 < Length
    BY <1>3, OpBytes
  <2> QED BY <1>1, <1>2, <1>4, <2>1 DEF Placed
<1>7. chip.sh = <<>> /\ chip.to = None /\ chip.out = <<>>
  BY <1>1 DEF Quiet
<1>8. Sending'
  <2>1. bus'.n = 0 /\ bus'.n < 8 /\ ~(bus'.n >= 8) /\ Len(chip'.sh) = 0 /\ 1..bus'.n = {}
    BY <1>1, <1>7
  <2> QED BY <1>1, <1>7, <2>1, Zenon DEF Sending
<1>9. Quiet' /\ InFlight'
  BY <1>1 DEF Quiet, InFlight
<1>10. Known'
  BY <1>1, <1>2 DEF Known
<1> QED BY <1>1, <1>5, <1>6, <1>8, <1>9, <1>10 DEF Transferring

LEMMA PowerUpIs ==
    /\ PowerUp \in ChipType /\ PowerUp.sh = <<>> /\ PowerUp.to = None /\ PowerUp.out = <<>>
    /\ PowerUp.regs[I_RMS] = 0 /\ PowerUp.calibrating = None /\ ~PowerUp.running
<1>1. I_RMS \in Registers /\ I_RMS # CONFIG /\ CONFIG \in Registers
  BY RegisterSets, RegisterNumbers
<1>2. Zero \in [Registers -> Words] /\ Zero[I_RMS] = 0
  BY <1>1 DEF Zero, Words
<1>3. [Zero EXCEPT ![CONFIG] = 1] \in [Registers -> Words] /\ [Zero EXCEPT ![CONFIG] = 1][I_RMS] = 0
  <2>1. 1 \in Words
    BY DEF Words
  <2> QED BY <1>1, <1>2, <2>1
<1> QED BY <1>3 DEF PowerUp, ChipType

LEMMA ResetsKeeps ==
    ASSUME MeterTypes, Placed, Quiet, Known, Resets
    PROVE  /\ Transferring' /\ bus.at = "idle" /\ bus'.at = "idle" /\ step \in {1, 2}
           /\ step' = step + 1 /\ mode' = mode
           /\ step = 1 => chip' = PowerUp
           /\ step = 2 => chip' = chip
<1>1. /\ bus.at = "idle" /\ Op.kind = "reset"
      /\ pins' = GPIO_OUTPUT_SET(pins, "RST", Op.byte)
      /\ chip' = IF Op.byte = 0 THEN PowerUp ELSE chip
      /\ Advances
      /\ UNCHANGED <<bus, polls, mem, saved, plugStatus, last, incoming, early>>
  BY DEF Resets
<1>2. /\ pins \in PinsType /\ pins.enabled = Driven /\ Sound(Op) /\ chip \in ChipType
      /\ mode \in {"calib", "routine"} /\ step \in 1..Len(Program)
  BY BusEnds DEF MeterTypes
<1>3. step \in {1, 2}
  BY <1>1, <1>2, StageOps
<1>4. /\ step = 1 => Op.byte = 0
      /\ step = 2 => Op.byte = 1
  <2>1. step \in 1..16
    BY <1>3
  <2> QED BY <1>2, <2>1, BootOps
<1>5. step' = step + 1 /\ mode' = mode /\ step' \in 1..Len(Program') /\ mode' \in {"calib", "routine"}
  <2>1. /\ mode' \in {"calib", "routine"} /\ step' \in 1..Len(Program')
        /\ \/ step' = step + 1 /\ mode' = mode /\ step < Len(Program)
           \/ step' = 24 /\ mode = "routine" /\ mode' = mode /\ step = 28
           \/ step' = 1 /\ mode' = "routine" /\ mode = "calib" /\ step = 59
    BY <1>1, <1>2, AdvancesIs
  <2>2. step # 28 /\ step # 59
    BY <1>3
  <2> QED BY <2>1, <2>2, Zenon
<1>6. /\ pins' \in PinsType /\ pins'.enabled = Driven /\ ("CS" \in pins'.out <=> "CS" \in pins.out)
  <2>1. Op.byte \in {0, 1}
    BY <1>3, <1>4
  <2>2. /\ pins' \in PinsType /\ pins'.enabled = pins.enabled \cup {"RST"}
        /\ pins'.out = IF Op.byte = 1 THEN pins.out \cup {"RST"} ELSE pins.out \ {"RST"}
    BY <1>1, <1>2, <2>1, GpioSets
  <2> QED BY <1>2, <2>2 DEF Driven
<1>7. chip' \in ChipType /\ chip'.sh = <<>> /\ chip'.to = None /\ chip'.out = <<>>
      /\ chip'.regs[I_RMS] \in IRMS \cup {0}
  <2>1. /\ chip.sh = <<>> /\ chip.to = None /\ chip.out = <<>> /\ chip.regs[I_RMS] \in IRMS \cup {0}
    BY <1>1 DEF Quiet, Known
  <2> QED BY <1>1, <1>2, <2>1, PowerUpIs
<1>8. MeterTypes'
  BY <1>1, <1>5, <1>6, <1>7 DEF MeterTypes
<1>9. Placed'
  BY <1>1, <1>6 DEF Placed
<1>10. Sending' /\ Quiet' /\ InFlight'
  BY <1>1, <1>7 DEF Sending, Quiet, InFlight
<1>11. Known'
  BY <1>1, <1>7 DEF Known
<1>12. /\ step = 1 => chip' = PowerUp
       /\ step = 2 => chip' = chip
  BY <1>1, <1>4
<1> QED BY <1>1, <1>3, <1>5, <1>8, <1>9, <1>10, <1>11, <1>12 DEF Transferring

LEMMA SendKeeps ==
    ASSUME MeterTypes, Placed, Sending, Known, writeCS5463SPI, bus.n + 1 # Length
    PROVE  /\ Transferring' /\ bus.at = "send" /\ bus'.at = "send"
           /\ UNCHANGED <<mode, step, saved, early>>
           /\ chip'.regs = chip.regs /\ chip'.running = chip.running
           /\ chip'.calibrating = chip.calibrating
<1>1. /\ bus.at = "send" /\ UNCHANGED <<mode, step, polls, saved, plugStatus, last, early>>
  BY DEF writeCS5463SPI
<1>2. Op' = Op /\ Program' = Program /\ Length' = Length /\ Sound(Op)
  BY <1>1, SameTransfer, BusEnds
<1>3. /\ bus' = [at |-> "send", n |-> bus.n + 1] /\ mem' = mem /\ incoming' = incoming
      /\ bus.n + 1 < Length /\ chip' \in ChipType /\ Sending'
      /\ chip'.regs = chip.regs /\ chip'.running = chip.running
      /\ chip'.calibrating = chip.calibrating
  BY <1>2, SendGoesOn
<1>4. /\ pins' \in PinsType /\ pins'.enabled = Driven
      /\ "CS" \in pins'.out <=> "CS" \in pins.out
  BY <1>2, SendPins
<1>5. bus.n + 1 \in 0..31
  <2>1. bus.n \in 0..31 /\ Length \in {8, 32}
    BY <1>2, OpBytes, BusEnds
  <2> QED BY <1>3, <2>1
<1>6. MeterTypes'
  BY <1>1, <1>2, <1>3, <1>4, <1>5 DEF MeterTypes
<1>7. Placed'
  BY <1>1, <1>2, <1>3, <1>4 DEF Placed
<1>8. Quiet' /\ InFlight'
  BY <1>3 DEF Quiet, InFlight
<1>9. Known'
  BY <1>1, <1>2, <1>3 DEF Known
<1> QED BY <1>1, <1>3, <1>6, <1>7, <1>8, <1>9 DEF Transferring

(* What a transfer that has been sent leaves in the chip. *)
LEMMA SentChip ==
    ASSUME MeterTypes, Placed, Sending, writeCS5463SPI, bus.n + 1 = Length
    PROVE  /\ chip' \in ChipType /\ chip'.sh = <<>> /\ chip'.to = None
           /\ ~Reads => chip'.out = <<>>
           /\ chip'.regs[I_RMS] = chip.regs[I_RMS]
           /\ Op.kind # "write" => chip'.regs = chip.regs
           /\ Op.kind # "cmd" => chip'.running = chip.running /\ chip'.calibrating = chip.calibrating
<1>1. /\ Sound(Op) /\ chip \in ChipType /\ chip.out = <<>>
      /\ Op.kind \in {"write", "cmd", "raw", "read", "poll"} /\ (Reads <=> Op.kind \in {"read", "poll"})
  <2>1. Sound(Op)
    BY BusEnds
  <2>2. bus.at = "send" /\ Op.kind # "reset"
    BY DEF writeCS5463SPI, Placed
  <2> QED BY <2>1, <2>2, SendEnds, OpBytes
<1>2. CASE Op.kind = "raw"
  <2>1. chip' = chip /\ chip.sh = <<>> /\ chip.to = None
    BY <1>1, <1>2, SendEnds
  <2> QED BY <1>1, <1>2, <2>1
<1>3. CASE Op.kind = "cmd"
  <2>1. chip' = Commanded(chip, Op.byte) /\ chip.to = None
    BY <1>1, <1>3, SendEnds
  <2>2. Op.byte \in STARTS \cup {POWER_UP_HALT, START_CNTN_CNVS}
    BY <1>1, <1>3 DEF Sound
  <2>3. /\ chip' \in ChipType /\ chip'.sh = <<>> /\ chip'.to = None /\ chip'.out = <<>>
        /\ chip'.regs = chip.regs
    BY <1>1, <2>1, <2>2, CmdIs
  <2> QED BY <1>1, <1>3, <2>3
<1>4. CASE Op.kind = "write"
  <2>1. chip' = Written(chip, Data) /\ Data \in Words /\ chip.to \in Settable
    BY <1>1, <1>4, SendEnds
  <2>2. I_RMS \in Registers /\ I_RMS # chip.to
    BY <2>1, RegisterSets
  <2> HIDE DEF Data
  <2>3. /\ chip' \in ChipType /\ chip'.sh = <<>> /\ chip'.to = None /\ chip'.out = <<>>
        /\ chip'.running = chip.running /\ chip'.calibrating = chip.calibrating
        /\ chip'.regs[I_RMS] = chip.regs[I_RMS]
    BY <1>1, <2>1, <2>2, WrittenIs
  <2> QED BY <1>1, <1>4, <2>3
<1>5. CASE Reads
  <2>1. PICK r \in Registers : Op.byte = RD(r)
    BY <1>1, <1>5 DEF Sound
  <2>2. chip' = [chip EXCEPT !.sh = <<>>, !.out = WordBits(chip.regs[r])] /\ chip.to = None
    BY <1>1, <1>5, <2>1, SendEnds
  <2>3. WordBits(chip.regs[r]) \in Seq({0, 1})
    BY <1>1, <2>1, WordBitsType DEF ChipType
  <2>4. /\ chip' \in ChipType /\ chip'.sh = <<>> /\ chip'.to = None /\ chip'.regs = chip.regs
        /\ chip'.running = chip.running /\ chip'.calibrating = chip.calibrating
    <3> DEFINE b == WordBits(chip.regs[r])
    <3>1. b \in Seq({0, 1}) /\ <<>> \in Seq({0, 1}) /\ chip' = [chip EXCEPT !.sh = <<>>, !.out = b]
      BY <2>2, <2>3
    <3> HIDE DEF b
    <3> QED BY <1>1, <2>2, <3>1 DEF ChipType
  <2> QED BY <1>1, <1>5, <2>4
<1> QED BY <1>1, <1>2, <1>3, <1>4, <1>5

(* The numbers of the registers tell the commands apart. *)
LEMMA CommandsApart ==
    \A r, s \in Registers : (RD(r) = RD(s) => r = s) /\ (WR(r) = WR(s) => r = s)
<1>1. \A r, s \in 0..28 : (RD(r) = RD(s) => r = s) /\ (WR(r) = WR(s) => r = s)
  BY DEF RD, WR
<1> QED BY <1>1, RegisterSets

(* The answer that begins is the word of the register asked for... *)
LEMMA AnswerBegins ==
    ASSUME MeterTypes, Placed, Sending, writeCS5463SPI, bus.n + 1 = Length, Reads,
           NEW r \in Registers, Op.byte = RD(r), NEW w, w = chip.regs[r]
    PROVE  w \in Words /\ Carried(w)' /\ Decoded(chip'.out) = w
<1>1. Sound(Op) /\ chip \in ChipType
  BY BusEnds, SendEnds
<1>2. w \in Words
  BY <1>1 DEF ChipType
<1>3. /\ bus' = [at |-> "recv", n |-> 0]
      /\ mem' = [mem EXCEPT ![Op.into][1] = 0]
      /\ chip' = [chip EXCEPT !.sh = <<>>, !.out = WordBits(w)]
  BY <1>1, SendEnds
<1>4. chip'.out = WordBits(w)
  BY <1>1, <1>3 DEF ChipType
<1>5. Op' = Op /\ Op.into \in Fields
  <2>1. mode' = mode /\ step' = step
    BY DEF writeCS5463SPI
  <2> QED BY <1>1, <2>1, SameTransfer DEF Sound, Transfers
<1>6. Len(chip'.out) = 24 /\ \A j \in 1..24 : chip'.out[j] = Bit(w, 24 - j)
  BY <1>2, <1>4, WordBitsType
<1>7. Decoded(chip'.out) = w
  BY <1>2, <1>6, WordOfBits
<1>8. mem'[Op.into][1] = 0
  BY <1>3, <1>5 DEF MeterTypes
<1>9. Carried(w)'
  <2>1. Got' = 0 /\ 24 - Got' = 24 /\ Got' \div 8 + 1 = 1 /\ Got' % 8 = 0 /\ ~(8 <= Got')
    BY <1>3 DEF Got
  <2>2. \A b \in 1..3 : ~(8 * b <= Got')
    BY <2>1
  <2>3. High(Bytes(w)[1], 0) = 0
    <3>1. Bytes(w)[1] \in 0..255
      BY <1>2, WordOfBytes
    <3>2. Bytes(w)[1] \in Octets
      BY <3>1 DEF Octets
    <3> QED BY <3>2, HighSteps
  <2>4. \A j \in 1..(24 - Got') : chip'.out[j] = Bit(w, 24 - Got' - j)
    BY <1>6, <2>1, Zenon
  <2>5. mem'[Op'.into][Got' \div 8 + 1] = High(Bytes(w)[Got' \div 8 + 1], Got' % 8)
    BY <1>5, <1>8, <2>1, <2>3, Zenon
  <2>6. Len(chip'.out) = 24 - Got'
    BY <1>6, <2>1, Zenon
  <2> QED BY <2>2, <2>4, <2>5, <2>6, Zenon DEF Carried
<1> QED BY <1>2, <1>7, <1>9

(* ...and has its meaning. *)
LEMMA AnswerMeans ==
    ASSUME MeterTypes, Placed, Sending, CalibInv, writeCS5463SPI, bus.n + 1 = Length, Reads,
           NEW r \in Registers, Op.byte = RD(r), NEW w, w = chip.regs[r]
    PROVE  Meant(w)'
<1>1. Sound(Op) /\ mode \in {"calib", "routine"} /\ step \in 1..Len(Program)
  BY BusEnds
<1>2. bus.at = "send" /\ UNCHANGED <<mode, step, saved, early>>
  BY DEF writeCS5463SPI
<1>3. Op' = Op
  BY <1>2, SameTransfer
<1>4. /\ chip'.regs = chip.regs /\ chip'.calibrating = chip.calibrating
  <2>1. Op.kind # "write" /\ Op.kind # "cmd"
    BY <1>1, OpBytes
  <2> QED BY <2>1, SentChip
<1>5. Op.into = "I_RMS" => w = incoming'
  <2>1. incoming' = IF Op.into = "I_RMS" THEN Decoded(chip'.out) ELSE incoming
    BY <1>1, SendEnds
  <2> QED BY <2>1, AnswerBegins
<1>6. ASSUME Op.reg # None, ~early
      PROVE  w = Result[Op.reg]
  <2>1. PICK j \in 1..6 : mode = "calib" /\ step = 16 + 7 * j /\ Op.reg = StageReg[j]
    BY <1>1, <1>6, StageOps
  <2>2. step = 10 + 7 * j + 6 /\ 6 \in 1..7
    BY <2>1
  <2>3. StageAt(StageReg[j], 6)
    BY <2>1, <2>2, Zenon DEF CalibInv
  <2>4. chip.regs[StageReg[j]] = Result[StageReg[j]]
    BY <1>6, <2>3 DEF StageAt
  <2>5. Op.byte = RD(Op.reg) /\ Op.reg \in Registers
    BY <1>1, <1>6, RegisterSets DEF Sound, Transfers
  <2>6. r = Op.reg
    BY <2>5, CommandsApart
  <2> QED BY <2>1, <2>4, <2>6
<1>7. ASSUME Op.kind = "poll", ~early, Bit(w, 23) = 1, NEW i \in 1..6, step = 15 + 7 * i
      PROVE  chip.calibrating = None /\ chip.regs[StageReg[i]] = Result[StageReg[i]]
  <2>1. mode = "calib"
    BY <1>1, <1>7, StageOps
  <2>2. step = 10 + 7 * i + 5 /\ 5 \in 1..7
    BY <1>7
  <2>3. StageAt(StageReg[i], 5)
    BY <2>1, <2>2, Zenon DEF CalibInv
  <2>4. Op.byte = RD(STATUS) /\ STATUS \in Registers
    BY <1>1, <1>7, RegisterSets DEF Sound
  <2>5. r = STATUS
    BY <2>4, CommandsApart
  <2>6. Bit(0, 23) # 1
    BY DEF Bit
  <2>7. chip.regs[STATUS] # 0
    BY <1>7, <2>5, <2>6
  <2> QED BY <1>7, <2>3, <2>7 DEF StageAt
<1>8. Op.kind = "poll" /\ ~early /\ Bit(w, 23) = 1 => chip.calibrating = None
  <2> SUFFICES ASSUME Op.kind = "poll", ~early, Bit(w, 23) = 1
               PROVE  chip.calibrating = None
    OBVIOUS
  <2>1. PICK i \in 1..6 : step = 15 + 7 * i
    BY <1>1, StageOps
  <2> QED BY <1>7, <2>1
<1>9. Op.kind = "poll" /\ ~early /\ Bit(w, 23) = 1 =>
          \A i \in 1..6 : step = 15 + 7 * i => chip.regs[StageReg[i]] = Result[StageReg[i]]
  BY <1>7
<1> QED BY <1>2, <1>3, <1>4, <1>5, <1>6, <1>8, <1>9 DEF Meant

LEMMA SentKeeps ==
    ASSUME MeterTypes, Placed, Sending, Known, CalibInv, writeCS5463SPI, bus.n + 1 = Length
    PROVE  /\ Transferring' /\ bus.at = "send" /\ bus'.at \in {"recv", "end"}
           /\ UNCHANGED <<mode, step, saved, early>>
<1>1. /\ bus.at = "send" /\ UNCHANGED <<mode, step, polls, saved, plugStatus, last, early>>
  BY DEF writeCS5463SPI
<1>2. Op' = Op /\ Program' = Program /\ Length' = Length /\ (Reads' <=> Reads)
  BY <1>1, SameTransfer
<1>3. Sound(Op)
  BY BusEnds
<1>4. /\ bus' = [at |-> IF Reads THEN "recv" ELSE "end", n |-> 0]
      /\ mem' = IF Reads THEN [mem EXCEPT ![Op.into][1] = 0] ELSE mem
      /\ incoming' = IF Op.into = "I_RMS" THEN Decoded(chip'.out) ELSE incoming
  BY <1>3, SendEnds
<1>5. /\ chip' \in ChipType /\ chip'.sh = <<>> /\ chip'.to = None /\ (~Reads => chip'.out = <<>>)
      /\ chip'.regs[I_RMS] = chip.regs[I_RMS]
  BY SentChip
<1>6. /\ pins' \in PinsType /\ pins'.enabled = Driven
      /\ "CS" \in pins'.out <=> "CS" \in pins.out
      /\ Reads => "MOSI" \in pins'.out
  BY <1>3, SendPins
<1>7. /\ Op.into = "I_RMS" => Reads /\ Op.byte = RD(I_RMS)
      /\ Reads => \E r \in Registers : Op.byte = RD(r)
      /\ Op.kind # "reset" /\ Op.into \in Fields
  <2>1. Op.kind # "reset"
    BY <1>1 DEF Placed
  <2> QED BY <1>3, <2>1, OpBytes DEF Sound, Transfers
<1>8. incoming' \in Words /\ incoming' \in IRMS \cup {0}
  <2>1. Op.into = "I_RMS" => incoming' = chip.regs[I_RMS] /\ chip.regs[I_RMS] \in Words
    BY <1>4, <1>7, AnswerBegins, RegisterSets
  <2> QED BY <1>4, <2>1 DEF Known, MeterTypes
<1>9. mem' \in [Fields -> [1..3 -> Octets]] /\ (Op.into # "I_RMS" => mem'.I_RMS = mem.I_RMS)
  <2>1. 0 \in Octets /\ "I_RMS" \in Fields
    BY DEF Octets, Fields
  <2>2. mem \in [Fields -> [1..3 -> Octets]]
    BY DEF MeterTypes
  <2>3. mem' = IF Reads THEN [mem EXCEPT ![Op.into] = [mem[Op.into] EXCEPT ![1] = 0]] ELSE mem
    BY <1>4, <1>7, <2>2
  <2> QED BY <1>7, <2>1, <2>2, <2>3
<1>10. MeterTypes'
  BY <1>1, <1>2, <1>4, <1>5, <1>6, <1>8, <1>9 DEF MeterTypes
<1>11. Placed'
  BY <1>1, <1>2, <1>4, <1>6, <1>7 DEF Placed
<1>12. Sending' /\ Quiet'
  <2>1. bus'.at # "send" /\ bus'.at # "idle" /\ bus'.n = 0 /\ (bus'.at = "end" => ~Reads)
    BY <1>4
  <2>2. Len(chip'.sh) = bus'.n % 8 /\ 1..(bus'.n % 8) = {}
    BY <1>5, <2>1
  <2> QED BY <1>5, <2>1, <2>2, Zenon DEF Sending, Quiet
<1>13. InFlight'
  <2>1. ASSUME Reads
        PROVE  \E w \in Words : Carried(w)' /\ Meant(w)'
    <3>1. PICK r \in Registers : Op.byte = RD(r)
      BY <1>7, <2>1
    <3>2. PICK w : w = chip.regs[r]
      OBVIOUS
    <3>3. w \in Words /\ Carried(w)'
      BY <2>1, <3>1, <3>2, AnswerBegins
    <3>4. Meant(w)'
      BY <2>1, <3>1, <3>2, AnswerMeans
    <3> QED BY <3>3, <3>4
  <2> QED BY <1>2, <2>1, Zenon DEF InFlight
<1>14. Known'
  <2>1. bus'.at \in {"recv", "end"}
    BY <1>4
  <2> QED BY <1>1, <1>2, <1>5, <1>8, <1>9, <2>1 DEF Known
<1> QED BY <1>1, <1>4, <1>10, <1>11, <1>12, <1>13, <1>14 DEF Transferring

LEMMA EmptySeq == \A s \in Seq({0, 1}) : Len(s) = 0 => s = <<>>
  OBVIOUS

LEMMA ReadKeeps ==
    ASSUME Transferring, readCS5463SPI
    PROVE  /\ Transferring' /\ bus.at = "recv" /\ bus'.at \in {"recv", "end"}
           /\ UNCHANGED <<mode, step, saved, early>>
           /\ chip'.regs = chip.regs /\ chip'.running = chip.running
           /\ chip'.calibrating = chip.calibrating
<1>0. MeterTypes /\ Placed /\ Sending /\ Quiet /\ InFlight /\ Known
  BY DEF Transferring
<1>1. /\ bus.at = "recv" /\ UNCHANGED <<mode, step, polls, saved, plugStatus, last, incoming, early>>
  BY DEF readCS5463SPI
<1>2. Op' = Op /\ Program' = Program /\ Length' = Length /\ (Reads' <=> Reads)
  BY <1>1, SameTransfer
<1>3. Sound(Op) /\ Reads /\ bus.n \in 0..31 /\ bus.n <= 23
  <2>1. Reads /\ bus.n <= 23
    BY <1>0, <1>1, Zenon DEF Placed
  <2> QED BY <1>0, <2>1, BusEnds
<1>4. PICK w \in Words : Carried(w) /\ Meant(w)
  BY <1>0, <1>1, <1>3 DEF InFlight
<1>5. /\ bus' = [at |-> IF bus.n = 23 THEN "end" ELSE "recv", n |-> IF bus.n = 23 THEN 0 ELSE bus.n + 1]
      /\ chip.out # <<>> /\ Len(chip'.out) = 23 - bus.n
      /\ mem' \in [Fields -> [1..3 -> Octets]]
      /\ \A f \in Fields : f # Op.into => mem'[f] = mem[f]
      /\ Carried(w)'
  BY <1>0, <1>3, <1>4, ReadCarries
<1>6. /\ chip' \in ChipType /\ chip'.out = Tail(chip.out) /\ chip'.to = None
      /\ chip'.regs = chip.regs /\ chip'.running = chip.running
      /\ chip'.calibrating = chip.calibrating
      /\ Len(chip'.sh) = (bus.n + 1) % 8
      /\ \A j \in 1..((bus.n + 1) % 8) : chip'.sh[j] = 1
  BY <1>0, <1>5, ReadShifts
<1>7. /\ pins' \in PinsType /\ pins'.enabled = Driven
      /\ "CS" \in pins'.out <=> "CS" \in pins.out
      /\ "MOSI" \in pins'.out
  BY <1>0, ReadPins
<1>n. bus'.at \in {"recv", "end"} /\ bus'.n \in 0..31 /\ bus'.n <= 23
      /\ (bus.n # 23 => bus'.n = bus.n + 1)
  <2>1. CASE bus.n = 23
    <3>1. bus' = [at |-> "end", n |-> 0]
      BY <1>5, <2>1
    <3> QED BY <2>1, <3>1
  <2>2. CASE bus.n # 23
    <3>1. bus' = [at |-> "recv", n |-> bus.n + 1]
      BY <1>5, <2>2
    <3> QED BY <1>3, <2>2, <3>1
  <2> QED BY <2>1, <2>2
<1>8. MeterTypes'
  <2>1. bus' \in [at : {"idle", "send", "recv", "end"}, n : 0..31]
    BY <1>5, <1>n
  <2> QED BY <1>0, <1>1, <1>2, <1>5, <1>6, <1>7, <2>1 DEF MeterTypes
<1>9. Placed'
  BY <1>0, <1>1, <1>2, <1>3, <1>7, <1>n DEF Placed
<1>10. Sending'
  BY <1>n DEF Sending
<1>11. Quiet'
  <2>1. CASE bus.n = 23
    <3>1. bus'.at = "end" /\ Len(chip'.out) = 0 /\ Len(chip'.sh) = 0
      BY <1>5, <1>6, <2>1
    <3>2. chip'.sh = <<>> /\ chip'.out = <<>>
      <4>1. chip'.sh \in Seq({0, 1}) /\ chip'.out \in Seq({0, 1})
        BY <1>6 DEF ChipType
      <4> QED BY <3>1, <4>1, EmptySeq
    <3> QED BY <1>6, <3>1, <3>2 DEF Quiet
  <2>2. CASE bus.n # 23
    <3>1. bus'.at = "recv" /\ bus'.n = bus.n + 1
      BY <1>5, <2>2
    <3> QED BY <1>6, <3>1, Zenon DEF Quiet
  <2> QED BY <2>1, <2>2
<1>12. InFlight'
  <2>1. Meant(w)'
    BY <1>1, <1>2, <1>4, <1>6 DEF Meant
  <2> QED BY <1>4, <1>5, <2>1, Zenon DEF InFlight
<1>13. Known'
  <2>1. Op.into # "I_RMS" => mem'.I_RMS = mem.I_RMS
    BY <1>5 DEF Fields
  <2> QED BY <1>0, <1>1, <1>2, <1>6, <1>n, <2>1 DEF Known
<1> QED BY <1>1, <1>6, <1>n, <1>8, <1>9, <1>10, <1>11, <1>12, <1>13 DEF Transferring

(* What the end of a transfer finds in memory, after a read. *)
LEMMA EndFinds ==
    ASSUME Transferring, bus.at = "end", Reads
    PROVE  \E w \in Words : /\ Meant(w) /\ Word(mem[Op.into]) = w
                            /\ Bit(mem[Op.into][1], 7) = Bit(w, 23)
<1>1. PICK w \in Words : Carried(w) /\ Meant(w)
  BY DEF Transferring, InFlight
<1>2. Got = 24
  BY DEF Got
<1>3. \A b \in 1..3 : mem[Op.into][b] = Bytes(w)[b]
  <2>1. \A b \in 1..3 : 8 * b <= 24
    OBVIOUS
  <2> QED BY <1>1, <1>2, <2>1, Zenon DEF Carried
<1>4. Word(mem[Op.into]) = w
  BY <1>3, WordOfBytes
<1>5. Bit(w, 23) = Bit(Bytes(w)[1], 7)
  <2>1. Bit(w, 16 + 7) = Bit(Bytes(w)[1], 7)
    BY BitsOfBytes
  <2> QED BY <2>1
<1> QED BY <1>1, <1>3, <1>4, <1>5

LEMMA EndsKeeps ==
    ASSUME Transferring, Ends
    PROVE  /\ Transferring' /\ bus.at = "end" /\ bus'.at = "idle" /\ chip' = chip
           /\ saved' = IF Op.reg = None THEN saved ELSE [saved EXCEPT ![Op.reg] = Word(mem.unPara)]
           /\ early' = (early /\ Op.reg = None)
           /\ \/ /\ Op.kind = "poll" => Bit(mem.unPara[1], 7) = 1
                 /\ \/ step' = step + 1 /\ mode' = mode /\ step < Len(Program)
                    \/ step' = 24 /\ mode = "routine" /\ mode' = mode /\ step = 28
                    \/ step' = 1 /\ mode' = "routine" /\ mode = "calib" /\ step = 59
              \/ Op.kind = "poll" /\ step' = step /\ mode' = mode
              \/ step' = 1 /\ mode' = "calib"
<1>0. MeterTypes /\ Placed /\ Sending /\ Quiet /\ InFlight /\ Known
  BY DEF Transferring
<1> DEFINE ready == Op.kind # "poll" \/ getCS5463RegBit(mem.unPara, 23)
<1>1. /\ bus.at = "end" /\ bus' = Idle
      /\ pins' = IF Op.kind = "raw" THEN pins ELSE CS5463_DESELECT(pins)
      /\ \/ ready /\ Advances /\ polls' = POLLS
         \/ ~ready /\ polls > 1 /\ polls' = polls - 1 /\ UNCHANGED <<mode, step>>
         \/ ~ready /\ polls = 1 /\ Goes("calib") /\ polls' = POLLS
      /\ saved' = IF Op.reg = None THEN saved ELSE DAT_unSet(Op.reg, Word(mem.unPara))
      /\ last' = IF Op.into = "I_RMS" THEN Word(mem.I_RMS) ELSE last
      /\ early' = (early /\ Op.reg = None)
      /\ UNCHANGED <<mem, plugStatus, chip, incoming>>
  BY Zenon DEF Ends
<1>2. ready => (Op.kind = "poll" => Bit(mem.unPara[1], 7) = 1)
  BY DEF getCS5463RegBit
<1>t. /\ mode \in {"calib", "routine"} /\ step \in 1..Len(Program) /\ polls \in 1..POLLS
      /\ saved \in [CalibRegisters -> Words] /\ mem \in [Fields -> [1..3 -> Octets]] /\ POLLS \in Nat \ {0}
      /\ pins \in PinsType /\ pins.enabled = Driven /\ Sound(Op)
  BY <1>0, BusEnds, MeterAssumption DEF MeterTypes
<1> HIDE DEF ready
<1>3. /\ mode' \in {"calib", "routine"} /\ step' \in 1..Len(Program') /\ polls' \in 1..POLLS
      /\ \/ /\ Op.kind = "poll" => Bit(mem.unPara[1], 7) = 1
            /\ \/ step' = step + 1 /\ mode' = mode /\ step < Len(Program)
               \/ step' = 24 /\ mode = "routine" /\ mode' = mode /\ step = 28
               \/ step' = 1 /\ mode' = "routine" /\ mode = "calib" /\ step = 59
         \/ Op.kind = "poll" /\ step' = step /\ mode' = mode
         \/ step' = 1 /\ mode' = "calib"
  <2>1. CASE ready /\ Advances /\ polls' = POLLS
    <3>1. /\ mode' \in {"calib", "routine"} /\ step' \in 1..Len(Program')
          /\ \/ step' = step + 1 /\ mode' = mode /\ step < Len(Program)
             \/ step' = 24 /\ mode = "routine" /\ mode' = mode /\ step = 28
             \/ step' = 1 /\ mode' = "routine" /\ mode = "calib" /\ step = 59
      BY <1>t, <2>1, AdvancesIs
    <3>2. polls' \in 1..POLLS
      BY <1>t, <2>1
    <3>3. Op.kind = "poll" => Bit(mem.unPara[1], 7) = 1
      BY <1>2, <2>1
    <3> QED BY <3>1, <3>2, <3>3, Zenon
  <2>2. CASE ~ready /\ polls > 1 /\ polls' = polls - 1 /\ UNCHANGED <<mode, step>>
    <3>1. Program' = Program
      BY <2>2 DEF Program
    <3>2. Op.kind = "poll"
      BY <2>2 DEF ready
    <3>3. polls' \in 1..POLLS
      BY <1>t, <2>2
    <3> QED BY <1>t, <2>2, <3>1, <3>2, <3>3, Zenon
  <2>3. CASE ~ready /\ polls = 1 /\ Goes("calib") /\ polls' = POLLS
    <3>1. mode' = "calib" /\ step' = 1
      BY <2>3 DEF Goes
    <3>2. Len(Program') = 59
      <4>1. Program' = CS5463IF_Calib
        BY <3>1 DEF Program
      <4> QED BY <4>1, CalibIs
    <3>3. step' \in 1..Len(Program') /\ polls' \in 1..POLLS
      BY <1>t, <2>3, <3>1, <3>2
    <3> QED BY <3>1, <3>3, Zenon
  <2> QED BY <1>1, <2>1, <2>2, <2>3
<1>4. /\ saved' = IF Op.reg = None THEN saved ELSE [saved EXCEPT ![Op.reg] = Word(mem.unPara)]
      /\ saved' \in [CalibRegisters -> Words] /\ last' \in Words
  <2>1. Word(mem.unPara) \in Words /\ Word(mem.I_RMS) \in Words
    <3>1. mem.unPara \in [1..3 -> Octets] /\ mem.I_RMS \in [1..3 -> Octets]
      BY <1>t DEF Fields
    <3> QED BY <3>1, OctetsWord
  <2>2. Op.reg \in CalibRegisters \cup {None}
    BY <1>t DEF Sound, Transfers
  <2> QED BY <1>0, <1>1, <1>t, <2>1, <2>2 DEF DAT_unSet, MeterTypes
<1>5. /\ pins' \in PinsType /\ pins'.enabled = Driven /\ "CS" \in pins'.out
  <2>1. Op.kind = "raw" => "CS" \in pins.out
    BY <1>0, <1>1 DEF Placed
  <2> QED BY <1>1, <1>t, <2>1, ChipSelects
<1>6. MeterTypes'
  <2>1. bus' \in [at : {"idle", "send", "recv", "end"}, n : 0..31]
    BY <1>1 DEF Idle
  <2>2. early' \in BOOLEAN
    BY <1>1
  <2> QED BY <1>0, <1>1, <1>3, <1>4, <1>5, <2>1, <2>2 DEF MeterTypes
<1>7. bus'.at = "idle"
  BY <1>1 DEF Idle
<1>8. Placed' /\ Sending' /\ InFlight'
  BY <1>5, <1>7 DEF Placed, Sending, InFlight
<1>9. Quiet'
  BY <1>0, <1>1, <1>7 DEF Quiet
<1>10. Known'
  <2>1. chip.regs[I_RMS] \in IRMS \cup {0} /\ incoming \in IRMS \cup {0}
    BY <1>0 DEF Known
  <2>2. Word(mem.I_RMS) = last'
    BY <1>0, <1>1 DEF Known
  <2> QED BY <1>1, <2>1, <2>2 DEF Known
<1> QED BY <1>1, <1>3, <1>4, <1>6, <1>7, <1>8, <1>9, <1>10, Zenon DEF Transferring

LEMMA RoutineRegs ==
    /\ \A k \in 1..12 : /\ RoutineReg[k] \in Settable /\ RoutineReg[k] # STATUS
                        /\ RoutineStep[k] \in 8..22
    /\ \A k, m \in 1..12 : k # m => RoutineReg[k] # RoutineReg[m] /\ RoutineStep[k] # RoutineStep[m]
<1>1. \A k \in 1..12 : RoutineReg[k] \in Settable
  BY RegisterSets DEF RoutineReg
<1>2. RoutineReg = <<0, 5, 26, 18, 28, 6, 3, 4, 17, 1, 2, 16>>
  BY RegisterNumbers DEF RoutineReg
<1>3. \A k \in 1..12 : RoutineReg[k] # STATUS
  BY <1>2, RegisterNumbers
<1>4. \A k, m \in 1..12 : k # m => RoutineReg[k] # RoutineReg[m]
  BY <1>2
<1>5. \A k, m \in 1..12 : k # m => RoutineStep[k] # RoutineStep[m]
  BY DEF RoutineStep
<1>6. \A k \in 1..12 : RoutineStep[k] \in 8..22
  BY DEF RoutineStep
<1> QED BY <1>1, <1>3, <1>4, <1>5, <1>6

(* Nothing of what was set up changes: the transfer begins, or goes on. *)
LEMMA Waits ==
    ASSUME RoutineInv, CalibInv, UNCHANGED <<mode, step, saved, early>>,
           bus'.at \in {"recv", "end"} <=> bus.at \in {"recv", "end"},
           chip'.regs = chip.regs, chip'.running = chip.running,
           chip'.calibrating = chip.calibrating
    PROVE  RoutineInv' /\ CalibInv'
<1>1. Past' = Past /\ RoutineWord' = RoutineWord
  BY DEF Past, RoutineWord
<1>2. RoutineInv'
  BY <1>1 DEF RoutineInv
<1>3. ASSUME NEW r, NEW k, StageAt(r, k)
      PROVE  StageAt(r, k)'
  BY <1>3 DEF StageAt
<1>4. CalibInv'
  <2> HIDE DEF StageAt
  <2> SUFFICES ASSUME mode = "calib", NEW j \in 1..6, NEW k \in 1..7, step = 10 + 7 * j + k
               PROVE  StageAt(StageReg[j], k)'
    BY Zenon DEF CalibInv
  <2>1. StageAt(StageReg[j], k)
    BY Zenon DEF CalibInv
  <2> QED BY <1>3, <2>1
<1> QED BY <1>2, <1>4

(* The chip on its own, and those who look at the relay. *)
LEMMA OwnKeeps ==
    ASSUME Transferring, UNCHANGED <<pins, cs5463, last, incoming>>,
           plugStatus' \in {"OPEN", "CLOSE"}, chip' \in ChipType, early' \in BOOLEAN,
           chip'.sh = chip.sh, chip'.to = chip.to, chip'.out = chip.out,
           chip'.regs[I_RMS] \in IRMS \cup {0}, \A w : Meant(w) => Meant(w)'
    PROVE  Transferring'
<1>0. MeterTypes /\ Placed /\ Sending /\ Quiet /\ InFlight /\ Known
  BY DEF Transferring
<1>1. UNCHANGED <<pins, mode, step, bus, polls, mem, saved, last, incoming>>
  BY DEF cs5463
<1>2. Op' = Op /\ Program' = Program /\ Length' = Length /\ (Reads' <=> Reads)
  BY <1>1, SameTransfer
<1>3. MeterTypes'
  BY <1>0, <1>1, <1>2 DEF MeterTypes
<1>4. Placed'
  BY <1>0, <1>1, <1>2 DEF Placed
<1>5. Data' = Data
  BY <1>1, <1>2 DEF Data, DAT_unGet
<1>6. Sending'
  BY <1>0, <1>1, <1>2, <1>5, Zenon DEF Sending
<1>7. Quiet'
  BY <1>0, <1>1, Zenon DEF Quiet
<1>8. InFlight'
  <2>1. Got' = Got
    BY <1>1 DEF Got
  <2>2. \A w : Carried(w) => Carried(w)'
    BY <1>1, <1>2, <2>1, Zenon DEF Carried
  <2> QED BY <1>0, <1>1, <1>2, <2>2, Zenon DEF InFlight
<1>9. Known'
  BY <1>0, <1>1, <1>2 DEF Known
<1> QED BY <1>3, <1>4, <1>6, <1>7, <1>8, <1>9 DEF Transferring

LEMMA StageRegs ==
    \A j \in 1..6 : /\ StageReg[j] \in CalibRegisters /\ StageReg[j] \in Registers
                    /\ StageReg[j] # STATUS /\ StageReg[j] # I_RMS /\ StageReg[j] # P_ACTIVE
                    /\ StageReg[j] # None
  BY StageTypes, RegisterSets, MeterAssumption

(* At the two steps before the chip is halted, what it ends is too early. *)
LEMMA InWindow ==
    ASSUME Transferring, mode = "calib", NEW j \in 1..6, NEW k \in 1..7, step = 10 + 7 * j + k
    PROVE  k = 2 \/ (k = 1 /\ bus.at \in {"recv", "end"}) => Window
<1>1. CASE k = 2
  <2>1. Op = Cmd(POWER_UP_HALT)
    BY <1>1, CalibOps
  <2>2. Op.kind = "cmd" /\ Op.byte = POWER_UP_HALT
    BY <2>1, OpFields
  <2> QED BY <2>2 DEF Window
<1>2. CASE k = 1 /\ bus.at \in {"recv", "end"}
  <2>1. Op = clearDRDY
    BY <1>2, CalibOps
  <2>2. Op.kind = "write"
    BY <2>1, clearDRDYIs, OpFields
  <2>3. bus.at # "recv"
    BY <2>2 DEF Transferring, Placed, Reads
  <2> QED BY <1>2, <2>1, <2>3 DEF Window
<1> QED BY <1>1, <1>2

LEMMA ConvertsKeeps ==
    ASSUME Transferring, RoutineInv, CalibInv, Converts
    PROVE  Transferring' /\ RoutineInv' /\ CalibInv'
<1>0. MeterTypes /\ Known
  BY DEF Transferring
<1>1. PICK i \in IRMS, p \in PACTIVE :
          chip' = [chip EXCEPT !.regs = [@ EXCEPT ![I_RMS] = i, ![P_ACTIVE] = p, ![STATUS] = DRDY]]
  BY DEF Converts
<1>2. /\ chip.running /\ early' = (early \/ Window)
      /\ UNCHANGED <<pins, cs5463, plugStatus, last, incoming>>
  BY DEF Converts
<1>3. /\ chip \in ChipType /\ early \in BOOLEAN /\ plugStatus \in {"OPEN", "CLOSE"}
  BY <1>0 DEF MeterTypes
<1>4. /\ i \in Words /\ p \in Words /\ DRDY \in Words
      /\ I_RMS \in Registers /\ P_ACTIVE \in Registers /\ STATUS \in Registers
      /\ I_RMS # P_ACTIVE /\ I_RMS # STATUS
  <2>1. DRDY \in Words
    <3>1. 2^23 = 8388608
      BY SMT
    <3> QED BY SMT, <3>1 DEF DRDY, Words
  <2>2. STATUS \in Registers
    BY RegisterSets
  <2> QED BY <2>1, <2>2, RegisterSets, RegisterNumbers, MeterAssumption
<1> DEFINE g == [chip.regs EXCEPT ![I_RMS] = i, ![P_ACTIVE] = p, ![STATUS] = DRDY]
<1>5. /\ g \in [Registers -> Words] /\ g[I_RMS] = i
      /\ \A r \in Registers : r # I_RMS /\ r # P_ACTIVE /\ r # STATUS => g[r] = chip.regs[r]
  <2>1. chip.regs \in [Registers -> Words]
    BY <1>3 DEF ChipType
  <2> HIDE DEF DRDY
  <2> QED BY <1>4, <2>1
<1>6. chip' = [chip EXCEPT !.regs = g]
  BY <1>1
<1> HIDE DEF g
<1>7. /\ chip' \in ChipType /\ chip'.sh = chip.sh /\ chip'.to = chip.to /\ chip'.out = chip.out
      /\ chip'.regs = g /\ chip'.running = chip.running /\ chip'.calibrating = chip.calibrating
  BY <1>3, <1>5, <1>6 DEF ChipType
<1>8. UNCHANGED <<mode, step, bus, saved, mem>>
  BY <1>2 DEF cs5463
<1>9. \A j \in 1..6 : chip'.regs[StageReg[j]] = chip.regs[StageReg[j]]
  BY <1>5, <1>7, StageRegs
<1>10. Op' = Op
  BY <1>8, SameTransfer
<1>11. \A w : Meant(w) => Meant(w)'
  <2> SUFFICES ASSUME NEW w, Meant(w)  PROVE Meant(w)'
    OBVIOUS
  <2>1. Op.into = "I_RMS" => w = incoming
    BY DEF Meant
  <2>2. Op.reg # None /\ ~early => w = Result[Op.reg]
    BY DEF Meant
  <2>3. Op.kind = "poll" /\ ~early /\ Bit(w, 23) = 1 =>
           /\ chip.calibrating = None
           /\ \A j \in 1..6 : step = 15 + 7 * j => chip.regs[StageReg[j]] = Result[StageReg[j]]
    BY DEF Meant
  <2>4. early => early'
    BY <1>2
  <2>5. (Op.into = "I_RMS" => w = incoming)'
    BY <1>2, <1>10, <2>1, Zenon
  <2>6. (Op.reg # None /\ ~early => w = Result[Op.reg])'
    BY <1>10, <2>2, <2>4, Zenon
  <2>7. (Op.kind = "poll" /\ ~early /\ Bit(w, 23) = 1 =>
           /\ chip.calibrating = None
           /\ \A j \in 1..6 : step = 15 + 7 * j => chip.regs[StageReg[j]] = Result[StageReg[j]])'
    <3> SUFFICES ASSUME (Op.kind = "poll" /\ ~early /\ Bit(w, 23) = 1)'
                 PROVE  (/\ chip.calibrating = None
                         /\ \A j \in 1..6 : step = 15 + 7 * j => chip.regs[StageReg[j]] = Result[StageReg[j]])'
      OBVIOUS
    <3>1. Op.kind = "poll" /\ ~early /\ Bit(w, 23) = 1
      BY <1>10, <2>4, Zenon
    <3>2. chip'.calibrating = None
      BY <1>7, <2>3, <3>1, Zenon
    <3>3. \A j \in 1..6 : step = 15 + 7 * j => chip.regs[StageReg[j]] = Result[StageReg[j]]
      BY <2>3, <3>1, Zenon
    <3>4. step' = step
      BY <1>8, Zenon
    <3>5. \A j \in 1..6 : step' = 15 + 7 * j => chip'.regs[StageReg[j]] = Result[StageReg[j]]
      <4> SUFFICES ASSUME NEW j \in 1..6, step' = 15 + 7 * j
                   PROVE  chip'.regs[StageReg[j]] = Result[StageReg[j]]
        OBVIOUS
      <4>1. step = 15 + 7 * j
        BY <3>4
      <4>2. chip.regs[StageReg[j]] = Result[StageReg[j]]
        BY <3>3, <4>1
      <4>3. chip'.regs[StageReg[j]] = chip.regs[StageReg[j]]
        BY <1>9
      <4> QED BY <4>2, <4>3
    <3> QED BY <3>2, <3>5, Zenon
  <2> QED BY <2>5, <2>6, <2>7, Zenon DEF Meant
<1>12. Transferring'
  <2>1. early' \in BOOLEAN /\ plugStatus' \in {"OPEN", "CLOSE"} /\ chip'.regs[I_RMS] \in IRMS \cup {0}
    BY <1>2, <1>3, <1>5, <1>7
  <2> QED BY <1>2, <1>7, <1>11, <2>1, OwnKeeps
<1>13. RoutineInv'
  <2>1. Past' = Past /\ RoutineWord' = RoutineWord
    BY <1>8 DEF Past, RoutineWord
  <2>2. \A k \in 1..12 : chip'.regs[RoutineReg[k]] = chip.regs[RoutineReg[k]]
    <3>1. \A k \in 1..12 : /\ RoutineReg[k] \in Registers /\ RoutineReg[k] # I_RMS
                           /\ RoutineReg[k] # P_ACTIVE /\ RoutineReg[k] # STATUS
      BY RoutineRegs, RegisterSets
    <3> QED BY <1>5, <1>7, <3>1
  <2> QED BY <1>7, <1>8, <2>1, <2>2 DEF RoutineInv
<1>14. CalibInv'
  <2> SUFFICES ASSUME mode = "calib", NEW j \in 1..6, NEW k \in 1..7, step = 10 + 7 * j + k
               PROVE  StageAt(StageReg[j], k)'
    BY <1>8, Zenon DEF CalibInv
  <2>1. StageAt(StageReg[j], k)
    BY Zenon DEF CalibInv
  <2>2. (k = 2 \/ (k = 1 /\ bus.at \in {"recv", "end"})) => early'
    BY <1>2, InWindow
  <2>3. k \notin 3..6 /\ ~(k = 2 /\ bus.at \in {"recv", "end"})
    BY <1>2, <2>1 DEF StageAt
  <2> QED BY <1>8, <2>2, <2>3 DEF StageAt
<1> QED BY <1>12, <1>13, <1>14

LEMMA CalibratedKeeps ==
    ASSUME Transferring, RoutineInv, CalibInv, Calibrated
    PROVE  Transferring' /\ RoutineInv' /\ CalibInv'
<1>0. MeterTypes /\ Known
  BY DEF Transferring
<1> DEFINE c == chip.calibrating
           g == [chip.regs EXCEPT ![c] = Result[c], ![STATUS] = DRDY]
<1>1. /\ c # None /\ chip' = [chip EXCEPT !.regs = g, !.calibrating = None]
      /\ early' = (early \/ Window)
      /\ UNCHANGED <<pins, cs5463, plugStatus, last, incoming>>
  BY DEF Calibrated
<1>2. /\ chip \in ChipType /\ early \in BOOLEAN /\ plugStatus \in {"OPEN", "CLOSE"}
      /\ mode \in {"calib", "routine"} /\ step \in 1..Len(Program)
  BY <1>0 DEF MeterTypes
<1>3. c \in CalibRegisters
  BY <1>1, <1>2 DEF ChipType
<1>4. /\ c \in Registers /\ STATUS \in Registers /\ c # STATUS /\ c # I_RMS /\ I_RMS # STATUS
      /\ Result[c] \in Words /\ DRDY \in Words /\ I_RMS \in Registers
  <2>1. DRDY \in Words
    <3>1. 2^23 = 8388608
      BY SMT
    <3> QED BY SMT, <3>1 DEF DRDY, Words
  <2>2. STATUS \in Registers /\ c \in Registers /\ c # STATUS /\ c # I_RMS
    BY <1>3, RegisterSets
  <2> QED BY <1>3, <2>1, <2>2, RegisterSets, RegisterNumbers, MeterAssumption
<1>5. /\ g \in [Registers -> Words] /\ g[I_RMS] = chip.regs[I_RMS] /\ g[c] = Result[c]
  <2>1. chip.regs \in [Registers -> Words]
    BY <1>2 DEF ChipType
  <2> HIDE DEF DRDY, c
  <2> QED BY <1>4, <2>1
<1> HIDE DEF g
<1>7. /\ chip' \in ChipType /\ chip'.sh = chip.sh /\ chip'.to = chip.to /\ chip'.out = chip.out
      /\ chip'.regs = g /\ chip'.running = chip.running /\ chip'.calibrating = None
  BY <1>1, <1>2, <1>5 DEF ChipType
<1>8. UNCHANGED <<mode, step, bus, saved, mem>>
  BY <1>1 DEF cs5463
<1>10. Op' = Op
  BY <1>8, SameTransfer
<1>11. \A w : Meant(w) => Meant(w)'
  BY <1>1, <1>8, <1>10 DEF Meant
<1>12. Transferring'
  <2>1. early' \in BOOLEAN /\ plugStatus' \in {"OPEN", "CLOSE"} /\ chip'.regs[I_RMS] \in IRMS \cup {0}
    BY <1>0, <1>1, <1>2, <1>5, <1>7 DEF Known
  <2> QED BY <1>1, <1>7, <1>11, <2>1, OwnKeeps
<1>13. RoutineInv'
  <2>1. mode = "routine" => step = 1
    <3>1. mode = "routine" => ~(step >= 2)
      BY <1>1 DEF RoutineInv
    <3>2. mode = "routine" => step \in 1..28
      BY <1>2, Lengths
    <3> QED BY <3>1, <3>2
  <2>2. mode = "routine" => Past' \in {0, 1}
    BY <1>8, <2>1 DEF Past
  <2>3. mode = "routine" => ~(Past' >= 23) /\ \A k \in 1..12 : ~(RoutineStep[k] <= Past')
    BY <2>2, RoutineRegs
  <2> QED BY <1>7, <1>8, <2>3 DEF RoutineInv
<1>14. CalibInv'
  <2> SUFFICES ASSUME mode = "calib", NEW j \in 1..6, NEW k \in 1..7, step = 10 + 7 * j + k
               PROVE  StageAt(StageReg[j], k)'
    BY <1>8, Zenon DEF CalibInv
  <2>1. StageAt(StageReg[j], k)
    BY Zenon DEF CalibInv
  <2>2. (k = 2 \/ (k = 1 /\ bus.at \in {"recv", "end"})) => early'
    BY <1>1, InWindow
  <2>3. early => early'
    BY <1>1
  <2>4. (k = 4 /\ bus.at \in {"recv", "end"}) \/ k = 5 =>
            chip.calibrating = StageReg[j] /\ chip'.regs[StageReg[j]] = Result[StageReg[j]]
    BY <1>1, <1>5, <1>7, <2>1 DEF StageAt
  <2> QED BY <1>1, <1>7, <1>8, <2>1, <2>2, <2>3, <2>4 DEF StageAt
<1> QED BY <1>12, <1>13, <1>14

(* What the routine sets, step by step. *)
LEMMA RoutineSets ==
    ASSUME mode = "routine", step \in 1..28, NEW k \in 1..12, step = RoutineStep[k]
    PROVE  Op.kind = "write" /\ Op.byte = WR(RoutineReg[k]) /\ Data = RoutineWord[k]
<1>1. Op = CS5463IF_Routine[step]
  BY DEF Op, Program
<1>2. ASSUME NEW r, NEW w, Op = Write(r, w)
      PROVE  Op.kind = "write" /\ Op.byte = WR(r) /\ Data = w
  <2>1. Op.kind = "write" /\ Op.byte = WR(r) /\ Op.from = "word" /\ Op.data = w
    BY <1>2, OpFields
  <2> QED BY <2>1 DEF Data
<1>3. ASSUME NEW r, Op = WriteSaved(r)
      PROVE  Op.kind = "write" /\ Op.byte = WR(r) /\ Data = saved[r]
  <2>1. Op.kind = "write" /\ Op.byte = WR(r) /\ Op.from = "saved" /\ Op.data = r
    BY <1>3, OpFields
  <2> QED BY <2>1 DEF Data, DAT_unGet
<1>4. CASE k \in 1..6
  <2>1. /\ \/ k = 1 /\ step = 8
           \/ k = 2 /\ step = 9
           \/ k = 3 /\ step = 10
           \/ k = 4 /\ step = 11
           \/ k = 5 /\ step = 13
           \/ k = 6 /\ step = 14
        /\ step \in 1..16
    BY <1>4 DEF RoutineStep
  <2>2. Op = Boot[step]
    BY <1>1, <2>1, RoutineIs
  <2>3. \/ k = 1 /\ Op = Write(CONFIG, 1)
        \/ k = 2 /\ Op = Write(CYCLE_COUNT, 800)
        \/ k = 3 /\ Op = Write(MASK, 0)
        \/ k = 4 /\ Op = Write(MODE, 1)
        \/ k = 5 /\ Op = Write(CTRL, 0)
        \/ k = 6 /\ Op = Write(PULSE_RATE, 13468)
    BY <2>1, <2>2, BootIs, SMTT(30)
  <2>4. /\ RoutineReg[1] = CONFIG /\ RoutineReg[2] = CYCLE_COUNT /\ RoutineReg[3] = MASK
        /\ RoutineReg[4] = MODE /\ RoutineReg[5] = CTRL /\ RoutineReg[6] = PULSE_RATE
        /\ RoutineWord[1] = 1 /\ RoutineWord[2] = 800 /\ RoutineWord[3] = 0
        /\ RoutineWord[4] = 1 /\ RoutineWord[5] = 0 /\ RoutineWord[6] = 13468
    BY DEF RoutineReg, RoutineWord
  <2> QED BY <1>2, <2>3, <2>4
<1>5. CASE k \in 7..12
  <2>1. \E i \in 1..6 : k = 6 + i /\ step = 16 + i
    BY <1>5 DEF RoutineStep
  <2>2. PICK i \in 1..6 : k = 6 + i /\ step = 16 + i
    BY <2>1
  <2>3. Op = writeCS5463Calib[i]
    BY <1>1, <2>2, RoutineIs
  <2>4. \/ k = 7 /\ Op = WriteSaved(DC_V_OFFSET)
        \/ k = 8 /\ Op = WriteSaved(V_GAIN)
        \/ k = 9 /\ Op = WriteSaved(AC_V_OFFSET)
        \/ k = 10 /\ Op = WriteSaved(DC_I_OFFSET)
        \/ k = 11 /\ Op = WriteSaved(I_GAIN)
        \/ k = 12 /\ Op = WriteSaved(AC_I_OFFSET)
    BY <2>2, <2>3, writeCS5463CalibIs
  <2>5. /\ RoutineReg[7] = DC_V_OFFSET /\ RoutineReg[8] = V_GAIN /\ RoutineReg[9] = AC_V_OFFSET
        /\ RoutineReg[10] = DC_I_OFFSET /\ RoutineReg[11] = I_GAIN /\ RoutineReg[12] = AC_I_OFFSET
        /\ RoutineWord[7] = saved[DC_V_OFFSET] /\ RoutineWord[8] = saved[V_GAIN]
        /\ RoutineWord[9] = saved[AC_V_OFFSET] /\ RoutineWord[10] = saved[DC_I_OFFSET]
        /\ RoutineWord[11] = saved[I_GAIN] /\ RoutineWord[12] = saved[AC_I_OFFSET]
    BY DEF RoutineReg, RoutineWord
  <2> QED BY <1>3, <2>4, <2>5
<1> QED BY <1>4, <1>5

(* It writes nothing else, but what clears the status. *)
LEMMA RoutineWrites ==
    ASSUME mode = "routine", step \in 1..28, Op.kind = "write"
    PROVE  Op.byte = WR(STATUS) \/ \E k \in 1..12 : step = RoutineStep[k]
<1>1. CASE step \in 1..16
  <2>1. step \in {7, 8, 9, 10, 11, 13, 14, 16} /\ (step \in {7, 16} => Op.byte = WR(STATUS))
    BY <1>1, BootOps
  <2>2. step \in {8, 9, 10, 11, 13, 14} => \E k \in 1..12 : step = RoutineStep[k]
    <3>1. /\ RoutineStep[1] = 8 /\ RoutineStep[2] = 9 /\ RoutineStep[3] = 10
          /\ RoutineStep[4] = 11 /\ RoutineStep[5] = 13 /\ RoutineStep[6] = 14
      BY DEF RoutineStep
    <3> QED BY <3>1
  <2> QED BY <2>1, <2>2
<1>2. CASE step \in 17..28
  <2>1. step \in 17..22
    <3>1. step # 23 /\ ~(step >= 24)
      BY <1>2, RoutineOps
    <3> QED BY <1>2, <3>1
  <2>2. RoutineStep[step - 10] = step /\ step - 10 \in 1..12
    BY <2>1 DEF RoutineStep
  <2> QED BY <2>2
<1> QED BY <1>1, <1>2

(* A transfer of the routine that has been sent. *)
LEMMA RoutineSent ==
    ASSUME MeterTypes, Placed, Sending, Known, CalibInv, RoutineInv,
           writeCS5463SPI, bus.n + 1 = Length, mode = "routine"
    PROVE  RoutineInv'
<1>1. /\ bus.at = "send" /\ bus'.at \in {"recv", "end"} /\ UNCHANGED <<mode, step, saved>>
  BY SentKeeps
<1>2. /\ step \in 1..28 /\ Sound(Op) /\ Op.kind # "reset"
  <2>1. Len(Program) = 28
    BY Lengths
  <2>2. step \in 1..28
    BY <2>1, BusEnds, Zenon
  <2> QED BY <1>1, <2>2, BusEnds DEF Placed
<1>3. step >= 3
  <2>1. step = 1 => Op.kind = "reset"
    BY BootOps
  <2>2. step = 2 => Op.kind = "reset"
    BY BootOps
  <2> QED BY <1>2, <2>1, <2>2
<1>4. Past' = step /\ Past = step - 1 /\ RoutineWord' = RoutineWord
  BY <1>1 DEF Past, RoutineWord
<1>5. /\ chip.calibrating = None
      /\ \A k \in 1..12 : RoutineStep[k] <= step - 1 => chip.regs[RoutineReg[k]] = RoutineWord[k]
      /\ step - 1 >= 23 => chip.running
  <2>1. /\ step >= 2 => chip.calibrating = None
        /\ \A k \in 1..12 : RoutineStep[k] <= Past => chip.regs[RoutineReg[k]] = RoutineWord[k]
        /\ Past >= 23 => chip.running
    BY Zenon DEF RoutineInv
  <2>2. step >= 2
    BY <1>2, <1>3
  <2> QED BY <1>4, <2>1, <2>2, Zenon
<1>6. /\ Op.kind # "write" => chip'.regs = chip.regs
      /\ Op.kind # "cmd" => chip'.running = chip.running /\ chip'.calibrating = chip.calibrating
  BY SentChip
<1>7. Op.kind = "cmd" => step = 23
  <2>1. step \in 1..16 => Op.kind # "cmd"
    BY BootOps
  <2>2. step \in 17..28 => (step \in 17..22 => Op.kind = "write") /\ (step >= 24 => Op.kind = "read")
    BY RoutineOps
  <2> QED BY <1>2, <2>1, <2>2
<1>8. step = 23 => chip'.running /\ chip'.calibrating = chip.calibrating
  <2> SUFFICES ASSUME step = 23  PROVE chip'.running /\ chip'.calibrating = chip.calibrating
    OBVIOUS
  <2>1. Op.kind = "cmd" /\ Op.byte = START_CNTN_CNVS
    BY RoutineOps
  <2>2. chip \in ChipType /\ chip.out = <<>> /\ chip.to = None /\ chip' = Commanded(chip, START_CNTN_CNVS)
    BY <1>2, <2>1, SendEnds
  <2> QED BY <2>2, CmdIs
<1>9. chip'.calibrating = None
  BY <1>5, <1>6, <1>7, <1>8
<1>10. step >= 23 => chip'.running
  BY <1>2, <1>5, <1>6, <1>7, <1>8
<1>11. ASSUME NEW k \in 1..12, RoutineStep[k] <= step
       PROVE  chip'.regs[RoutineReg[k]] = RoutineWord[k]
  <2>1. RoutineReg[k] \in Settable /\ RoutineReg[k] # STATUS /\ RoutineStep[k] \in 8..22
    BY RoutineRegs
  <2>2. RoutineReg[k] \in Registers /\ STATUS \in Registers /\ Settable \subseteq Registers
    BY <2>1, RegisterSets
  <2>3. Op.kind = "write" => /\ chip \in ChipType /\ chip.out = <<>> /\ chip' = Written(chip, Data)
                             /\ Data \in Words /\ chip.to \in Settable /\ WR(chip.to) = Op.byte
    BY <1>2, SendEnds
  <2>4. CASE RoutineStep[k] = step
    <3>1. Op.kind = "write" /\ Op.byte = WR(RoutineReg[k]) /\ Data = RoutineWord[k]
      BY <1>2, <2>4, RoutineSets
    <3>2. chip.to = RoutineReg[k]
      BY <2>2, <2>3, <3>1, CommandsApart
    <3> HIDE DEF Data, RoutineWord
    <3>3. Written(chip, Data).regs[chip.to] = Data
      BY <2>1, <2>3, <3>1, <3>2, WrittenIs
    <3> QED BY <2>3, <3>1, <3>2, <3>3
  <2>5. CASE RoutineStep[k] # step
    <3>1. RoutineStep[k] <= step - 1
      BY <1>2, <1>11, <2>1, <2>5
    <3>2. chip.regs[RoutineReg[k]] = RoutineWord[k]
      BY <1>5, <3>1
    <3>3. Op.kind = "write" => chip.to # RoutineReg[k]
      <4> SUFFICES ASSUME Op.kind = "write"  PROVE chip.to # RoutineReg[k]
        OBVIOUS
      <4>1. CASE Op.byte = WR(STATUS)
        BY <2>1, <2>2, <2>3, <4>1, CommandsApart
      <4>2. CASE \E m \in 1..12 : step = RoutineStep[m]
        <5>1. PICK m \in 1..12 : step = RoutineStep[m]
          BY <4>2
        <5>2. Op.byte = WR(RoutineReg[m])
          BY <1>2, <5>1, RoutineSets
        <5>3. m # k
          BY <2>5, <5>1
        <5>4. RoutineReg[m] # RoutineReg[k] /\ RoutineReg[m] \in Registers
          BY <2>2, <5>3, RoutineRegs
        <5> QED BY <2>2, <2>3, <5>2, <5>4, CommandsApart
      <4> QED BY <1>2, <4>1, <4>2, RoutineWrites
    <3> HIDE DEF Data, RoutineWord
    <3>4. chip'.regs[RoutineReg[k]] = chip.regs[RoutineReg[k]]
      BY <1>6, <2>2, <2>3, <3>3, WrittenIs
    <3> QED BY <3>2, <3>4
  <2> QED BY <2>4, <2>5
<1>12. \A k \in 1..12 : RoutineStep[k] <= Past' => chip'.regs[RoutineReg[k]] = RoutineWord'[k]
  BY <1>4, <1>11
<1> QED BY <1>1, <1>4, <1>9, <1>10, <1>12, Zenon DEF RoutineInv

(* The end of a transfer, in the routine. *)
LEMMA RoutineEnds ==
    ASSUME Transferring, RoutineInv, Ends
    PROVE  RoutineInv'
<1>0. /\ MeterTypes /\ Placed /\ mode \in {"calib", "routine"} /\ step \in 1..Len(Program)
  BY BusEnds DEF Transferring
<1>1. /\ bus.at = "end" /\ bus'.at = "idle" /\ chip' = chip
      /\ saved' = IF Op.reg = None THEN saved ELSE [saved EXCEPT ![Op.reg] = Word(mem.unPara)]
      /\ \/ /\ Op.kind = "poll" => Bit(mem.unPara[1], 7) = 1
            /\ \/ step' = step + 1 /\ mode' = mode /\ step < Len(Program)
               \/ step' = 24 /\ mode = "routine" /\ mode' = mode /\ step = 28
               \/ step' = 1 /\ mode' = "routine" /\ mode = "calib" /\ step = 59
         \/ Op.kind = "poll" /\ step' = step /\ mode' = mode
         \/ step' = 1 /\ mode' = "calib"
  BY EndsKeeps
<1>2. Op.kind # "reset"
  BY <1>0, <1>1 DEF Placed
<1> SUFFICES ASSUME mode' = "routine"  PROVE RoutineInv'
  BY DEF RoutineInv
<1>3. CASE mode = "calib"
  <2>1. step' = 1
    <3>1. mode' # mode
      BY <1>3
    <3> QED BY <1>1, <3>1, Zenon
  <2>2. Past' = 0
    BY <1>1, <2>1 DEF Past
  <2>3. ~(step' >= 2) /\ ~(Past' >= 23) /\ \A k \in 1..12 : ~(RoutineStep[k] <= Past')
    BY <2>1, <2>2, RoutineRegs
  <2> QED BY <2>3, Zenon DEF RoutineInv
<1>4. CASE mode = "routine"
  <2>1. Op.kind # "poll" /\ Op.reg = None
    BY <1>0, <1>4, StageOps
  <2>2. saved' = saved /\ RoutineWord' = RoutineWord
    BY <1>1, <2>1 DEF RoutineWord
  <2>3. step \in 1..28
    <3>1. Len(Program) = 28
      BY <1>4, Lengths
    <3> QED BY <1>0, <3>1, Zenon
  <2>4. step' = step + 1 \/ (step' = 24 /\ step = 28)
    <3>1. mode' # "calib" /\ mode # "calib"
      BY <1>4
    <3> QED BY <1>1, <2>1, <3>1, Zenon
  <2>5. step # 1
    <3>1. step = 1 => Op.kind = "reset"
      BY <1>4, BootOps
    <3> QED BY <1>2, <3>1
  <2>6. Past = step /\ Past' = step' - 1
    BY <1>1 DEF Past
  <2>7. /\ chip.calibrating = None
        /\ \A k \in 1..12 : RoutineStep[k] <= step => chip.regs[RoutineReg[k]] = RoutineWord[k]
        /\ step >= 23 => chip.running
    BY <1>4, <2>3, <2>5, <2>6 DEF RoutineInv
  <2>8. Past' >= 23 => step >= 23
    BY <2>3, <2>4, <2>6
  <2>9. ASSUME NEW k \in 1..12, RoutineStep[k] <= Past'
        PROVE  RoutineStep[k] <= step
    BY <2>3, <2>4, <2>6, <2>9, RoutineRegs
  <2>10. \A k \in 1..12 : RoutineStep[k] <= Past' => chip'.regs[RoutineReg[k]] = RoutineWord'[k]
    BY <1>1, <2>2, <2>7, <2>9
  <2>11. Past' >= 23 => chip'.running
    BY <1>1, <2>7, <2>8
  <2>12. chip'.calibrating = None
    BY <1>1, <2>7
  <2> QED BY <2>10, <2>11, <2>12, Zenon DEF RoutineInv
<1> QED BY <1>0, <1>3, <1>4

(* The reset of the chip: nothing is set up yet. *)
LEMMA ResetsSets ==
    ASSUME MeterTypes, RoutineInv, bus.at = "idle", bus'.at = "idle", step \in {1, 2},
           step' = step + 1, mode' = mode, step = 1 => chip' = PowerUp, step = 2 => chip' = chip
    PROVE  RoutineInv' /\ CalibInv'
<1>1. step' \in {2, 3} /\ Past' = step' - 1
  BY DEF Past
<1>2. mode = "routine" => chip'.calibrating = None
  BY PowerUpIs DEF RoutineInv
<1>3. ~(Past' >= 23) /\ \A k \in 1..12 : ~(RoutineStep[k] <= Past')
  BY <1>1, RoutineRegs
<1>4. \A j \in 1..6, k \in 1..7 : step' # 10 + 7 * j + k
  BY <1>1
<1> QED BY <1>2, <1>3, <1>4, Zenon DEF RoutineInv, CalibInv

(* A transfer of a stage that has been sent. *)
LEMMA StageSent ==
    ASSUME MeterTypes, Placed, Sending, Known, CalibInv,
           writeCS5463SPI, bus.n + 1 = Length, mode = "calib",
           NEW j \in 1..6, NEW k \in 1..7, step = 10 + 7 * j + k
    PROVE  StageAt(StageReg[j], k)'
<1>1. /\ bus.at = "send" /\ bus'.at \in {"recv", "end"} /\ early' = early /\ Sound(Op)
  BY SentKeeps, BusEnds
<1>2. StageAt(StageReg[j], k)
  BY Zenon DEF CalibInv
<1>3. /\ k \in 3..6 => ~chip.running
      /\ k \in 3..4 => chip.calibrating = None
      /\ k = 5 => chip.calibrating \in {StageReg[j], None}
      /\ ~early =>
             /\ k \in 2..4 => chip.regs[STATUS] = 0
             /\ k = 5 => \/ chip.calibrating = StageReg[j] /\ chip.regs[STATUS] = 0
                         \/ chip.calibrating = None /\ chip.regs[StageReg[j]] = Result[StageReg[j]]
             /\ k = 6 => chip.calibrating = None /\ chip.regs[StageReg[j]] = Result[StageReg[j]]
  BY <1>1, <1>2 DEF StageAt
<1> SUFFICES
      /\ k \in 2..6 => ~chip'.running
      /\ k \in 2..3 => chip'.calibrating = None
      /\ k \in 4..5 => chip'.calibrating \in {StageReg[j], None}
      /\ ~early =>
             /\ k \in 1..3 => chip'.regs[STATUS] = 0
             /\ k \in 4..5 => \/ chip'.calibrating = StageReg[j] /\ chip'.regs[STATUS] = 0
                              \/ chip'.calibrating = None /\ chip'.regs[StageReg[j]] = Result[StageReg[j]]
             /\ k = 6 => chip'.calibrating = None /\ chip'.regs[StageReg[j]] = Result[StageReg[j]]
  BY <1>1 DEF StageAt
<1>4. /\ Op.kind # "write" => chip'.regs = chip.regs
      /\ Op.kind # "cmd" => chip'.running = chip.running /\ chip'.calibrating = chip.calibrating
  BY SentChip
<1>5. /\ Op.kind = "cmd" => /\ chip \in ChipType /\ chip.out = <<>> /\ chip.to = None
                            /\ chip' = Commanded(chip, Op.byte)
      /\ Op.kind = "write" => /\ chip \in ChipType /\ chip.out = <<>> /\ chip' = Written(chip, Data)
                              /\ Data \in Words /\ chip.to \in Settable /\ WR(chip.to) = Op.byte
  BY <1>1, SendEnds
<1>6. /\ StageReg[j] \in Registers /\ StageReg[j] # STATUS /\ STATUS \in Registers
      /\ Settable \subseteq Registers /\ StageCmd[j] \in STARTS /\ StageOf(StageCmd[j]) = StageReg[j]
  BY StageRegs, StageTypes, RegisterSets
<1>7. CASE k = 1
  <2>1. PICK w \in Words : clearDRDY = Write(STATUS, w) /\ Bit(w, 23) = 1
    BY clearDRDYIs
  <2>2. Op = Write(STATUS, w)
    BY <1>7, <2>1, CalibOps
  <2>3. Op.kind = "write" /\ Op.byte = WR(STATUS) /\ Op.from = "word" /\ Op.data = w
    BY <2>2, OpFields
  <2>4. Data = w
    BY <2>3 DEF Data
  <2>5. chip.to = STATUS
    BY <1>5, <1>6, <2>3, CommandsApart
  <2>6. chip'.regs[STATUS] = 0
    BY <1>5, <2>1, <2>3, <2>4, <2>5, WrittenIs
  <2> QED BY <1>7, <2>6
<1>8. CASE k = 2
  <2>1. Op = Cmd(POWER_UP_HALT)
    BY <1>8, CalibOps
  <2>2. Op.kind = "cmd" /\ Op.byte = POWER_UP_HALT
    BY <2>1, OpFields
  <2>3. ~chip'.running /\ chip'.calibrating = None /\ chip'.regs = chip.regs
    BY <1>5, <2>2, CmdIs
  <2> QED BY <1>3, <1>8, <2>3
<1>9. CASE k = 3
  <2>1. Op = Write(StageReg[j], StageFirst[j])
    BY <1>9, CalibOps
  <2>2. Op.kind = "write" /\ Op.byte = WR(StageReg[j])
    BY <2>1, OpFields
  <2>3. chip.to # STATUS
    BY <1>5, <1>6, <2>2, CommandsApart
  <2>4. chip'.regs[STATUS] = chip.regs[STATUS]
    <3> HIDE DEF Data
    <3> QED BY <1>5, <1>6, <2>2, <2>3, WrittenIs
  <2> QED BY <1>3, <1>4, <1>9, <2>2, <2>4
<1>10. CASE k = 4
  <2>1. Op = Cmd(StageCmd[j])
    BY <1>10, CalibOps
  <2>2. Op.kind = "cmd" /\ Op.byte = StageCmd[j]
    BY <2>1, OpFields
  <2>3. chip'.running = chip.running /\ chip'.calibrating = StageReg[j] /\ chip'.regs = chip.regs
    <3> HIDE DEF StageOf
    <3> QED BY <1>5, <1>6, <2>2, CmdIs
  <2> QED BY <1>3, <1>10, <2>3
<1>11. CASE k \in 5..6
  <2>1. Op = waitDataReady \/ Op = ReadStage(StageReg[j])
    BY <1>11, CalibOps
  <2>2. Op.kind \in {"poll", "read"}
    BY <2>1, OpFields
  <2>3. chip'.regs = chip.regs /\ chip'.running = chip.running /\ chip'.calibrating = chip.calibrating
    BY <1>4, <2>2
  <2> QED BY <1>3, <1>11, <2>3
<1>12. CASE k = 7
  BY <1>12
<1>13. k \in {1, 2, 3, 4, 7} \/ k \in 5..6
  OBVIOUS
<1> QED BY <1>7, <1>8, <1>9, <1>10, <1>11, <1>12, <1>13

(* The end of a transfer of a stage. *)
LEMMA StageEnds ==
    ASSUME Transferring, CalibInv, Ends, mode' = "calib",
           NEW j \in 1..6, NEW k \in 1..7, step' = 10 + 7 * j + k
    PROVE  StageAt(StageReg[j], k)'
<1>0. /\ MeterTypes /\ Placed /\ mode \in {"calib", "routine"} /\ step \in 1..Len(Program) /\ Sound(Op)
  BY BusEnds DEF Transferring
<1>1. /\ bus.at = "end" /\ bus'.at = "idle" /\ chip' = chip /\ early' = (early /\ Op.reg = None)
      /\ \/ /\ Op.kind = "poll" => Bit(mem.unPara[1], 7) = 1
            /\ \/ step' = step + 1 /\ mode' = mode /\ step < Len(Program)
               \/ step' = 24 /\ mode = "routine" /\ mode' = mode /\ step = 28
               \/ step' = 1 /\ mode' = "routine" /\ mode = "calib" /\ step = 59
         \/ Op.kind = "poll" /\ step' = step /\ mode' = mode
         \/ step' = 1 /\ mode' = "calib"
  BY EndsKeeps
<1>2. step' >= 18
  OBVIOUS
<1>3. /\ mode = "calib"
      /\ \/ step' = step + 1 /\ (Op.kind = "poll" => Bit(mem.unPara[1], 7) = 1)
         \/ Op.kind = "poll" /\ step' = step
  <2>1. step' # 1 /\ mode' # "routine"
    BY <1>2
  <2>2. mode' = "calib"
    OBVIOUS
  <2> QED BY <1>1, <2>1, <2>2, Zenon
<1>s. step \in 1..59
  <2>1. Len(Program) = 59
    BY <1>3, Lengths
  <2> QED BY <1>0, <2>1, Zenon
<1> SUFFICES
      /\ k \in 3..6 => ~chip.running
      /\ k \in 3..4 => chip.calibrating = None
      /\ k = 5 => chip.calibrating \in {StageReg[j], None}
      /\ ~early' =>
             /\ k \in 2..4 => chip.regs[STATUS] = 0
             /\ k = 5 => \/ chip.calibrating = StageReg[j] /\ chip.regs[STATUS] = 0
                         \/ chip.calibrating = None /\ chip.regs[StageReg[j]] = Result[StageReg[j]]
             /\ k = 6 => chip.calibrating = None /\ chip.regs[StageReg[j]] = Result[StageReg[j]]
  BY <1>1 DEF StageAt
<1>4. CASE step' = step /\ Op.kind = "poll"
  <2>1. PICK i \in 1..6 : step = 15 + 7 * i
    BY <1>0, <1>4, StageOps
  <2>2. k = 5 /\ step = 10 + 7 * j + k
    BY <1>4, <2>1
  <2>3. StageAt(StageReg[j], k)
    BY <1>3, <2>2, Zenon DEF CalibInv
  <2>4. Op.reg = None
    <3>1. Op = waitDataReady
      BY <1>3, <2>2, CalibOps
    <3> QED BY <3>1, OpFields
  <2>5. early' <=> early
    BY <1>0, <1>1, <2>4 DEF MeterTypes
  <2>6. /\ ~chip.running /\ chip.calibrating \in {StageReg[j], None}
        /\ ~early => \/ chip.calibrating = StageReg[j] /\ chip.regs[STATUS] = 0
                     \/ chip.calibrating = None /\ chip.regs[StageReg[j]] = Result[StageReg[j]]
    BY <2>2, <2>3 DEF StageAt
  <2>7. k \notin 3..4 /\ k \notin 2..4 /\ k # 6
    BY <2>2
  <2> QED BY <2>5, <2>6, <2>7, Zenon
<1>5. CASE step' = step + 1 /\ k = 1
  BY <1>5
<1>6. CASE step' = step + 1 /\ k # 1 /\ (Op.kind = "poll" => Bit(mem.unPara[1], 7) = 1)
  <2> DEFINE m == k - 1
  <2>1. m \in 1..6 /\ m \in 1..7 /\ step = 10 + 7 * j + m /\ k = m + 1
    BY <1>6, <1>s
  <2> HIDE DEF m
  <2>2. StageAt(StageReg[j], m)
    BY <1>3, <2>1, Zenon DEF CalibInv
  <2>3. m # 6 => Op.reg = None
    <3>1. Op.reg # None => \E i \in 1..6 : step = 16 + 7 * i
      BY <1>0, StageOps
    <3>2. m # 6 => \A i \in 1..6 : step # 16 + 7 * i
      BY <2>1
    <3> QED BY <3>1, <3>2
  <2>4. m # 6 /\ ~early' => ~early
    BY <1>1, <2>3
  <2>5. /\ m \in 2..6 => ~chip.running
        /\ m \in 2..3 => chip.calibrating = None
        /\ m \in 4..5 => chip.calibrating \in {StageReg[j], None}
        /\ ~early =>
               /\ m \in 1..3 => chip.regs[STATUS] = 0
               /\ m \in 4..5 => \/ chip.calibrating = StageReg[j] /\ chip.regs[STATUS] = 0
                                \/ chip.calibrating = None /\ chip.regs[StageReg[j]] = Result[StageReg[j]]
    BY <1>1, <2>2 DEF StageAt
  <2>6. ASSUME m = 5, ~early
        PROVE  chip.calibrating = None /\ chip.regs[StageReg[j]] = Result[StageReg[j]]
    <3>1. Op = waitDataReady
      BY <1>3, <2>1, <2>6, CalibOps
    <3>2. Op.kind = "poll" /\ Op.into = "unPara" /\ Reads
      BY <3>1, OpFields DEF Reads
    <3>3. PICK w \in Words : Meant(w) /\ Bit(mem[Op.into][1], 7) = Bit(w, 23)
      BY <1>1, <3>2, EndFinds
    <3>4. Bit(w, 23) = 1
      BY <1>6, <3>2, <3>3
    <3>5. step = 15 + 7 * j
      BY <2>1, <2>6
    <3>6. chip.calibrating = None
      BY <2>6, <3>2, <3>3, <3>4, Zenon DEF Meant
    <3>7. chip.regs[StageReg[j]] = Result[StageReg[j]]
      BY <2>6, <3>2, <3>3, <3>4, <3>5, Zenon DEF Meant
    <3> QED BY <3>6, <3>7
  <2>7. /\ k \in 3..6 => m \in 2..6
        /\ k \in 3..4 => m \in 2..3
        /\ k \in 2..4 => m \in 1..3 /\ m # 6
        /\ k = 5 => m \in 4..5 /\ m # 6
        /\ k = 6 => m = 5 /\ m # 6
    BY <2>1
  <2>8. /\ k \in 3..6 => ~chip.running
        /\ k \in 3..4 => chip.calibrating = None
        /\ k = 5 => chip.calibrating \in {StageReg[j], None}
    BY <2>5, <2>7, Zenon
  <2>9. ~early' =>
            /\ k \in 2..4 => chip.regs[STATUS] = 0
            /\ k = 5 => \/ chip.calibrating = StageReg[j] /\ chip.regs[STATUS] = 0
                        \/ chip.calibrating = None /\ chip.regs[StageReg[j]] = Result[StageReg[j]]
    BY <2>4, <2>5, <2>7, Zenon
  <2>10. ~early' /\ k = 6 => chip.calibrating = None /\ chip.regs[StageReg[j]] = Result[StageReg[j]]
    BY <2>4, <2>6, <2>7, Zenon
  <2> QED BY <2>8, <2>9, <2>10, Zenon
<1> QED BY <1>3, <1>4, <1>5, <1>6

LEMMA SentSets ==
    ASSUME MeterTypes, Placed, Sending, Known, CalibInv, RoutineInv, writeCS5463SPI, bus.n + 1 = Length
    PROVE  RoutineInv' /\ CalibInv'
<1>1. mode' = mode /\ step' = step
  BY SentKeeps
<1>2. RoutineInv'
  <2>1. mode # "routine" => RoutineInv'
    BY <1>1 DEF RoutineInv
  <2> QED BY <2>1, RoutineSent
<1>3. CalibInv'
  <2> SUFFICES ASSUME mode = "calib", NEW j \in 1..6, NEW k \in 1..7, step = 10 + 7 * j + k
               PROVE  StageAt(StageReg[j], k)'
    BY <1>1, Zenon DEF CalibInv
  <2> QED BY StageSent
<1> QED BY <1>2, <1>3

LEMMA EndsSets ==
    ASSUME Transferring, CalibInv, RoutineInv, Ends
    PROVE  RoutineInv' /\ CalibInv'
<1>1. CalibInv'
  <2> SUFFICES ASSUME mode' = "calib", NEW j \in 1..6, NEW k \in 1..7, step' = 10 + 7 * j + k
               PROVE  StageAt(StageReg[j], k)'
    BY Zenon DEF CalibInv
  <2> QED BY StageEnds
<1> QED BY <1>1, RoutineEnds

LEMMA MeterBegins ==
    ASSUME MeterInit
    PROVE  MeterInd
<1>1. /\ pins = CS5463IF_Init(Reset)
      /\ mode \in {"calib", "routine"} /\ step = 1 /\ bus = Idle /\ polls = POLLS
      /\ mem = [f \in {"I_RMS", "V_RMS", "P_Active", "unPara"} |-> <<0, 0, 0>>]
      /\ saved = [r \in CalibRegisters |-> IF mode = "calib" THEN 0 ELSE Calib[r]]
      /\ plugStatus = "OPEN" /\ chip = PowerUp
      /\ last = 0 /\ incoming = 0 /\ early = FALSE
  BY DEF MeterInit
<1>2. pins \in PinsType /\ pins.enabled = Driven /\ "CS" \in pins.out
  BY <1>1, PinsAtStart
<1>3. step \in 1..Len(Program)
  <2>1. Len(Program) = 59 \/ Len(Program) = 28
    BY <1>1, Lengths, Zenon
  <2>2. 1 \in 1..59 /\ 1 \in 1..28
    OBVIOUS
  <2> QED BY <1>1, <2>1, <2>2, Zenon
<1>4. polls \in 1..POLLS
  BY <1>1, MeterAssumption
<1>5. bus \in [at : {"idle", "send", "recv", "end"}, n : 0..31] /\ bus.at = "idle"
  BY <1>1 DEF Idle
<1>6. mem \in [Fields -> [1..3 -> Octets]] /\ mem.I_RMS = <<0, 0, 0>>
  <2>1. <<0, 0, 0>> \in [1..3 -> Octets]
    BY DEF Octets
  <2> QED BY <1>1, <2>1 DEF Fields
<1>7. saved \in [CalibRegisters -> Words]
  <2>1. \A r \in CalibRegisters : 0 \in Words /\ Calib[r] \in Words
    BY MeterAssumption DEF Words
  <2> QED BY <1>1, <2>1
<1>8. 0 \in Words
  BY DEF Words
<1>9. /\ chip \in ChipType /\ chip.sh = <<>> /\ chip.to = None /\ chip.out = <<>>
      /\ chip.regs[I_RMS] = 0 /\ chip.calibrating = None
  BY <1>1, PowerUpIs
<1>10. MeterTypes
  BY <1>1, <1>2, <1>3, <1>4, <1>5, <1>6, <1>7, <1>8, <1>9 DEF MeterTypes
<1>11. Placed
  BY <1>2, <1>5 DEF Placed
<1>12. Sending /\ Quiet /\ InFlight
  BY <1>5, <1>9 DEF Sending, Quiet, InFlight
<1>13. Known
  <2>1. Word(<<0, 0, 0>>) = 0
    BY DEF Word
  <2> QED BY <1>1, <1>6, <1>9, <2>1 DEF Known
<1>14. RoutineInv
  <2>1. Past = 0
    BY <1>1, <1>5 DEF Past
  <2>2. ~(Past >= 23) /\ \A k \in 1..12 : ~(RoutineStep[k] <= Past)
    BY <2>1, RoutineRegs
  <2> QED BY <1>9, <2>2, Zenon DEF RoutineInv
<1>15. CalibInv
  <2>1. \A j \in 1..6, k \in 1..7 : step # 10 + 7 * j + k
    BY <1>1
  <2> QED BY <2>1, Zenon DEF CalibInv
<1> QED BY <1>10, <1>11, <1>12, <1>13, <1>14, <1>15 DEF MeterInd

LEMMA MeterGoesOn ==
    ASSUME MeterInd, [MeterNext]_metervars
    PROVE  MeterInd'
<1>1. Transferring /\ RoutineInv /\ CalibInv
  BY DEF MeterInd, Transferring
<1>2. MeterTypes /\ Placed /\ Sending /\ Quiet /\ Known
  BY <1>1 DEF Transferring
<1> SUFFICES Transferring' /\ RoutineInv' /\ CalibInv'
  BY DEF MeterInd, Transferring
<1>3. CASE Begins
  <2>1. /\ Transferring' /\ bus.at = "idle" /\ bus'.at = "send"
        /\ UNCHANGED <<mode, step, saved, early, chip>>
    BY <1>2, <1>3, BeginsKeeps
  <2> QED BY <1>1, <2>1, Waits
<1>4. CASE Resets
  <2>1. /\ Transferring' /\ bus.at = "idle" /\ bus'.at = "idle" /\ step \in {1, 2}
        /\ step' = step + 1 /\ mode' = mode
        /\ step = 1 => chip' = PowerUp
        /\ step = 2 => chip' = chip
    BY <1>2, <1>4, ResetsKeeps
  <2> QED BY <1>1, <1>2, <2>1, ResetsSets
<1>5. CASE writeCS5463SPI /\ bus.n + 1 # Length
  <2>1. /\ Transferring' /\ bus.at = "send" /\ bus'.at = "send"
        /\ UNCHANGED <<mode, step, saved, early>>
        /\ chip'.regs = chip.regs /\ chip'.running = chip.running
        /\ chip'.calibrating = chip.calibrating
    BY <1>2, <1>5, SendKeeps
  <2> QED BY <1>1, <2>1, Waits
<1>6. CASE writeCS5463SPI /\ bus.n + 1 = Length
  <2>1. Transferring'
    BY <1>1, <1>2, <1>6, SentKeeps
  <2> QED BY <1>1, <1>2, <1>6, <2>1, SentSets
<1>7. CASE readCS5463SPI
  <2>1. /\ Transferring' /\ bus.at = "recv" /\ bus'.at \in {"recv", "end"}
        /\ UNCHANGED <<mode, step, saved, early>>
        /\ chip'.regs = chip.regs /\ chip'.running = chip.running
        /\ chip'.calibrating = chip.calibrating
    BY <1>1, <1>7, ReadKeeps
  <2> QED BY <1>1, <2>1, Waits
<1>8. CASE Ends
  BY <1>1, <1>8, EndsKeeps, EndsSets
<1>9. CASE Converts
  BY <1>1, <1>9, ConvertsKeeps
<1>10. CASE Calibrated
  BY <1>1, <1>10, CalibratedKeeps
<1>11. CASE UNCHANGED <<pins, cs5463, chip, last, incoming, early>> /\ plugStatus' \in {"OPEN", "CLOSE"}
  <2>1. /\ UNCHANGED <<pins, mode, step, bus, saved, mem, chip, last, incoming, early>>
    BY <1>11 DEF cs5463
  <2>2. chip \in ChipType /\ early \in BOOLEAN /\ chip.regs[I_RMS] \in IRMS \cup {0}
    BY <1>2 DEF MeterTypes, Known
  <2>3. Op' = Op
    BY <2>1, SameTransfer
  <2>4. \A w : Meant(w) => Meant(w)'
    BY <2>1, <2>3 DEF Meant
  <2>5. Transferring'
    BY <1>1, <1>11, <2>1, <2>2, <2>4, OwnKeeps
  <2> QED BY <1>1, <2>1, <2>5, Waits
<1>12. CASE check_current_timer_cb
  BY <1>11, <1>12 DEF check_current_timer_cb
<1>13. CASE Closes
  BY <1>11, <1>13 DEF Closes
<1>14. CASE UNCHANGED metervars
  <2>1. plugStatus' \in {"OPEN", "CLOSE"}
    BY <1>2, <1>14 DEF metervars, MeterTypes
  <2> QED BY <1>11, <1>14, <2>1 DEF metervars
<1> QED BY <1>3, <1>4, <1>5, <1>6, <1>7, <1>8, <1>9, <1>10, <1>12, <1>13, <1>14
        DEF MeterNext, Manager

LEMMA MeterHolds ==
    ASSUME MeterInd
    PROVE  MeterInv
<1>1. MeterTypes /\ Placed /\ Quiet /\ Known /\ RoutineInv /\ Transferring
  BY DEF MeterInd, Transferring
<1>2. /\ mode \in {"calib", "routine"} /\ step \in 1..Len(Program) /\ Sound(Op) /\ polls \in 1..POLLS
      /\ bus.at \in {"idle", "send", "recv", "end"} /\ bus.n \in 0..31
      /\ pins.enabled = {"RST", "MOSI", "CLK", "CS"} /\ plugStatus \in {"OPEN", "CLOSE"}
      /\ mem \in [Fields -> [1..3 -> Octets]]
  BY <1>1, BusEnds DEF MeterTypes, Driven
<1>3. \A m \in [1..3 -> Octets] : /\ m \in Seq(0..255) /\ Len(m) = 3
                                  /\ \A b \in 1..3 : m[b] \in 0..255
  <2>1. Octets = 0..255
    BY DEF Octets
  <2> SUFFICES ASSUME NEW m \in [1..3 -> 0..255]
               PROVE  m \in Seq(0..255) /\ Len(m) = 3 /\ \A b \in 1..3 : m[b] \in 0..255
    BY <2>1
  <2>2. \A b \in 1..3 : m[b] \in 0..255
    OBVIOUS
  <2>3. DOMAIN m = 1..3
    OBVIOUS
  <2>4. m \in Seq(0..255)
    <3>1. [b \in 1..3 |-> m[b]] \in Seq(0..255)
      BY <2>2
    <3>2. m = [b \in 1..3 |-> m[b]]
      OBVIOUS
    <3> QED BY <3>1, <3>2, Zenon
  <2>5. Len(m) = 3
    BY <2>3, <2>4
  <2> QED BY <2>2, <2>4, <2>5
<1>4. \A f \in DOMAIN mem : mem[f] \in Seq(0..255) /\ Len(mem[f]) = 3
  BY <1>2, <1>3
<1>5. ~Refused
  <2>1. \A r \in 0..28 : /\ CS5463_RW_REG_CMD_BITS(WR(r)) = 64
                         /\ CS5463_RW_REG_CMD_BITS(RD(r)) = 0
    BY DEF WR, RD, CS5463_RW_REG_CMD_BITS
  <2>2. Op.kind = "write" => \E r \in 0..28 : Op.byte = WR(r)
    BY <1>2, RegisterSets DEF Sound
  <2>3. Reads => \E r \in 0..28 : Op.byte = RD(r)
    BY <1>2, RegisterSets DEF Sound, Reads
  <2> HIDE DEF CS5463_RW_REG_CMD_BITS
  <2> QED BY <2>1, <2>2, <2>3 DEF Refused
<1>6. Between
  BY <1>1 DEF Between, Quiet, Placed, Selected
<1>7. MeasuresAsSet
  <2> SUFFICES ASSUME mode = "routine", step > Len(Program) - Len(Measures)
               PROVE  /\ chip.running /\ chip.regs[CONFIG] = 1 /\ chip.regs[MODE] = 1 /\ chip.regs[MASK] = 0
                      /\ chip.regs[CTRL] = 0 /\ chip.regs[CYCLE_COUNT] = 800 /\ chip.regs[PULSE_RATE] = 13468
                      /\ \A r \in CalibRegisters : chip.regs[r] = saved[r]
    BY DEF MeasuresAsSet
  <2>1. step >= 24 /\ step \in Nat
    <3>1. Len(Program) = 28 /\ Len(Measures) = 5
      BY Lengths, MeasuresIs
    <3>2. step > 28 - 5 /\ step \in 1..28
      BY <1>2, <3>1, Zenon
    <3> QED BY <3>2
  <2>2. Past >= 23
    BY <2>1 DEF Past
  <2>3. chip.running
    BY <1>1, <2>2, Zenon DEF RoutineInv
  <2>4. ASSUME NEW k \in 1..12
        PROVE  chip.regs[RoutineReg[k]] = RoutineWord[k]
    <3>1. RoutineStep[k] <= Past
      <4>1. RoutineStep[k] \in 8..22 /\ (Past = step \/ Past = step - 1)
        BY RoutineRegs DEF Past
      <4> QED BY <2>1, <4>1
    <3> QED BY <1>1, <3>1, Zenon DEF RoutineInv
  <2>5. /\ RoutineReg[1] = CONFIG /\ RoutineReg[2] = CYCLE_COUNT /\ RoutineReg[3] = MASK
        /\ RoutineReg[4] = MODE /\ RoutineReg[5] = CTRL /\ RoutineReg[6] = PULSE_RATE
        /\ RoutineWord[1] = 1 /\ RoutineWord[2] = 800 /\ RoutineWord[3] = 0
        /\ RoutineWord[4] = 1 /\ RoutineWord[5] = 0 /\ RoutineWord[6] = 13468
    BY DEF RoutineReg, RoutineWord
  <2>6. \A r \in CalibRegisters : \E k \in 1..12 : RoutineReg[k] = r /\ RoutineWord[k] = saved[r]
    <3>1. /\ RoutineReg[7] = DC_V_OFFSET /\ RoutineReg[8] = V_GAIN /\ RoutineReg[9] = AC_V_OFFSET
          /\ RoutineReg[10] = DC_I_OFFSET /\ RoutineReg[11] = I_GAIN /\ RoutineReg[12] = AC_I_OFFSET
          /\ RoutineWord[7] = saved[DC_V_OFFSET] /\ RoutineWord[8] = saved[V_GAIN]
          /\ RoutineWord[9] = saved[AC_V_OFFSET] /\ RoutineWord[10] = saved[DC_I_OFFSET]
          /\ RoutineWord[11] = saved[I_GAIN] /\ RoutineWord[12] = saved[AC_I_OFFSET]
      BY DEF RoutineReg, RoutineWord
    <3>2. \A r \in CalibRegisters : \/ r = DC_V_OFFSET \/ r = V_GAIN \/ r = AC_V_OFFSET
                                    \/ r = DC_I_OFFSET \/ r = I_GAIN \/ r = AC_I_OFFSET
      BY DEF CalibRegisters
    <3>3. /\ 7 \in 1..12 /\ 8 \in 1..12 /\ 9 \in 1..12 /\ 10 \in 1..12 /\ 11 \in 1..12 /\ 12 \in 1..12
      OBVIOUS
    <3> HIDE DEF RoutineReg, RoutineWord
    <3> QED BY <3>1, <3>2, <3>3
  <2>7. \A r \in CalibRegisters : chip.regs[r] = saved[r]
    BY <2>4, <2>6
  <2>8. 1 \in 1..12 /\ 2 \in 1..12 /\ 3 \in 1..12 /\ 4 \in 1..12 /\ 5 \in 1..12 /\ 6 \in 1..12
    OBVIOUS
  <2>9. chip.regs[CONFIG] = 1 /\ chip.regs[CYCLE_COUNT] = 800 /\ chip.regs[MASK] = 0
    BY <2>4, <2>5, <2>8
  <2>10. chip.regs[MODE] = 1 /\ chip.regs[CTRL] = 0 /\ chip.regs[PULSE_RATE] = 13468
    BY <2>4, <2>5, <2>8
  <2> QED BY <2>3, <2>7, <2>9, <2>10
<1>8. WholeWords
  <2> SUFFICES ASSUME bus.at = "end", Op.into = "I_RMS"
               PROVE  Word(mem.I_RMS) = incoming
    BY <1>1 DEF WholeWords, Known
  <2>1. Op.kind \in {"read", "poll"}
    BY <1>2 DEF Sound
  <2>2. PICK w \in Words : Meant(w) /\ Word(mem[Op.into]) = w
    BY <1>1, <2>1, EndFinds DEF Reads
  <2> QED BY <2>2 DEF Meant
<1>9. PowerIsMagnitude
  <2>1. \A b \in 1..3 : mem.P_Active[b] \in 0..255
    BY <1>2, <1>3, ZenonT(60) DEF Fields
  <2> QED BY <2>1, PowerOfBytes DEF PowerIsMagnitude
<1> QED BY <1>2, <1>4, <1>5, <1>6, <1>7, <1>8, <1>9 DEF MeterInv

(* The first byte decides, but for less than 2^16. *)
LEMMA FirstByte ==
    ASSUME NEW a \in [1..3 -> Octets], NEW b \in [1..3 -> Octets], a[1] <= b[1]
    PROVE  Word(a) <= Word(b) + 65535
<1>1. /\ a[1] \in Octets /\ a[2] \in Octets /\ a[3] \in Octets
      /\ b[1] \in Octets /\ b[2] \in Octets /\ b[3] \in Octets
  OBVIOUS
<1>2. ASSUME NEW a1 \in Nat, NEW a2 \in Nat, NEW a3 \in Nat, NEW b1 \in Nat, NEW b2 \in Nat, NEW b3 \in Nat,
             a1 <= b1, a2 <= 255, a3 <= 255
      PROVE  a1 * 65536 + a2 * 256 + a3 <= b1 * 65536 + b2 * 256 + b3 + 65535
  BY SMT, <1>2
<1> QED BY <1>1, <1>2 DEF Octets, Word

(* While a reading comes in, its first byte is never above the one that    *)
(* was measured.                                                           *)
LEMMA TripsNear ==
    ASSUME MeterInd, check_current_timer_cb
    PROVE  Over(last) \/ Over(incoming)
<1>1. MeterTypes /\ InFlight /\ Known
  BY DEF MeterInd
<1> DEFINE m == mem.I_RMS
<1>2. /\ m \in [1..3 -> Octets] /\ \A b \in 1..3 : m[b] \in 0..255
      /\ last \in Words /\ incoming \in Words /\ THRESHOLD \in Nat
  <2>1. mem.I_RMS \in [1..3 -> Octets] /\ last \in Words /\ incoming \in Words
    BY <1>1 DEF MeterTypes, Fields
  <2>2. THRESHOLD \in Nat
    BY MeterAssumption DEF Words
  <2>3. Octets = 0..255
    BY DEF Octets
  <2> QED BY <2>1, <2>2, <2>3
<1>3. Word(m) > THRESHOLD
  <2>1. fConvert24BitToFloat(m) > THRESHOLD
    BY DEF check_current_timer_cb, CS5463_fGetI_RMS, DAT_fGetCurrentThrhld
  <2> QED BY <1>2, <2>1, FloatIsWord
<1>4. CASE ~(bus.at \in {"recv", "end"} /\ Op.into = "I_RMS")
  <2>1. last = Word(m) /\ last \in Nat
    BY <1>1, <1>2, <1>4 DEF Known, Words
  <2> QED BY <1>2, <1>3, <2>1 DEF Over
<1>5. CASE bus.at \in {"recv", "end"} /\ Op.into = "I_RMS"
  <2>1. Op.kind \in {"read", "poll"}
    BY <1>1, <1>5, BusEnds DEF Sound
  <2>2. PICK w \in Words : Carried(w) /\ Meant(w)
    BY <1>1, <1>5, <2>1 DEF InFlight, Reads
  <2>3. w = incoming
    BY <1>5, <2>2 DEF Meant
  <2> DEFINE b == Bytes(w)
  <2>4. b \in [1..3 -> Octets] /\ Word(b) = w
    <3>1. Word(b) = w /\ \A i \in 1..3 : b[i] \in 0..255
      BY WordOfBytes
    <3>2. b \in [1..3 -> 0..255]
      BY <3>1 DEF Bytes
    <3> QED BY <3>1, <3>2 DEF Octets
  <2> HIDE DEF b
  <2>5. m[1] <= b[1]
    <3>1. Got \in 0..31
      BY <1>1, BusEnds DEF Got
    <3>2. CASE 8 <= Got
      <4>1. 8 * 1 <= Got /\ 1 \in 1..3
        BY <3>1, <3>2
      <4>2. mem[Op.into][1] = Bytes(w)[1]
        BY <2>2, <4>1, Zenon DEF Carried
      <4>3. m[1] = b[1]
        BY <1>5, <4>2 DEF b
      <4>4. b[1] \in Nat
        BY <2>4 DEF Octets
      <4> QED BY <4>3, <4>4
    <3>3. CASE ~(8 <= Got)
      <4>1. Got < 24 /\ Got \div 8 + 1 = 1 /\ Got % 8 \in 0..8
        BY <3>1, <3>3
      <4>2. mem[Op.into][Got \div 8 + 1] = High(Bytes(w)[Got \div 8 + 1], Got % 8)
        BY <2>2, <4>1, Zenon DEF Carried
      <4>3. m[1] = High(b[1], Got % 8)
        BY <1>5, <4>1, <4>2, Zenon DEF b
      <4>4. b[1] \in Octets
        BY <2>4
      <4>5. High(b[1], Got % 8) <= b[1]
        BY <4>1, <4>4, HighSteps
      <4> QED BY <4>3, <4>5
    <3> QED BY <3>2, <3>3
  <2> HIDE DEF m
  <2>6. Word(m) <= w + 65535
    BY <1>2, <2>4, <2>5, FirstByte
  <2>7. w \in Nat /\ Word(m) \in Nat
    BY <1>2, OctetsWord DEF Words
  <2>8. w + 65535 > THRESHOLD
    BY <1>2, <1>3, <2>6, <2>7
  <2> QED BY <2>3, <2>8 DEF Over
<1> QED BY <1>4, <1>5

(* What a stage reads is what was measured for it, unless it is early. *)
LEMMA StageReads ==
    ASSUME MeterInd, Ends, NEW r \in CalibRegisters, saved'[r] # saved[r]
    PROVE  saved'[r] = Result[r] \/ early
<1>1. Transferring /\ MeterTypes /\ Sound(Op)
  BY BusEnds DEF MeterInd, Transferring
<1>2. /\ bus.at = "end"
      /\ saved' = IF Op.reg = None THEN saved ELSE [saved EXCEPT ![Op.reg] = Word(mem.unPara)]
  BY <1>1, EndsKeeps
<1>3. saved \in [CalibRegisters -> Words]
  BY <1>1 DEF MeterTypes
<1>4. Op.reg # None /\ r = Op.reg /\ saved'[r] = Word(mem.unPara)
  BY <1>2, <1>3
<1>5. Op.kind = "read" /\ Op.into = "unPara"
  BY <1>1, <1>4 DEF Sound
<1>6. PICK w \in Words : Meant(w) /\ Word(mem[Op.into]) = w
  BY <1>1, <1>2, <1>5, EndFinds DEF Reads
<1> QED BY <1>4, <1>5, <1>6 DEF Meant

(* cs5463.c down to the pins: no bit of a transfer is left for the next,   *)
(* the chip measures with the registers and the calibration that were set, *)
(* a reading that was read to its end is one it measured, and the power    *)
(* keeps its magnitude.                                                    *)
THEOREM MeterIsSound == MeterSpec => []MeterInv
<1>1. MeterInit => MeterInd
  BY MeterBegins
<1>2. MeterInd /\ [MeterNext]_metervars => MeterInd'
  BY MeterGoesOn
<1>3. MeterInd => MeterInv
  BY MeterHolds
<1> QED BY <1>1, <1>2, <1>3, PTL DEF MeterSpec

(* check_current_timer_cb reads the bytes of unCS5463_I_RMS while they are *)
(* being replaced: it opens the relay only near the threshold.             *)
THEOREM ProtectionTrips == MeterSpec => TripsNearThreshold
<1>1. MeterInit => MeterInd
  BY MeterBegins
<1>2. MeterInd /\ [MeterNext]_metervars => MeterInd'
  BY MeterGoesOn
<1>3. MeterInd /\ [MeterNext]_metervars =>
          [plugStatus = "CLOSE" /\ plugStatus' = "OPEN" => Over(last) \/ Over(incoming)]_metervars
  <2> SUFFICES ASSUME MeterInd, MeterNext, plugStatus = "CLOSE", plugStatus' = "OPEN"
               PROVE  Over(last) \/ Over(incoming)
    OBVIOUS
  <2>1. check_current_timer_cb
    BY DEF MeterNext, Manager, Begins, Resets, writeCS5463SPI, readCS5463SPI, Ends,
           Converts, Calibrated, Closes
  <2> QED BY <2>1, TripsNear
<1> QED BY <1>1, <1>2, <1>3, PTL DEF MeterSpec, TripsNearThreshold

(* clearDRDY, the halt and waitDataReady: a stage keeps what it measured,  *)
(* unless DRDY was set between the clearing and the halt.                  *)
THEOREM CalibrationIsFresh == MeterSpec => StageIsFresh
<1>1. MeterInit => MeterInd
  BY MeterBegins
<1>2. MeterInd /\ [MeterNext]_metervars => MeterInd'
  BY MeterGoesOn
<1>3. MeterInd /\ [MeterNext]_metervars =>
          [\A r \in CalibRegisters : saved'[r] # saved[r] => saved'[r] = Result[r] \/ early]_metervars
  <2> SUFFICES ASSUME MeterInd, MeterNext, NEW r \in CalibRegisters, saved'[r] # saved[r]
               PROVE  saved'[r] = Result[r] \/ early
    OBVIOUS
  <2>1. CASE Ends
    BY <2>1, StageReads
  <2>2. CASE ~Ends
    <3>1. saved' = saved
      BY <2>2 DEF MeterNext, Manager, Begins, Resets, writeCS5463SPI, readCS5463SPI,
                  Converts, Calibrated, check_current_timer_cb, Closes, cs5463
    <3> QED BY <3>1
  <2> QED BY <2>1, <2>2
<1> QED BY <1>1, <1>2, <1>3, PTL DEF MeterSpec, StageIsFresh
=============================================================================
