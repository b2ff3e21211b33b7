---------------------------- MODULE Plug_proofs ----------------------------
(***************************************************************************)
(* Proofs about the plug: a press of the button never both switches the    *)
(* relay and starts smart config, relay, LED and latest event agree once a *)
(* switch that met no other is over, and the LED does not go on flashing   *)
(* after a calibration.                                                    *)
(***************************************************************************)
EXTENDS Plug, Button, TLAPS

(* What a context may be doing, and who holds the semaphore. *)
Jobs ==
    /\ \A c \in Contexts :
         /\ step[c] = "idle" => job[c] = "OPEN"
         /\ job[c] \in {"FLASH", "OFF"} => c = "cs5463" /\ step[c] \in {"led", "show"}
         /\ job[c] = "ERASE" => c = "http" /\ step[c] \in {"take", "log", "clear"}
         /\ step[c] = "clear" => job[c] = "ERASE"
         /\ sem = c <=> step[c] = "log"
    /\ job["cs5463"] = "FLASH" => cs \in {"stage", "gain"}
    /\ job["cs5463"] = "OFF" => cs = "manager"
    /\ step["cs5463"] # "idle" /\ job["cs5463"] \in Switches =>
         cs \in {"flash", "stage", "measure", "off"}
    /\ cs = "off" => job["cs5463"] = "OPEN"

Switching(c) == step[c] # "idle" /\ job[c] \in Switches

(* How far a switch that meets no other has brought the plug. *)
AloneAt(c) ==
    /\ \A d \in Contexts \ {c} : ~Switching(d)
    /\ c # "cs5463" =>
         /\ \A d \in Contexts \ {c} : step[d] = "idle"
         /\ cs \in Quiet /\ ~led_timer
    /\ step[c] # "relay" => relay = job[c]
    /\ step[c] \notin {"relay", "led"} => ~led_timer
    /\ step[c] \in {"take", "log"} => (led <=> relay = "CLOSE")

Settled ==
    /\ led <=> relay = "CLOSE"
    /\ ~led_timer
    /\ tEvent \in {relay, "none"}
    /\ cs = "off" \/ job["cs5463"] = "OFF" => relay = "OPEN"

AloneInv ==
    alone =>
      /\ \A c \in Contexts : Switching(c) => AloneAt(c)
      /\ (\A c \in Contexts : ~Switching(c)) /\ cs \in Quiet \cup {"off"} => Settled

PlugInv == TypeOK /\ Jobs /\ FlashesInCalibration /\ AloneInv

LEMMA PlugStarts == Init => PlugInv
  BY DEF Init, PlugInv, TypeOK, Jobs, FlashesInCalibration, AloneInv, Contexts, Switches, Quiet

LEMMA SetRelayStep ==
  ASSUME PlugInv, NEW c \in Contexts, SetRelay(c)
  PROVE  PlugInv'
<1>1. TypeOK'
  BY DEF PlugInv, SetRelay, Goto, TypeOK, Contexts, Switches, Quiet, Jobs
<1>2. Jobs'
  BY DEF PlugInv, SetRelay, Goto, TypeOK, Contexts, Switches, Quiet, Jobs
<1>3. FlashesInCalibration'
  BY DEF PlugInv, SetRelay, Goto, TypeOK, Contexts, Switches, Quiet, Jobs,
     FlashesInCalibration
<1>4. AloneInv'
  BY DEF PlugInv, SetRelay, Goto, TypeOK, Contexts, Switches, Quiet, Jobs,
     FlashesInCalibration, AloneInv, AloneAt, Switching, Settled
<1> QED
  BY <1>1, <1>2, <1>3, <1>4 DEF PlugInv

LEMMA LedTimerStep ==
  ASSUME PlugInv, NEW c \in Contexts, LedTimer(c)
  PROVE  PlugInv'
<1>1. TypeOK'
  BY DEF PlugInv, LedTimer, SetLedTimer, Goto, TypeOK, Contexts, Switches, Quiet
<1>2. Jobs'
  BY DEF PlugInv, LedTimer, SetLedTimer, Goto, TypeOK, Contexts, Switches, Quiet, Jobs
<1>3. FlashesInCalibration'
  BY DEF PlugInv, LedTimer, SetLedTimer, Goto, TypeOK, Contexts, Switches, Quiet, Jobs,
     FlashesInCalibration
<1>4. AloneInv'
  <2>1. ASSUME alone', NEW d \in Contexts, Switching(d)' PROVE AloneAt(d)'
    BY ZenonT(60), <2>1 DEF PlugInv, LedTimer, SetLedTimer, Goto, TypeOK, Contexts, Switches, Quiet,
       Jobs, FlashesInCalibration, AloneInv, AloneAt, Switching, Settled
  <2>2. ASSUME alone', \A d \in Contexts : ~Switching(d)', cs' \in Quiet \cup {"off"} PROVE Settled'
    BY <2>2 DEF PlugInv, LedTimer, SetLedTimer, Goto, TypeOK, Contexts, Switches, Quiet,
       Jobs, FlashesInCalibration, AloneInv, AloneAt, Switching, Settled
  <2> QED
    BY <2>1, <2>2 DEF AloneInv
<1> QED
  BY <1>1, <1>2, <1>3, <1>4 DEF PlugInv

LEMMA ShowLedStep ==
  ASSUME PlugInv, NEW c \in Contexts, ShowLed(c)
  PROVE  PlugInv'
<1>1. TypeOK'
  BY DEF PlugInv, ShowLed, Goto, Done, Job, Lit, TypeOK, Contexts, Switches, Quiet
<1>2. Jobs'
  BY DEF PlugInv, ShowLed, Goto, Done, Job, Lit, TypeOK, Contexts, Switches, Quiet, Jobs
<1>3. FlashesInCalibration'
  BY DEF PlugInv, ShowLed, Goto, Done, Job, Lit, TypeOK, Contexts, Switches, Quiet,
     Jobs, FlashesInCalibration
<1>4. AloneInv'
  <2>1. ASSUME alone', NEW d \in Contexts, Switching(d)' PROVE AloneAt(d)'
    <3>1. CASE d = c
      <4>1. Switching(c) /\ AloneAt(c) /\ job[c] \in Switches
        BY <2>1, <3>1 DEF PlugInv, ShowLed, Goto, Done, Job, TypeOK, Contexts, Switches,
           Jobs, AloneInv, Switching
      <4>2. /\ step' = [step EXCEPT ![c] = "take"]
            /\ UNCHANGED <<relay, led_timer, tEvent, sem, job, cs, alone>>
        BY <4>1, Zenon DEF ShowLed, Goto
      <4>3. led' <=> job[c] = "CLOSE"
        <5>1. led' <=> Lit(c)
          BY Zenon DEF ShowLed
        <5> QED
          BY <5>1, <4>1 DEF Lit, Switches
      <4>4. relay = job[c] /\ ~led_timer
        BY <4>1 DEF ShowLed, AloneAt
      <4>5. step'[c] = "take" /\ \A e \in Contexts \ {c} : step'[e] = step[e]
        BY <4>2 DEF PlugInv, TypeOK
      <4> QED
        BY <3>1, <4>1, <4>2, <4>3, <4>4, <4>5 DEF AloneAt, Switching
    <3>2. CASE d # c
      BY <2>1, <3>2 DEF PlugInv, ShowLed, Goto, Done, Job, Lit, TypeOK, Contexts,
         Switches, Quiet, Jobs, FlashesInCalibration, AloneInv, AloneAt, Switching,
         Settled
    <3> QED
      BY <3>1, <3>2
  <2>2. ASSUME alone', \A d \in Contexts : ~Switching(d)', cs' \in Quiet \cup {"off"} PROVE Settled'
    BY <2>2 DEF PlugInv, ShowLed, Goto, Done, Job, Lit, TypeOK, Contexts, Switches,
       Quiet, Jobs, FlashesInCalibration, AloneInv, AloneAt, Switching, Settled
  <2> QED
    BY <2>1, <2>2 DEF AloneInv
<1> QED
  BY <1>1, <1>2, <1>3, <1>4 DEF PlugInv

LEMMA TakeSemaphoreStep ==
  ASSUME PlugInv, NEW c \in Contexts, TakeSemaphore(c)
  PROVE  PlugInv'
<1>1. TypeOK'
  BY DEF PlugInv, TakeSemaphore, Goto, TypeOK, Contexts, Switches, Quiet
<1>2. Jobs'
  BY DEF PlugInv, TakeSemaphore, Goto, TypeOK, Contexts, Switches, Quiet, Jobs
<1>3. FlashesInCalibration'
  BY DEF PlugInv, TakeSemaphore, Goto, TypeOK, Contexts, Switches, Quiet, Jobs,
     FlashesInCalibration
<1>4. AloneInv'
  BY DEF PlugInv, TakeSemaphore, Goto, TypeOK, Contexts, Switches, Quiet, Jobs,
     FlashesInCalibration, AloneInv, AloneAt, Switching, Settled
<1> QED
  BY <1>1, <1>2, <1>3, <1>4 DEF PlugInv

LEMMA AddEventStep ==
  ASSUME PlugInv, NEW c \in Contexts, AddEvent(c)
  PROVE  PlugInv'
<1>1. TypeOK'
  BY DEF PlugInv, AddEvent, Goto, Done, Job, Logged, TypeOK, Contexts, Switches, Quiet,
     Jobs
<1>2. Jobs'
  BY DEF PlugInv, AddEvent, Goto, Done, Job, Logged, TypeOK, Contexts, Switches, Quiet,
     Jobs
<1>3. FlashesInCalibration'
  BY DEF PlugInv, AddEvent, Goto, Done, Job, Logged, TypeOK, Contexts, Switches, Quiet,
     Jobs, FlashesInCalibration
<1>4. AloneInv'
  BY DEF PlugInv, AddEvent, Goto, Done, Job, Logged, TypeOK, Contexts, Switches, Quiet,
     Jobs, FlashesInCalibration, AloneInv, AloneAt, Switching, Settled
<1> QED
  BY <1>1, <1>2, <1>3, <1>4 DEF PlugInv

LEMMA TakeTimeoutStep ==
  ASSUME PlugInv, NEW c \in Contexts, TakeTimeout(c)
  PROVE  PlugInv'
<1>1. TypeOK'
  BY ZenonT(60) DEF PlugInv, TakeTimeout, Waits, Done, Job, output, TypeOK, Contexts, Switches,
     Quiet
<1>2. Jobs'
  BY DEF PlugInv, TakeTimeout, Waits, Done, Job, output, TypeOK, Contexts, Switches,
     Quiet, Jobs
<1>3. FlashesInCalibration'
  BY DEF PlugInv, TakeTimeout, Waits, Done, Job, output, TypeOK, Contexts, Switches,
     Quiet, Jobs, FlashesInCalibration
<1>4. AloneInv'
  BY DEF PlugInv, TakeTimeout, Waits, Done, Job, output, TypeOK, Contexts, Switches,
     Quiet, Jobs, FlashesInCalibration, AloneInv, AloneAt, Switching, Settled
<1> QED
  BY <1>1, <1>2, <1>3, <1>4 DEF PlugInv

LEMMA user_plug_toggle_statusStep ==
  ASSUME PlugInv, user_plug_toggle_status
  PROVE  PlugInv'
<1>1. TypeOK'
  BY DEF PlugInv, user_plug_toggle_status, user_plug_set_status, Undisturbed, Job, Free,
     Busy, Toggled, output, TypeOK, Contexts, Switches, Quiet
<1>2. Jobs'
  BY DEF PlugInv, user_plug_toggle_status, user_plug_set_status, Undisturbed, Job, Free,
     Busy, Toggled, output, TypeOK, Contexts, Switches, Quiet, Jobs
<1>3. FlashesInCalibration'
  BY DEF PlugInv, user_plug_toggle_status, user_plug_set_status, Undisturbed, Job, Free,
     Busy, Toggled, output, TypeOK, Contexts, Switches, Quiet, Jobs,
     FlashesInCalibration
<1>4. AloneInv'
  BY ZenonT(60) DEF PlugInv, user_plug_toggle_status, user_plug_set_status, Undisturbed, Job, Free,
     Busy, Toggled, output, TypeOK, Contexts, Switches, Quiet, Jobs,
     FlashesInCalibration, AloneInv, AloneAt, Switching, Settled
<1> QED
  BY <1>1, <1>2, <1>3, <1>4 DEF PlugInv

LEMMA user_esp_platform_device_actionStep ==
  ASSUME PlugInv, user_esp_platform_device_action
  PROVE  PlugInv'
<1>1. TypeOK'
  BY DEF PlugInv, user_esp_platform_device_action, user_plug_set_status, Undisturbed,
     Job, Free, Busy, output, TypeOK, Contexts, Switches, Quiet
<1>2. Jobs'
  BY DEF PlugInv, user_esp_platform_device_action, user_plug_set_status, Undisturbed,
     Job, Free, Busy, output, TypeOK, Contexts, Switches, Quiet, Jobs
<1>3. FlashesInCalibration'
  BY DEF PlugInv, user_esp_platform_device_action, user_plug_set_status, Undisturbed,
     Job, Free, Busy, output, TypeOK, Contexts, Switches, Quiet, Jobs,
     FlashesInCalibration
<1>4. AloneInv'
  <2>1. ASSUME alone', NEW d \in Contexts, Switching(d)' PROVE AloneAt(d)'
    <3>1. CASE d = "timer"
      <4>1. PICK status \in Switches : user_plug_set_status("timer", status)
        BY DEF user_esp_platform_device_action
      <4>2. /\ \A e \in Contexts \ {"timer"} : step[e] = "idle"
            /\ cs \in Quiet
        BY <2>1, <4>1 DEF user_plug_set_status, Undisturbed, Contexts
      <4>3. ~led_timer /\ UNCHANGED <<cs, led_timer>>
        BY <4>2 DEF PlugInv, FlashesInCalibration, Contexts,
           user_esp_platform_device_action, output
      <4>4. step'["timer"] = "relay" /\ \A e \in Contexts \ {"timer"} : step'[e] = step[e]
        BY <4>1 DEF user_plug_set_status, Job, PlugInv, TypeOK, Contexts
      <4> QED
        BY <3>1, <4>2, <4>3, <4>4 DEF AloneAt, Switching
    <3>2. CASE d # "timer"
      BY ZenonT(60), <2>1, <3>2 DEF PlugInv, user_esp_platform_device_action, user_plug_set_status,
         Undisturbed, Job, Free, Busy, output, TypeOK, Contexts, Switches, Quiet, Jobs,
         FlashesInCalibration, AloneInv, AloneAt, Switching, Settled
    <3> QED
      BY <3>1, <3>2
  <2>2. ASSUME alone', \A d \in Contexts : ~Switching(d)', cs' \in Quiet \cup {"off"} PROVE Settled'
    BY <2>2 DEF PlugInv, user_esp_platform_device_action, user_plug_set_status,
       Undisturbed, Job, Free, Busy, output, TypeOK, Contexts, Switches, Quiet, Jobs,
       FlashesInCalibration, AloneInv, AloneAt, Switching, Settled
  <2> QED
    BY <2>1, <2>2 DEF AloneInv
<1> QED
  BY <1>1, <1>2, <1>3, <1>4 DEF PlugInv

LEMMA user_relay_led_timer_cbStep ==
  ASSUME PlugInv, user_relay_led_timer_cb
  PROVE  PlugInv'
<1>1. TypeOK'
  BY DEF PlugInv, user_relay_led_timer_cb, contexts, TypeOK, Contexts, Switches, Quiet
<1>2. Jobs'
  BY DEF PlugInv, user_relay_led_timer_cb, contexts, TypeOK, Contexts, Switches, Quiet,
     Jobs
<1>3. FlashesInCalibration'
  BY DEF PlugInv, user_relay_led_timer_cb, contexts, TypeOK, Contexts, Switches, Quiet,
     Jobs, FlashesInCalibration
<1>4. AloneInv'
  BY DEF PlugInv, user_relay_led_timer_cb, contexts, TypeOK, Contexts, Switches, Quiet,
     Jobs, FlashesInCalibration, AloneInv, AloneAt, Switching, Settled
<1> QED
  BY <1>1, <1>2, <1>3, <1>4 DEF PlugInv

LEMMA switch_status_setStep ==
  ASSUME PlugInv, switch_status_set
  PROVE  PlugInv'
<1>1. TypeOK'
  BY DEF PlugInv, switch_status_set, user_plug_set_status, Undisturbed, Job, Free, Busy,
     output, TypeOK, Contexts, Switches, Quiet
<1>2. Jobs'
  BY DEF PlugInv, switch_status_set, user_plug_set_status, Undisturbed, Job, Free, Busy,
     output, TypeOK, Contexts, Switches, Quiet, Jobs
<1>3. FlashesInCalibration'
  BY DEF PlugInv, switch_status_set, user_plug_set_status, Undisturbed, Job, Free, Busy,
     output, TypeOK, Contexts, Switches, Quiet, Jobs, FlashesInCalibration
<1>4. AloneInv'
  <2>1. ASSUME alone', NEW d \in Contexts, Switching(d)' PROVE AloneAt(d)'
    BY ZenonT(60), <2>1 DEF PlugInv, switch_status_set, user_plug_set_status, Undisturbed, Job,
       Free, Busy, output, TypeOK, Contexts, Switches, Quiet, Jobs,
       FlashesInCalibration, AloneInv, AloneAt, Switching, Settled
  <2>2. ASSUME alone', \A d \in Contexts : ~Switching(d)', cs' \in Quiet \cup {"off"} PROVE Settled'
    BY <2>2 DEF PlugInv, switch_status_set, user_plug_set_status, Undisturbed, Job,
       Free, Busy, output, TypeOK, Contexts, Switches, Quiet, Jobs,
       FlashesInCalibration, AloneInv, AloneAt, Switching, Settled
  <2> QED
    BY <2>1, <2>2 DEF AloneInv
<1> QED
  BY <1>1, <1>2, <1>3, <1>4 DEF PlugInv

LEMMA manual_enable_setStep ==
  ASSUME PlugInv, manual_enable_set
  PROVE  PlugInv'
<1>1. TypeOK'
  BY DEF PlugInv, manual_enable_set, output, contexts, TypeOK, Contexts, Switches, Quiet
<1>2. Jobs'
  BY DEF PlugInv, manual_enable_set, output, contexts, TypeOK, Contexts, Switches,
     Quiet, Jobs
<1>3. FlashesInCalibration'
  BY DEF PlugInv, manual_enable_set, output, contexts, TypeOK, Contexts, Switches,
     Quiet, Jobs, FlashesInCalibration
<1>4. AloneInv'
  BY DEF PlugInv, manual_enable_set, output, contexts, TypeOK, Contexts, Switches,
     Quiet, Jobs, FlashesInCalibration, AloneInv, AloneAt, Switching, Settled
<1> QED
  BY <1>1, <1>2, <1>3, <1>4 DEF PlugInv

LEMMA system_status_resetStep ==
  ASSUME PlugInv, system_status_reset
  PROVE  PlugInv'
<1>1. TypeOK'
  BY DEF PlugInv, system_status_reset, Job, Free, Busy, output, TypeOK, Contexts,
     Switches, Quiet
<1>2. Jobs'
  BY DEF PlugInv, system_status_reset, Job, Free, Busy, output, TypeOK, Contexts,
     Switches, Quiet, Jobs
<1>3. FlashesInCalibration'
  BY DEF PlugInv, system_status_reset, Job, Free, Busy, output, TypeOK, Contexts,
     Switches, Quiet, Jobs, FlashesInCalibration
<1>4. AloneInv'
  <2>1. ASSUME alone', NEW d \in Contexts, Switching(d)' PROVE AloneAt(d)'
    BY <2>1 DEF PlugInv, system_status_reset, Job, Free, Busy, Runs, Over, Waits,
       output, TypeOK, Contexts, Switches, Quiet, Jobs, FlashesInCalibration, AloneInv,
       AloneAt, Switching, Settled
  <2>2. ASSUME alone', \A d \in Contexts : ~Switching(d)', cs' \in Quiet \cup {"off"} PROVE Settled'
    BY <2>2 DEF PlugInv, system_status_reset, Job, Free, Busy, Runs, Over, Waits,
       output, TypeOK, Contexts, Switches, Quiet, Jobs, FlashesInCalibration, AloneInv,
       AloneAt, Switching, Settled
  <2> QED
    BY <2>1, <2>2 DEF AloneInv
<1> QED
  BY <1>1, <1>2, <1>3, <1>4 DEF PlugInv

LEMMA CleanParametersStep ==
  ASSUME PlugInv, CleanParameters
  PROVE  PlugInv'
<1>1. TypeOK'
  BY DEF PlugInv, CleanParameters, Done, Job, output, TypeOK, Contexts, Switches, Quiet
<1>2. Jobs'
  BY DEF PlugInv, CleanParameters, Done, Job, output, TypeOK, Contexts, Switches, Quiet,
     Jobs
<1>3. FlashesInCalibration'
  BY DEF PlugInv, CleanParameters, Done, Job, output, TypeOK, Contexts, Switches, Quiet,
     Jobs, FlashesInCalibration
<1>4. AloneInv'
  BY DEF PlugInv, CleanParameters, Done, Job, output, TypeOK, Contexts, Switches, Quiet,
     Jobs, FlashesInCalibration, AloneInv, AloneAt, Switching, Settled
<1> QED
  BY <1>1, <1>2, <1>3, <1>4 DEF PlugInv

LEMMA CS5463_ManagerStep ==
  ASSUME PlugInv, CS5463_Manager
  PROVE  PlugInv'
<1>1. CASE /\ Free("cs5463") /\ cs = "manager" /\ Then("flash")
           /\ tConfigure' = [tConfigure EXCEPT !.cali = TRUE]
           /\ user_plug_set_status("cs5463", "OPEN")
  <2>1. TypeOK'
    BY <1>1 DEF PlugInv, user_plug_set_status, Undisturbed, Job, Free, Busy, Then,
       output, TypeOK, Contexts, Switches, Quiet
  <2>2. Jobs'
    BY <1>1 DEF PlugInv, user_plug_set_status, Undisturbed, Job, Free, Busy, Then,
       output, TypeOK, Contexts, Switches, Quiet, Jobs
  <2>3. FlashesInCalibration'
    BY <1>1 DEF PlugInv, user_plug_set_status, Undisturbed, Job, Free, Busy, Then,
       output, TypeOK, Contexts, Switches, Quiet, Jobs, FlashesInCalibration
  <2>4. AloneInv'
    BY <1>1 DEF PlugInv, user_plug_set_status, Undisturbed, Job, Free, Busy, Then,
       output, TypeOK, Contexts, Switches, Quiet, Jobs, FlashesInCalibration, AloneInv,
       AloneAt, Switching, Settled
  <2> QED
    BY <2>1, <2>2, <2>3, <2>4 DEF PlugInv
<1>2. CASE /\ Free("cs5463") /\ cs = "manager" /\ Then("routine")
           /\ UNCHANGED <<step, job, tConfigure, alone>>
  <2>1. TypeOK'
    BY <1>2 DEF PlugInv, user_plug_set_status, Undisturbed, Job, Free, Busy, Then,
       output, TypeOK, Contexts, Switches, Quiet
  <2>2. Jobs'
    BY <1>2 DEF PlugInv, user_plug_set_status, Undisturbed, Job, Free, Busy, Then,
       output, TypeOK, Contexts, Switches, Quiet, Jobs
  <2>3. FlashesInCalibration'
    BY <1>2 DEF PlugInv, user_plug_set_status, Undisturbed, Job, Free, Busy, Then,
       output, TypeOK, Contexts, Switches, Quiet, Jobs, FlashesInCalibration
  <2>4. AloneInv'
    BY <1>2 DEF PlugInv, user_plug_set_status, Undisturbed, Job, Free, Busy, Then,
       output, TypeOK, Contexts, Switches, Quiet, Jobs, FlashesInCalibration, AloneInv,
       AloneAt, Switching, Settled
  <2> QED
    BY <2>1, <2>2, <2>3, <2>4 DEF PlugInv
<1> QED
  BY <1>1, <1>2 DEF CS5463_Manager

LEMMA CalibFlashStep ==
  ASSUME PlugInv, CalibFlash
  PROVE  PlugInv'
<1>1. TypeOK'
  BY DEF PlugInv, CalibFlash, user_relay_led_output, Job, Free, Busy, Then, output,
     TypeOK, Contexts, Switches, Quiet
<1>2. Jobs'
  BY DEF PlugInv, CalibFlash, user_relay_led_output, Job, Free, Busy, Then, output,
     TypeOK, Contexts, Switches, Quiet, Jobs
<1>3. FlashesInCalibration'
  BY DEF PlugInv, CalibFlash, user_relay_led_output, Job, Free, Busy, Then, output,
     TypeOK, Contexts, Switches, Quiet, Jobs, FlashesInCalibration
<1>4. AloneInv'
  BY DEF PlugInv, CalibFlash, user_relay_led_output, Job, Free, Busy, Then, output,
     TypeOK, Contexts, Switches, Quiet, Jobs, FlashesInCalibration, AloneInv, AloneAt,
     Switching, Settled
<1> QED
  BY <1>1, <1>2, <1>3, <1>4 DEF PlugInv

LEMMA CalibGainStep ==
  ASSUME PlugInv, CalibGain
  PROVE  PlugInv'
<1>1. TypeOK'
  BY DEF PlugInv, CalibGain, user_relay_led_output, Job, Free, Busy, Then, output,
     TypeOK, Contexts, Switches, Quiet
<1>2. Jobs'
  BY DEF PlugInv, CalibGain, user_relay_led_output, Job, Free, Busy, Then, output,
     TypeOK, Contexts, Switches, Quiet, Jobs
<1>3. FlashesInCalibration'
  BY DEF PlugInv, CalibGain, user_relay_led_output, Job, Free, Busy, Then, output,
     TypeOK, Contexts, Switches, Quiet, Jobs, FlashesInCalibration
<1>4. AloneInv'
  BY DEF PlugInv, CalibGain, user_relay_led_output, Job, Free, Busy, Then, output,
     TypeOK, Contexts, Switches, Quiet, Jobs, FlashesInCalibration, AloneInv, AloneAt,
     Switching, Settled
<1> QED
  BY <1>1, <1>2, <1>3, <1>4 DEF PlugInv

LEMMA GainCloseStep ==
  ASSUME PlugInv, GainClose
  PROVE  PlugInv'
<1>1. TypeOK'
  BY DEF PlugInv, GainClose, user_plug_set_status, Undisturbed, Job, Free, Busy, Then,
     output, TypeOK, Contexts, Switches, Quiet
<1>2. Jobs'
  BY DEF PlugInv, GainClose, user_plug_set_status, Undisturbed, Job, Free, Busy, Then,
     output, TypeOK, Contexts, Switches, Quiet, Jobs
<1>3. FlashesInCalibration'
  BY DEF PlugInv, GainClose, user_plug_set_status, Undisturbed, Job, Free, Busy, Then,
     output, TypeOK, Contexts, Switches, Quiet, Jobs, FlashesInCalibration
<1>4. AloneInv'
  BY DEF PlugInv, GainClose, user_plug_set_status, Undisturbed, Job, Free, Busy, Then,
     output, TypeOK, Contexts, Switches, Quiet, Jobs, FlashesInCalibration, AloneInv,
     AloneAt, Switching, Settled
<1> QED
  BY <1>1, <1>2, <1>3, <1>4 DEF PlugInv

LEMMA GainOpenStep ==
  ASSUME PlugInv, GainOpen
  PROVE  PlugInv'
<1>1. TypeOK'
  BY DEF PlugInv, GainOpen, user_plug_set_status, Undisturbed, Job, Free, Busy, Then,
     output, TypeOK, Contexts, Switches, Quiet
<1>2. Jobs'
  BY DEF PlugInv, GainOpen, user_plug_set_status, Undisturbed, Job, Free, Busy, Then,
     output, TypeOK, Contexts, Switches, Quiet, Jobs
<1>3. FlashesInCalibration'
  BY DEF PlugInv, GainOpen, user_plug_set_status, Undisturbed, Job, Free, Busy, Then,
     output, TypeOK, Contexts, Switches, Quiet, Jobs, FlashesInCalibration
<1>4. AloneInv'
  BY DEF PlugInv, GainOpen, user_plug_set_status, Undisturbed, Job, Free, Busy, Then,
     output, TypeOK, Contexts, Switches, Quiet, Jobs, FlashesInCalibration, AloneInv,
     AloneAt, Switching, Settled
<1> QED
  BY <1>1, <1>2, <1>3, <1>4 DEF PlugInv

LEMMA CalibEndStep ==
  ASSUME PlugInv, CalibEnd
  PROVE  PlugInv'
<1>1. TypeOK'
  BY DEF PlugInv, CalibEnd, user_plug_set_status, Undisturbed, Job, Free, Busy, Then,
     output, TypeOK, Contexts, Switches, Quiet
<1>2. Jobs'
  BY DEF PlugInv, CalibEnd, user_plug_set_status, Undisturbed, Job, Free, Busy, Then,
     output, TypeOK, Contexts, Switches, Quiet, Jobs
<1>3. FlashesInCalibration'
  BY DEF PlugInv, CalibEnd, user_plug_set_status, Undisturbed, Job, Free, Busy, Then,
     output, TypeOK, Contexts, Switches, Quiet, Jobs, FlashesInCalibration
<1>4. AloneInv'
  BY DEF PlugInv, CalibEnd, user_plug_set_status, Undisturbed, Job, Free, Busy, Then,
     output, TypeOK, Contexts, Switches, Quiet, Jobs, FlashesInCalibration, AloneInv,
     AloneAt, Switching, Settled
<1> QED
  BY <1>1, <1>2, <1>3, <1>4 DEF PlugInv

LEMMA CalibExitStep ==
  ASSUME PlugInv, CalibExit
  PROVE  PlugInv'
<1>1. TypeOK'
  BY DEF PlugInv, CalibExit, user_relay_led_output, Job, Free, Busy, Then, output,
     TypeOK, Contexts, Switches, Quiet
<1>2. Jobs'
  BY DEF PlugInv, CalibExit, user_relay_led_output, Job, Free, Busy, Then, output,
     TypeOK, Contexts, Switches, Quiet, Jobs
<1>3. FlashesInCalibration'
  BY DEF PlugInv, CalibExit, user_relay_led_output, Job, Free, Busy, Then, output,
     TypeOK, Contexts, Switches, Quiet, Jobs, FlashesInCalibration
<1>4. AloneInv'
  BY DEF PlugInv, CalibExit, user_relay_led_output, Job, Free, Busy, Then, output,
     TypeOK, Contexts, Switches, Quiet, Jobs, FlashesInCalibration, AloneInv, AloneAt,
     Switching, Settled
<1> QED
  BY <1>1, <1>2, <1>3, <1>4 DEF PlugInv

LEMMA user_plug_initStep ==
  ASSUME PlugInv, user_plug_init
  PROVE  PlugInv'
<1>1. TypeOK'
  BY DEF PlugInv, user_plug_init, Boots, user_relay_led_init, relayInit, TypeOK,
     Contexts, Switches, Quiet
<1>2. Jobs'
  BY DEF PlugInv, user_plug_init, Boots, user_relay_led_init, relayInit, TypeOK,
     Contexts, Switches, Quiet, Jobs
<1>3. FlashesInCalibration'
  BY DEF PlugInv, user_plug_init, Boots, user_relay_led_init, relayInit, TypeOK,
     Contexts, Switches, Quiet, Jobs, FlashesInCalibration
<1>4. AloneInv'
  BY DEF PlugInv, user_plug_init, Boots, user_relay_led_init, relayInit, TypeOK,
     Contexts, Switches, Quiet, Jobs, FlashesInCalibration, AloneInv, AloneAt,
     Switching, Settled
<1> QED
  BY <1>1, <1>2, <1>3, <1>4 DEF PlugInv


LEMMA PlugSteps == PlugInv /\ [Next]_vars => PlugInv'
<1> SUFFICES ASSUME PlugInv, [Next]_vars PROVE PlugInv'
  OBVIOUS
<1>1. ASSUME NEW c \in Contexts, Proceed(c) PROVE PlugInv'
  BY <1>1, SetRelayStep, LedTimerStep, ShowLedStep, TakeSemaphoreStep, AddEventStep, TakeTimeoutStep
     DEF Proceed
<1>2. CASE Timer
  BY <1>2, user_plug_toggle_statusStep, user_esp_platform_device_actionStep, user_relay_led_timer_cbStep
     DEF Timer
<1>3. CASE Http
  BY <1>3, switch_status_setStep, manual_enable_setStep, system_status_resetStep, CleanParametersStep
     DEF Http
<1>4. CASE Calib
  BY <1>4, CalibFlashStep, CalibGainStep, GainCloseStep, GainOpenStep, CalibEndStep, CalibExitStep
     DEF Calib
<1>5. CASE UNCHANGED vars
  BY <1>5 DEF vars, output, contexts, PlugInv, TypeOK, Jobs, FlashesInCalibration, AloneInv, AloneAt,
              Switching, Settled
<1> QED
  BY <1>1, <1>2, <1>3, <1>4, <1>5, CS5463_ManagerStep, user_plug_initStep DEF Next

(* user_plug_set_status in three contexts: once nobody switches and the    *)
(* latest switch met no other, LED, relay and latest event agree.          *)
THEOREM PlugSettles == Spec => []SettledAgrees
<1>1. Spec => []PlugInv
  BY PlugStarts, PlugSteps, PTL DEF Spec
<1>2. PlugInv => SettledAgrees
  BY DEF PlugInv, SettledAgrees, AloneInv, Settled, Switching
<1> QED
  BY <1>1, <1>2, PTL

(* user_relay_led_output and the end of CS5463IF_Calib: the timer that     *)
(* makes the LED flash runs in a calibration only.                         *)
THEOREM NoFlashLeftBehind == Spec => []FlashesInCalibration
<1>1. Spec => []PlugInv
  BY PlugStarts, PlugSteps, PTL DEF Spec
<1>2. PlugInv => FlashesInCalibration
  BY DEF PlugInv
<1> QED
  BY <1>1, <1>2, PTL

-----------------------------------------------------------------------------
(* The driver as key_init leaves it satisfies the invariant. *)
LEMMA ButtonStarts == ButtonInit => ButtonInv
  BY DEF ButtonInit, ButtonInv, KeyInv, FlagInv, OneEffectPerPress, ButtonTypeOK, Debouncing,
         Presses, Effects, Edges, Callbacks

(* Every handler, callback, bounce, erasure and reboot preserves it. *)
LEMMA ButtonSteps == ButtonInv /\ [ButtonNext]_buttonvars => ButtonInv'
<1> SUFFICES ASSUME ButtonInv, [ButtonNext]_buttonvars
             PROVE  ButtonInv'
  OBVIOUS
<1> USE DEF ButtonInv, KeyInv, FlagInv, OneEffectPerPress, ButtonTypeOK, Debouncing,
            Presses, Effects, Edges, Callbacks, history, driver
<1>1. CASE PinChange
  <2>1. gpio_status' \in BOOLEAN
    BY <1>1, Zenon DEF PinChange
  <2>2. gpio_status' => intr' # "DISABLE"
    <3>1. ASSUME gpio_status' PROVE intr # "DISABLE"
      <4>1. gpio_status \/ intr = (IF pin = 0 THEN "POSEDGE" ELSE "NEGEDGE")
        BY <1>1, <3>1, Zenon DEF PinChange
      <4> QED
        BY <4>1
    <3> QED
      BY <1>1, <3>1 DEF PinChange
  <2> QED
    BY <1>1, <2>1, <2>2 DEF PinChange
<1>2. CASE key_intr_enter
  BY <1>2 DEF key_intr_enter
<1>3. CASE key_intr_press
  <2>1. /\ effects' \in [Presses -> SUBSET Effects]
        /\ effects'[press'] = {}
        /\ \A p \in Presses : effects'[p] = {} \/ effects'[p] = effects[p]
    BY <1>3 DEF key_intr_press
  <2>2. cb = "short" => effects'[released] = effects[released] /\ released' = 1 - press'
    BY <1>3 DEF key_intr_press
  <2>3. KeyInv'
    <3>1. ButtonTypeOK'
      <4>1. pin' \in {0, 1} /\ key_level' \in {0, 1} /\ bJustLongPressed' \in {0, 1} /\ press' \in Presses /\ released' \in Presses
        BY <1>3 DEF key_intr_press
      <4>2. intr' \in Edges /\ cb' \in Callbacks
        BY <1>3 DEF key_intr_press
      <4>3. gpio_status' \in BOOLEAN /\ isr' \in BOOLEAN /\ key_5s' \in BOOLEAN /\ key_50ms' \in BOOLEAN
        BY <1>3 DEF key_intr_press
      <4> QED
        BY <2>1, <4>1, <4>2, <4>3
    <3> QED
      BY <1>3, <2>1, <3>1 DEF key_intr_press
  <2>4. FlagInv'
    BY <1>3, <2>1, <2>2 DEF key_intr_press
  <2>5. OneEffectPerPress'
    BY <1>3, <2>1 DEF key_intr_press
  <2> QED
    BY <2>3, <2>4, <2>5
<1>4. CASE key_intr_release
  BY <1>4 DEF key_intr_release
<1>5. CASE key_5s_cb
  BY <1>5 DEF key_5s_cb, TimerContextFree
<1>6. CASE key_50ms_cb
  BY <1>6 DEF key_50ms_cb, DebounceExpires, TimerContextFree
<1>7. CASE key_50ms_low
  <2>1. KeyInv'
    BY <1>7 DEF key_50ms_low, PressEnds
  <2>2. FlagInv'
    BY <1>7 DEF key_50ms_low, PressEnds
  <2>3. OneEffectPerPress'
    BY <1>7 DEF key_50ms_low, PressEnds
  <2> QED
    BY <2>1, <2>2, <2>3
<1>8. CASE key_50ms_high
  BY <1>8 DEF key_50ms_high, Bounced
<1>9. CASE user_plug_long_press
  BY <1>9 DEF user_plug_long_press
<1>10. CASE user_plug_short_press
  BY <1>10 DEF user_plug_short_press, LongPressEnds
<1>11. CASE DAT_nFlashDataClean
  BY <1>11 DEF DAT_nFlashDataClean, UnderWay
<1>12. CASE key_init
  BY <1>12 DEF key_init
<1>13. CASE UNCHANGED buttonvars
  BY <1>13 DEF buttonvars
<1> QED
  BY <1>1, <1>2, <1>3, <1>4, <1>5, <1>6, <1>7, <1>8, <1>9, <1>10, <1>11, <1>12, <1>13
     DEF ButtonNext, Interrupt, Callback

(* key.c as a whole: the driver is deaf only while it debounces, and its   *)
(* timers belong to the press that is under way.                           *)
THEOREM DriverNeverDeaf == ButtonSpec => []KeyInv
<1>1. ButtonSpec => []ButtonInv
  BY ButtonStarts, ButtonSteps, PTL DEF ButtonSpec
<1>2. ButtonInv => KeyInv
  BY DEF ButtonInv
<1> QED
  BY <1>1, <1>2, PTL

(* user_plug_long_press and user_plug_short_press: no press is both long   *)
(* and a switch of the relay, unless a reset took its flag away.           *)
THEOREM LongPressNeverSwitches == ButtonSpec => []OneEffectPerPress
<1>1. ButtonSpec => []ButtonInv
  BY ButtonStarts, ButtonSteps, PTL DEF ButtonSpec
<1>2. ButtonInv => OneEffectPerPress
  BY DEF ButtonInv
<1> QED
  BY <1>1, <1>2, PTL
=============================================================================
