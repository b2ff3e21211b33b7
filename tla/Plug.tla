-------------------------------- MODULE Plug --------------------------------
(***************************************************************************)
(* The relay, its LED and the latest event, which every switch changes one *)
(* after the other (user_plug_set_status, app/user/user_plug.c), together  *)
(* with everything that switches: the button, the schedule and the current *)
(* protection in the timer context, the HTTP server, and the calibration   *)
(* in the cs5463 task, which also makes the LED flash.                     *)
(*                                                                         *)
(* The timer context preempts the HTTP server (priority 4), which preempts *)
(* the cs5463 task (2).  A context gives way to those below it only when   *)
(* it has nothing to do or waits for xSmartSocketEventListSemaphore, for   *)
(* ten seconds at most.  Which releases of the button are short presses    *)
(* is the matter of module Button, which of them confirm a stage of a      *)
(* calibration that of module Calibration.                                 *)
(***************************************************************************)
EXTENDS Naturals

VARIABLES
    relay,         \* the pin of the relay: "OPEN" or "CLOSE"
    led,           \* the relay LED is lit
    led_timer,     \* relay_led_timer is armed: the LED flashes
    tEvent,        \* the latest event of the history, "none" when it is empty
    sem,           \* the holder of xSmartSocketEventListSemaphore, or "free"
    step,          \* where each context stands in its job
    job,           \* what it is doing
    cs,            \* where the cs5463 task goes on after its job
    tConfigure     \* the flags cali (bCS5463Cali) and button (bButtonRelayEnable)

(* History: the latest switch overlapped no other one, no calibration that *)
(* flashes the LED, and its event was not given up.                        *)
VARIABLE alone

output   == <<relay, led, led_timer, tEvent, sem>>
contexts == <<step, job, cs>>
vars     == <<output, contexts, tConfigure, alone>>

Contexts == {"timer", "http", "cs5463"}
Switches == {"OPEN", "CLOSE"}
Quiet    == {"manager", "routine"}
Over(c)  == IF c = "timer" THEN {} ELSE {"timer", "http"} \ {c}

TypeOK ==
    /\ relay \in Switches /\ led \in BOOLEAN /\ led_timer \in BOOLEAN
    /\ tEvent \in Switches \cup {"none"}
    /\ sem \in Contexts \cup {"free"}
    /\ step \in [Contexts -> {"idle", "relay", "led", "show", "take", "log", "clear"}]
    /\ job \in [Contexts -> Switches \cup {"FLASH", "OFF", "ERASE"}]
    /\ cs \in Quiet \cup {"flash", "stage", "gain", "measure", "off"}
    /\ tConfigure \in [cali : BOOLEAN, button : BOOLEAN]
    /\ alone \in BOOLEAN

(* user_plug_init: LED off, relay open; nothing of it enters the history. *)
user_relay_led_init == led' = FALSE /\ led_timer' = FALSE
relayInit == relay' = "OPEN"

Boots ==
    /\ user_relay_led_init /\ relayInit /\ sem' = "free"
    /\ step' = [c \in Contexts |-> "idle"] /\ job' = [c \in Contexts |-> "OPEN"]
    /\ cs' = "manager" /\ alone' = FALSE

Init ==
    /\ relay = "OPEN" /\ led = FALSE /\ led_timer = FALSE /\ sem = "free"
    /\ tEvent \in Switches \cup {"none"}
    /\ step = [c \in Contexts |-> "idle"] /\ job = [c \in Contexts |-> "OPEN"]
    /\ cs = "manager" /\ alone = FALSE
    /\ tConfigure \in [cali : {FALSE}, button : BOOLEAN]

-----------------------------------------------------------------------------
(* Which context the processor runs.                                       *)
Waits_spinning(c) == FALSE    \* mutant: it polls the semaphore instead

Waits(c) == step[c] = "take" /\ sem # "free"
Busy(c)  == step[c] # "idle"
Runs(c)  == \A d \in Over(c) : Busy(d) => Waits(d)
Free(c)  == ~Busy(c) /\ Runs(c)

Undisturbed(c) ==
    \A d \in Contexts \ {c} : step[d] = "idle" /\ (d = "cs5463" => cs \in Quiet)

Goto(c, s) == step' = [step EXCEPT ![c] = s] /\ UNCHANGED job
Job(c, j, s) == step' = [step EXCEPT ![c] = s] /\ job' = [job EXCEPT ![c] = j]
Done(c) == Job(c, "OPEN", "idle")

(* user_plug_set_status begins, user_relay_led_output begins. *)
user_plug_set_status(c, status) ==
    Job(c, status, "relay") /\ alone' = Undisturbed(c)
user_relay_led_output(c, pattern) ==
    Job(c, pattern, "led") /\ UNCHANGED alone

(* The relay... *)
SetRelay(c) ==
    /\ step[c] = "relay" /\ Runs(c)
    /\ relay' = job[c]
    /\ Goto(c, "led")
    /\ UNCHANGED <<led, led_timer, tEvent, sem, cs, tConfigure, alone>>

(* ...the timer that makes the LED flash is stopped, or started... *)
SetLedTimer(c, on) ==
    /\ step[c] = "led" /\ Runs(c)
    /\ led_timer' = on
    /\ Goto(c, "show")
    /\ UNCHANGED <<relay, led, tEvent, sem, cs, tConfigure, alone>>

LedTimer_runs_on(c) == SetLedTimer(c, led_timer \/ job[c] = "FLASH")    \* mutant: not disarmed

LedTimer(c) == SetLedTimer(c, job[c] = "FLASH")

(* ...the LED is lit or put out; it starts to flash lit... *)
Lit(c) == job[c] \in {"CLOSE", "FLASH"}

ShowLed(c) ==
    /\ step[c] = "show" /\ Runs(c)
    /\ led' = Lit(c)
    /\ IF job[c] \in Switches THEN Goto(c, "take") ELSE Done(c)
    /\ UNCHANGED <<relay, led_timer, tEvent, sem, cs, tConfigure, alone>>

(* ...and DAT_nAddEventHistory takes the semaphore and adds the event, as   *)
(* DAT_nFlashDataClean takes it and erases them... *)
TakeSemaphore(c) ==
    /\ step[c] = "take" /\ Runs(c) /\ sem = "free"
    /\ sem' = c
    /\ Goto(c, "log")
    /\ UNCHANGED <<relay, led, led_timer, tEvent, cs, tConfigure, alone>>

Logged_copied(c) == IF job[c] = "ERASE" THEN "none" ELSE "CLOSE"    \* mutant: both branches log 1

Logged(c) == IF job[c] = "ERASE" THEN "none" ELSE job[c]

AddEvent(c) ==
    /\ step[c] = "log" /\ Runs(c)
    /\ tEvent' = Logged(c)
    /\ sem' = "free"
    /\ IF job[c] = "ERASE" THEN Goto(c, "clear") ELSE Done(c)
    /\ UNCHANGED <<relay, led, led_timer, cs, tConfigure, alone>>

(* ...or gives up when it is held for ten seconds. *)
TakeTimeout(c) ==
    /\ Waits(c)
    /\ Done(c)
    /\ alone' = FALSE
    /\ UNCHANGED <<output, cs, tConfigure>>

Proceed(c) ==
    \/ SetRelay(c) \/ LedTimer(c) \/ ShowLed(c)
    \/ TakeSemaphore(c) \/ AddEvent(c) \/ TakeTimeout(c)

-----------------------------------------------------------------------------
(* The timer context.  The release of a press that was not long toggles    *)
(* the relay, if the button may and no calibration waits for it.           *)
Toggled == IF relay = "CLOSE" THEN "OPEN" ELSE "CLOSE"

user_plug_toggle_status ==
    /\ Free("timer") /\ tConfigure.button /\ ~tConfigure.cali
    /\ user_plug_set_status("timer", Toggled)
    /\ UNCHANGED <<output, cs, tConfigure>>

(* user_esp_platform_device_action switches on, off or over;               *)
(* check_current_timer_cb opens the relay.                                 *)
user_esp_platform_device_action ==
    /\ Free("timer")
    /\ \E status \in Switches : user_plug_set_status("timer", status)
    /\ UNCHANGED <<output, cs, tConfigure>>

(* user_relay_led_timer_cb. *)
user_relay_led_timer_cb ==
    /\ Free("timer") /\ led_timer
    /\ led' = ~led
    /\ UNCHANGED <<relay, led_timer, tEvent, sem, contexts, tConfigure, alone>>

-----------------------------------------------------------------------------
(* The HTTP server: switch_status_set, refused during a calibration,       *)
(* manual_enable_set and system_status_reset.                              *)
switch_status_set ==
    /\ Free("http") /\ ~tConfigure.cali
    /\ \E status \in Switches : user_plug_set_status("http", status)
    /\ UNCHANGED <<output, cs, tConfigure>>

manual_enable_set ==
    /\ Free("http")
    /\ \E enable \in BOOLEAN : tConfigure' = [tConfigure EXCEPT !.button = enable]
    /\ UNCHANGED <<output, contexts, alone>>

system_status_reset ==
    /\ Free("http")
    /\ Job("http", "ERASE", "take")
    /\ UNCHANGED <<output, cs, tConfigure, alone>>

(* The second half of DAT_nFlashDataClean: the parameters. *)
CleanParameters ==
    /\ step["http"] = "clear" /\ Runs("http")
    /\ tConfigure' = [cali |-> FALSE, button |-> TRUE]
    /\ Done("http")
    /\ UNCHANGED <<output, cs, alone>>

-----------------------------------------------------------------------------
(* The cs5463 task: a calibration opens the relay, flashes the LED, closes *)
(* the relay for each gain, and in the end opens it and puts the LED out.  *)
Then(next) == cs' = next /\ UNCHANGED output

CS5463_Manager ==
    /\ Free("cs5463") /\ cs = "manager"
    /\ \/ /\ tConfigure' = [tConfigure EXCEPT !.cali = TRUE]
          /\ user_plug_set_status("cs5463", "OPEN")
          /\ Then("flash")
       \/ Then("routine") /\ UNCHANGED <<step, job, tConfigure, alone>>

CalibFlash ==
    /\ Free("cs5463") /\ cs = "flash"
    /\ user_relay_led_output("cs5463", "FLASH")
    /\ Then("stage") /\ UNCHANGED tConfigure

(* A gain: flash faster, close the relay, measure, open it. *)
CalibGain ==
    /\ Free("cs5463") /\ cs = "stage" /\ tConfigure.cali
    /\ user_relay_led_output("cs5463", "FLASH")
    /\ Then("gain") /\ UNCHANGED tConfigure

GainClose ==
    /\ Free("cs5463") /\ cs = "gain"
    /\ user_plug_set_status("cs5463", "CLOSE")
    /\ Then("measure") /\ UNCHANGED tConfigure

(* With the data the LED flashes on, without them the calibration ends. *)
GainOpen ==
    /\ Free("cs5463") /\ cs = "measure"
    /\ user_plug_set_status("cs5463", "OPEN")
    /\ \E next \in {"flash", "stage"} : Then(next)
    /\ UNCHANGED tConfigure

(* Finished, timed out or reset: the end of CS5463IF_Calib. *)
CalibEnd ==
    /\ Free("cs5463") /\ cs = "stage"
    /\ tConfigure' = [tConfigure EXCEPT !.cali = FALSE]
    /\ user_plug_set_status("cs5463", "OPEN")
    /\ Then("off")

CalibExit ==
    /\ Free("cs5463") /\ cs = "off"
    /\ user_relay_led_output("cs5463", "OFF")
    /\ Then("manager") /\ UNCHANGED tConfigure

Calib == CalibFlash \/ CalibGain \/ GainClose \/ GainOpen \/ CalibEnd \/ CalibExit

-----------------------------------------------------------------------------
(* A reboot: user_plug_init; systemInit lowers bCS5463Cali. *)
user_plug_init ==
    /\ Boots
    /\ tConfigure' = [tConfigure EXCEPT !.cali = FALSE]
    /\ UNCHANGED tEvent

Timer == user_plug_toggle_status \/ user_esp_platform_device_action \/ user_relay_led_timer_cb
Http  == switch_status_set \/ manual_enable_set \/ system_status_reset \/ CleanParameters

Next ==
    \/ Timer \/ Http \/ CS5463_Manager \/ Calib
    \/ \E c \in Contexts : Proceed(c)
    \/ user_plug_init

Spec == Init /\ [][Next]_vars

(* A context that has been given something to do gets to do it, as often   *)
(* as those above it are finished for a while; a calibration goes on.      *)
FairSpec ==
    /\ Spec
    /\ \A c \in Contexts : SF_vars(Proceed(c))
    /\ SF_vars(CleanParameters) /\ SF_vars(Calib)
-----------------------------------------------------------------------------
(* When every context has finished and the latest switch overlapped no     *)
(* other one, the three places that tell the state of the plug agree: the  *)
(* LED is lit, without flashing, exactly when the relay is closed, and the *)
(* latest event, if there is one, is the switch that brought it there.     *)
SettledAgrees ==
    /\ TypeOK
    /\ (alone /\ cs \in Quiet /\ \A c \in Contexts : step[c] = "idle") =>
         /\ led <=> relay = "CLOSE"
         /\ ~led_timer
         /\ tEvent \in {relay, "none"}

(* The LED flashes for a calibration only: whoever else switches, and      *)
(* however a calibration ends, none leaves it flashing behind.             *)
FlashesInCalibration ==
    led_timer => cs \notin Quiet \/ step["cs5463"] = "led"

(* Nobody stays in a switch for ever, neither the timer context that waits *)
(* for a task it preempted nor the task that it keeps from running.        *)
SwitchEnds == \A c \in Contexts : step[c] # "idle" ~> step[c] = "idle"
=============================================================================
