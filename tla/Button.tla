------------------------------- MODULE Button -------------------------------
(***************************************************************************)
(* The push button of the plug: the key driver (app/driver/key.c), an      *)
(* interrupt handler and two one-shot timers that debounce the pin, and    *)
(* the two callbacks the plug installs in it (app/user/user_plug.c).       *)
(*                                                                         *)
(* An interrupt preempts everything; the callbacks of the two timers run   *)
(* one at a time in the timer context.  Every handler is cut where the pin *)
(* may move or an interrupt may strike between two of its statements.      *)
(* Real time is left out: an armed timer may expire at any later moment.   *)
(***************************************************************************)
EXTENDS Naturals

VARIABLES
    pin,               \* the level of the GPIO: 1 while the key is held down
    intr,              \* the edge the GPIO interrupts on
    gpio_status,       \* an edge is latched and its interrupt is due
    isr,               \* key_intr_handler is past its DISABLE
    key_level,         \* what the driver believes: 1 from press to release
    key_5s,            \* the long-press timer is armed
    key_50ms,          \* the debounce timer is armed
    cb,                \* where the timer context stands in a key callback
    bJustLongPressed   \* tSmartSocketParameter.tConfigure.bJustLongPressed

(* History: presses are numbered 0, 1, 0, 1...; two of them overlap at most. *)
VARIABLES
    press,             \* the number of the latest press
    released,          \* the press whose release is being reported
    effects            \* what became of each press: "long", "switch", and
                       \* "reset" when a reset took its long-press flag away

driver     == <<pin, intr, gpio_status, isr, key_level, key_5s, key_50ms, cb>>
history    == <<press, released, effects>>
buttonvars == <<driver, bJustLongPressed, history>>

Edges     == {"DISABLE", "POSEDGE", "NEGEDGE"}
Callbacks == {"idle", "long", "low", "high", "short"}
Presses   == {0, 1}
Effects   == {"long", "switch", "reset"}

ButtonTypeOK ==
    /\ pin \in {0, 1} /\ key_level \in {0, 1} /\ bJustLongPressed \in {0, 1}
    /\ intr \in Edges
    /\ gpio_status \in BOOLEAN /\ isr \in BOOLEAN
    /\ key_5s \in BOOLEAN /\ key_50ms \in BOOLEAN
    /\ cb \in Callbacks
    /\ press \in Presses /\ released \in Presses
    /\ effects \in [Presses -> SUBSET Effects]

(* key_init: no timer armed, level 0, interrupt on the rising edge. *)
ButtonInit ==
    /\ pin \in {0, 1}
    /\ intr = "POSEDGE" /\ gpio_status = FALSE /\ isr = FALSE
    /\ key_level = 0 /\ key_5s = FALSE /\ key_50ms = FALSE
    /\ cb = "idle" /\ bJustLongPressed = 0
    /\ press = 0 /\ released = 0
    /\ effects = [p \in Presses |-> {}]

-----------------------------------------------------------------------------
(* The pin moves, bounces included; the edge is latched when it is the one *)
(* the GPIO is set to and is lost otherwise.                               *)
PinChange ==
    /\ pin' = 1 - pin
    /\ gpio_status' = (gpio_status \/ intr = (IF pin = 0 THEN "POSEDGE" ELSE "NEGEDGE"))
    /\ UNCHANGED <<intr, isr, key_level, key_5s, key_50ms, cb, bJustLongPressed, history>>

(* key_intr_handler, first half: interrupt off, status cleared. *)
key_intr_enter ==
    /\ gpio_status /\ ~isr
    /\ isr' = TRUE
    /\ intr' = "DISABLE"
    /\ gpio_status' = FALSE
    /\ UNCHANGED <<pin, key_level, key_5s, key_50ms, cb, bJustLongPressed, history>>

(* Second half, key_level = 0: a press begins. *)
key_intr_press ==
    /\ isr /\ key_level = 0
    /\ key_5s' = TRUE
    /\ key_level' = 1
    /\ intr' = "NEGEDGE"
    /\ isr' = FALSE
    /\ press' = 1 - press
    /\ effects' = [effects EXCEPT ![1 - press] = {}]
    /\ UNCHANGED <<pin, gpio_status, key_50ms, cb, bJustLongPressed, released>>

(* Second half, key_level = 1: look again in 50 ms, the interrupt stays off. *)
key_intr_release ==
    /\ isr /\ key_level = 1
    /\ key_50ms' = TRUE
    /\ isr' = FALSE
    /\ UNCHANGED <<pin, intr, gpio_status, key_level, key_5s, cb, bJustLongPressed, history>>

-----------------------------------------------------------------------------
(* The timer context takes up a callback when it is in none, and goes on   *)
(* with one when no interrupt handler runs.                                *)
TimerContextFree == cb = "idle" /\ ~isr

(* key_5s_cb: disarm, sample the pin. *)
key_5s_cb ==
    /\ TimerContextFree /\ key_5s
    /\ key_5s' = FALSE
    /\ cb' = IF pin = 1 THEN "long" ELSE "idle"
    /\ UNCHANGED <<pin, intr, gpio_status, isr, key_level, key_50ms, bJustLongPressed, history>>

(* key_50ms_cb: disarm, sample the pin. *)
DebounceExpires(released_level) ==
    /\ TimerContextFree /\ key_50ms
    /\ key_50ms' = FALSE
    /\ cb' = IF pin = released_level THEN "low" ELSE "high"
    /\ UNCHANGED <<pin, intr, gpio_status, isr, key_level, key_5s, bJustLongPressed, history>>

key_50ms_cb_inverted == DebounceExpires(1)    \* mutant: active level swapped

key_50ms_cb == DebounceExpires(0)

(* It sampled a low pin: the press is over. *)
PressEnds(long_press_armed) ==
    /\ cb = "low" /\ ~isr
    /\ key_5s' = long_press_armed
    /\ key_level' = 0
    /\ intr' = "POSEDGE"
    /\ cb' = "short"
    /\ released' = press
    /\ UNCHANGED <<pin, gpio_status, isr, key_50ms, bJustLongPressed, press, effects>>

key_50ms_low == PressEnds(FALSE)

(* It sampled a high pin: a bounce, wait for the next falling edge. *)
Bounced(edge) ==
    /\ cb = "high" /\ ~isr
    /\ intr' = edge
    /\ cb' = "idle"
    /\ UNCHANGED <<pin, gpio_status, isr, key_level, key_5s, key_50ms, bJustLongPressed, history>>

key_50ms_high == Bounced("NEGEDGE")

(* user_plug_long_press: raise the flag, start smart config. *)
user_plug_long_press ==
    /\ cb = "long" /\ ~isr
    /\ cb' = "idle"
    /\ bJustLongPressed' = 1
    /\ effects' = [effects EXCEPT ![press] = @ \cup {"long"}]
    /\ UNCHANGED <<pin, intr, gpio_status, isr, key_level, key_5s, key_50ms, press, released>>

LongPressEnds_ignored == FALSE    \* mutant: the flag is not looked at

LongPressEnds == bJustLongPressed = 1

(* user_plug_short_press: the release of a long press only lowers the flag; *)
(* any other one switches the relay (or confirms a calibration stage).      *)
user_plug_short_press ==
    /\ cb = "short" /\ ~isr
    /\ cb' = "idle"
    /\ bJustLongPressed' = 0
    /\ effects' = IF LongPressEnds
                     THEN effects
                     ELSE [effects EXCEPT ![released] = @ \cup {"switch"}]
    /\ UNCHANGED <<pin, intr, gpio_status, isr, key_level, key_5s, key_50ms, press, released>>

(* A press is under way until the callback of its release has run. *)
UnderWay(p) == (p = press /\ key_level = 1) \/ (p = released /\ cb = "short")

(* DAT_nFlashDataClean, from the HTTP server: its memset lowers the flag,  *)
(* the one of a long press that is still held included.                    *)
DAT_nFlashDataClean ==
    /\ bJustLongPressed' = 0
    /\ effects' = [p \in Presses |-> IF UnderWay(p) /\ "long" \in effects[p]
                                        THEN effects[p] \cup {"reset"}
                                        ELSE effects[p]]
    /\ UNCHANGED <<driver, press, released>>

(* A reboot: the statics start over, key_init runs again; the key may be held. *)
key_init ==
    /\ intr' = "POSEDGE" /\ gpio_status' = FALSE /\ isr' = FALSE
    /\ key_level' = 0 /\ key_5s' = FALSE /\ key_50ms' = FALSE
    /\ cb' = "idle" /\ bJustLongPressed' = 0
    /\ UNCHANGED <<pin, history>>

Interrupt == key_intr_enter \/ key_intr_press \/ key_intr_release
Callback ==
    \/ key_5s_cb \/ key_50ms_cb \/ key_50ms_low \/ key_50ms_high
    \/ user_plug_long_press \/ user_plug_short_press

ButtonNext == PinChange \/ Interrupt \/ Callback \/ DAT_nFlashDataClean \/ key_init

ButtonSpec == ButtonInit /\ [][ButtonNext]_buttonvars

(* An interrupt that is due is taken and its handler returns; the debounce *)
(* timer expires and the timer context finishes the callback it is in.     *)
ButtonFairSpec ==
    /\ ButtonSpec
    /\ WF_buttonvars(Interrupt)
    /\ WF_buttonvars(key_50ms_cb)
    /\ WF_buttonvars(key_50ms_low \/ key_50ms_high \/ user_plug_long_press \/ user_plug_short_press)
-----------------------------------------------------------------------------
(* The driver never goes deaf and never believes what is not so: the       *)
(* interrupt is off only while a debounce is in progress, which ends in    *)
(* enabling it; the edge awaited is the one that the believed level calls  *)
(* for; both timers run only during a press, the long-press one not after  *)
(* that press was reported as long.                                        *)
Debouncing == key_50ms \/ cb \in {"low", "high"}

KeyInv ==
    /\ ButtonTypeOK
    /\ intr = "DISABLE" <=> isr \/ Debouncing
    /\ gpio_status => intr # "DISABLE"
    /\ isr => ~Debouncing
    /\ key_50ms => cb \notin {"low", "high"}
    /\ intr = "POSEDGE" => key_level = 0
    /\ intr = "NEGEDGE" => key_level = 1
    /\ Debouncing \/ key_5s \/ cb = "long" => key_level = 1
    /\ key_5s \/ cb = "long" => "long" \notin effects[press]
    /\ ~(key_5s /\ cb = "long")

(* A press that was reported as long (user_plug_long_press) also switches  *)
(* the relay on its release (user_plug_short_press) only if a reset to     *)
(* factory settings came in between, whose memset takes the flag away:     *)
(* the handlers of this press and of the next one never do it alone,       *)
(* however they interleave.                                                *)
OneEffectPerPress ==
    \A p \in Presses : {"long", "switch"} \subseteq effects[p] => "reset" \in effects[p]

(* What makes it inductive: the flag is up from the long press to its      *)
(* release, and the release being reported is of the latest press or of    *)
(* the one before it.                                                      *)
FlagInv ==
    /\ key_level = 1 => "switch" \notin effects[press]
    /\ key_level = 1 /\ "long" \in effects[press]
         => bJustLongPressed = 1 \/ "reset" \in effects[press]
    /\ cb = "short" =>
         /\ released = (IF key_level = 0 THEN press ELSE 1 - press)
         /\ "switch" \notin effects[released]
         /\ "long" \in effects[released]
              => bJustLongPressed = 1 \/ "reset" \in effects[released]
         /\ key_level = 1 => "long" \notin effects[press]

ButtonInv == KeyInv /\ FlagInv /\ OneEffectPerPress

(* A release that is being debounced and lasts is reported. *)
ReleaseReported == [](key_50ms /\ [](pin = 0) => <>(key_level = 0))
=============================================================================
