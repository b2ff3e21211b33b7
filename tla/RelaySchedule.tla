--------------------------- MODULE RelaySchedule ---------------------------
(***************************************************************************)
(* The schedule of the relay (app/user/user_esp_platform_timer.c): a list  *)
(* of fixed, loop and week timers, one software timer that waits for the   *)
(* nearest of them, and a copy of the list in the flash.                   *)
(*                                                                         *)
(* The HTTP server sets and resets it (relay_schedule_set), the timer      *)
(* context runs its callback and, once SNTP knows the time, restores it    *)
(* after a start (user_check_sntp_stamp).  The timer context preempts the  *)
(* HTTP server; the server runs in turn while the callback waits for the   *)
(* semaphore of the event list, and both of them let time pass only there. *)
(***************************************************************************)
EXTENDS Integers, Sequences, FiniteSetsExt

CONSTANTS
    Schedules,     \* the lists that are sent: sequences of Timers
    TIMER_NUMBER,  \* the most timers of a list, 10 in the code
    Week, Hour,    \* 7 * 24 * 3600 and 3600 in the code
    MaxTime,       \* bound: the clock stops there
    MaxLate        \* bound on the seconds a handler waits for a semaphore

(* The texts of an action: three that the callback knows; "unknown", any   *)
(* other of 13 or 14 characters; "0", one of them that begins with a zero; *)
(* "on_", which covers no action whole; and "", none at all or more than   *)
(* the 16 characters that are copied.  (Texts of 15 and 16 characters reach *)
(* into the next place of the array and are left out.)                     *)
Known   == {"on_switch", "off_switch", "on_off_switch"}
Covers  == Known \cup {"unknown", "0"}
Actions == Covers \cup {"on_", ""}

(* f<at>=<action>, l<at>=<action> and w<at>=<action>. *)
Timers ==
    [mode : {"f"}, at : Nat, action : Actions]
        \cup [mode : {"l"}, at : Nat \ {0}, action : Actions]
        \cup [mode : {"w"}, at : 0..Week-1, action : Actions]

ASSUME ScheduleAssumption ==
    /\ TIMER_NUMBER \in Nat \ {0}
    /\ Week \in Nat \ {0} /\ Hour \in Nat \ {0}
    /\ MaxTime \in Nat /\ MaxLate \in Nat
    /\ \A s \in Schedules : s \in Seq(Timers) /\ Len(s) \in 1..TIMER_NUMBER

VARIABLES
    now,                  \* the time, in seconds since a Monday
    up,                   \* the plug runs
    unTimestamp,          \* tTimerParam.unTimestamp, the base of the waits
    unMinWaitSecond,
    pTimerSplitsStrings,  \* the list in RAM, <<>> when its strings are freed
    pSplitBuffer,         \* tTimerParam.pSplitBuffer: "null", "held" or "freed"
    pTimerWaitParam,      \* it was allocated: a schedule was started
    tWaitAction,          \* what the timer waits for
    tSchedulingTimer,     \* whether it is armed, with which callback, until when
    sTimerSplitsString,   \* tSmartSocketParameter's copy of the list, <<>> if none
    flash,                \* that copy as last saved
    sntp,                 \* the timer that asks SNTP for the time
    device_action,        \* the callback's locals and the action it is at, 0 if none
    http, request         \* where the HTTP server stands, and the list it was sent

(* History. *)
VARIABLES
    performed,     \* the actions of the present callback
    late,          \* the seconds the handlers waited since the base was set
    spoilt,        \* pSplitBuffer was freed twice: the heap may be anything
    disturbed      \* a change of the list and a callback met, or a change was
                   \* given up half way, since the list was last set

ram     == <<unTimestamp, unMinWaitSecond, pTimerSplitsStrings, pTimerWaitParam, pSplitBuffer>>
timer   == <<tWaitAction, tSchedulingTimer>>
param   == <<sTimerSplitsString, flash>>
server  == <<http, request>>
history == <<performed, late, spoilt, disturbed>>
vars    == <<now, up, ram, timer, param, sntp, device_action, server, history>>

Lists    == Schedules \cup {<<>>}
Wrong(n) == [i \in 1..TIMER_NUMBER+n |-> [mode |-> "f", at |-> 0, action |-> "unknown"]]
TooLong  == Wrong(1)    \* any list whose text does not fit
Missing  == Wrong(2)    \* a request without a list
Requests == Lists \cup {TooLong, Missing}
NoTimer  == [armed |-> FALSE, fn |-> "action", due |-> 0]
NoWait   == [min_time_backup |-> 0, action_number |-> 0, count |-> 0,
             action |-> [i \in 1..TIMER_NUMBER |-> ""]]
NoAction == [i |-> 0, count |-> 0, action_number |-> 0]
Counts   == 0..TIMER_NUMBER

TypeOK ==
    /\ now \in Nat /\ up \in BOOLEAN
    /\ unTimestamp \in Nat /\ unMinWaitSecond \in Nat
    /\ pTimerSplitsStrings \in Lists /\ pTimerWaitParam \in BOOLEAN
    /\ pSplitBuffer \in {"null", "held", "freed"}
    /\ tWaitAction \in [min_time_backup : Nat, action_number : Counts, count : Counts,
                        action : [1..TIMER_NUMBER -> Actions]]
    /\ tSchedulingTimer \in [armed : BOOLEAN, fn : {"overflow", "action"}, due : Nat]
    /\ sTimerSplitsString \in Lists /\ flash \in Lists
    /\ sntp \in {"off", "check", "done"}
    /\ device_action \in [i : 0..TIMER_NUMBER+1, count : Counts, action_number : Counts]
    /\ http \in {"idle", "freed", "backup", "start", "reset"}
    /\ request \in Requests
    /\ performed \in Seq(Actions) /\ late \in Nat
    /\ spoilt \in BOOLEAN /\ disturbed \in BOOLEAN

InCallback == device_action.i # 0

(* A plug with some schedule in its flash, or none, is switched on. *)
Init ==
    /\ now = 1 /\ up = FALSE
    /\ unTimestamp = 0 /\ unMinWaitSecond = 0
    /\ pTimerSplitsStrings = <<>> /\ pTimerWaitParam = FALSE /\ pSplitBuffer = "null"
    /\ tWaitAction = NoWait /\ tSchedulingTimer = NoTimer
    /\ flash \in Lists /\ sTimerSplitsString = <<>>
    /\ sntp = "off" /\ device_action = NoAction
    /\ http = "idle" /\ request = <<>>
    /\ performed = <<>> /\ late = 0 /\ spoilt = FALSE /\ disturbed = FALSE

-----------------------------------------------------------------------------
(* From the list to the timer.                                             *)

WeekWait(at, monday) == IF at > monday THEN at - monday ELSE Week - monday + at

(* user_platform_timer_first_start: the wait of one timer, from the base. *)
WaitTime(t, base) ==
    CASE t.mode = "f" -> t.at - base
      [] t.mode = "l" -> t.at - (base % t.at)
      [] t.mode = "w" -> WeekWait(t.at, base % Week)

WaitTimes(list, count, base) == [i \in 1..count |-> WaitTime(list[i], base)]

(* A fixed timer whose time is past or present does not count. *)
Positive(waits) == {waits[i] : i \in {j \in DOMAIN waits : waits[j] > 0}}

esp_platform_find_min_time(waits) ==
    IF Positive(waits) = {} THEN 0 ELSE Min(Positive(waits))

(* A long wait is split into hours: as long as one is left, the timer is   *)
(* armed for it.                                                           *)
HourTaken_forgotten(wait) == wait    \* mutant

HourTaken(wait) == [wait EXCEPT !.min_time_backup = @ - Hour]

user_esp_platform_wait_time_overflow_check(wait) ==
    IF wait.min_time_backup >= Hour
      THEN /\ tWaitAction' = HourTaken(wait)
           /\ tSchedulingTimer' = [armed |-> TRUE, fn |-> "overflow", due |-> now + Hour]
      ELSE /\ tWaitAction' = wait
           /\ tSchedulingTimer' = [armed |-> TRUE, fn |-> "action",
                                   due |-> now + wait.min_time_backup]

(* The actions of the timers that have the shortest wait, in their order,  *)
(* are copied without an end: of a text that was there before the rest     *)
(* stays, behind a shorter one and in the places that are not used.        *)
Copied(text, former) ==
    CASE text \in Covers -> text
      [] text = ""       -> former
      [] text = "on_"    -> IF former \in {"on_switch", "on_off_switch"} THEN former ELSE "unknown"

Nearest_one(waits, min) == {Min({i \in DOMAIN waits : waits[i] = min})}    \* mutant

Nearest(waits, min) == {i \in DOMAIN waits : waits[i] = min}

Rank(i, S) == Cardinality({j \in S : j <= i})
Nth(S, k)  == CHOOSE i \in S : Rank(i, S) = k

(* esp_platform_timer_schedule. *)
WaitFor(list, count, waits, min) ==
    LET due == Nearest(waits, min)
    IN  [min_time_backup |-> min, action_number |-> Cardinality(due), count |-> count,
         action |-> [k \in 1..TIMER_NUMBER |->
                        IF k <= Cardinality(due)
                          THEN Copied(list[Nth(due, k)].action, tWaitAction.action[k])
                          ELSE tWaitAction.action[k]]]

esp_platform_timer_schedule(list, count, waits, min) ==
    user_esp_platform_wait_time_overflow_check(WaitFor(list, count, waits, min))

(* user_platform_timer_first_start, the base being advanced: with no timer *)
(* left to wait for it returns and leaves the software timer as it was.    *)
user_platform_timer_first_start(list, count, base) ==
    LET waits == WaitTimes(list, count, base)
        min   == esp_platform_find_min_time(waits)
    IN  /\ unTimestamp' = base
        /\ unMinWaitSecond' = min
        /\ pTimerWaitParam' = TRUE
        /\ IF min = 0
             THEN UNCHANGED timer
             ELSE esp_platform_timer_schedule(list, count, waits, min)

-----------------------------------------------------------------------------
(* The timer context.                                                      *)

Expired == up /\ ~InCallback /\ tSchedulingTimer.armed /\ tSchedulingTimer.due <= now

OverflowExpires ==
    /\ Expired /\ tSchedulingTimer.fn = "overflow"
    /\ user_esp_platform_wait_time_overflow_check(tWaitAction)
    /\ UNCHANGED <<now, up, ram, param, sntp, device_action, server, history>>

(* user_esp_platform_device_action begins... *)
ActionExpires ==
    /\ Expired /\ tSchedulingTimer.fn = "action"
    /\ tSchedulingTimer' = [tSchedulingTimer EXCEPT !.armed = FALSE]
    /\ device_action' = [i |-> 1, count |-> tWaitAction.count,
                         action_number |-> tWaitAction.action_number]
    /\ disturbed' = (disturbed \/ http # "idle")
    /\ UNCHANGED <<now, up, ram, tWaitAction, param, sntp, server, performed, late, spoilt>>

(* ...performs one action after another, until there is none or one begins *)
(* with a zero...                                                          *)
ToPerform ==
    /\ device_action.i <= device_action.action_number
    /\ tWaitAction.action[device_action.i] # "0"

(* ...each of which may wait for the semaphore of the event list; one it    *)
(* does not know ends it for good...                                       *)
user_esp_platform_device_action ==
    LET action == tWaitAction.action[device_action.i]
    IN  /\ up /\ InCallback /\ ToPerform
        /\ IF action \in Known
             THEN /\ device_action' = [device_action EXCEPT !.i = @ + 1]
                  /\ performed' = Append(performed, action)
             ELSE /\ device_action' = NoAction
                  /\ performed' = <<>>
        /\ UNCHANGED <<now, up, ram, timer, param, sntp, server, late, spoilt, disturbed>>

(* ...and it waits for the next ones.  With a count that is not that of    *)
(* the list it reads a freed string: the processor traps, the plug is off. *)
Traps(count) == count > Len(pTimerSplitsStrings)

PowerOff ==    \* what is in RAM is lost
    /\ up' = FALSE
    /\ unTimestamp' = 0 /\ unMinWaitSecond' = 0
    /\ pTimerSplitsStrings' = <<>> /\ pTimerWaitParam' = FALSE /\ pSplitBuffer' = "null"
    /\ tWaitAction' = NoWait /\ tSchedulingTimer' = NoTimer
    /\ sTimerSplitsString' = <<>>
    /\ sntp' = "off" /\ device_action' = NoAction
    /\ http' = "idle" /\ request' = <<>>
    /\ performed' = <<>> /\ late' = 0 /\ spoilt' = FALSE /\ disturbed' = FALSE
    /\ UNCHANGED flash

Rearm ==
    /\ up /\ InCallback /\ ~ToPerform
    /\ IF Traps(device_action.count)
         THEN PowerOff
         ELSE /\ user_platform_timer_first_start(pTimerSplitsStrings, device_action.count,
                                                 unTimestamp + unMinWaitSecond)
              /\ device_action' = NoAction /\ performed' = <<>>
              /\ UNCHANGED <<up, pTimerSplitsStrings, pSplitBuffer, param, sntp, server,
                             late, spoilt, disturbed>>
    /\ UNCHANGED now

(* user_platform_timer_restore: the list of the flash, in a new buffer and *)
(* from the present time; without one base and buffer are cleared.         *)
user_platform_timer_restore ==
    IF sTimerSplitsString # <<>>
      THEN /\ pTimerSplitsStrings' = sTimerSplitsString
           /\ pSplitBuffer' = "held"
           /\ user_platform_timer_first_start(sTimerSplitsString, Len(sTimerSplitsString), now)
           /\ late' = 0
      ELSE /\ unTimestamp' = 0 /\ pSplitBuffer' = "null"
           /\ UNCHANGED <<unMinWaitSecond, pTimerSplitsStrings, pTimerWaitParam, timer, late>>

(* user_check_sntp_stamp, the time being known: a schedule is restored     *)
(* unless one was started since the plug is up.                            *)
user_check_sntp_stamp ==
    /\ up /\ ~InCallback /\ sntp = "check"
    /\ sntp' = "done"
    /\ IF pTimerWaitParam
         THEN UNCHANGED <<ram, timer, late, disturbed>>
         ELSE /\ user_platform_timer_restore
              /\ disturbed' = (disturbed \/ http # "idle")
    /\ UNCHANGED <<now, up, param, device_action, server, performed, spoilt>>

-----------------------------------------------------------------------------
(* The HTTP server and the rest of the plug.                               *)

(* user_platform_timer_start takes the time of the request and frees the   *)
(* strings of the list that is in force, the timer still armed...          *)
user_platform_timer_start(req) ==
    /\ up /\ http = "idle"
    /\ unMinWaitSecond' = 0 /\ unTimestamp' = now
    /\ pTimerSplitsStrings' = <<>>
    /\ http' = "freed" /\ request' = req
    /\ late' = 0 /\ disturbed' = InCallback
    /\ UNCHANGED <<now, up, pTimerWaitParam, pSplitBuffer, timer, param, sntp, device_action,
                   performed, spoilt>>

(* (A time that is too long to be one ends it after its first statement.)  *)
StartBadTimestamp ==
    /\ up /\ http = "idle"
    /\ unMinWaitSecond' = 0
    /\ disturbed' = (disturbed \/ tSchedulingTimer.armed \/ InCallback)
    /\ UNCHANGED <<now, up, unTimestamp, pTimerSplitsStrings, pTimerWaitParam, pSplitBuffer,
                   timer, param, sntp, device_action, server, performed, late, spoilt>>

(* ...an empty list disarms it, and the copy stays as it is... *)
StartEmpty ==
    /\ up /\ http = "freed" /\ request = <<>>
    /\ tSchedulingTimer' = NoTimer
    /\ http' = "idle" /\ request' = <<>>
    /\ UNCHANGED <<now, up, ram, tWaitAction, param, sntp, device_action, history>>

(* ...without a list it ends with the timer still armed... *)
GivenUp ==
    /\ disturbed' = (disturbed \/ tSchedulingTimer.armed)
    /\ http' = "idle" /\ request' = <<>>
    /\ UNCHANGED <<now, up, unTimestamp, unMinWaitSecond, pTimerSplitsStrings, pTimerWaitParam,
                   timer, param, sntp, device_action, performed, late>>

StartMissing ==
    /\ up /\ http = "freed" /\ request = Missing
    /\ GivenUp
    /\ UNCHANGED <<pSplitBuffer, spoilt>>

(* ...otherwise the old buffer is freed, whether it still is one or not... *)
FreeOld == spoilt' = (spoilt \/ pSplitBuffer = "freed")

(* ...a list that is too long is given up, the pointer left as it is... *)
StartTooLong ==
    /\ up /\ http = "freed" /\ request = TooLong
    /\ FreeOld
    /\ pSplitBuffer' = IF pSplitBuffer = "null" THEN "null" ELSE "freed"
    /\ GivenUp

(* ...any other is split, and user_platform_timer_bkup copies it... *)
StartSplit ==
    /\ up /\ http = "freed" /\ request \in Schedules
    /\ FreeOld
    /\ pSplitBuffer' = "held"
    /\ pTimerSplitsStrings' = request
    /\ sTimerSplitsString' = request
    /\ http' = "backup"
    /\ UNCHANGED <<now, up, unTimestamp, unMinWaitSecond, pTimerWaitParam, timer, flash,
                   sntp, device_action, request, performed, late, disturbed>>

(* ...and saves it under the parameter semaphore, or not within ten seconds... *)
user_platform_timer_bkup ==
    /\ up /\ http = "backup"
    /\ flash' \in {sTimerSplitsString, flash}
    /\ http' = "start"
    /\ UNCHANGED <<now, up, ram, timer, sTimerSplitsString, sntp, device_action, request, history>>

(* ...and is started. *)
StartFirst ==
    /\ up /\ http = "start"
    /\ user_platform_timer_first_start(pTimerSplitsStrings, Len(request),
                                       unTimestamp + unMinWaitSecond)
    /\ disturbed' = (disturbed \/ (tSchedulingTimer.armed /\ unMinWaitSecond' = 0))
    /\ http' = "idle" /\ request' = <<>>
    /\ UNCHANGED <<now, up, pTimerSplitsStrings, pSplitBuffer, param, sntp, device_action,
                   performed, late, spoilt>>

(* user_platform_timer_reset: the timer is stopped and the copy erased. *)
Disarm == tSchedulingTimer' = NoTimer

user_platform_timer_reset ==
    /\ up /\ http = "idle"
    /\ Disarm
    /\ sTimerSplitsString' = <<>>
    /\ http' = "reset"
    /\ disturbed' = (disturbed \/ InCallback)
    /\ UNCHANGED <<now, up, ram, tWaitAction, flash, sntp, device_action, request,
                   performed, late, spoilt>>

ResetSaved ==
    /\ up /\ http = "reset"
    /\ flash' \in {sTimerSplitsString, flash}
    /\ http' = "idle"
    /\ UNCHANGED <<now, up, ram, timer, sTimerSplitsString, sntp, device_action, request, history>>

(* system_status_reset erases every parameter, the copy of the list too. *)
DAT_nFlashDataClean ==
    /\ up /\ http = "idle"
    /\ sTimerSplitsString' = <<>> /\ flash' = <<>>
    /\ disturbed' = (disturbed \/ tSchedulingTimer.armed \/ InCallback)
    /\ UNCHANGED <<now, up, ram, timer, sntp, device_action, server, performed, late, spoilt>>

(* Connected to the access point, or another server is set (sntp_set). *)
PLTF_startSBTP ==
    /\ up /\ http = "idle"
    /\ sntp' = "check"
    /\ UNCHANGED <<now, up, ram, timer, param, device_action, server, history>>

(* The power goes, or a restart is asked for... *)
PowerDown ==
    /\ up
    /\ PowerOff
    /\ UNCHANGED now

(* ...and systemInit loads the parameters again. *)
systemInit ==
    /\ ~up
    /\ up' = TRUE
    /\ sTimerSplitsString' = flash
    /\ UNCHANGED <<now, ram, timer, flash, sntp, device_action, server, history>>

(* A second passes: at any time, but for a timer that is due; while a      *)
(* handler waits for a semaphore it makes the schedule late.               *)
Waiting == InCallback \/ http \in {"backup", "start"}

Tick ==
    /\ now < MaxTime
    /\ ~Expired /\ http # "freed"
    /\ now' = now + 1
    /\ IF up /\ Waiting
         THEN /\ late < MaxLate
              /\ late' = late + 1
         ELSE UNCHANGED late
    /\ UNCHANGED <<up, ram, timer, param, sntp, device_action, server, performed, spoilt, disturbed>>

Next ==
    \/ OverflowExpires \/ ActionExpires
    \/ user_esp_platform_device_action \/ Rearm
    \/ user_check_sntp_stamp
    \/ \E req \in Requests : user_platform_timer_start(req)
    \/ StartBadTimestamp \/ StartEmpty \/ StartMissing \/ StartTooLong \/ StartSplit
    \/ user_platform_timer_bkup \/ StartFirst
    \/ user_platform_timer_reset \/ ResetSaved
    \/ DAT_nFlashDataClean \/ PLTF_startSBTP
    \/ PowerDown \/ systemInit
    \/ Tick

Spec == Init /\ [][Next]_vars

-----------------------------------------------------------------------------
(* What a schedule means: the timers that are due at a time.               *)
Due(t, time) ==
    CASE t.mode = "f" -> time = t.at
      [] t.mode = "l" -> time % t.at = 0
      [] t.mode = "w" -> time % Week = t.at

DueActions(list, time) ==
    LET due == {i \in DOMAIN list : Due(list[i], time)}
    IN  [k \in 1..Cardinality(due) |-> list[Nth(due, k)].action]

Goal    == unTimestamp + unMinWaitSecond
Settled == up /\ ~disturbed /\ ~spoilt /\ http = "idle"
Armed   == Settled /\ tSchedulingTimer.armed

(* Where the schedule was not disturbed: the timer, over all the hours it  *)
(* is split into, expires when the next timers are due, late by no more    *)
(* than the seconds the handlers waited.                                   *)
OnTime ==
    Armed => tSchedulingTimer.due
                 + (IF tSchedulingTimer.fn = "overflow" THEN tWaitAction.min_time_backup ELSE 0)
               = Goal + late

(* Between the base and the time it waits for no timer is due: none is     *)
(* skipped, whichever modes the list mixes.                                *)
NothingMissed ==
    Armed => \A time \in unTimestamp+1..Goal-1 : DueActions(pTimerSplitsStrings, time) = <<>>

(* A callback that went through has performed the actions that are due, in *)
(* the order of the list and at their time, up to the first text that is   *)
(* no action: from there on it may perform what an older list left in the  *)
(* place of that text (user_esp_platform_timer.c:329), but never more      *)
(* actions than are due.                                                   *)
DoneAsMeant(due) ==
    /\ Len(performed) <= Len(due)
    /\ \A k \in DOMAIN due :
          (\A j \in 1..k : due[j] \in Known) => k <= Len(performed) /\ performed[k] = due[k]

DueActionsDone ==
    [][Rearm /\ Settled => DoneAsMeant(DueActions(pTimerSplitsStrings, Goal))]_vars

(* The count the callback will use is that of the list: it reads no string *)
(* that was freed.                                                         *)
CountIsCurrent ==
    /\ Armed => tWaitAction.count = Len(pTimerSplitsStrings)
    /\ Settled /\ InCallback => device_action.count = Len(pTimerSplitsStrings)

(* What runs is what relay_schedule_get reports and a restart restores. *)
ReportedIsRunning ==
    Armed \/ (Settled /\ InCallback) => sTimerSplitsString = pTimerSplitsStrings

(* A list with a loop or a week timer goes on for ever, unless it holds a  *)
(* text that is no action and does not begin with a zero.                  *)
Periodic(list) ==
    /\ \E i \in DOMAIN list : list[i].mode \in {"l", "w"}
    /\ \A i \in DOMAIN list : list[i].action \in Known \cup {"0"}

KeepsRunning ==
    Settled /\ Periodic(pTimerSplitsStrings) /\ sTimerSplitsString # <<>>
        => tSchedulingTimer.armed \/ InCallback

(* Whatever is set, reset, restored and performed in between, a schedule   *)
(* is on time, misses no action and keeps running, and a get reports the   *)
(* list that runs.  Nothing is claimed of a schedule whose setting met a   *)
(* callback or was given up half way (disturbed), nor after the list that  *)
(* followed one that was too long freed its buffer again (spoilt).         *)
ScheduleInv ==
    TypeOK /\ CountIsCurrent /\ OnTime /\ NothingMissed /\ ReportedIsRunning /\ KeepsRunning
=============================================================================
