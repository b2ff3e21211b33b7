----------------------------- MODULE Parameters -----------------------------
(***************************************************************************)
(* The parameters of the socket in RAM and in flash, and what hangs on     *)
(* them: the set and get commands of app/user/user_cgi.c, the current      *)
(* protection and the trend records of app/user/cs5463.c, the trend log    *)
(* and the reset of app/user/user_data.c, and the start in user_main.c.    *)
(*                                                                         *)
(* Three contexts share them.  The callbacks of the timers run to their    *)
(* end, or until they wait for a semaphore, before the HTTP task (4) and   *)
(* the cs5463 task (2); the HTTP task goes before the cs5463 task.  Every  *)
(* save writes all of the parameters as they are in RAM at that moment.    *)
(***************************************************************************)
EXTENDS Integers

CONSTANTS
    PER,       \* TREND_RECORD_NUM_PER_SECTOR
    SECTORS,   \* MAX_TREND_RECORD_SECTOR
    BASE,      \* GET_USER_DATA_SECTORE(USER_DATA_TREND), 518 in the code
    RECORDS    \* bound: trend records counted

ASSUME LayoutAssumption ==
    /\ PER \in Nat \ {0} /\ SECTORS \in Nat \ {0} /\ BASE \in Nat
    /\ RECORDS \in Nat

MAX == PER * SECTORS    \* MAX_TREND_RECORD_NUM

VARIABLES
    ram,        \* tSmartSocketParameter: what the commands change of it
    flash,      \* its saved copy
    sem,        \* the holder of xSmartSocketParameterSemaphore, or "free"
    http,       \* where the HTTP task stands, and with which command
    cs,         \* where the cs5463 task stands in CS5463IF_Routine
    seen,       \* the flag it has read before it arms or disarms a timer
    tTrendRecord, tCheckCurrentTimer,    \* armed
    trend,      \* where trend_record_callback stands
    index,      \* the sector it computed for its record
    wrote,      \* where the last record since the last reset went
    I_RMS,      \* the last reading of the current is above the threshold
    relay

(* History. *)
VARIABLES
    unsaved,    \* a command gave up before its save, and none came since
    astray      \* the flags changed behind the back of their timers; and whether
                \* a reset met the record that waits or the one that was written

timers == <<tTrendRecord, tCheckCurrentTimer>>
log    == <<trend, index, wrote>>
meter  == <<I_RMS, relay>>
hist   == <<unsaved, astray>>
vars   == <<ram, flash, sem, http, cs, seen, timers, log, meter, hist>>

Flags    == {"trend", "protect"}    \* with a timer each
Met      == {"waiting", "written"}
Commands == Flags \cup {"other"}
Params   == [trend : BOOLEAN, protect : BOOLEAN, other : BOOLEAN, num : 0..RECORDS]
Nowhere  == [sector |-> 0, record |-> 0]
NoPlace  == 0

Idle == [at |-> "idle", cmd |-> "other"]

(* DAT_nFlashDataClean *)
Defaults == [trend |-> FALSE, protect |-> FALSE, other |-> FALSE, num |-> 0]

(* systemInit: what was saved is loaded; nothing runs. *)
Starts(saved) ==
    /\ ram' = saved /\ sem' = "free" /\ http' = Idle
    /\ cs' = "trend_flag" /\ seen' = FALSE
    /\ tTrendRecord' = FALSE /\ tCheckCurrentTimer' = FALSE
    /\ trend' = "idle" /\ index' = NoPlace /\ wrote' = Nowhere
    /\ I_RMS' = FALSE /\ relay' = "OPEN"
    /\ unsaved' = FALSE /\ astray' = {}

Init ==
    /\ flash \in {Defaults, [Defaults EXCEPT !.trend = TRUE, !.protect = TRUE]}
    /\ ram = flash /\ sem = "free" /\ http = Idle
    /\ cs = "trend_flag" /\ seen = FALSE
    /\ tTrendRecord = FALSE /\ tCheckCurrentTimer = FALSE
    /\ trend = "idle" /\ index = NoPlace /\ wrote = Nowhere
    /\ I_RMS = FALSE /\ relay = "OPEN"
    /\ unsaved = FALSE /\ astray = {}

Reboot == Starts(flash) /\ UNCHANGED flash

(* A callback that does not wait goes before both tasks, and the HTTP task *)
(* before the cs5463 task.                                                 *)
Blocked(step) == step = "take" /\ sem # "free"
CallbackRuns  == trend # "idle" /\ ~Blocked(trend)
HttpMay == ~CallbackRuns
CsMay   == ~CallbackRuns /\ (http.at = "idle" \/ Blocked(http.at))

Semaphore(who) == sem = "free" /\ sem' = who

-----------------------------------------------------------------------------
(* The set commands: the field in RAM, then the semaphore, then the save,  *)
(* then, for the two flags, the timer.                                     *)
SetField(cmd, v) ==
    IF cmd = "trend" THEN [ram EXCEPT !.trend = v]
    ELSE IF cmd = "protect" THEN [ram EXCEPT !.protect = v]
    ELSE [ram EXCEPT !.other = v]

set(cmd, v) ==
    /\ HttpMay /\ http = Idle
    /\ ram' = SetField(cmd, v)
    /\ http' = [at |-> "take", cmd |-> cmd]
    /\ UNCHANGED <<flash, sem, cs, seen, timers, log, meter, hist>>

(* A command that is malformed or out of range returns before that.        *)
(* manual, threshold, sntp and calib are the others: a field, no timer.    *)
trend_enable_set   == \E v \in BOOLEAN : set("trend", v)
protect_enable_set == \E v \in BOOLEAN : set("protect", v)
other_set          == \E v \in BOOLEAN : set("other", v)

(* The calibration is set field by field; when the second field is missing *)
(* the command returns with the first one set and nothing saved.           *)
cs5463_calib_half_set ==
    /\ HttpMay /\ http = Idle
    /\ \E v \in BOOLEAN : ram' = SetField("other", v)
    /\ unsaved' = TRUE
    /\ UNCHANGED <<flash, sem, http, cs, seen, timers, log, meter, astray>>

HttpTakes ==
    /\ HttpMay /\ http.at = "take" /\ Semaphore("http")
    /\ http' = [http EXCEPT !.at = "save"]
    /\ UNCHANGED <<ram, flash, cs, seen, timers, log, meter, hist>>

(* Ten seconds: the field stays set in RAM, the rest is not done. *)
HttpTimeout ==
    /\ HttpMay /\ http.at = "take" /\ sem # "free"
    /\ http' = Idle
    /\ unsaved' = TRUE
    /\ astray' = astray \cup ({http.cmd} \cap Flags)
    /\ UNCHANGED <<ram, flash, sem, cs, seen, timers, log, meter>>

HttpSaves ==
    /\ HttpMay /\ http.at = "save"
    /\ flash' = ram /\ sem' = "free"
    /\ http' = [http EXCEPT !.at = "apply"]
    /\ unsaved' = FALSE
    /\ UNCHANGED <<ram, cs, seen, timers, log, meter, astray>>

(* CS5463IF_TrendEnable, CS5463IF_ProtectEnable: disarm, and arm if so. *)
Armed(cmd) ==
    /\ tTrendRecord' = IF cmd = "trend" THEN ram.trend ELSE tTrendRecord
    /\ tCheckCurrentTimer' = IF cmd = "protect" THEN ram.protect ELSE tCheckCurrentTimer

(* The cs5463 task has read the flag and has not yet armed the timer. *)
Arming(cmd) == (cs = "trend_arm" /\ cmd = "trend") \/ (cs = "protect_arm" /\ cmd = "protect")

HttpApplies ==
    /\ HttpMay /\ http.at = "apply"
    /\ Armed(http.cmd)
    /\ astray' = IF Arming(http.cmd) THEN astray \cup {http.cmd} ELSE astray \ {http.cmd}
    /\ http' = Idle
    /\ UNCHANGED <<ram, flash, sem, cs, seen, log, meter, unsaved>>

(* system_status_reset: DAT_nFlashDataClean clears the events first, and   *)
(* gives up if it gets either semaphore not within ten seconds...          *)
system_status_reset ==
    /\ HttpMay /\ http = Idle
    /\ http' = [at |-> "clean", cmd |-> "other"]
    /\ UNCHANGED <<ram, flash, sem, cs, seen, timers, log, meter, hist>>

CleanGivesUp ==
    /\ HttpMay /\ http.at = "clean"
    /\ http' = Idle
    /\ UNCHANGED <<ram, flash, sem, cs, seen, timers, log, meter, hist>>

CleanTakes ==
    /\ HttpMay /\ http.at = "clean" /\ Semaphore("http")
    /\ http' = [http EXCEPT !.at = "wipe"]
    /\ UNCHANGED <<ram, flash, cs, seen, timers, log, meter, hist>>

(* ...then it puts the defaults in RAM and in flash; the timers of the     *)
(* meter are not told, nor is a record that waits to be counted.           *)
Cleaned_in_ram ==    \* mutant: the defaults are not saved
    ram' = Defaults /\ UNCHANGED flash

Cleaned == ram' = Defaults /\ flash' = Defaults

DAT_nFlashDataClean ==
    /\ HttpMay /\ http.at = "wipe"
    /\ Cleaned /\ sem' = "free" /\ http' = Idle
    /\ unsaved' = FALSE
    /\ astray' = Flags \cup (IF trend = "idle" THEN {} ELSE {"waiting"})
    /\ wrote' = Nowhere
    /\ UNCHANGED <<cs, seen, timers, trend, index, meter>>

(* The get commands answer from RAM. *)
trend_enable_get   == ram.trend
protect_enable_get == ram.protect
other_get          == ram.other

-----------------------------------------------------------------------------
(* The cs5463 task, CS5463IF_Routine: each flag is read and then, perhaps  *)
(* after a command has run in between, its timer is armed or disarmed.     *)
ReadsFlag(at, next, flag) ==
    /\ CsMay /\ cs = at
    /\ seen' = flag
    /\ cs' = next
    /\ UNCHANGED <<ram, flash, sem, http, timers, log, meter, hist>>

RoutineReadsTrend   == ReadsFlag("trend_flag", "trend_arm", ram.trend)
RoutineReadsProtect == ReadsFlag("protect_flag", "protect_arm", ram.protect)

RoutineArmsTrend ==
    /\ CsMay /\ cs = "trend_arm"
    /\ tTrendRecord' = seen /\ seen' = FALSE
    /\ cs' = "protect_flag"
    /\ UNCHANGED <<ram, flash, sem, http, tCheckCurrentTimer, log, meter, hist>>

RoutineArmsProtect ==
    /\ CsMay /\ cs = "protect_arm"
    /\ tCheckCurrentTimer' = seen /\ seen' = FALSE
    /\ cs' = "run"
    /\ UNCHANGED <<ram, flash, sem, http, tTrendRecord, log, meter, hist>>

(* One round of the loop: the readings of a second, as the load is.  There *)
(* is no current through an open relay.                                    *)
RoutineReads ==
    /\ CsMay /\ cs = "run"
    /\ I_RMS' \in IF relay = "OPEN" THEN {FALSE} ELSE BOOLEAN
    /\ UNCHANGED <<ram, flash, sem, http, cs, seen, timers, log, relay, hist>>

RoutineStarts == RoutineReadsTrend \/ RoutineArmsTrend \/ RoutineReadsProtect \/ RoutineArmsProtect

CS5463IF_Routine == RoutineStarts \/ RoutineReads

(* The task that calibrates (Calibration) and the schedule (RelaySchedule) *)
(* save the parameters too.                                                *)
OtherTakes ==
    /\ CsMay /\ Semaphore("other")
    /\ UNCHANGED <<ram, flash, http, cs, seen, timers, log, meter, hist>>

OtherSaves ==
    /\ sem = "other"
    /\ flash' = ram /\ sem' = "free" /\ unsaved' = FALSE
    /\ UNCHANGED <<ram, http, cs, seen, timers, log, meter, astray>>

-----------------------------------------------------------------------------
(* The timer context. *)
TimersFree == trend = "idle"

(* check_current_timer_cb, every second. *)
Trips_below == ~I_RMS    \* mutant: the comparison turned round

Trips == I_RMS

check_current_timer_cb ==
    /\ TimersFree /\ tCheckCurrentTimer
    /\ relay' = IF Trips THEN "OPEN" ELSE relay
    /\ UNCHANGED <<ram, flash, sem, http, cs, seen, timers, log, I_RMS, hist>>

(* DAT_bTrendRecordAdd: the place first (and the erasure of a sector the   *)
(* log enters), then the semaphore, the count, the save, and the record.   *)
(* The sector it writes to is counted from the start of the log, and the   *)
(* sector it has computed is counted from the start of the flash.          *)
PlaceOf(num) ==
    LET unRotatedIndex == num % MAX
        unSectorIndex == BASE + unRotatedIndex \div PER
    IN  BASE + unSectorIndex

trend_record_callback ==
    /\ TimersFree /\ tTrendRecord /\ ram.num < RECORDS
    /\ index' = PlaceOf(ram.num)
    /\ trend' = "take"
    /\ UNCHANGED <<ram, flash, sem, http, cs, seen, timers, wrote, meter, hist>>

TrendCounts ==
    /\ trend = "take" /\ Semaphore("trend")
    /\ ram' = [ram EXCEPT !.num = @ + 1]
    /\ trend' = "save"
    /\ UNCHANGED <<flash, http, cs, seen, timers, index, wrote, meter, hist>>

TrendTimeout ==
    /\ trend = "take" /\ sem # "free"
    /\ trend' = "idle" /\ index' = NoPlace
    /\ astray' = astray \ {"waiting"}
    /\ UNCHANGED <<ram, flash, sem, http, cs, seen, timers, wrote, meter, unsaved>>

SavesCount_later == UNCHANGED flash    \* mutant: the count is left to the next save

SavesCount == flash' = ram

TrendSaves ==
    /\ trend = "save"
    /\ SavesCount /\ sem' = "free"
    /\ unsaved' = FALSE
    /\ trend' = "write"
    /\ UNCHANGED <<ram, http, cs, seen, timers, index, wrote, meter, astray>>

TrendWrites ==
    /\ trend = "write"
    /\ wrote' = [sector |-> index, record |-> ram.num]
    /\ trend' = "idle" /\ index' = NoPlace
    /\ astray' = (astray \ Met) \cup (IF "waiting" \in astray THEN {"written"} ELSE {})
    /\ UNCHANGED <<ram, flash, sem, http, cs, seen, timers, meter, unsaved>>

-----------------------------------------------------------------------------
(* The button, the schedule or a request. *)
SwitchedOn ==
    /\ relay = "OPEN" /\ ~CallbackRuns
    /\ relay' = "CLOSE"
    /\ UNCHANGED <<ram, flash, sem, http, cs, seen, timers, log, I_RMS, hist>>

HttpGoesOn ==
    \/ HttpTakes \/ HttpTimeout \/ HttpSaves \/ HttpApplies
    \/ CleanGivesUp \/ CleanTakes \/ DAT_nFlashDataClean

HttpTask ==
    \/ trend_enable_set \/ protect_enable_set \/ other_set \/ cs5463_calib_half_set \/ system_status_reset
    \/ HttpGoesOn

TrendGoesOn == TrendCounts \/ TrendTimeout \/ TrendSaves \/ TrendWrites

Callbacks == check_current_timer_cb \/ trend_record_callback \/ TrendGoesOn

Next == HttpTask \/ CS5463IF_Routine \/ OtherTakes \/ OtherSaves \/ Callbacks \/ SwitchedOn \/ Reboot

(* The timers expire, also when they are stopped and started in between,   *)
(* and a record that is begun gets the semaphore or gives up.  Nothing is  *)
(* assumed of the requests, of the task or of what the meter reads.        *)
Fairness == SF_vars(check_current_timer_cb) /\ WF_vars(TrendGoesOn)

Spec == Init /\ [][Next]_vars /\ Fairness

-----------------------------------------------------------------------------
TypeOK ==
    /\ ram \in Params /\ flash \in Params
    /\ sem \in {"free", "http", "trend", "other"}
    /\ http.at \in {"idle", "take", "save", "apply", "clean", "wipe"} /\ http.cmd \in Commands
    /\ cs \in {"trend_flag", "trend_arm", "protect_flag", "protect_arm", "run"}
    /\ seen \in BOOLEAN /\ tTrendRecord \in BOOLEAN /\ tCheckCurrentTimer \in BOOLEAN
    /\ trend \in {"idle", "take", "save", "write"}
    /\ index \in Nat /\ wrote.sector \in Nat /\ wrote.record \in 0..RECORDS
    /\ I_RMS \in BOOLEAN /\ relay \in {"OPEN", "CLOSE"}
    /\ unsaved \in BOOLEAN /\ astray \subseteq Flags \cup Met

(* The semaphore is held by whoever is about to save, and by nobody else. *)
OneSaver ==
    /\ (sem = "http" <=> http.at \in {"save", "wipe"})
    /\ (sem = "trend" <=> trend = "save")

(* What a get command reports survives a restart, between requests, unless *)
(* a command gave up before its save and no save has followed.             *)
ReportedSurvives ==
    http.at \in {"idle", "apply"} /\ ~unsaved =>
        /\ trend_enable_get = flash.trend
        /\ protect_enable_get = flash.protect
        /\ other_get = flash.other

(* Once the meter runs, a timer is armed if its flag is set, and is not if *)
(* it is not; the exceptions are a command that ran while the task was     *)
(* arming it, one whose save timed out, and a reset, which clears the      *)
(* flags and leaves the timers.                                            *)
TimersFollow ==
    cs = "run" /\ http.at \in {"idle", "clean", "wipe"} =>
        /\ (tTrendRecord = ram.trend \/ "trend" \in astray)
        /\ (tCheckCurrentTimer = ram.protect \/ "protect" \in astray)

(* user_data.c, line 157: the count is saved before the record is written, *)
(* so that an exception in between costs a record and not the log.         *)
CountedFirst == wrote.record <= flash.num

(* A record goes to the sector of its number, although that was computed   *)
(* before the semaphore was taken; the exception is one that a reset,      *)
(* which begins the count again, met while it was waiting.                 *)
InItsSector ==
    wrote # Nowhere /\ "written" \notin astray => wrote.sector = PlaceOf(wrote.record - 1)

(* One context saves at a time, the timers of trend and protection follow  *)
(* their settings, and no record is written that was not counted first,    *)
(* or to another sector than that of its number.                           *)
ParametersInv == TypeOK /\ OneSaver /\ TimersFollow /\ CountedFirst /\ InItsSector

Overload == relay = "CLOSE" /\ I_RMS
Enabled  == cs = "run" /\ http = Idle /\ ram.protect /\ "protect" \notin astray

(* The protection works: an overload does not last, while the protection   *)
(* is set and no command has met the task that was arming it.              *)
Protected == (Overload /\ Enabled) ~> (~Overload \/ ~Enabled)
=============================================================================
