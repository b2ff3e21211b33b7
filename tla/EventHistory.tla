---------------------------- MODULE EventHistory ----------------------------
(***************************************************************************)
(* The event history (app/user/user_data.c): a ring of N slots and a       *)
(* count, shared under xSmartSocketEventListSemaphore by everything that   *)
(* operates the relay, and its copy in the flash.                          *)
(*                                                                         *)
(* Events come from the HTTP server, the timer context (button, schedule,  *)
(* protection) and the cs5463 task, by way of user_plug_set_status; the    *)
(* HTTP server also reads the latest event and erases the list.  They      *)
(* preempt one another between any two steps.  A take that waits for ten   *)
(* seconds gives up.                                                       *)
(***************************************************************************)
EXTENDS Naturals

CONSTANTS
    N,             \* EVENT_HISTORY_MAX_RECORD_NUM, 32 in the code
    Callers,       \* the contexts that add events, the HTTP server among them
    Kinds,         \* the data of an event: the relay was opened or closed
    Times,         \* sntp_get_current_timestamp, 0 until the time is known
    MaxEvents      \* bound: no new event is reported once unEventNum is there

ASSUME EventHistoryAssumption ==
    /\ N \in Nat \ {0}
    /\ "http" \in Callers /\ "free" \notin Callers
    /\ Kinds \cap {"none", "logged", "INVALID"} = {}
    /\ Times \subseteq Nat /\ 0 \in Times
    /\ MaxEvents \in Nat

VARIABLES
    unEventNum,    \* tSmartSocketEventList.unEventNum
    tEvent,        \* tSmartSocketEventList.tEvent
    flash,         \* the list as last saved
    sem,           \* the holder of xSmartSocketEventListSemaphore, or "free"
    pc,            \* where each caller stands
    unData,        \* the event a caller is reporting
    unEventIndex,  \* the local of DAT_nGetEventHistory
    tAnswer,       \* what DAT_nGetEventHistory returned
    clock          \* the current time

(* History: the events that were the latest at some time since the present *)
(* call of DAT_nGetEventHistory began.                                     *)
VARIABLE fresh

list == <<unEventNum, tEvent>>
read == <<unEventIndex, tAnswer, fresh>>
vars == <<list, flash, sem, pc, unData, read, clock>>

Slots   == 0..N-1
Entry   == [time : Times, data : Kinds]
INVALID == [time |-> 0, data |-> "INVALID"]    \* a slot of zeros

EmptyList == <<0, [i \in Slots |-> INVALID]>>

Adding   == {"take", "write", "count", "save", "give"}
Reading  == {"index", "read"}
Erasing  == {"erase", "clear", "clear_save", "clear_give"}
Critical == {"write", "count", "save", "give", "clear", "clear_save", "clear_give"}

TypeOK ==
    /\ unEventNum \in Nat
    /\ tEvent \in [Slots -> Entry \cup {INVALID}]
    /\ flash \in Nat \X [Slots -> Entry \cup {INVALID}]
    /\ sem \in Callers \cup {"free"}
    /\ pc \in [Callers -> {"idle"} \cup Adding \cup Reading \cup Erasing]
    /\ unData \in [Callers -> Kinds]
    /\ unEventIndex \in Slots /\ tAnswer \in Entry \cup {INVALID}
    /\ clock \in Times
    /\ fresh \subseteq Entry \cup {INVALID}

(* A plug that was never used, started. *)
Init ==
    /\ unEventNum = 0 /\ tEvent = [i \in Slots |-> INVALID]
    /\ flash = EmptyList
    /\ sem = "free" /\ pc = [c \in Callers |-> "idle"]
    /\ unData \in [Callers -> Kinds]
    /\ unEventIndex = 0 /\ tAnswer = INVALID /\ fresh = {}
    /\ clock = 0

Goto(c, step) == pc' = [pc EXCEPT ![c] = step]

Latest == IF unEventNum = 0 THEN INVALID ELSE tEvent[(unEventNum - 1) % N]

-----------------------------------------------------------------------------
(* DAT_nAddEventHistory. *)

DAT_nAddEventHistory(c) ==
    /\ pc[c] = "idle"
    /\ unEventNum < MaxEvents
    /\ \E kind \in Kinds : unData' = [unData EXCEPT ![c] = kind]
    /\ Goto(c, "take")
    /\ UNCHANGED <<list, flash, sem, read, clock>>

TakeEventList_unguarded(c) ==    \* mutant: the semaphore is not waited for
    /\ pc[c] = "take"
    /\ sem' = c
    /\ Goto(c, "write")
    /\ UNCHANGED <<list, flash, unData, read, clock>>

TakeEventList(c) ==
    /\ pc[c] = "take" /\ sem = "free"
    /\ sem' = c
    /\ Goto(c, "write")
    /\ UNCHANGED <<list, flash, unData, read, clock>>

(* Ten seconds without it: the event is lost. *)
TakeTimeout(c) ==
    /\ pc[c] = "take" /\ sem # "free"
    /\ Goto(c, "idle")
    /\ UNCHANGED <<list, flash, sem, unData, read, clock>>

(* The time is read now, not when the event was reported. *)
WriteSlot(c) ==
    /\ pc[c] = "write"
    /\ tEvent' = [tEvent EXCEPT ![unEventNum % N] = [time |-> clock, data |-> unData[c]]]
    /\ Goto(c, "count")
    /\ UNCHANGED <<unEventNum, flash, sem, unData, read, clock>>

Counted(c, next) ==
    /\ pc[c] = "count"
    /\ unEventNum' = unEventNum + 1
    /\ fresh' = IF pc["http"] \in Reading THEN fresh \cup {tEvent[unEventNum % N]} ELSE fresh
    /\ Goto(c, next)
    /\ UNCHANGED <<tEvent, flash, sem, unData, unEventIndex, tAnswer, clock>>

Count_unsaved(c) == Counted(c, "give")    \* mutant: the list is not saved

Count(c) == Counted(c, "save")

(* system_param_save_with_protect: a power cut leaves the old copy or the new one. *)
SaveEventList(c) ==
    /\ pc[c] \in {"save", "clear_save"}
    /\ flash' = list
    /\ Goto(c, IF pc[c] = "save" THEN "give" ELSE "clear_give")
    /\ UNCHANGED <<list, sem, unData, read, clock>>

Give(c, holder) ==
    /\ pc[c] \in {"give", "clear_give"}
    /\ sem' = holder
    /\ Goto(c, "idle")
    /\ UNCHANGED <<list, flash, unData, read, clock>>

GiveEventList(c) == Give(c, "free")

-----------------------------------------------------------------------------
(* DAT_nGetEventHistory(0), from event_history_get. *)

DAT_nGetEventHistory ==
    /\ pc["http"] = "idle"
    /\ Goto("http", "index")
    /\ fresh' = {Latest}
    /\ UNCHANGED <<list, flash, sem, unData, unEventIndex, tAnswer, clock>>

(* unEventIndex is read before it is set: with any value in it the list    *)
(* may be found too short, with a small one only an empty list is.         *)
GetNothing ==
    /\ pc["http"] = "index"
    /\ tAnswer' = INVALID
    /\ Goto("http", "idle")
    /\ UNCHANGED <<list, flash, sem, unData, unEventIndex, fresh, clock>>

Indexed(index) ==
    /\ pc["http"] = "index"
    /\ unEventNum >= 1
    /\ unEventIndex' = index
    /\ Goto("http", "read")
    /\ UNCHANGED <<list, flash, sem, unData, tAnswer, fresh, clock>>

GetIndex_next == Indexed(unEventNum % N)    \* mutant: one too far

GetIndex == Indexed((unEventNum - 1) % N)

(* Take, read and give: nobody else gets at the list in between. *)
GetEvent ==
    /\ pc["http"] = "read" /\ sem = "free"
    /\ tAnswer' = tEvent[unEventIndex]
    /\ Goto("http", "idle")
    /\ UNCHANGED <<list, flash, sem, unData, unEventIndex, fresh, clock>>

GetTimeout ==
    /\ pc["http"] = "read" /\ sem # "free"
    /\ tAnswer' = INVALID
    /\ Goto("http", "idle")
    /\ UNCHANGED <<list, flash, sem, unData, unEventIndex, fresh, clock>>

-----------------------------------------------------------------------------
(* DAT_nFlashDataClean, from system_status_reset. *)

DAT_nFlashDataClean ==
    /\ pc["http"] = "idle"
    /\ Goto("http", "erase")
    /\ UNCHANGED <<list, flash, sem, unData, read, clock>>

EraseTake ==
    /\ pc["http"] = "erase" /\ sem = "free"
    /\ sem' = "http"
    /\ Goto("http", "clear")
    /\ UNCHANGED <<list, flash, unData, read, clock>>

EraseTimeout ==
    /\ pc["http"] = "erase" /\ sem # "free"
    /\ Goto("http", "idle")
    /\ UNCHANGED <<list, flash, sem, unData, read, clock>>

Clear ==
    /\ pc["http"] = "clear"
    /\ unEventNum' = 0 /\ tEvent' = [i \in Slots |-> INVALID]
    /\ Goto("http", "clear_save")
    /\ UNCHANGED <<flash, sem, unData, read, clock>>

-----------------------------------------------------------------------------
(* The clock advances, or jumps when the SNTP answer comes. *)
Tick ==
    /\ \E t \in Times : t > clock /\ clock' = t
    /\ UNCHANGED <<list, flash, sem, pc, unData, read>>

(* A restart or a power cut, at any moment.  systemInit creates the        *)
(* semaphore; the list in RAM starts as zeros, whatever the flash holds.   *)
Reboot ==
    /\ unEventNum' = 0 /\ tEvent' = [i \in Slots |-> INVALID]
    /\ sem' = "free" /\ pc' = [c \in Callers |-> "idle"]
    /\ unEventIndex' = 0 /\ tAnswer' = INVALID /\ fresh' = {}
    /\ clock' = 0
    /\ UNCHANGED <<flash, unData>>

Step(c) ==
    \/ TakeEventList(c) \/ TakeTimeout(c) \/ WriteSlot(c) \/ Count(c)
    \/ SaveEventList(c) \/ GiveEventList(c)

HttpStep ==
    \/ GetNothing \/ GetIndex \/ GetEvent \/ GetTimeout
    \/ EraseTake \/ EraseTimeout \/ Clear

Next ==
    \/ \E c \in Callers : DAT_nAddEventHistory(c) \/ Step(c)
    \/ DAT_nGetEventHistory \/ DAT_nFlashDataClean \/ HttpStep
    \/ Tick
    \/ Reboot

Spec == Init /\ [][Next]_vars

(* Each context goes on with the call it is in. *)
FairSpec ==
    /\ Spec
    /\ \A c \in Callers : WF_vars(Step(c))
    /\ WF_vars(HttpStep)

-----------------------------------------------------------------------------
(* The semaphore is held by the one that is in a critical section: two     *)
(* contexts are never in the list at once, not even when takes time out.   *)
MutualExclusion ==
    /\ TypeOK
    /\ \A c \in Callers : pc[c] \in Critical <=> sem = c

(* The flash follows the list: whenever the list is left with events in    *)
(* it, those very events are in the flash.                                 *)
FlashFollows == sem = "free" /\ unEventNum > 0 => flash = list

(* What makes it inductive: the semaphore is given back after the save. *)
SavedBeforeGive == \A c \in Callers : pc[c] \in {"give", "clear_give"} => flash = list

(* The index is computed before the semaphore is taken.  Even so, the      *)
(* event that is returned was the latest at some time during the call,     *)
(* however many are added and however often the ring wraps while it waits. *)
LatestIsFresh == pc["http"] = "idle" => tAnswer \in fresh \cup {INVALID}

(* What makes it inductive: the slot that will be read holds such an event, *)
(* or one that is about to be counted as the latest.                       *)
written == \E c \in Callers : pc[c] = "count"

WillBeFresh(index) == tEvent[index] \in fresh \/ (written /\ index = unEventNum % N)

FreshInv ==
    /\ pc["http"] \notin Reading => tAnswer \in fresh \cup {INVALID}
    /\ pc["http"] = "index" /\ unEventNum >= 1 => WillBeFresh((unEventNum - 1) % N)
    /\ pc["http"] = "read" => WillBeFresh(unEventIndex)

(* The list implements the log.  An event is in the log from the moment    *)
(* its slot is written: it may be that of the oldest one already.          *)
total == IF written THEN unEventNum + 1 ELSE unEventNum

recentOfList ==
    [i \in Slots |-> IF i < total THEN tEvent[(total - 1 - i) % N] ELSE INVALID]

callOfCaller ==
    [c \in Callers |-> IF pc[c] \in {"take", "write"} THEN unData[c]
                       ELSE IF pc[c] \in {"count", "save", "give"} THEN "logged"
                       ELSE "none"]

Log == INSTANCE EventLog WITH recent <- recentOfList, call <- callOfCaller

(* Every call adds its event once, in the order of the times, or fails.    *)
ImplementsLog == Log!Spec
=============================================================================
