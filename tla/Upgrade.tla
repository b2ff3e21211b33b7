------------------------------ MODULE Upgrade ------------------------------
(***************************************************************************)
(* The upgrade of the firmware (app/upgrade): a task per upgrade that asks *)
(* a server for the image, erases the area that is not running, connects   *)
(* again to fetch the image, checks its CRC and restarts into it.  Up to   *)
(* RETRY connections, and a timer that is to end it all after 300 s.       *)
(*                                                                         *)
(* The globals of the module are shared by all its tasks: nothing keeps a  *)
(* second upgrade from being started, since pxCreatedTask stays NULL.      *)
(***************************************************************************)
EXTENDS Integers, Sequences

CONSTANTS
    Tasks,      \* upgrades that may be under way together
    RETRY,      \* UPGRADE_RETRY_TIMES, 30 in the code
    L,          \* bytes of the image, its CRC (the last word) included
    SEC,        \* bytes of a sector, 4096 in the code
    NSEC,       \* sectors of an area (fw_bin_sec_num)
    W,          \* bytes of a word of the flash, 4
    SEG,        \* body bytes that one read may return at most
    Replies,    \* what a server may answer to a request
    None        \* the NULL pointer

ASSUME UpgradeAssumption ==
    /\ None \notin Tasks /\ "dead" \notin Tasks
    /\ RETRY \in Nat \ {0} /\ SEC \in Nat \ {0} /\ NSEC \in Nat \ {0} /\ W \in Nat \ {0}
    /\ SEG \in 1..SEC
    /\ L \in Nat /\ L > SEC /\ L % W = 0 /\ L < NSEC * SEC    \* gen_appbin.py pads the image

(* A byte of flash: erased, the k-th of the image, or any other. *)
E == 0
X == -1
Byte == -1..L

Pos  == 0..((NSEC + 1) * SEC - 1)    \* the area, and the sector after it
(* An answer: its Content-Length, -1 if it has none, and its body. *)
Reply == [len : Int, body : Seq(Byte)]

ASSUME ReplyAssumption == Replies \subseteq Reply

(* The structure of upgrade_lib.c.                                         *)
Structure == [fw_bin_addr : Nat, fw_bin_sec_earse : 0..NSEC+1, save : Seq(Byte)]

ASSUME NoneIsNull == None \notin Structure

VARIABLES
    task,         \* the tasks: position, locals, socket, and the server structure
    totallength, sumlength, flash_erased,
    precv_buf,    \* whose buffer it points to (a task, or None)
    upgrade,      \* the structure of upgrade_lib.c, or None
    flag,         \* system_upgrade_flag
    upgrade_timer,\* the task whose server it will check, or None
    area,         \* the flash that is not running
    heap          \* tasks whose receive buffer is allocated

(* History *)
VARIABLES
    disturbed,    \* a second upgrade began, or the check ran, since the plug started
    unmeasured,   \* the CRC that was accepted last was not computed over an image
    small,        \* the area was "erased" for an answer that fits in a sector
    prepared      \* the sectors that were erased for an answer before it was loaded

globals == <<totallength, sumlength, flash_erased, precv_buf, upgrade, flag>>
history == <<disturbed, unmeasured, small, prepared>>
vars    == <<task, globals, upgrade_timer, area, heap, history>>

NoReply == [head |-> FALSE, len |-> -1, body |-> <<>>]

Off == [at |-> "off", retry |-> 0, rx |-> NoReply, sock |-> NoReply,
        server |-> None, upgrade_flag |-> FALSE]

Places == {"off", "start", "loop", "wait", "connect", "request", "read", "load", "erase",
           "finish", "crc", "free", "reply", "exit"}

TypeOK ==
    /\ \A t \in Tasks :
           /\ task[t].at \in Places /\ task[t].retry \in 0..RETRY+1
           /\ task[t].server \in {None, "live", "freed"} /\ task[t].upgrade_flag \in BOOLEAN
           /\ task[t].rx.body \in Seq(Byte) /\ task[t].sock.body \in Seq(Byte)
    /\ totallength \in Nat /\ sumlength \in Int /\ flash_erased \in BOOLEAN
    /\ precv_buf \in Tasks \cup {None}
    /\ upgrade = None \/ (upgrade \in Structure /\ Len(upgrade.save) < W)
    /\ flag \in {"IDLE", "START", "FINISH"}
    /\ upgrade_timer \in Tasks \cup {None, "dead"}
    /\ area \in [Pos -> Byte] /\ heap \subseteq Tasks
    /\ \A b \in {disturbed, unmeasured, small} : b \in BOOLEAN
    /\ prepared \in 0..NSEC+1

Rebooted(flash) ==
    /\ task' = [t \in Tasks |-> Off]
    /\ totallength' = 0 /\ sumlength' = 0 /\ flash_erased' = FALSE
    /\ precv_buf' = None /\ upgrade' = None /\ flag' = "IDLE" /\ upgrade_timer' = None
    /\ area' = flash /\ heap' = {}
    /\ disturbed' = FALSE /\ unmeasured' = FALSE /\ small' = FALSE /\ prepared' = 0

(* The area holds an older firmware. *)
Init ==
    /\ task = [t \in Tasks |-> Off]
    /\ totallength = 0 /\ sumlength = 0 /\ flash_erased = FALSE
    /\ precv_buf = None /\ upgrade = None /\ flag = "IDLE" /\ upgrade_timer = None
    /\ area = [k \in Pos |-> X] /\ heap = {}
    /\ disturbed = FALSE /\ unmeasured = FALSE /\ small = FALSE /\ prepared = 0

At(t, place) == task[t].at = place
Running(t)   == task[t].at # "off"

Goto(t, place) == task' = [task EXCEPT ![t].at = place]

-----------------------------------------------------------------------------
(* The user, the network, the power.                                       *)

(* user_upgrade_start: the handler creates the task and arms the timer for *)
(* its server, whoever's it was before.                                    *)
user_upgrade_start(t) ==
    /\ At(t, "off")
    /\ task' = [task EXCEPT ![t] = [Off EXCEPT !.at = "start", !.server = "live"]]
    /\ upgrade_timer' = IF upgrade_timer = "dead" THEN "dead" ELSE t
    /\ disturbed' = (disturbed \/ \E other \in Tasks : Running(other))
    /\ UNCHANGED <<globals, area, heap, unmeasured, small, prepared>>

Restart == Rebooted(area)

-----------------------------------------------------------------------------
(* The task up to the request.                                             *)

TaskStarts(t) ==
    /\ At(t, "start")
    /\ flash_erased' = FALSE
    /\ precv_buf' = t /\ heap' = heap \cup {t}
    /\ Goto(t, "loop")
    /\ UNCHANGED <<totallength, sumlength, upgrade, flag, upgrade_timer, area, history>>

(* mutant: an attempt is not counted *)
TryAgain_uncounted(t) ==
    /\ At(t, "loop")
    /\ Goto(t, IF task[t].retry < RETRY THEN "wait" ELSE "finish")
    /\ UNCHANGED <<globals, upgrade_timer, area, heap, history>>

TryAgain(t) ==
    /\ At(t, "loop")
    /\ task' = [task EXCEPT ![t].retry = @ + 1,
                            ![t].at = IF task[t].retry < RETRY THEN "wait" ELSE "finish"]
    /\ UNCHANGED <<globals, upgrade_timer, area, heap, history>>

WaitForIp(t) ==
    /\ At(t, "wait")
    /\ Goto(t, "connect")
    /\ UNCHANGED <<globals, upgrade_timer, area, heap, history>>

(* Memory that is no longer there, or interrupts that stay off: what        *)
(* follows is a trap or garbage, and the model goes on with the restart.    *)
Breaks == Rebooted(area)

(* A continue: after the delay the next attempt, the totals as they are.   *)
ConnectFails(t) ==
    /\ At(t, "connect") /\ task[t].server = "live"
    /\ Goto(t, "loop")
    /\ UNCHANGED <<globals, upgrade_timer, area, heap, history>>

(* What is in save stays there: only the addresses are set anew.  The less  *)
(* than a word that a lost try has left goes before the first byte of the   *)
(* next, whose image is then written that many bytes too far on.            *)
system_upgrade_init ==
    upgrade' = [fw_bin_addr |-> 0, fw_bin_sec_earse |-> 0,
                save |-> IF upgrade = None THEN <<>> ELSE upgrade.save]

Connect(t) ==
    /\ At(t, "connect") /\ task[t].server = "live"
    /\ system_upgrade_init
    /\ flag' = "START"
    /\ Goto(t, "request")
    /\ UNCHANGED <<totallength, sumlength, flash_erased, precv_buf, upgrade_timer, area, heap,
                   history>>

RequestFails(t) ==
    /\ At(t, "request") /\ task[t].server = "live"
    /\ Goto(t, "loop")
    /\ UNCHANGED <<globals, upgrade_timer, area, heap, history>>

Request(t) ==
    /\ At(t, "request") /\ task[t].server = "live"
    /\ \E r \in Replies :
           task' = [task EXCEPT ![t].at = "read",
                                ![t].sock = [head |-> TRUE, len |-> r.len, body |-> r.body]]
    /\ UNCHANGED <<globals, upgrade_timer, area, heap, history>>

ServerGone(t) ==
    /\ task[t].at \in {"connect", "request", "crc", "reply"}
    /\ task[t].server = "freed"
    /\ Breaks

-----------------------------------------------------------------------------
(* The answer, in pieces as the connection delivers them.                  *)

Chunk(c, n) == [c EXCEPT !.body = SubSeq(@, 1, n)]
Rest(c, n)  == [c EXCEPT !.head = FALSE, !.body = SubSeq(@, n + 1, Len(@))]

Read(t) ==
    /\ At(t, "read") /\ precv_buf \in heap
    /\ LET c == task[t].sock IN
       \E n \in 0..SEG :
           /\ n <= Len(c.body) /\ (c.head \/ n > 0)
           /\ task' = [task EXCEPT ![t].at = "load", ![t].rx = Chunk(c, n), ![t].sock = Rest(c, n)]
    /\ UNCHANGED <<globals, upgrade_timer, area, heap, history>>

(* mutant: the totals of the lost attempt are kept *)
Lost_keeps_totals(t) ==
    /\ At(t, "read") /\ precv_buf \in heap
    /\ flash_erased' = FALSE
    /\ task' = [task EXCEPT ![t].at = "loop", ![t].sock = NoReply]
    /\ UNCHANGED <<totallength, sumlength, precv_buf, upgrade, flag, upgrade_timer, area, heap, history>>

(* recbytes <= 0: the server closed, or the connection is lost.            *)
Lost(t) ==
    /\ At(t, "read") /\ precv_buf \in heap
    /\ flash_erased' = FALSE /\ totallength' = 0 /\ sumlength' = 0
    /\ task' = [task EXCEPT ![t].at = "loop", ![t].sock = NoReply]
    /\ UNCHANGED <<precv_buf, upgrade, flag, upgrade_timer, area, heap, history>>

BufferGone(t) ==
    /\ \/ At(t, "read") /\ precv_buf \notin heap
       \/ At(t, "load") /\ (precv_buf \notin heap \/ upgrade = None)
       \/ At(t, "erase") /\ upgrade = None
       \/ At(t, "free") /\ precv_buf \notin heap    \* freed twice
    /\ Breaks

First(c) == totallength = 0 /\ c.head /\ c.len >= 0

(* Bits of a cell can be cleared by a write, never set. *)
Over(old, new) == IF old \in {E, new} THEN new ELSE X

(* system_upgrade_internal with what fits in a sector: whole words go to   *)
(* the flash, the rest waits in save.                                      *)
Words(buffer)  == Len(buffer) - (Len(buffer) % W)
Fits(len)      == upgrade.fw_bin_addr + len < NSEC * SEC

Flashed(buffer, from, len) ==
    [k \in Pos |-> IF k - from \in 0..len-1 THEN Over(area[k], buffer[k - from + 1]) ELSE area[k]]

system_upgrade_internal(data, ok) ==
    LET buffer == upgrade.save \o data
        len    == Words(buffer)
    IN  /\ ok => Fits(len)
        /\ upgrade' = [upgrade EXCEPT !.save = SubSeq(buffer, len + 1, Len(buffer)),
                                      !.fw_bin_addr = IF ok THEN @ + len ELSE @]
        /\ area' = IF ok THEN Flashed(buffer, upgrade.fw_bin_addr, len) ELSE area

Loading(t) == At(t, "load") /\ precv_buf \in heap /\ upgrade # None

(* The first answer only tells the length: the connection is closed, the   *)
(* sectors are erased, and the next attempt will load the image.           *)
LoadErases(t) ==
    /\ Loading(t) /\ First(task[t].rx) /\ ~flash_erased
    /\ task[t].rx.len > SEC
    /\ sumlength' = task[t].rx.len /\ totallength' = Len(task[t].rx.body)
    /\ upgrade' = [upgrade EXCEPT !.fw_bin_sec_earse = 0]
    /\ Goto(t, "erase")
    /\ UNCHANGED <<flash_erased, precv_buf, flag, upgrade_timer, area, heap, history>>

secnm(len) == len \div SEC + (IF len % SEC = 0 THEN 0 ELSE 1)

InSector(k, sector) == k \div SEC = sector

EraseSector(t) ==
    /\ At(t, "erase") /\ upgrade # None
    /\ LET sector == upgrade.fw_bin_sec_earse IN
       /\ sector # secnm(task[t].rx.len) /\ sector <= NSEC
       /\ area' = [k \in Pos |-> IF InSector(k, sector) THEN E ELSE area[k]]
       /\ upgrade' = [upgrade EXCEPT !.fw_bin_sec_earse = sector + 1]
    /\ UNCHANGED <<task, totallength, sumlength, flash_erased, precv_buf, flag, upgrade_timer,
                   heap, history>>

(* The loop is left inside the critical section. *)
EraseOutOfRange(t) ==
    /\ At(t, "erase") /\ upgrade # None
    /\ upgrade.fw_bin_sec_earse # secnm(task[t].rx.len) /\ upgrade.fw_bin_sec_earse > NSEC
    /\ Breaks

Erased(t) ==
    /\ At(t, "erase") /\ upgrade # None
    /\ upgrade.fw_bin_sec_earse = secnm(task[t].rx.len)
    /\ flash_erased' = TRUE /\ totallength' = 0 /\ sumlength' = 0
    /\ prepared' = upgrade.fw_bin_sec_earse
    /\ Goto(t, "loop")
    /\ UNCHANGED <<precv_buf, upgrade, flag, upgrade_timer, area, heap, disturbed, unmeasured, small>>

(* An answer that is no longer than a sector is written instead, its       *)
(* length read from a buffer that may hold less; one of no length passes.  *)
Padded(body, len) == [k \in 1..len |-> IF k <= Len(body) THEN body[k] ELSE X]

LoadSmall(t) ==
    /\ Loading(t) /\ First(task[t].rx) /\ ~flash_erased
    /\ task[t].rx.len <= SEC
    /\ IF task[t].rx.len = 0
       THEN flash_erased' = TRUE /\ UNCHANGED <<upgrade, area>>
       ELSE \E ok \in BOOLEAN :
                /\ system_upgrade_internal(Padded(task[t].rx.body, task[t].rx.len), ok)
                /\ flash_erased' = ok
    /\ small' = TRUE
    /\ totallength' = 0 /\ sumlength' = 0
    /\ Goto(t, "loop")
    /\ UNCHANGED <<precv_buf, flag, upgrade_timer, heap, disturbed, unmeasured, prepared>>

(* No length in the answer, or the head came without the body's first byte. *)
LoadRejects(t) ==
    /\ Loading(t) /\ totallength = 0 /\ ~First(task[t].rx)
    /\ flash_erased' = FALSE /\ totallength' = 0 /\ sumlength' = 0
    /\ Goto(t, "loop")
    /\ UNCHANGED <<precv_buf, upgrade, flag, upgrade_timer, area, heap, history>>

(* The image; what comes after its end is not written.                     *)
LoadBody(t) ==
    LET c     == task[t].rx
        data  == IF c.head /\ ~First(c) THEN <<X>> \o c.body ELSE c.body
        sum   == IF First(c) THEN c.len ELSE sumlength
        total == totallength + Len(data)
        len   == IF First(c) \/ total <= sum THEN Len(data) ELSE sum - totallength
    IN  /\ Loading(t) /\ (totallength # 0 \/ (First(c) /\ flash_erased))
        /\ IF len <= 0 THEN UNCHANGED <<upgrade, area>>
           ELSE \E ok \in BOOLEAN : system_upgrade_internal(SubSeq(data, 1, len), ok)
        /\ IF flash_erased
           THEN totallength' = total /\ sumlength' = sum
                /\ Goto(t, IF total >= sum THEN "finish" ELSE "read")
           ELSE totallength' = 0 /\ sumlength' = 0 /\ Goto(t, "loop")
        /\ UNCHANGED <<flash_erased, precv_buf, flag, upgrade_timer, heap, history>>

-----------------------------------------------------------------------------
(* The end of the task.                                                    *)

Finish(t) ==
    /\ At(t, "finish")
    /\ upgrade_timer' = IF upgrade_timer = "dead" THEN "dead" ELSE None
    /\ Goto(t, "crc")
    /\ UNCHANGED <<globals, area, heap, history>>

Whole == \A k \in 0..L-1 : area[k] = k + 1

(* mutant: the CRC is not compared *)
upgrade_crc_check_uncompared(passed) == passed

(* upgrade_crc_check over fewer bytes than a CRC has computes sumlength - 4 *)
(* below zero: no byte is read, or, without the structure, one past the     *)
(* chip, and a read that fails counts as passed.  So does the word before   *)
(* the area if it is erased.                                                *)
Empty == sumlength < W

upgrade_crc_check(passed) ==
    IF Empty THEN upgrade = None => passed
             ELSE passed = (upgrade # None /\ sumlength = L /\ Whole)

Crc(t) ==
    /\ At(t, "crc") /\ task[t].server = "live"
    /\ \E passed, readError \in BOOLEAN :
           /\ readError => passed
           /\ ~readError => upgrade_crc_check(passed)
           /\ LET good == passed /\ task[t].retry # RETRY    \* the last try counts as one too many
              IN  /\ flag' = IF good THEN "FINISH" ELSE "IDLE"
                  /\ task' = [task EXCEPT ![t].at = "free", ![t].upgrade_flag = good]
           /\ unmeasured' = (readError \/ Empty)
    /\ UNCHANGED <<totallength, sumlength, flash_erased, precv_buf, upgrade, upgrade_timer, area,
                   heap, disturbed, small, prepared>>

system_upgrade_deinit == upgrade' = None

Deinit == IF flag' = "START" THEN UNCHANGED upgrade ELSE system_upgrade_deinit

Free(t) ==
    /\ At(t, "free") /\ precv_buf \in heap
    /\ heap' = heap \ {precv_buf}
    /\ totallength' = 0 /\ sumlength' = 0 /\ flash_erased' = FALSE
    /\ flag' = flag /\ Deinit
    /\ Goto(t, "reply")
    /\ UNCHANGED <<precv_buf, upgrade_timer, area, history>>

(* user_esp_platform_upgrade_rsp; the boot loader starts the other area    *)
(* if the flag says FINISH, and the area is then the firmware that ran.    *)
user_esp_platform_upgrade_rsp(t) ==
    /\ At(t, "reply") /\ task[t].server = "live"
    /\ \/ /\ task[t].upgrade_flag
          /\ Rebooted(IF flag = "FINISH" THEN [k \in Pos |-> X] ELSE area)
       \/ /\ ~task[t].upgrade_flag
          /\ task' = [task EXCEPT ![t].at = "exit", ![t].server = "freed"]
          /\ UNCHANGED <<globals, upgrade_timer, area, heap, history>>

Exit(t) ==
    /\ At(t, "exit")
    /\ task' = [task EXCEPT ![t] = Off]
    /\ UNCHANGED <<globals, upgrade_timer, area, heap, history>>

-----------------------------------------------------------------------------
(* After 300 s.  The handle it deletes is NULL, which is the caller: where  *)
(* that is a task, the function ends here, and with it every timer.         *)
upgrade_check_deletes_itself ==
    /\ upgrade_timer \in Tasks
    /\ upgrade_timer' = "dead"
    /\ disturbed' = TRUE
    /\ UNCHANGED <<task, globals, area, heap, unmeasured, small, prepared>>

(* Where it is not, the rest is done under the feet of the upgrade task.    *)
upgrade_check ==
    LET t == upgrade_timer IN
    /\ t \in Tasks
    /\ IF precv_buf \notin heap \cup {None}
       THEN Breaks
       ELSE /\ heap' = heap \ {precv_buf}
            /\ totallength' = 0 /\ sumlength' = 0 /\ flash_erased' = FALSE
            /\ flag' = "IDLE" /\ Deinit
            /\ task' = [task EXCEPT ![t].upgrade_flag = FALSE, ![t].server = "freed"]
            /\ upgrade_timer' = None /\ disturbed' = TRUE
            /\ UNCHANGED <<precv_buf, area, unmeasured, small, prepared>>

-----------------------------------------------------------------------------
(* What a task does once it has an address. *)
Proceeds(t) ==
    \/ TaskStarts(t) \/ TryAgain(t) \/ ConnectFails(t) \/ Connect(t) \/ RequestFails(t) \/ Request(t)
    \/ ServerGone(t) \/ Read(t) \/ Lost(t) \/ BufferGone(t)
    \/ LoadErases(t) \/ EraseSector(t) \/ EraseOutOfRange(t) \/ Erased(t) \/ LoadSmall(t)
    \/ LoadRejects(t) \/ LoadBody(t)
    \/ Finish(t) \/ Crc(t) \/ Free(t) \/ user_esp_platform_upgrade_rsp(t) \/ Exit(t)

upgrade_task(t) == WaitForIp(t) \/ Proceeds(t)

Next ==
    \/ \E t \in Tasks : user_upgrade_start(t) \/ upgrade_task(t)
    \/ upgrade_check \/ upgrade_check_deletes_itself
    \/ Restart

(* The tasks run, and a server answers or its connection ends.  The latter  *)
(* is an assumption on the network: the code sets no time limit for a read, *)
(* and a peer that neither sends nor closes holds the task for ever.        *)
Spec == Init /\ [][Next]_vars /\ \A t \in Tasks : WF_vars(Proceeds(t))

-----------------------------------------------------------------------------
(* What is loaded goes to cells that were erased for it: an attempt that     *)
(* breaks off makes the next one erase again.                                *)
LoadsIntoErased ==
    \A t \in Tasks :
        task[t].at \in {"read", "load"} /\ flash_erased /\ ~disturbed /\ ~small =>
            \A k \in Pos : k >= upgrade.fw_bin_addr /\ k \div SEC < prepared => area[k] = E

Buffered(t) == task[t].at \notin {"off", "start", "reply", "exit"}
Inited(t)   == task[t].at \in {"request", "read", "load", "erase"}

(* An upgrade that is alone, and ends before the 300 s, never uses what was *)
(* freed: its buffer, the structure of upgrade_lib.c and its server live as *)
(* long as it does, nothing is left allocated after the last one, and every *)
(* try starts to count at zero.  It does not start with an empty save (see  *)
(* system_upgrade_init), and of an upgrade that a second one or the check   *)
(* of the 300 s met (disturbed) nothing is claimed.                         *)
UpgradeInv ==
    /\ TypeOK /\ LoadsIntoErased
    /\ ~disturbed =>
           /\ heap = {t \in Tasks : Buffered(t)}
           /\ \A t \in Tasks :
                  /\ Buffered(t) => precv_buf = t
                  /\ Inited(t) => upgrade # None /\ flag = "START"
                  /\ task[t].at \notin {"off", "exit"} => task[t].server = "live"
                  /\ task[t].at \in {"loop", "wait", "connect", "request"} => totallength = 0
           /\ (\A t \in Tasks : ~Running(t)) => upgrade = None /\ flag = "IDLE"

(* The boot loader is told to start the area only if it holds the whole     *)
(* image, whatever attempts failed on the way there.  There are three       *)
(* exceptions: a flash that could not be read, which passes the check, and  *)
(* a CRC computed over nothing, as when the tries are used up (both         *)
(* unmeasured); and what a second upgrade or the check of the 300 s does    *)
(* meanwhile (disturbed).                                                   *)
StartsWholeImage == flag = "FINISH" => Whole \/ unmeasured \/ disturbed

(* Every upgrade comes to its end, if the server of each try answers or     *)
(* closes, and unless it waits for an address for ever.                     *)
UpgradeEnds == \A t \in Tasks : Running(t) ~> (~Running(t) \/ [](task[t].at = "wait"))

(* "retry too many times, fail" (upgrade.c:269): an upgrade whose tries are *)
(* used up is not reported as done, nor its area started.  The code does    *)
(* not keep this: it compares the number of tries with RETRY, which is that *)
(* of the last try; when that one fails too, the number is one more, and    *)
(* the CRC is computed over nothing.                                        *)
TooManyTriesFail ==
    \A t \in Tasks : task[t].at \in {"free", "reply"} /\ task[t].retry >= RETRY =>
        ~task[t].upgrade_flag

(* "check the upgrade process, if not finished in 300S,exit" (upgrade.c:299): *)
(* the check leaves no upgrade under way.  The code does not keep this: the *)
(* handle it deletes was never set, and is that of its caller.              *)
LateUpgradeExits ==
    [][\A t \in Tasks : upgrade_timer = t /\ (upgrade_check \/ upgrade_check_deletes_itself)
            => task'[t].at = "off"]_vars
=============================================================================
