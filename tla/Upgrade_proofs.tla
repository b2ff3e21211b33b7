----------------------------- MODULE Upgrade_proofs -----------------------------
(* Theorems of Upgrade, for every number of tasks, tries and bytes, and    *)
(* whatever a server answers.                                              *)
EXTENDS Upgrade, SequenceTheorems, TLAPS

Answer == [head : BOOLEAN, len : Int, body : Seq(Byte)]

TaskState ==
    [at : Places, retry : Int, rx : Answer, sock : Answer,
     server : {None, "live", "freed"}, upgrade_flag : BOOLEAN]

Types == task \in [Tasks -> TaskState]

(* As long as nothing disturbs it, an upgrade runs alone.                  *)
Alone == ~disturbed => \A t, u \in Tasks : Running(t) /\ Running(u) => t = u

Ending(t) == task[t].at \in {"free", "reply"}

(* The flag that makes the boot loader start the area is up only between   *)
(* the check of the CRC and the restart: the task that has put it up       *)
(* touches the area no more.                                               *)
Finished ==
    flag = "FINISH" /\ ~disturbed =>
        /\ Whole \/ unmeasured
        /\ \E t \in Tasks : Ending(t) /\ task[t].upgrade_flag

Inv == Types /\ Alone /\ Finished

-----------------------------------------------------------------------------
LEMMA OffType == Off \in TaskState /\ Off.at = "off"
<1>1. NoReply \in Answer
  <2>1. <<>> \in Seq(Byte) /\ -1 \in Int
    OBVIOUS
  <2> QED
    BY <2>1 DEF NoReply, Answer
<1> QED
  BY <1>1 DEF Off, TaskState, Places

LEMMA InitInv == Init => Inv
<1> SUFFICES ASSUME Init
             PROVE  Inv
  OBVIOUS
<1>1. task \in [Tasks -> TaskState] /\ \A t \in Tasks : ~Running(t)
  BY OffType DEF Init, Running
<1>2. flag # "FINISH"
  BY DEF Init
<1> QED
  BY <1>1, <1>2 DEF Inv, Types, Alone, Finished

(* A task that is neither ending nor off has nothing to lose: the flag is  *)
(* down, or the upgrade is disturbed.                                      *)
LEMMA FlagDown ==
  ASSUME Inv, NEW t \in Tasks, Running(t), ~Ending(t), ~disturbed
  PROVE  flag # "FINISH"
  BY DEF Inv, Alone, Finished, Running, Ending

(* A step of such a task keeps the invariant, whatever it does with the    *)
(* area, if it does not put the flag up.                                   *)
LEMMA Working ==
  ASSUME Inv, NEW t \in Tasks, Running(t), ~Ending(t),
         \A u \in Tasks \ {t} : task'[u] = task[u],
         disturbed' = disturbed, flag' = flag \/ flag' # "FINISH"
  PROVE  Alone' /\ Finished'
<1>1. Alone'
  BY DEF Inv, Alone, Running
<1>2. Finished'
  BY FlagDown DEF Finished
<1> QED
  BY <1>1, <1>2

LEMMA MoveType ==
  ASSUME Types, NEW t \in Tasks, NEW place \in Places, Goto(t, place)
  PROVE  /\ task' \in [Tasks -> TaskState]
         /\ task'[t].at = place /\ task'[t].upgrade_flag = task[t].upgrade_flag
         /\ \A u \in Tasks \ {t} : task'[u] = task[u]
  BY DEF Types, Goto, TaskState

LEMMA RebootInv ==
  ASSUME NEW f, Rebooted(f)
  PROVE  Inv'
<1>1. Types' /\ \A t \in Tasks : ~Running(t)'
  BY OffType DEF Rebooted, Types, Running
<1>2. flag' # "FINISH"
  BY DEF Rebooted
<1> QED
  BY <1>1, <1>2 DEF Inv, Alone, Finished

-----------------------------------------------------------------------------
(* The steps of a task that works on the area or on its way there.         *)
WorkingStep(t) ==
    \/ TaskStarts(t) \/ TryAgain(t) \/ WaitForIp(t) \/ ConnectFails(t) \/ Connect(t)
    \/ RequestFails(t) \/ Request(t) \/ Read(t) \/ Lost(t)
    \/ LoadErases(t) \/ EraseSector(t) \/ Erased(t) \/ LoadSmall(t) \/ LoadRejects(t) \/ LoadBody(t)
    \/ Finish(t)

LEMMA ReadType ==
  ASSUME Types, NEW t \in Tasks, Read(t)
  PROVE  Types'
<1> DEFINE c == task[t].sock
<1>1. c \in Answer /\ task[t] \in TaskState
  BY DEF Types, TaskState
<1>2. PICK n \in 0..SEG :
         /\ n <= Len(c.body)
         /\ task' = [task EXCEPT ![t].at = "load", ![t].rx = Chunk(c, n), ![t].sock = Rest(c, n)]
  BY DEF Read
<1>3. c.body \in Seq(Byte) /\ Len(c.body) \in Nat /\ n \in Nat
  BY <1>1, UpgradeAssumption DEF Answer
<1>4. SubSeq(c.body, 1, n) \in Seq(Byte)
  <2>1. \A i \in 1..n : c.body[i] \in Byte
    BY <1>2, <1>3
  <2> QED
    BY <1>3, <2>1, SubSeqProperties
<1>5. SubSeq(c.body, n + 1, Len(c.body)) \in Seq(Byte)
  <2>1. \A i \in n + 1 .. Len(c.body) : c.body[i] \in Byte
    BY <1>2, <1>3
  <2> QED
    BY <1>3, <2>1, SubSeqProperties
<1>6. Chunk(c, n) \in Answer
  BY <1>1, <1>4 DEF Chunk, Answer
<1>7. Rest(c, n) \in Answer
  BY <1>1, <1>5 DEF Rest, Answer
<1> DEFINE x == Chunk(c, n)
           s == Rest(c, n)
<1>8. task' = [task EXCEPT ![t].at = "load", ![t].rx = x, ![t].sock = s]
  BY <1>2
<1> HIDE DEF c, x, s
<1>9. [task[t] EXCEPT !.at = "load", !.rx = x, !.sock = s] \in TaskState
  BY <1>1, <1>6, <1>7 DEF TaskState, Places, x, s
<1>10. task' = [task EXCEPT ![t] = [task[t] EXCEPT !.at = "load", !.rx = x, !.sock = s]]
  BY <1>1, <1>8 DEF Types
<1> QED
  BY <1>9, <1>10 DEF Types

LEMMA WorkingInv ==
  ASSUME Inv, NEW t \in Tasks, WorkingStep(t)
  PROVE  Inv'
<1>t. Types /\ task[t] \in TaskState
  BY DEF Inv, Types
<1>1. Types'
  <2>1. CASE \E place \in Places : Goto(t, place)
    BY <1>t, <2>1, MoveType DEF Types
  <2>2. CASE TryAgain(t)
    <3>1. PICK place \in Places : task' = [task EXCEPT ![t].retry = @ + 1, ![t].at = place]
      BY <2>2 DEF TryAgain, Places
    <3>2. [task[t] EXCEPT !.retry = @ + 1, !.at = place] \in TaskState
      <4>1. task[t].retry \in Int /\ task[t].retry + 1 \in Int
        BY <1>t DEF TaskState
      <4>2. \A n \in Int : [task[t] EXCEPT !.retry = n, !.at = place] \in TaskState
        BY <1>t DEF TaskState
      <4> QED
        BY <4>1, <4>2
    <3>3. task' = [task EXCEPT ![t] = [task[t] EXCEPT !.retry = @ + 1, !.at = place]]
      BY <1>t, <3>1 DEF Types
    <3> QED
      BY <1>t, <3>2, <3>3 DEF Types
  <2>3. CASE Request(t)
    <3>1. PICK r \in Replies :
             task' = [task EXCEPT ![t].at = "read",
                                  ![t].sock = [head |-> TRUE, len |-> r.len, body |-> r.body]]
      BY <2>3 DEF Request
    <3>2. [head |-> TRUE, len |-> r.len, body |-> r.body] \in Answer
      BY ReplyAssumption DEF Reply, Answer
    <3> QED
      BY <1>t, <3>1, <3>2 DEF Types, TaskState, Places
  <2>4. CASE Read(t)
    BY <1>t, <2>4, ReadType
  <2>5. CASE Lost(t)
    <3>1. NoReply \in Answer
      BY OffType DEF Off, TaskState
    <3> QED
      BY <1>t, <2>5, <3>1 DEF Lost, Types, TaskState, Places
  <2>6. CASE EraseSector(t)
    BY <1>t, <2>6 DEF EraseSector, Types
  <2>7. CASE TaskStarts(t) \/ WaitForIp(t) \/ ConnectFails(t) \/ Connect(t) \/ RequestFails(t)
    BY <2>1, <2>7 DEF TaskStarts, WaitForIp, ConnectFails, Connect, RequestFails, Places
  <2>8. CASE LoadErases(t) \/ Erased(t) \/ LoadSmall(t) \/ LoadRejects(t) \/ Finish(t)
    BY <2>1, <2>8 DEF LoadErases, Erased, LoadSmall, LoadRejects, Finish, Places
  <2>9. CASE LoadBody(t)
    <3>1. Goto(t, "loop") \/ Goto(t, "finish") \/ Goto(t, "read")
      BY <2>9 DEF LoadBody
    <3> QED
      BY <2>1, <3>1 DEF Places
  <2> QED
    BY <2>2, <2>3, <2>4, <2>5, <2>6, <2>7, <2>8, <2>9 DEF WorkingStep
<1>2. Running(t) /\ ~Ending(t)
  BY DEF WorkingStep, Running, Ending, At, Loading, TaskStarts, TryAgain, WaitForIp, ConnectFails,
         Connect, RequestFails, Request, Read, Lost, LoadErases, EraseSector, Erased, LoadSmall,
         LoadRejects, LoadBody, Finish
<1>3. \A u \in Tasks \ {t} : task'[u] = task[u]
  BY <1>t DEF WorkingStep, Types, Goto, TaskStarts, TryAgain, WaitForIp, ConnectFails, Connect,
         RequestFails, Request, Read, Lost, LoadErases, EraseSector, Erased, LoadSmall,
         LoadRejects, LoadBody, Finish
<1>4. disturbed' = disturbed /\ (flag' = flag \/ flag' # "FINISH")
  BY DEF WorkingStep, globals, history, TaskStarts, TryAgain, WaitForIp, ConnectFails,
         Connect, RequestFails, Request, Read, Lost, LoadErases, EraseSector, Erased, LoadSmall,
         LoadRejects, LoadBody, Finish
<1> QED
  BY <1>1, <1>2, <1>3, <1>4, Working DEF Inv

-----------------------------------------------------------------------------
(* upgrade_crc_check puts the flag up for an image that is whole, or for   *)
(* one it has not measured.                                                *)
LEMMA CrcInv ==
  ASSUME Inv, NEW t \in Tasks, Crc(t)
  PROVE  Inv'
<1>1. PICK passed \in BOOLEAN, readError \in BOOLEAN :
         /\ readError => passed
         /\ ~readError => upgrade_crc_check(passed)
         /\ LET good == passed /\ task[t].retry # RETRY
            IN  /\ flag' = IF good THEN "FINISH" ELSE "IDLE"
                /\ task' = [task EXCEPT ![t].at = "free", ![t].upgrade_flag = good]
         /\ unmeasured' = (readError \/ Empty)
  BY DEF Crc
<1> DEFINE good == passed /\ task[t].retry # RETRY
<1>2. /\ task' = [task EXCEPT ![t].at = "free", ![t].upgrade_flag = good]
      /\ flag' = IF good THEN "FINISH" ELSE "IDLE"
  BY <1>1
<1>3. good \in BOOLEAN /\ (good => passed)
  OBVIOUS
<1> HIDE DEF good
<1>4. task[t] \in TaskState /\ Types /\ At(t, "crc") /\ disturbed' = disturbed /\ area' = area
  BY DEF Inv, Types, Crc
<1>5. Types'
  <2>1. [task[t] EXCEPT !.at = "free", !.upgrade_flag = good] \in TaskState
    BY <1>3, <1>4 DEF TaskState, Places
  <2>2. task' = [task EXCEPT ![t] = [task[t] EXCEPT !.at = "free", !.upgrade_flag = good]]
    BY <1>2, <1>4 DEF Types
  <2> QED
    BY <1>4, <2>1, <2>2 DEF Types
<1>6. task'[t].at = "free" /\ task'[t].upgrade_flag = good
  BY <1>2, <1>4 DEF Types, TaskState
<1>7. \A u \in Tasks \ {t} : task'[u] = task[u]
  BY <1>2, <1>4 DEF Types
<1>8. Alone'
  BY <1>4, <1>6, <1>7 DEF Inv, Alone, Running, At
<1>9. Finished'
  <2> SUFFICES ASSUME flag' = "FINISH"
               PROVE  (Whole \/ unmeasured)' /\ Ending(t)' /\ task'[t].upgrade_flag
    BY DEF Finished
  <2>1. good /\ passed
    BY <1>2, <1>3
  <2>2. readError \/ Empty \/ Whole
    BY <1>1, <2>1 DEF upgrade_crc_check
  <2>3. Whole => Whole'
    BY <1>4 DEF Whole
  <2> QED
    BY <1>1, <1>6, <2>1, <2>2, <2>3 DEF Ending
<1> QED
  BY <1>5, <1>8, <1>9 DEF Inv

(* The buffer is given back: the flag and the area stay as they are.       *)
LEMMA FreeInv ==
  ASSUME Inv, NEW t \in Tasks, Free(t)
  PROVE  Inv'
<1>1. Types /\ Goto(t, "reply") /\ At(t, "free")
  BY DEF Inv, Free
<1>2. /\ task' \in [Tasks -> TaskState]
      /\ task'[t].at = "reply" /\ task'[t].upgrade_flag = task[t].upgrade_flag
      /\ \A u \in Tasks \ {t} : task'[u] = task[u]
  BY <1>1, MoveType DEF Places
<1>3. UNCHANGED <<flag, area, disturbed, unmeasured>>
  BY DEF Free, history
<1>4. Alone'
  BY <1>1, <1>2, <1>3 DEF Inv, Alone, Running, At
<1>5. \A u \in Tasks : Ending(u) /\ task[u].upgrade_flag => (Ending(u) /\ task[u].upgrade_flag)'
  BY <1>2 DEF Ending
<1>6. Whole' = Whole
  BY <1>3 DEF Whole
<1>7. Finished'
  BY <1>3, <1>5, <1>6 DEF Inv, Finished
<1> QED
  BY <1>2, <1>4, <1>7 DEF Inv, Types

(* The task leaves without a restart only if its flag is down; then, alone *)
(* as it is, nobody else has put the other flag up.                        *)
LEMMA LeaveInv ==
  ASSUME Inv, NEW t \in Tasks, user_esp_platform_upgrade_rsp(t) \/ Exit(t)
  PROVE  Inv'
<1>1. Types /\ task[t] \in TaskState
  BY DEF Inv, Types
<1>2. CASE user_esp_platform_upgrade_rsp(t) /\ task[t].upgrade_flag
  <2>1. PICK f : Rebooted(f)
    BY <1>2 DEF user_esp_platform_upgrade_rsp
  <2> QED
    BY <2>1, RebootInv
<1>3. CASE user_esp_platform_upgrade_rsp(t) /\ ~task[t].upgrade_flag
  <2>1. /\ At(t, "reply") /\ UNCHANGED <<flag, area, disturbed, unmeasured>>
        /\ task' = [task EXCEPT ![t].at = "exit", ![t].server = "freed"]
    BY <1>3 DEF user_esp_platform_upgrade_rsp, globals, history
  <2>2. Types'
    <3>1. [task[t] EXCEPT !.at = "exit", !.server = "freed"] \in TaskState
      BY <1>1 DEF TaskState, Places
    <3>2. task' = [task EXCEPT ![t] = [task[t] EXCEPT !.at = "exit", !.server = "freed"]]
      BY <1>1, <2>1 DEF Types
    <3> QED
      BY <1>1, <3>1, <3>2 DEF Types
  <2>3. task'[t].at = "exit" /\ \A u \in Tasks \ {t} : task'[u] = task[u]
    BY <1>1, <2>1 DEF Types, TaskState
  <2>4. Alone'
    BY <2>1, <2>3 DEF Inv, Alone, Running, At
  <2>5. flag # "FINISH" \/ disturbed
    BY <1>3, <2>1 DEF Inv, Alone, Finished, Running, Ending, At
  <2>6. Finished'
    BY <2>1, <2>5 DEF Finished
  <2> QED
    BY <2>2, <2>4, <2>6 DEF Inv
<1>4. CASE Exit(t)
  <2>1. At(t, "exit") /\ task' = [task EXCEPT ![t] = Off] /\ UNCHANGED <<flag, area, disturbed, unmeasured>>
    BY <1>4 DEF Exit, globals, history
  <2>2. Types' /\ task'[t] = Off /\ \A u \in Tasks \ {t} : task'[u] = task[u]
    BY <1>1, <2>1, OffType DEF Types
  <2>3. Alone'
    BY <2>1, <2>2, OffType DEF Inv, Alone, Running, At
  <2>4. flag # "FINISH" \/ disturbed
    BY <2>1, FlagDown DEF Running, Ending, At
  <2>5. Finished'
    BY <2>1, <2>4 DEF Finished
  <2> QED
    BY <2>2, <2>3, <2>5 DEF Inv
<1> QED
  BY <1>2, <1>3, <1>4

(* A second upgrade, and the check after 300 s, disturb: they only have to *)
(* leave the tasks in order.                                               *)
LEMMA StartInv ==
  ASSUME Inv, NEW t \in Tasks, user_upgrade_start(t)
  PROVE  Inv'
<1> DEFINE new == [Off EXCEPT !.at = "start", !.server = "live"]
<1>1. /\ Types /\ At(t, "off") /\ task' = [task EXCEPT ![t] = new]
      /\ disturbed' = (disturbed \/ \E other \in Tasks : Running(other))
      /\ UNCHANGED <<flag, area, unmeasured>>
  BY DEF Inv, user_upgrade_start, globals
<1>2. new \in TaskState
  BY OffType DEF TaskState, Places
<1> HIDE DEF new
<1>3. Types' /\ \A u \in Tasks \ {t} : task'[u] = task[u]
  BY <1>1, <1>2 DEF Types
<1>4. ~disturbed' => ~disturbed /\ \A u \in Tasks : ~Running(u)
  BY <1>1
<1>5. Alone'
  BY <1>3, <1>4 DEF Alone, Running
<1>6. ~disturbed' => flag # "FINISH"
  BY <1>4 DEF Inv, Finished, Running, Ending
<1>7. Finished'
  BY <1>1, <1>6 DEF Finished
<1> QED
  BY <1>3, <1>5, <1>7 DEF Inv

LEMMA CheckInv ==
  ASSUME Inv, upgrade_check \/ upgrade_check_deletes_itself
  PROVE  Inv'
<1>1. CASE upgrade_check_deletes_itself
  BY <1>1 DEF upgrade_check_deletes_itself, Inv, Types, Alone, Finished
<1>2. CASE upgrade_check
  <2>1. CASE precv_buf \notin heap \cup {None}
    BY <1>2, <2>1, RebootInv DEF upgrade_check, Breaks
  <2>2. CASE precv_buf \in heap \cup {None}
    <3> DEFINE t == upgrade_timer
    <3>1. /\ t \in Tasks /\ disturbed' = TRUE
          /\ task' = [task EXCEPT ![t].upgrade_flag = FALSE, ![t].server = "freed"]
      BY <1>2, <2>2 DEF upgrade_check
    <3> HIDE DEF t
    <3>2. Types /\ task[t] \in TaskState
      BY <3>1 DEF Inv, Types
    <3>3. [task[t] EXCEPT !.upgrade_flag = FALSE, !.server = "freed"] \in TaskState
      BY <3>2 DEF TaskState
    <3>4. task' = [task EXCEPT ![t] = [task[t] EXCEPT !.upgrade_flag = FALSE, !.server = "freed"]]
      BY <3>1, <3>2 DEF Types
    <3>5. Types'
      BY <3>1, <3>2, <3>3, <3>4 DEF Types
    <3> QED
      BY <3>1, <3>5 DEF Inv, Alone, Finished
  <2> QED
    BY <2>1, <2>2
<1> QED
  BY <1>1, <1>2

LEMMA StepInv == Inv /\ [Next]_vars => Inv'
<1> SUFFICES ASSUME Inv, [Next]_vars
             PROVE  Inv'
  OBVIOUS
<1>1. ASSUME NEW t \in Tasks, upgrade_task(t)
      PROVE  Inv'
  <2>1. CASE WorkingStep(t)
    BY <2>1, WorkingInv
  <2>2. CASE Crc(t) \/ Free(t)
    BY <2>2, CrcInv, FreeInv
  <2>3. CASE user_esp_platform_upgrade_rsp(t) \/ Exit(t)
    BY <2>3, LeaveInv
  <2>4. CASE ServerGone(t) \/ BufferGone(t) \/ EraseOutOfRange(t)
    BY <2>4, RebootInv DEF ServerGone, BufferGone, EraseOutOfRange, Breaks
  <2> QED
    BY <1>1, <2>1, <2>2, <2>3, <2>4 DEF upgrade_task, Proceeds, WorkingStep
<1>2. CASE \E t \in Tasks : user_upgrade_start(t)
  BY <1>2, StartInv
<1>3. CASE upgrade_check \/ upgrade_check_deletes_itself
  BY <1>3, CheckInv
<1>4. CASE Restart
  BY <1>4, RebootInv DEF Restart
<1>5. CASE UNCHANGED vars
  <2>1. UNCHANGED <<task, flag, area, disturbed, unmeasured>>
    BY <1>5 DEF vars, globals, history
  <2> QED
    BY <2>1 DEF Inv, Types, Alone, Finished, Whole, Running, Ending
<1> QED
  BY <1>1, <1>2, <1>3, <1>4, <1>5 DEF Next

(* Only one upgrade is under way unless disturbed says otherwise, and the  *)
(* flag for the boot loader is up only between the check of the CRC and    *)
(* the restart (upgrade.c, upgrade_lib.c).                                 *)
THEOREM UpgradeAlone == Spec => []Inv
  BY InitInv, StepInv, PTL DEF Spec

(* The boot loader is told to start the area only if the whole image is in *)
(* it, whatever attempts failed before (upgrade.c); the exceptions are     *)
(* those of StartsWholeImage.                                              *)
THEOREM OnlyWholeImagesStart == Spec => []StartsWholeImage
<1>1. Inv => StartsWholeImage
  BY DEF Inv, Finished, StartsWholeImage
<1> QED
  BY UpgradeAlone, <1>1, PTL

-----------------------------------------------------------------------------
(* Lifetimes: what an upgrade uses lives as long as it does.               *)
Past == {"finish", "crc", "free", "reply", "exit"}

(* The attempts; one more than RETRY ends the task.                        *)
Tries ==
    \A t \in Tasks :
        /\ task[t].retry \in 0..RETRY+1
        /\ task[t].at \notin Past => task[t].retry <= RETRY

StructureTypes == upgrade = None \/ (upgrade \in Structure /\ Len(upgrade.save) < W)

Numbers == totallength \in Nat /\ sumlength \in Int /\ prepared \in 0..NSEC+1

Pointers ==
    /\ precv_buf \in Tasks \cup {None} /\ heap \subseteq Tasks
    /\ upgrade_timer \in Tasks \cup {None, "dead"} /\ flag \in {"IDLE", "START", "FINISH"}

Booleans ==
    /\ flash_erased \in BOOLEAN
    /\ disturbed \in BOOLEAN /\ unmeasured \in BOOLEAN /\ small \in BOOLEAN

GlobalTypes == Numbers /\ Pointers /\ Booleans /\ StructureTypes /\ area \in [Pos -> Byte]

(* What UpgradeInv says of an upgrade that nothing disturbs, and where the *)
(* structure of upgrade_lib.c is on its way to the end.                    *)
Alive(t) ==
    /\ Buffered(t) => precv_buf = t
    /\ Inited(t) => upgrade # None /\ flag = "START"
    /\ task[t].at \notin {"off", "exit"} => task[t].server = "live"
    /\ task[t].at \in {"start", "loop", "wait", "connect", "request", "reply", "exit"}
           => totallength = 0
    /\ At(t, "start") => upgrade = None /\ flag = "IDLE"
    /\ task[t].at \in {"loop", "wait", "connect", "finish", "crc"} => flag # "FINISH"
    /\ upgrade = None => flag # "START"
    /\ At(t, "free") => flag # "START" /\ (flag = "IDLE" \/ task[t].upgrade_flag)
    /\ At(t, "reply") => upgrade = None /\ (flag = "IDLE" \/ task[t].upgrade_flag)
    /\ At(t, "exit") => upgrade = None /\ flag = "IDLE"

Lives ==
    ~disturbed =>
        /\ heap = {t \in Tasks : Buffered(t)}
        /\ \A t \in Tasks : Alive(t)
        /\ (\A t \in Tasks : ~Running(t)) => upgrade = None /\ flag = "IDLE" /\ totallength = 0

(* The sectors below are erased; those, from an address on.                *)
AllErased(sectors) == \A k \in Pos : k \div SEC < sectors => area[k] = E
ErasedFrom(addr)   == \A k \in Pos : k >= addr /\ k \div SEC < prepared => area[k] = E

Prepares(t) ==
    /\ task[t].at \in {"loop", "wait", "connect", "request"} /\ flash_erased => AllErased(prepared)
    /\ task[t].at \in {"read", "load"} /\ flash_erased => ErasedFrom(upgrade.fw_bin_addr)
    /\ At(t, "erase") => AllErased(upgrade.fw_bin_sec_earse)

Prepared == ~disturbed /\ ~small => \A t \in Tasks : Prepares(t)

LiveInv == Inv /\ Tries /\ GlobalTypes /\ Lives /\ Prepared

-----------------------------------------------------------------------------
LEMMA Modulo ==
  ASSUME NEW n \in Nat
  PROVE  n % W \in Nat /\ n % W < W /\ n % W <= n
  BY UpgradeAssumption

LEMMA Addresses ==
  ASSUME NEW k \in Pos
  PROVE  k \in Int /\ k \div SEC \in Nat
  BY UpgradeAssumption DEF Pos

(* A write takes whole words off what waits in save, and touches nothing   *)
(* at and behind the address it then stands at.                            *)
LEMMA Writing ==
  ASSUME StructureTypes, upgrade # None, area \in [Pos -> Byte],
         NEW data \in Seq(Byte), NEW ok \in BOOLEAN, system_upgrade_internal(data, ok)
  PROVE  /\ upgrade' \in Structure /\ Len(upgrade'.save) < W
         /\ upgrade'.fw_bin_addr >= upgrade.fw_bin_addr
         /\ area' \in [Pos -> Byte]
         /\ \A k \in Pos : k >= upgrade'.fw_bin_addr => area'[k] = area[k]
<1> DEFINE buffer == upgrade.save \o data
           len == Words(buffer)
           rest == SubSeq(buffer, len + 1, Len(buffer))
           addr == IF ok THEN upgrade.fw_bin_addr + len ELSE upgrade.fw_bin_addr
<1>1. upgrade \in Structure /\ upgrade.save \in Seq(Byte) /\ upgrade.fw_bin_addr \in Nat
  BY DEF StructureTypes, Structure
<1>2. buffer \in Seq(Byte)
  BY <1>1, ConcatProperties
<1>3. /\ upgrade' = [upgrade EXCEPT !.save = rest, !.fw_bin_addr = IF ok THEN @ + len ELSE @]
      /\ area' = IF ok THEN Flashed(buffer, upgrade.fw_bin_addr, len) ELSE area
  BY DEF system_upgrade_internal
<1> HIDE DEF buffer
<1>4. Len(buffer) \in Nat /\ len \in Nat /\ len <= Len(buffer) /\ Len(buffer) - len < W
  <2>1. Len(buffer) \in Nat
    BY <1>2
  <2>2. PICK n \in Nat : n = Len(buffer)
    BY <2>1
  <2>3. n % W \in Nat /\ n % W < W /\ n % W <= n
    BY Modulo
  <2>4. len = n - (n % W)
    BY <2>2 DEF Words
  <2> QED
    BY <2>2, <2>3, <2>4, UpgradeAssumption
<1>5. rest \in Seq(Byte) /\ Len(rest) < W
  <2>1. \A i \in len + 1 .. Len(buffer) : buffer[i] \in Byte
    BY <1>2, <1>4
  <2>2. /\ SubSeq(buffer, len + 1, Len(buffer)) \in Seq(Byte)
        /\ Len(SubSeq(buffer, len + 1, Len(buffer))) =
              IF len + 1 <= Len(buffer) THEN Len(buffer) - (len + 1) + 1 ELSE 0
    BY <1>2, <1>4, <2>1, SubSeqProperties
  <2> QED
    BY <1>4, <2>2, UpgradeAssumption
<1> HIDE DEF len, rest
<1>6. addr \in Nat /\ addr >= upgrade.fw_bin_addr
  BY <1>1, <1>4
<1>7. upgrade' = [upgrade EXCEPT !.save = rest, !.fw_bin_addr = addr]
  BY <1>1, <1>3 DEF Structure
<1> HIDE DEF addr
<1>8. upgrade' \in Structure /\ upgrade'.save = rest /\ upgrade'.fw_bin_addr = addr
  BY <1>1, <1>5, <1>6, <1>7 DEF Structure
<1>9. CASE ~ok
  BY <1>3, <1>5, <1>6, <1>8, <1>9
<1>10. CASE ok
  <2>1. area' = [k \in Pos |-> IF k - upgrade.fw_bin_addr \in 0..len-1
                               THEN Over(area[k], buffer[k - upgrade.fw_bin_addr + 1]) ELSE area[k]]
    BY <1>3, <1>10 DEF Flashed
  <2>2. ASSUME NEW k \in Pos, k - upgrade.fw_bin_addr \in 0..len-1
        PROVE  buffer[k - upgrade.fw_bin_addr + 1] \in Byte
    <3>1. k - upgrade.fw_bin_addr + 1 \in 1..Len(buffer)
      BY SMTT(30), <1>1, <1>4, <2>2, Addresses
    <3> QED
      BY <1>2, <3>1
  <2>3. \A old, new \in Byte : Over(old, new) \in Byte
    BY UpgradeAssumption DEF Over, Byte, X
  <2>4. ASSUME NEW k \in Pos PROVE area'[k] \in Byte
    <3>1. area[k] \in Byte
      OBVIOUS
    <3> QED
      BY <2>1, <2>2, <2>3, <3>1
  <2>5. area' \in [Pos -> Byte]
    <3>1. area' = [k \in Pos |-> area'[k]]
      BY <2>1
    <3> QED
      BY <2>4, <3>1
  <2>6. ASSUME NEW k \in Pos, k >= addr PROVE area'[k] = area[k]
    <3>1. addr = upgrade.fw_bin_addr + len
      BY <1>10 DEF addr
    <3>2. ~(k - upgrade.fw_bin_addr \in 0..len-1)
      BY <1>1, <1>4, <2>6, <3>1, Addresses
    <3> QED
      BY <2>1, <3>2
  <2> QED
    BY <1>5, <1>6, <1>8, <2>5, <2>6
<1> QED
  BY <1>9, <1>10

(* A step of one task.                                                     *)
Steps(t, place) ==
    /\ task'[t].at = place /\ task'[t].server = task[t].server
    /\ task'[t].retry = task[t].retry /\ task'[t].upgrade_flag = task[t].upgrade_flag
    /\ \A u \in Tasks \ {t} : task'[u] = task[u]

Kept == Tries /\ GlobalTypes /\ Lives /\ Prepared

LEMMA GotoSteps ==
  ASSUME Types, NEW t \in Tasks, NEW place \in Places, Goto(t, place)
  PROVE  Steps(t, place)
  BY DEF Types, Goto, TaskState, Steps

LEMMA AnswerSteps ==
  ASSUME Types, NEW t \in Tasks, NEW place \in Places, NEW rx, NEW sock,
         \/ task' = [task EXCEPT ![t].at = place, ![t].rx = rx, ![t].sock = sock]
         \/ task' = [task EXCEPT ![t].at = place, ![t].sock = sock]
  PROVE  Steps(t, place)
  BY DEF Types, TaskState, Steps

LEMMA OthersOff ==
  ASSUME Inv, NEW t \in Tasks, Running(t), ~disturbed
  PROVE  \A u \in Tasks \ {t} : task[u].at = "off"
  BY DEF Inv, Alone, Running

LEMMA TriesOn ==
  ASSUME Tries, NEW t \in Tasks, NEW place, Steps(t, place), task[t].at \in Past => place \in Past
  PROVE  Tries'
<1>1. ASSUME NEW u \in Tasks
      PROVE  task'[u].retry \in 0..RETRY+1 /\ (task'[u].at \notin Past => task'[u].retry <= RETRY)
  <2>1. CASE u = t
    BY <2>1 DEF Tries, Steps
  <2>2. CASE u # t
    BY <2>2 DEF Tries, Steps
  <2> QED
    BY <2>1, <2>2
<1> QED
  BY <1>1 DEF Tries

(* While an upgrade that is alone goes on, only its own state matters.     *)
LEMMA LivesOn ==
  ASSUME Inv, Lives, NEW t \in Tasks, Running(t), disturbed' = disturbed,
         \A u \in Tasks \ {t} : task'[u] = task[u],
         ~disturbed => Alive(t)' /\ Running(t)' /\ heap' = {u \in Tasks : Buffered(u)'}
  PROVE  Lives'
<1> SUFFICES ASSUME ~disturbed
             PROVE  /\ heap' = {u \in Tasks : Buffered(u)'}
                    /\ \A u \in Tasks : Alive(u)'
                    /\ Running(t)'
  BY DEF Lives
<1>1. ASSUME NEW u \in Tasks \ {t} PROVE Alive(u)'
  <2>1. task'[u].at = "off"
    BY OthersOff
  <2>2. (upgrade = None => flag # "START")'
    BY DEF Alive
  <2> QED
    BY <2>1, <2>2 DEF Alive, Buffered, Inited, At
<1> QED
  BY <1>1

LEMMA SameHeap ==
  ASSUME Lives, ~disturbed, NEW t \in Tasks, Buffered(t), Buffered(t)', heap' = heap,
         \A u \in Tasks \ {t} : task'[u] = task[u]
  PROVE  heap' = {u \in Tasks : Buffered(u)'}
<1>1. ASSUME NEW u \in Tasks PROVE Buffered(u)' = Buffered(u)
  BY DEF Buffered
<1> QED
  BY <1>1 DEF Lives

LEMMA PreparedOn ==
  ASSUME Inv, NEW t \in Tasks, Running(t), disturbed' = disturbed,
         \A u \in Tasks \ {t} : task'[u] = task[u],
         ~disturbed /\ ~small' => Prepares(t)'
  PROVE  Prepared'
<1> SUFFICES ASSUME ~disturbed, ~small', NEW u \in Tasks
             PROVE  Prepares(u)'
  BY DEF Prepared
<1>1. CASE u = t
  BY <1>1
<1>2. CASE u # t
  <2>1. task'[u].at = "off"
    BY <1>2, OthersOff
  <2> QED
    BY <2>1 DEF Prepares, At
<1> QED
  BY <1>1, <1>2

LEMMA Going ==
  ASSUME LiveInv, NEW t \in Tasks, NEW place \in Places, Steps(t, place),
         Buffered(t), place \notin {"off", "start", "reply", "exit"},
         task[t].at \in Past => place \in Past,
         disturbed' = disturbed, heap' = heap, GlobalTypes',
         ~disturbed => Alive(t)',
         ~disturbed /\ ~small' => Prepares(t)'
  PROVE  Kept'
<1>1. Running(t) /\ Running(t)' /\ Buffered(t)'
  BY DEF Running, Buffered, Steps
<1>2. \A u \in Tasks \ {t} : task'[u] = task[u]
  BY DEF Steps
<1>3. Tries'
  BY TriesOn DEF LiveInv
<1>4. ~disturbed => heap' = {u \in Tasks : Buffered(u)'}
  BY <1>1, <1>2, SameHeap DEF LiveInv
<1>5. Lives'
  BY <1>1, <1>2, <1>4, LivesOn DEF LiveInv
<1>6. Prepared'
  BY <1>1, <1>2, PreparedOn DEF LiveInv
<1> QED
  BY <1>3, <1>5, <1>6 DEF Kept

LEMMA WaitForIpStep == ASSUME LiveInv, NEW t \in Tasks, WaitForIp(t) PROVE Kept'
<1>1. Types /\ task[t].at = "wait" /\ disturbed' = disturbed /\ heap' = heap /\ (~small' => ~small)
  BY DEF LiveInv, Inv, WaitForIp, At, history
<1>2. Steps(t, "connect")
  <2>1. Goto(t, "connect") /\ "connect" \in Places
    BY DEF WaitForIp, Places
  <2> QED
    BY <1>1, <2>1, GotoSteps
<1>3. GlobalTypes'
  BY DEF LiveInv, GlobalTypes, Numbers, Pointers, Booleans, StructureTypes, WaitForIp, globals, history
<1>4. ASSUME ~disturbed PROVE Alive(t)'
  <2>1. Alive(t)
    BY <1>4 DEF LiveInv, Lives
  <2> QED
    BY <1>1, <1>2, <2>1 DEF Alive, Buffered, Inited, At, Steps, WaitForIp, globals, history
<1>5. ASSUME ~disturbed, ~small' PROVE Prepares(t)'
  <2>1. Prepares(t)
    BY <1>1, <1>5 DEF LiveInv, Prepared
  <2> QED
    BY <1>1, <1>2, <2>1 DEF Prepares, AllErased, ErasedFrom, At, Steps, WaitForIp, globals, history
<1> QED
  BY <1>1, <1>2, <1>3, <1>4, <1>5, Going DEF Buffered, Past, Places

LEMMA ConnectFailsStep == ASSUME LiveInv, NEW t \in Tasks, ConnectFails(t) PROVE Kept'
<1>1. Types /\ task[t].at = "connect" /\ disturbed' = disturbed /\ heap' = heap /\ (~small' => ~small)
  BY DEF LiveInv, Inv, ConnectFails, At, history
<1>2. Steps(t, "loop")
  <2>1. Goto(t, "loop") /\ "loop" \in Places
    BY DEF ConnectFails, Places
  <2> QED
    BY <1>1, <2>1, GotoSteps
<1>3. GlobalTypes'
  BY DEF LiveInv, GlobalTypes, Numbers, Pointers, Booleans, StructureTypes, ConnectFails, globals, history
<1>4. ASSUME ~disturbed PROVE Alive(t)'
  <2>1. Alive(t)
    BY <1>4 DEF LiveInv, Lives
  <2> QED
    BY <1>1, <1>2, <2>1 DEF Alive, Buffered, Inited, At, Steps, ConnectFails, globals, history
<1>5. ASSUME ~disturbed, ~small' PROVE Prepares(t)'
  <2>1. Prepares(t)
    BY <1>1, <1>5 DEF LiveInv, Prepared
  <2> QED
    BY <1>1, <1>2, <2>1 DEF Prepares, AllErased, ErasedFrom, At, Steps, ConnectFails, globals, history
<1> QED
  BY <1>1, <1>2, <1>3, <1>4, <1>5, Going DEF Buffered, Past, Places

LEMMA ConnectStep == ASSUME LiveInv, NEW t \in Tasks, Connect(t) PROVE Kept'
<1>1. Types /\ task[t].at = "connect" /\ disturbed' = disturbed /\ heap' = heap /\ (~small' => ~small)
  BY DEF LiveInv, Inv, Connect, At, history
<1>2. Steps(t, "request")
  <2>1. Goto(t, "request") /\ "request" \in Places
    BY DEF Connect, Places
  <2> QED
    BY <1>1, <2>1, GotoSteps
<1>3. GlobalTypes'
  <2>1. upgrade' \in Structure /\ Len(upgrade'.save) < W
    <3>1. PICK save : save = IF upgrade = None THEN <<>> ELSE upgrade.save
      OBVIOUS
    <3>2. save \in Seq(Byte) /\ Len(save) < W
      BY <3>1, UpgradeAssumption DEF LiveInv, GlobalTypes, StructureTypes, Structure
    <3>3. upgrade' = [fw_bin_addr |-> 0, fw_bin_sec_earse |-> 0, save |-> save]
      BY <3>1 DEF Connect, system_upgrade_init
    <3> QED
      BY <3>2, <3>3, UpgradeAssumption DEF Structure
  <2> QED
    BY <2>1 DEF LiveInv, GlobalTypes, Numbers, Pointers, Booleans, StructureTypes, Connect, history
<1>4. ASSUME ~disturbed PROVE Alive(t)'
  <2>1. Alive(t)
    BY <1>4 DEF LiveInv, Lives
  <2>2. upgrade' # None
    <3>1. upgrade' = [fw_bin_addr |-> 0, fw_bin_sec_earse |-> 0,
                      save |-> IF upgrade = None THEN <<>> ELSE upgrade.save]
      BY DEF Connect, system_upgrade_init
    <3>2. (IF upgrade = None THEN <<>> ELSE upgrade.save) \in Seq(Byte)
      BY DEF LiveInv, GlobalTypes, StructureTypes, Structure
    <3>3. upgrade' \in Structure
      BY <3>1, <3>2, UpgradeAssumption DEF Structure
    <3> QED
      BY <3>3, NoneIsNull
  <2> QED
    BY <1>1, <1>2, <2>1, <2>2 DEF Alive, Buffered, Inited, At, Steps, Connect
<1>5. ASSUME ~disturbed, ~small' PROVE Prepares(t)'
  <2>1. Prepares(t)
    BY <1>1, <1>5 DEF LiveInv, Prepared
  <2> QED
    BY <1>1, <1>2, <2>1 DEF Prepares, AllErased, ErasedFrom, At, Steps, Connect, globals, history
<1> QED
  BY <1>1, <1>2, <1>3, <1>4, <1>5, Going DEF Buffered, Past, Places

LEMMA RequestFailsStep == ASSUME LiveInv, NEW t \in Tasks, RequestFails(t) PROVE Kept'
<1>1. Types /\ task[t].at = "request" /\ disturbed' = disturbed /\ heap' = heap /\ (~small' => ~small)
  BY DEF LiveInv, Inv, RequestFails, At, history
<1>2. Steps(t, "loop")
  <2>1. Goto(t, "loop") /\ "loop" \in Places
    BY DEF RequestFails, Places
  <2> QED
    BY <1>1, <2>1, GotoSteps
<1>3. GlobalTypes'
  BY DEF LiveInv, GlobalTypes, Numbers, Pointers, Booleans, StructureTypes, RequestFails, globals, history
<1>4. ASSUME ~disturbed PROVE Alive(t)'
  <2>1. Alive(t)
    BY <1>4 DEF LiveInv, Lives
  <2> QED
    BY <1>1, <1>2, <2>1 DEF Alive, Buffered, Inited, At, Steps, RequestFails, globals, history
<1>5. ASSUME ~disturbed, ~small' PROVE Prepares(t)'
  <2>1. Prepares(t)
    BY <1>1, <1>5 DEF LiveInv, Prepared
  <2> QED
    BY <1>1, <1>2, <2>1 DEF Prepares, AllErased, ErasedFrom, At, Steps, RequestFails, globals, history
<1> QED
  BY <1>1, <1>2, <1>3, <1>4, <1>5, Going DEF Buffered, Past, Places

LEMMA LoadErasesStep == ASSUME LiveInv, NEW t \in Tasks, LoadErases(t) PROVE Kept'
<1>1. Types /\ task[t].at = "load" /\ disturbed' = disturbed /\ heap' = heap /\ (~small' => ~small)
  BY DEF LiveInv, Inv, LoadErases, At, history, Loading
<1>2. Steps(t, "erase")
  <2>1. Goto(t, "erase") /\ "erase" \in Places
    BY DEF LoadErases, Places
  <2> QED
    BY <1>1, <2>1, GotoSteps
<1>3. GlobalTypes'
  <2>1. task[t].rx \in Answer
    BY <1>1 DEF Types, TaskState
  <2>2. Numbers'
    BY <2>1 DEF LiveInv, GlobalTypes, Numbers, Pointers, Booleans, StructureTypes, LoadErases, Answer, history
  <2>3. upgrade' = [upgrade EXCEPT !.fw_bin_sec_earse = 0] /\ upgrade # None
    BY DEF LoadErases, Loading
  <2>4. upgrade' \in Structure /\ Len(upgrade'.save) < W
    BY SMTT(30), <2>3, UpgradeAssumption DEF LiveInv, GlobalTypes, StructureTypes, Structure
  <2> QED
    BY <2>2, <2>4 DEF LiveInv, GlobalTypes, Numbers, Pointers, Booleans, StructureTypes, LoadErases, history
<1>4. ASSUME ~disturbed PROVE Alive(t)'
  <2>1. Alive(t)
    BY <1>4 DEF LiveInv, Lives
  <2>2. upgrade' # None
    <3>1. upgrade \in Structure /\ upgrade' = [upgrade EXCEPT !.fw_bin_sec_earse = 0]
      BY DEF LiveInv, GlobalTypes, StructureTypes, LoadErases, Loading
    <3>2. upgrade' \in Structure
      BY <3>1, UpgradeAssumption DEF Structure
    <3> QED
      BY <3>2, NoneIsNull
  <2> QED
    BY <1>1, <1>2, <2>1, <2>2 DEF Alive, Buffered, Inited, At, Steps, LoadErases
<1>5. ASSUME ~disturbed, ~small' PROVE Prepares(t)'
  <2>1. Prepares(t)
    BY <1>1, <1>5 DEF LiveInv, Prepared
  <2>2. upgrade'.fw_bin_sec_earse = 0
    BY DEF LiveInv, GlobalTypes, StructureTypes, Structure, LoadErases, Loading
  <2>3. \A k \in Pos : ~(k \div SEC < 0)
    BY Addresses
  <2> QED
    BY <1>2, <2>2, <2>3 DEF Prepares, AllErased, At, Steps
<1> QED
  BY <1>1, <1>2, <1>3, <1>4, <1>5, Going DEF Buffered, Past, Places

LEMMA LoadRejectsStep == ASSUME LiveInv, NEW t \in Tasks, LoadRejects(t) PROVE Kept'
<1>1. Types /\ task[t].at = "load" /\ disturbed' = disturbed /\ heap' = heap /\ (~small' => ~small)
  BY DEF LiveInv, Inv, LoadRejects, At, history, Loading
<1>2. Steps(t, "loop")
  <2>1. Goto(t, "loop") /\ "loop" \in Places
    BY DEF LoadRejects, Places
  <2> QED
    BY <1>1, <2>1, GotoSteps
<1>3. GlobalTypes'
  <2>1. Booleans'
    BY Zenon DEF LiveInv, GlobalTypes, Booleans, LoadRejects, history
  <2> QED
    BY <2>1 DEF LiveInv, GlobalTypes, Numbers, Pointers, StructureTypes, LoadRejects, history
<1>4. ASSUME ~disturbed PROVE Alive(t)'
  <2>1. Alive(t)
    BY <1>4 DEF LiveInv, Lives
  <2> QED
    BY <1>1, <1>2, <2>1 DEF Alive, Buffered, Inited, At, Steps, LoadRejects, globals, history
<1>5. ASSUME ~disturbed, ~small' PROVE Prepares(t)'
  <2>1. Prepares(t)
    BY <1>1, <1>5 DEF LiveInv, Prepared
  <2> QED
    BY <1>1, <1>2, <2>1 DEF Prepares, AllErased, ErasedFrom, At, Steps, LoadRejects, globals, history
<1> QED
  BY <1>1, <1>2, <1>3, <1>4, <1>5, Going DEF Buffered, Past, Places

LEMMA ErasedStep == ASSUME LiveInv, NEW t \in Tasks, Erased(t) PROVE Kept'
<1>1. Types /\ task[t].at = "erase" /\ disturbed' = disturbed /\ heap' = heap /\ (~small' => ~small)
  BY DEF LiveInv, Inv, Erased, At, history
<1>2. Steps(t, "loop")
  <2>1. Goto(t, "loop") /\ "loop" \in Places
    BY DEF Erased, Places
  <2> QED
    BY <1>1, <2>1, GotoSteps
<1>3. GlobalTypes'
  <2>1. upgrade \in Structure /\ Len(upgrade.save) < W
    BY DEF LiveInv, GlobalTypes, StructureTypes, Erased
  <2>2. prepared' \in 0..NSEC+1
    BY <2>1 DEF Erased, Structure
  <2> QED
    BY <2>2 DEF LiveInv, GlobalTypes, Numbers, Pointers, Booleans, StructureTypes, Erased
<1>4. ASSUME ~disturbed PROVE Alive(t)'
  <2>1. Alive(t)
    BY <1>4 DEF LiveInv, Lives
  <2> QED
    BY <1>1, <1>2, <2>1 DEF Alive, Buffered, Inited, At, Steps, Erased, globals, history
<1>5. ASSUME ~disturbed, ~small' PROVE Prepares(t)'
  <2>1. Prepares(t)
    BY <1>1, <1>5 DEF LiveInv, Prepared
  <2> QED
    BY <1>1, <1>2, <2>1 DEF Prepares, AllErased, ErasedFrom, At, Steps, Erased, globals, history
<1> QED
  BY <1>1, <1>2, <1>3, <1>4, <1>5, Going DEF Buffered, Past, Places

LEMMA FinishStep == ASSUME LiveInv, NEW t \in Tasks, Finish(t) PROVE Kept'
<1>1. Types /\ task[t].at = "finish" /\ disturbed' = disturbed /\ heap' = heap /\ (~small' => ~small)
  BY DEF LiveInv, Inv, Finish, At, history
<1>2. Steps(t, "crc")
  <2>1. Goto(t, "crc") /\ "crc" \in Places
    BY DEF Finish, Places
  <2> QED
    BY <1>1, <2>1, GotoSteps
<1>3. GlobalTypes'
  BY DEF LiveInv, GlobalTypes, Numbers, Pointers, Booleans, StructureTypes, Finish, globals, history
<1>4. ASSUME ~disturbed PROVE Alive(t)'
  <2>1. Alive(t)
    BY <1>4 DEF LiveInv, Lives
  <2> QED
    BY <1>1, <1>2, <2>1 DEF Alive, Buffered, Inited, At, Steps, Finish, globals, history
<1>5. ASSUME ~disturbed, ~small' PROVE Prepares(t)'
  <2>1. Prepares(t)
    BY <1>1, <1>5 DEF LiveInv, Prepared
  <2> QED
    BY <1>1, <1>2, <2>1 DEF Prepares, AllErased, ErasedFrom, At, Steps, Finish, globals, history
<1> QED
  BY <1>1, <1>2, <1>3, <1>4, <1>5, Going DEF Buffered, Past, Places

(* The start of the task: the buffer.                                      *)
LEMMA TaskStartsStep == ASSUME LiveInv, NEW t \in Tasks, TaskStarts(t) PROVE Kept'
<1>1. Types /\ task[t].at = "start" /\ disturbed' = disturbed /\ small' = small
  BY DEF LiveInv, Inv, TaskStarts, At, history
<1>2. Steps(t, "loop")
  <2>1. Goto(t, "loop") /\ "loop" \in Places
    BY DEF TaskStarts, Places
  <2> QED
    BY <1>1, <2>1, GotoSteps
<1>3. \A u \in Tasks \ {t} : task'[u] = task[u]
  BY <1>2 DEF Steps
<1>4. Running(t) /\ Running(t)'
  BY <1>1, <1>2 DEF Running, Steps
<1>5. Tries'
  BY <1>1, <1>2, TriesOn DEF LiveInv, Past
<1>6. GlobalTypes'
  <2>1. Booleans'
    BY Zenon DEF LiveInv, GlobalTypes, Booleans, TaskStarts, history
  <2> QED
    BY <2>1 DEF LiveInv, GlobalTypes, Numbers, Pointers, StructureTypes, TaskStarts, history
<1>7. ASSUME ~disturbed PROVE Alive(t)' /\ heap' = {u \in Tasks : Buffered(u)'}
  <2>1. Alive(t) /\ heap = {u \in Tasks : Buffered(u)}
    BY <1>7 DEF LiveInv, Lives
  <2>2. upgrade = None /\ flag = "IDLE" /\ task[t].server = "live" /\ totallength \in Nat
    BY <1>1, <2>1 DEF Alive, At, LiveInv, GlobalTypes, Numbers
  <2>3. totallength = 0
    BY <1>1, <2>1 DEF Alive, At
  <2>4. Alive(t)'
    BY <1>1, <1>2, <2>2, <2>3 DEF Alive, Buffered, Inited, At, Steps, TaskStarts
  <2>5. ASSUME NEW u \in Tasks PROVE u \in heap' <=> Buffered(u)'
    <3>1. CASE u = t
      BY <1>2, <3>1 DEF Buffered, Steps, TaskStarts
    <3>2. CASE u # t
      BY <1>3, <2>1, <3>2 DEF Buffered, TaskStarts
    <3> QED
      BY <3>1, <3>2
  <2>6. heap' \subseteq Tasks
    BY <1>6 DEF GlobalTypes, Pointers
  <2> QED
    BY <2>4, <2>5, <2>6
<1>8. Lives'
  BY <1>1, <1>3, <1>4, <1>7, LivesOn DEF LiveInv
<1>9. Prepares(t)'
  BY <1>2 DEF Prepares, At, Steps, TaskStarts
<1>10. Prepared'
  BY <1>1, <1>3, <1>4, <1>9, PreparedOn DEF LiveInv
<1> QED
  BY <1>5, <1>6, <1>8, <1>10 DEF Kept

(* The next attempt, or the end.                                           *)
LEMMA TryAgainStep == ASSUME LiveInv, NEW t \in Tasks, TryAgain(t) PROVE Kept'
<1>1. Types /\ task[t].at = "loop" /\ disturbed' = disturbed /\ heap' = heap /\ small' = small
  BY DEF LiveInv, Inv, TryAgain, At, history
<1>2. PICK place : place = IF task[t].retry < RETRY THEN "wait" ELSE "finish"
  OBVIOUS
<1>3. /\ task'[t].at = place /\ task'[t].retry = task[t].retry + 1
      /\ task'[t].server = task[t].server /\ task'[t].upgrade_flag = task[t].upgrade_flag
      /\ \A u \in Tasks \ {t} : task'[u] = task[u]
  <2>1. task[t] \in TaskState /\ task' = [task EXCEPT ![t].retry = @ + 1, ![t].at = place]
    BY <1>1, <1>2 DEF Types, TryAgain
  <2> QED
    BY <1>1, <2>1 DEF Types, TaskState
<1>4. place \in {"wait", "finish"}
  BY <1>2
<1>5. Running(t) /\ Running(t)' /\ Buffered(t) /\ Buffered(t)'
  BY <1>1, <1>3, <1>4 DEF Running, Buffered
<1>6. Tries'
  <2>1. ASSUME NEW u \in Tasks
        PROVE  task'[u].retry \in 0..RETRY+1 /\ (task'[u].at \notin Past => task'[u].retry <= RETRY)
    <3>1. CASE u = t
      <4>1. task[t].retry \in 0..RETRY+1 /\ task[t].retry <= RETRY
        BY <1>1 DEF LiveInv, Tries, Past
      <4>2. CASE task[t].retry < RETRY
        BY <1>2, <1>3, <3>1, <4>1, <4>2, UpgradeAssumption
      <4>3. CASE ~(task[t].retry < RETRY)
        <5>1. place \in Past
          BY <1>2, <4>3 DEF Past
        <5> QED
          BY <1>3, <3>1, <4>1, <5>1, UpgradeAssumption
      <4> QED
        BY <4>2, <4>3
    <3>2. CASE u # t
      BY <1>3, <3>2 DEF LiveInv, Tries
    <3> QED
      BY <3>1, <3>2
  <2> QED
    BY <2>1 DEF Tries
<1>7. GlobalTypes'
  BY DEF LiveInv, GlobalTypes, Numbers, Pointers, Booleans, StructureTypes, TryAgain, globals, history
<1>8. ASSUME ~disturbed PROVE Alive(t)' /\ heap' = {u \in Tasks : Buffered(u)'}
  <2>1. Alive(t)
    BY <1>8 DEF LiveInv, Lives
  <2>2. Alive(t)'
    BY <1>1, <1>3, <1>4, <2>1 DEF Alive, Buffered, Inited, At, TryAgain, globals
  <2> QED
    BY <1>1, <1>3, <1>5, <1>8, <2>2, SameHeap DEF LiveInv
<1>9. Lives'
  BY <1>1, <1>3, <1>5, <1>8, LivesOn DEF LiveInv
<1>10. ASSUME ~disturbed, ~small' PROVE Prepares(t)'
  <2>1. Prepares(t)
    BY <1>1, <1>10 DEF LiveInv, Prepared
  <2> QED
    BY <1>1, <1>3, <1>4, <2>1 DEF Prepares, AllErased, At, TryAgain, globals, history
<1>11. Prepared'
  BY <1>1, <1>3, <1>5, <1>10, PreparedOn DEF LiveInv
<1> QED
  BY <1>6, <1>7, <1>9, <1>11 DEF Kept

(* The connection: a request, a piece of the answer, its loss.             *)
LEMMA RequestStep == ASSUME LiveInv, NEW t \in Tasks, Request(t) PROVE Kept'
<1>1. Types /\ task[t].at = "request" /\ UNCHANGED <<globals, upgrade_timer, area, heap, history>>
  BY DEF LiveInv, Inv, Request, At
<1>2. Steps(t, "read")
  <2>1. PICK r \in Replies :
           task' = [task EXCEPT ![t].at = "read",
                                ![t].sock = [head |-> TRUE, len |-> r.len, body |-> r.body]]
    BY DEF Request
  <2>2. PICK sock : sock = [head |-> TRUE, len |-> r.len, body |-> r.body]
    OBVIOUS
  <2>3. task' = [task EXCEPT ![t].at = "read", ![t].sock = sock]
    BY <2>1, <2>2
  <2>4. "read" \in Places
    BY DEF Places
  <2> QED
    BY <1>1, <2>3, <2>4, AnswerSteps
<1>3. GlobalTypes'
  BY <1>1 DEF LiveInv, GlobalTypes, Numbers, Pointers, Booleans, StructureTypes, globals, history
<1>4. ASSUME ~disturbed PROVE Alive(t)'
  <2>1. Alive(t)
    BY <1>4 DEF LiveInv, Lives
  <2> QED
    BY <1>1, <1>2, <2>1 DEF Alive, Buffered, Inited, At, Steps, globals
<1>5. ASSUME ~disturbed, ~small' PROVE Prepares(t)'
  <2>1. Prepares(t)
    BY <1>1, <1>5 DEF LiveInv, Prepared, history
  <2> QED
    BY <1>1, <1>2, <2>1 DEF Prepares, AllErased, ErasedFrom, At, Steps, globals, history
<1> QED
  BY <1>1, <1>2, <1>3, <1>4, <1>5, Going DEF Buffered, Past, Places, history

LEMMA ReadStep == ASSUME LiveInv, NEW t \in Tasks, Read(t) PROVE Kept'
<1>1. Types /\ task[t].at = "read" /\ UNCHANGED <<globals, upgrade_timer, area, heap, history>>
  BY DEF LiveInv, Inv, Read, At
<1>2. Steps(t, "load")
  <2>1. PICK n \in 0..SEG :
           task' = [task EXCEPT ![t].at = "load", ![t].rx = Chunk(task[t].sock, n),
                                ![t].sock = Rest(task[t].sock, n)]
    BY DEF Read
  <2>2. PICK rx : rx = Chunk(task[t].sock, n)
    OBVIOUS
  <2>3. PICK sock : sock = Rest(task[t].sock, n)
    OBVIOUS
  <2>4. task' = [task EXCEPT ![t].at = "load", ![t].rx = rx, ![t].sock = sock]
    BY <2>1, <2>2, <2>3
  <2>5. "load" \in Places
    BY DEF Places
  <2> QED
    BY <1>1, <2>4, <2>5, AnswerSteps
<1>3. GlobalTypes'
  BY <1>1 DEF LiveInv, GlobalTypes, Numbers, Pointers, Booleans, StructureTypes, globals, history
<1>4. ASSUME ~disturbed PROVE Alive(t)'
  <2>1. Alive(t)
    BY <1>4 DEF LiveInv, Lives
  <2> QED
    BY <1>1, <1>2, <2>1 DEF Alive, Buffered, Inited, At, Steps, globals
<1>5. ASSUME ~disturbed, ~small' PROVE Prepares(t)'
  <2>1. Prepares(t)
    BY <1>1, <1>5 DEF LiveInv, Prepared, history
  <2> QED
    BY <1>1, <1>2, <2>1 DEF Prepares, ErasedFrom, At, Steps, globals, history
<1> QED
  BY <1>1, <1>2, <1>3, <1>4, <1>5, Going DEF Buffered, Past, Places, history

LEMMA LostStep == ASSUME LiveInv, NEW t \in Tasks, Lost(t) PROVE Kept'
<1>1. /\ Types /\ task[t].at = "read" /\ disturbed' = disturbed /\ heap' = heap
      /\ flash_erased' = FALSE
  BY DEF LiveInv, Inv, Lost, At, history
<1>2. Steps(t, "loop")
  <2>1. task' = [task EXCEPT ![t].at = "loop", ![t].sock = NoReply] /\ "loop" \in Places
    BY DEF Lost, Places
  <2>2. PICK sock : sock = NoReply
    OBVIOUS
  <2> QED
    BY <1>1, <2>1, <2>2, AnswerSteps
<1>3. GlobalTypes'
  <2>1. Booleans'
    BY Zenon DEF LiveInv, GlobalTypes, Booleans, Lost, history
  <2> QED
    BY <2>1 DEF LiveInv, GlobalTypes, Numbers, Pointers, StructureTypes, Lost, history
<1>4. ASSUME ~disturbed PROVE Alive(t)'
  <2>1. Alive(t)
    BY <1>4 DEF LiveInv, Lives
  <2> QED
    BY <1>1, <1>2, <2>1 DEF Alive, Buffered, Inited, At, Steps, Lost
<1>5. Prepares(t)'
  BY <1>1, <1>2 DEF Prepares, At, Steps
<1> QED
  BY <1>1, <1>2, <1>3, <1>4, <1>5, Going DEF Buffered, Past, Places

(* The sectors are erased one after the other.                             *)
LEMMA EraseSectorStep == ASSUME LiveInv, NEW t \in Tasks, EraseSector(t) PROVE Kept'
<1>1. /\ Types /\ task[t].at = "erase" /\ disturbed' = disturbed /\ heap' = heap /\ small' = small
      /\ task' = task
  BY DEF LiveInv, Inv, EraseSector, At, history
<1>2. Steps(t, "erase")
  BY <1>1 DEF Steps
<1>3. upgrade \in Structure /\ Len(upgrade.save) < W /\ upgrade.fw_bin_sec_earse \in 0..NSEC+1
  BY DEF LiveInv, GlobalTypes, StructureTypes, EraseSector, Structure
<1>4. PICK sector \in 0..NSEC : sector = upgrade.fw_bin_sec_earse
  BY <1>3, UpgradeAssumption DEF EraseSector
<1>5. /\ upgrade' = [upgrade EXCEPT !.fw_bin_sec_earse = sector + 1]
      /\ area' = [k \in Pos |-> IF k \div SEC = sector THEN E ELSE area[k]]
  BY <1>4 DEF EraseSector, InSector
<1>6. sector + 1 \in 0..NSEC+1
  BY UpgradeAssumption
<1>7. /\ upgrade' \in Structure /\ Len(upgrade'.save) < W
      /\ upgrade'.fw_bin_sec_earse = sector + 1
  BY <1>3, <1>5, <1>6 DEF Structure
<1>8. area' \in [Pos -> Byte]
  <2>1. area \in [Pos -> Byte] /\ E \in Byte
    BY UpgradeAssumption DEF LiveInv, GlobalTypes, E, Byte
  <2> QED
    BY <1>5, <2>1
<1>9. GlobalTypes'
  BY <1>7, <1>8 DEF LiveInv, GlobalTypes, Numbers, Pointers, Booleans, StructureTypes, EraseSector, history
<1>10. ASSUME ~disturbed PROVE Alive(t)'
  <2>1. Alive(t)
    BY <1>10 DEF LiveInv, Lives
  <2>2. upgrade' # None
    BY <1>7, NoneIsNull
  <2> QED
    BY <1>1, <2>1, <2>2 DEF Alive, Buffered, Inited, At, EraseSector
<1>11. ASSUME ~disturbed, ~small' PROVE Prepares(t)'
  <2>1. AllErased(sector)
    BY <1>1, <1>4, <1>11 DEF LiveInv, Prepared, Prepares, At
  <2>2. ASSUME NEW k \in Pos, k \div SEC < sector + 1 PROVE area'[k] = E
    BY <1>5, <2>1, <2>2, Addresses DEF AllErased
  <2> QED
    BY <1>1, <1>7, <2>2 DEF Prepares, AllErased, At
<1> QED
  BY <1>1, <1>2, <1>9, <1>10, <1>11, Going DEF Buffered, Past, Places

(* An answer that fits in a sector is written.                             *)
LEMMA LoadSmallStep == ASSUME LiveInv, NEW t \in Tasks, LoadSmall(t) PROVE Kept'
<1>1. /\ Types /\ task[t].at = "load" /\ disturbed' = disturbed /\ heap' = heap /\ small' = TRUE
      /\ totallength' = 0 /\ upgrade # None
  BY DEF LiveInv, Inv, LoadSmall, Loading, At
<1>2. Steps(t, "loop")
  <2>1. Goto(t, "loop") /\ "loop" \in Places
    BY DEF LoadSmall, Places
  <2> QED
    BY <1>1, <2>1, GotoSteps
<1>3. /\ upgrade' \in Structure /\ Len(upgrade'.save) < W
      /\ area' \in [Pos -> Byte] /\ flash_erased' \in BOOLEAN
  <2>1. CASE task[t].rx.len = 0
    BY <1>1, <2>1 DEF LoadSmall, LiveInv, GlobalTypes, StructureTypes
  <2>2. CASE task[t].rx.len # 0
    <3>1. PICK ok \in BOOLEAN :
             /\ system_upgrade_internal(Padded(task[t].rx.body, task[t].rx.len), ok)
             /\ flash_erased' = ok
      BY <2>2 DEF LoadSmall
    <3>2. task[t].rx \in Answer
      BY <1>1 DEF Types, TaskState
    <3>3. PICK body \in Seq(Byte) : body = task[t].rx.body
      BY <3>2 DEF Answer
    <3>4. PICK len \in Nat : len = task[t].rx.len
      BY <3>2 DEF LoadSmall, First, Answer
    <3>5. PICK data : data = Padded(body, len)
      OBVIOUS
    <3>6. data \in Seq(Byte)
      <4>1. ASSUME NEW k \in 1..len
            PROVE  (IF k <= Len(body) THEN body[k] ELSE X) \in Byte
        <5>1. CASE k <= Len(body)
          BY <5>1
        <5>2. CASE ~(k <= Len(body))
          BY <5>2, UpgradeAssumption DEF X, Byte
        <5> QED
          BY <5>1, <5>2
      <4>2. data \in [1..len -> Byte]
        BY <3>5, <4>1 DEF Padded
      <4> QED
        BY <4>2
    <3>7. system_upgrade_internal(data, ok)
      BY <3>1, <3>3, <3>4, <3>5
    <3>8. StructureTypes /\ area \in [Pos -> Byte]
      BY DEF LiveInv, GlobalTypes
    <3> QED
      BY <1>1, <3>1, <3>6, <3>7, <3>8, Writing
  <2> QED
    BY <2>1, <2>2
<1>4. GlobalTypes'
  <2>1. Booleans'
    BY <1>3, Zenon DEF LiveInv, GlobalTypes, Booleans, LoadSmall
  <2> QED
    BY <1>3, <2>1 DEF LiveInv, GlobalTypes, Numbers, Pointers, StructureTypes, LoadSmall
<1>5. ASSUME ~disturbed PROVE Alive(t)'
  <2>1. Alive(t)
    BY <1>5 DEF LiveInv, Lives
  <2>2. upgrade' # None
    BY <1>3, NoneIsNull
  <2> QED
    BY <1>1, <1>2, <2>1, <2>2 DEF Alive, Buffered, Inited, At, Steps, LoadSmall
<1> QED
  BY <1>1, <1>2, <1>4, <1>5, Going DEF Buffered, Past, Places

(* A piece of the image.                                                   *)
LEMMA BodyWritten ==
  ASSUME LiveInv, NEW t \in Tasks, LoadBody(t)
  PROVE  /\ totallength' \in Nat /\ sumlength' \in Int
         /\ upgrade' \in Structure /\ Len(upgrade'.save) < W
         /\ upgrade'.fw_bin_addr >= upgrade.fw_bin_addr
         /\ area' \in [Pos -> Byte]
         /\ \A k \in Pos : k >= upgrade'.fw_bin_addr => area'[k] = area[k]
<1>1. /\ task[t].rx \in Answer /\ upgrade # None /\ totallength \in Nat /\ sumlength \in Int
      /\ StructureTypes /\ area \in [Pos -> Byte]
  <2>1. Types
    BY DEF LiveInv, Inv
  <2> QED
    BY <2>1 DEF Types, TaskState, LiveInv, GlobalTypes, Numbers, LoadBody, Loading
<1> DEFINE c     == task[t].rx
           data  == IF c.head /\ ~First(c) THEN <<X>> \o c.body ELSE c.body
           sum   == IF First(c) THEN c.len ELSE sumlength
           total == totallength + Len(data)
           len   == IF First(c) \/ total <= sum THEN Len(data) ELSE sum - totallength
<1>2. /\ IF len <= 0 THEN UNCHANGED <<upgrade, area>>
         ELSE \E ok \in BOOLEAN : system_upgrade_internal(SubSeq(data, 1, len), ok)
      /\ \/ totallength' = total /\ sumlength' = sum
         \/ totallength' = 0 /\ sumlength' = 0
  BY DEF LoadBody
<1>3. data \in Seq(Byte)
  <2>1. c.body \in Seq(Byte)
    BY <1>1 DEF Answer
  <2>2. X \in Byte
    BY UpgradeAssumption DEF X, Byte
  <2>3. <<X>> \in Seq(Byte)
    BY <2>2
  <2>4. <<X>> \o c.body \in Seq(Byte)
    BY <2>1, <2>3, ConcatProperties
  <2> QED
    BY <2>1, <2>4
<1>4. sum \in Int
  BY <1>1 DEF Answer
<1> HIDE DEF data, sum
<1>5. Len(data) \in Nat /\ total \in Nat /\ len \in Int /\ len <= Len(data)
  BY <1>1, <1>3, <1>4
<1>6. /\ upgrade' \in Structure /\ Len(upgrade'.save) < W
      /\ upgrade'.fw_bin_addr >= upgrade.fw_bin_addr
      /\ area' \in [Pos -> Byte]
      /\ \A k \in Pos : k >= upgrade'.fw_bin_addr => area'[k] = area[k]
  <2>1. CASE len <= 0
    <3>1. upgrade' = upgrade /\ area' = area
      BY <1>2, <2>1
    <3>2. upgrade \in Structure /\ upgrade.fw_bin_addr \in Nat
      BY <1>1 DEF StructureTypes, Structure
    <3> QED
      BY <1>1, <3>1, <3>2 DEF StructureTypes
  <2>2. CASE ~(len <= 0)
    <3>1. PICK ok \in BOOLEAN : system_upgrade_internal(SubSeq(data, 1, len), ok)
      BY <1>2, <2>2
    <3>2. PICK piece : piece = SubSeq(data, 1, len)
      OBVIOUS
    <3>3. piece \in Seq(Byte)
      <4>1. \A i \in 1..len : data[i] \in Byte
        BY <1>3, <1>5
      <4> HIDE DEF len
      <4> QED
        BY <1>3, <1>5, <3>2, <4>1, SubSeqProperties
    <3>4. system_upgrade_internal(piece, ok)
      BY <3>1, <3>2
    <3> QED
      BY <1>1, <3>3, <3>4, Writing
  <2> QED
    BY <2>1, <2>2
<1>7. totallength' \in Nat /\ sumlength' \in Int
  BY <1>2, <1>4, <1>5
<1> QED
  BY <1>6, <1>7

LEMMA LoadBodyStep == ASSUME LiveInv, NEW t \in Tasks, LoadBody(t) PROVE Kept'
<1>1. /\ Types /\ task[t].at = "load" /\ disturbed' = disturbed /\ heap' = heap /\ small' = small
      /\ flash_erased' = flash_erased /\ prepared' = prepared /\ upgrade # None
  BY DEF LiveInv, Inv, LoadBody, Loading, At, history
<1>2. PICK place \in {"finish", "read", "loop"} :
         Goto(t, place) /\ (place = "loop" => ~flash_erased /\ totallength' = 0)
  BY DEF LoadBody
<1>3. Steps(t, place)
  <2>1. place \in Places
    BY DEF Places
  <2> QED
    BY <1>1, <1>2, <2>1, GotoSteps
<1>4. /\ totallength' \in Nat /\ sumlength' \in Int
      /\ upgrade' \in Structure /\ Len(upgrade'.save) < W
      /\ upgrade'.fw_bin_addr >= upgrade.fw_bin_addr
      /\ area' \in [Pos -> Byte]
      /\ \A k \in Pos : k >= upgrade'.fw_bin_addr => area'[k] = area[k]
  BY BodyWritten
<1>5. GlobalTypes'
  <2>1. Booleans'
    BY Zenon DEF LiveInv, GlobalTypes, Booleans, LoadBody, history
  <2> QED
    BY <1>4, <2>1 DEF LiveInv, GlobalTypes, Numbers, Pointers, StructureTypes, LoadBody, history
<1>6. ASSUME ~disturbed PROVE Alive(t)'
  <2>1. Alive(t)
    BY <1>6 DEF LiveInv, Lives
  <2>2. upgrade' # None
    BY <1>4, NoneIsNull
  <2> QED
    BY <1>1, <1>2, <1>3, <2>1, <2>2 DEF Alive, Buffered, Inited, At, Steps, LoadBody
<1>7. ASSUME ~disturbed, ~small' PROVE Prepares(t)'
  <2>1. flash_erased => ErasedFrom(upgrade.fw_bin_addr)
    BY <1>1, <1>7 DEF LiveInv, Prepared, Prepares
  <2>2. upgrade.fw_bin_addr \in Nat /\ upgrade'.fw_bin_addr \in Nat
    BY <1>1, <1>4 DEF LiveInv, GlobalTypes, StructureTypes, Structure
  <2>3. ASSUME flash_erased, NEW k \in Pos, k >= upgrade'.fw_bin_addr, k \div SEC < prepared
        PROVE  area'[k] = E
    <3>1. k >= upgrade.fw_bin_addr
      BY <1>4, <2>2, <2>3, Addresses
    <3> QED
      BY <1>4, <2>1, <2>3, <3>1 DEF ErasedFrom
  <2>4. flash_erased => \A k \in Pos : k >= upgrade'.fw_bin_addr /\ k \div SEC < prepared' => area'[k] = E
    BY <1>1, <2>3
  <2> QED
    BY <1>1, <1>2, <1>3, <2>4 DEF Prepares, ErasedFrom, At, Steps
<1>8. place \in Places \ {"off", "start", "reply", "exit"}
  BY DEF Places
<1> QED
  BY <1>1, <1>3, <1>5, <1>6, <1>7, <1>8, Going DEF Buffered, Past, Places

(* The check of the CRC puts the flag up, or down.                         *)
LEMMA CrcStep == ASSUME LiveInv, NEW t \in Tasks, Crc(t) PROVE Kept'
<1>1. /\ Types /\ task[t].at = "crc" /\ disturbed' = disturbed /\ heap' = heap /\ small' = small
      /\ upgrade' = upgrade /\ precv_buf' = precv_buf
  BY DEF LiveInv, Inv, Crc, At
<1>2. PICK good \in BOOLEAN :
         /\ task' = [task EXCEPT ![t].at = "free", ![t].upgrade_flag = good]
         /\ flag' = IF good THEN "FINISH" ELSE "IDLE"
  BY DEF Crc
<1>3. /\ task'[t].at = "free" /\ task'[t].upgrade_flag = good
      /\ task'[t].retry = task[t].retry /\ task'[t].server = task[t].server
      /\ \A u \in Tasks \ {t} : task'[u] = task[u]
  BY <1>1, <1>2 DEF Types, TaskState
<1>4. Running(t) /\ Running(t)' /\ Buffered(t) /\ Buffered(t)'
  BY <1>1, <1>3 DEF Running, Buffered
<1>5. Tries'
  <2>1. ASSUME NEW u \in Tasks
        PROVE  task'[u].retry \in 0..RETRY+1 /\ (task'[u].at \notin Past => task'[u].retry <= RETRY)
    <3>1. CASE u = t
      BY <1>3, <3>1 DEF LiveInv, Tries, Past
    <3>2. CASE u # t
      BY <1>3, <3>2 DEF LiveInv, Tries
    <3> QED
      BY <3>1, <3>2
  <2> QED
    BY <2>1 DEF Tries
<1>6. GlobalTypes'
  <2>1. unmeasured' \in BOOLEAN
    BY DEF Crc
  <2>2. Booleans'
    BY <2>1, Zenon DEF LiveInv, GlobalTypes, Booleans, Crc
  <2> QED
    BY <1>2, <2>2 DEF LiveInv, GlobalTypes, Numbers, Pointers, StructureTypes, Crc
<1>7. ASSUME ~disturbed PROVE Alive(t)' /\ heap' = {u \in Tasks : Buffered(u)'}
  <2>1. Alive(t)
    BY <1>7 DEF LiveInv, Lives
  <2>2. Alive(t)'
    BY <1>1, <1>2, <1>3, <2>1 DEF Alive, Buffered, Inited, At
  <2> QED
    BY <1>1, <1>3, <1>4, <1>7, <2>2, SameHeap DEF LiveInv
<1>8. Lives'
  BY <1>1, <1>3, <1>4, <1>7, LivesOn DEF LiveInv
<1>9. Prepares(t)'
  BY <1>3 DEF Prepares, At
<1>10. Prepared'
  BY <1>1, <1>3, <1>4, <1>9, PreparedOn DEF LiveInv
<1> QED
  BY <1>5, <1>6, <1>8, <1>10 DEF Kept

(* The end gives the buffer and the structure back.                        *)
LEMMA FreeStep == ASSUME LiveInv, NEW t \in Tasks, Free(t) PROVE Kept'
<1>1. /\ Types /\ task[t].at = "free" /\ disturbed' = disturbed /\ small' = small
      /\ totallength' = 0 /\ heap' = heap \ {precv_buf} /\ flag' = flag
      /\ flag # "START" => upgrade' = None
      /\ upgrade' \in {upgrade, None}
  BY DEF LiveInv, Inv, Free, At, history, Deinit, system_upgrade_deinit
<1>2. Steps(t, "reply")
  <2>1. Goto(t, "reply") /\ "reply" \in Places
    BY DEF Free, Places
  <2> QED
    BY <1>1, <2>1, GotoSteps
<1>3. \A u \in Tasks \ {t} : task'[u] = task[u]
  BY <1>2 DEF Steps
<1>4. Running(t) /\ Running(t)' /\ Buffered(t) /\ ~Buffered(t)'
  BY <1>1, <1>2 DEF Running, Buffered, Steps
<1>5. Tries'
  BY <1>1, <1>2, TriesOn DEF LiveInv, Past
<1>6. GlobalTypes'
  <2>1. Booleans'
    BY Zenon DEF LiveInv, GlobalTypes, Booleans, Free, history
  <2>2. Numbers' /\ Pointers'
    BY DEF LiveInv, GlobalTypes, Numbers, Pointers, Free, history
  <2>3. StructureTypes' /\ area' = area
    BY <1>1 DEF LiveInv, GlobalTypes, StructureTypes, Free
  <2> QED
    BY <2>1, <2>2, <2>3 DEF LiveInv, GlobalTypes
<1>7. ASSUME ~disturbed PROVE Alive(t)' /\ heap' = {u \in Tasks : Buffered(u)'}
  <2>1. Alive(t) /\ heap = {u \in Tasks : Buffered(u)}
    BY <1>7 DEF LiveInv, Lives
  <2>2. precv_buf = t /\ upgrade' = None
    BY <1>1, <1>4, <2>1 DEF Alive, At
  <2>3. Alive(t)'
    BY <1>1, <1>2, <2>1, <2>2 DEF Alive, Buffered, Inited, At, Steps
  <2>4. ASSUME NEW u \in Tasks PROVE u \in heap' <=> Buffered(u)'
    <3>1. CASE u = t
      BY <1>1, <1>4, <2>2, <3>1
    <3>2. CASE u # t
      BY <1>1, <1>3, <2>1, <2>2, <3>2 DEF Buffered
    <3> QED
      BY <3>1, <3>2
  <2>5. heap' \subseteq Tasks
    BY <1>6 DEF GlobalTypes, Pointers
  <2> QED
    BY <2>3, <2>4, <2>5
<1>8. Lives'
  BY <1>1, <1>3, <1>4, <1>7, LivesOn DEF LiveInv
<1>9. Prepares(t)'
  BY <1>2 DEF Prepares, At, Steps
<1>10. Prepared'
  BY <1>1, <1>3, <1>4, <1>9, PreparedOn DEF LiveInv
<1> QED
  BY <1>5, <1>6, <1>8, <1>10 DEF Kept

-----------------------------------------------------------------------------
(* Where every task is off, nothing is left of an upgrade.                 *)
Idle ==
    /\ \A u \in Tasks : task[u] = Off
    /\ ~disturbed => heap = {} /\ upgrade = None /\ flag = "IDLE" /\ totallength = 0

LEMMA IdleLives == Idle => Tries /\ Lives /\ Prepared
<1> SUFFICES ASSUME Idle
             PROVE  Tries /\ Lives /\ Prepared
  OBVIOUS
<1>1. \A u \in Tasks : task[u].at = "off" /\ task[u].retry = 0
  <2>1. Off.at = "off" /\ Off.retry = 0
    BY DEF Off
  <2> QED
    BY <2>1 DEF Idle
<1>2. Tries
  BY <1>1, UpgradeAssumption DEF Tries
<1>3. ASSUME ~disturbed, NEW u \in Tasks PROVE Alive(u) /\ ~Buffered(u)
  BY <1>1, <1>3 DEF Alive, Buffered, Inited, At, Idle
<1>4. Lives
  BY <1>3 DEF Lives, Idle
<1>5. Prepared
  BY <1>1 DEF Prepared, Prepares, At
<1> QED
  BY <1>2, <1>4, <1>5

LEMMA RebootKeeps ==
  ASSUME NEW f \in [Pos -> Byte], Rebooted(f)
  PROVE  Kept'
<1>1. Idle'
  BY DEF Rebooted, Idle
<1>2. (Tries /\ Lives /\ Prepared)'
  BY <1>1, IdleLives, PTL
<1>3. GlobalTypes'
  <2>1. Booleans'
    BY Zenon DEF Rebooted, Booleans
  <2>2. Numbers' /\ StructureTypes' /\ Pointers'
    BY UpgradeAssumption DEF Rebooted, Numbers, StructureTypes, Pointers
  <2>3. area' \in [Pos -> Byte]
    BY DEF Rebooted
  <2> QED
    BY <2>1, <2>2, <2>3 DEF GlobalTypes
<1> QED
  BY <1>2, <1>3 DEF Kept

(* The task leaves: for the restart, or with its server given back.        *)
LEMMA ReplyStep == ASSUME LiveInv, NEW t \in Tasks, user_esp_platform_upgrade_rsp(t) PROVE Kept'
<1>1. Types /\ task[t] \in TaskState /\ task[t].at = "reply" /\ area \in [Pos -> Byte]
  BY DEF LiveInv, Inv, Types, user_esp_platform_upgrade_rsp, At, GlobalTypes
<1>2. CASE task[t].upgrade_flag
  <2>1. X \in Byte
    BY UpgradeAssumption DEF X, Byte
  <2>2. PICK f \in [Pos -> Byte] : Rebooted(f)
    BY <1>1, <1>2, <2>1 DEF user_esp_platform_upgrade_rsp
  <2> QED
    BY <2>2, RebootKeeps
<1>3. CASE ~task[t].upgrade_flag
  <2>1. /\ task' = [task EXCEPT ![t].at = "exit", ![t].server = "freed"]
        /\ UNCHANGED <<globals, upgrade_timer, area, heap, history>>
    BY <1>3 DEF user_esp_platform_upgrade_rsp
  <2>2. /\ task'[t].at = "exit" /\ task'[t].retry = task[t].retry
        /\ \A u \in Tasks \ {t} : task'[u] = task[u]
    BY <1>1, <2>1 DEF Types, TaskState
  <2>3. Running(t) /\ Running(t)' /\ ~Buffered(t) /\ ~Buffered(t)' /\ disturbed' = disturbed
    BY <1>1, <2>1, <2>2 DEF Running, Buffered, history
  <2>4. Tries'
    <3>1. ASSUME NEW u \in Tasks
          PROVE  task'[u].retry \in 0..RETRY+1 /\ (task'[u].at \notin Past => task'[u].retry <= RETRY)
      <4>1. CASE u = t
        BY <2>2, <4>1 DEF LiveInv, Tries, Past
      <4>2. CASE u # t
        BY <2>2, <4>2 DEF LiveInv, Tries
      <4> QED
        BY <4>1, <4>2
    <3> QED
      BY <3>1 DEF Tries
  <2>5. GlobalTypes'
    BY <2>1 DEF LiveInv, GlobalTypes, Numbers, Pointers, Booleans, StructureTypes, globals, history
  <2>6. ASSUME ~disturbed PROVE Alive(t)' /\ heap' = {u \in Tasks : Buffered(u)'}
    <3>1. Alive(t) /\ heap = {u \in Tasks : Buffered(u)}
      BY <2>6 DEF LiveInv, Lives
    <3>2. Alive(t)'
      BY <1>1, <1>3, <2>1, <2>2, <3>1 DEF Alive, Buffered, Inited, At, globals
    <3>3. ASSUME NEW u \in Tasks PROVE Buffered(u)' = Buffered(u)
      BY <2>2, <2>3 DEF Buffered
    <3> QED
      BY <2>1, <3>1, <3>2, <3>3
  <2>7. Lives'
    BY <2>2, <2>3, <2>6, LivesOn DEF LiveInv
  <2>8. Prepares(t)'
    BY <2>2 DEF Prepares, At
  <2>9. Prepared'
    BY <2>2, <2>3, <2>8, PreparedOn DEF LiveInv
  <2> QED
    BY <2>4, <2>5, <2>7, <2>9 DEF Kept
<1> QED
  BY <1>2, <1>3

LEMMA ExitStep == ASSUME LiveInv, NEW t \in Tasks, Exit(t) PROVE Kept'
<1>1. /\ Types /\ task[t].at = "exit" /\ task' = [task EXCEPT ![t] = Off]
      /\ UNCHANGED <<globals, upgrade_timer, area, heap, history>>
  BY DEF LiveInv, Inv, Exit, At
<1>2. task'[t] = Off /\ \A u \in Tasks \ {t} : task'[u] = task[u]
  BY <1>1 DEF Types
<1>3. Off.at = "off" /\ Off.retry = 0
  BY DEF Off
<1>4. Running(t) /\ ~Buffered(t) /\ ~Buffered(t)' /\ ~Running(t)' /\ disturbed' = disturbed
  BY <1>1, <1>2, <1>3 DEF Running, Buffered, history
<1>5. Tries'
  <2>1. ASSUME NEW u \in Tasks
        PROVE  task'[u].retry \in 0..RETRY+1 /\ (task'[u].at \notin Past => task'[u].retry <= RETRY)
    <3>1. CASE u = t
      BY <1>2, <1>3, <3>1, UpgradeAssumption
    <3>2. CASE u # t
      BY <1>2, <3>2 DEF LiveInv, Tries
    <3> QED
      BY <3>1, <3>2
  <2> QED
    BY <2>1 DEF Tries
<1>6. GlobalTypes'
  BY <1>1 DEF LiveInv, GlobalTypes, Numbers, Pointers, Booleans, StructureTypes, globals, history
<1>7. ASSUME ~disturbed PROVE \A u \in Tasks : task'[u].at = "off"
  <2>1. \A u \in Tasks \ {t} : task[u].at = "off"
    BY <1>4, <1>7, OthersOff DEF LiveInv
  <2> QED
    BY <1>2, <1>3, <2>1
<1>8. Lives'
  <2> SUFFICES ASSUME ~disturbed
               PROVE  /\ heap' = {u \in Tasks : Buffered(u)'}
                      /\ \A u \in Tasks : Alive(u)'
                      /\ (upgrade = None /\ flag = "IDLE" /\ totallength = 0)'
    BY <1>4 DEF Lives
  <2>1. Alive(t) /\ heap = {u \in Tasks : Buffered(u)}
    BY DEF LiveInv, Lives
  <2>2. (upgrade = None /\ flag = "IDLE" /\ totallength = 0)'
    BY <1>1, <2>1 DEF Alive, At, globals
  <2>3. ASSUME NEW u \in Tasks PROVE Alive(u)' /\ Buffered(u)' = Buffered(u)
    <3>1. Alive(u)'
      BY <1>7, <2>2 DEF Alive, Buffered, Inited, At
    <3>2. Buffered(u)' = Buffered(u)
      BY <1>2, <1>4 DEF Buffered
    <3> QED
      BY <3>1, <3>2
  <2> QED
    BY <1>1, <2>1, <2>2, <2>3
<1>9. Prepared'
  BY <1>4, <1>7 DEF Prepared, Prepares, At
<1> QED
  BY <1>5, <1>6, <1>8, <1>9 DEF Kept

(* An upgrade that nothing disturbs begins where nothing is left.          *)
LEMMA StartStep == ASSUME LiveInv, NEW t \in Tasks, user_upgrade_start(t) PROVE Kept'
<1> DEFINE new == [Off EXCEPT !.at = "start", !.server = "live"]
<1>1. /\ Types /\ task[t].at = "off" /\ task' = [task EXCEPT ![t] = new]
      /\ disturbed' = (disturbed \/ \E other \in Tasks : Running(other))
      /\ UNCHANGED <<globals, area, heap, unmeasured, small, prepared>>
  BY DEF LiveInv, Inv, user_upgrade_start, At
<1>2. new.at = "start" /\ new.server = "live" /\ new.retry = 0
  BY DEF Off
<1> HIDE DEF new
<1>3. task'[t] = new /\ \A u \in Tasks \ {t} : task'[u] = task[u]
  BY <1>1 DEF Types
<1>4. Tries'
  <2>1. ASSUME NEW u \in Tasks
        PROVE  task'[u].retry \in 0..RETRY+1 /\ (task'[u].at \notin Past => task'[u].retry <= RETRY)
    <3>1. CASE u = t
      BY <1>2, <1>3, <3>1, UpgradeAssumption
    <3>2. CASE u # t
      BY <1>3, <3>2 DEF LiveInv, Tries
    <3> QED
      BY <3>1, <3>2
  <2> QED
    BY <2>1 DEF Tries
<1>5. GlobalTypes'
  <2>1. disturbed' \in BOOLEAN
    BY <1>1, Zenon DEF LiveInv, GlobalTypes, Booleans
  <2>2. Booleans'
    BY <1>1, <2>1, Zenon DEF LiveInv, GlobalTypes, Booleans, globals
  <2>3. Pointers'
    BY <1>1 DEF LiveInv, GlobalTypes, Pointers, globals, user_upgrade_start
  <2> QED
    BY <1>1, <2>2, <2>3 DEF LiveInv, GlobalTypes, Numbers, StructureTypes, globals
<1>6. ASSUME ~disturbed'
      PROVE  ~disturbed /\ \A u \in Tasks : task[u].at = "off"
  BY <1>1, <1>6 DEF Running
<1>7. ASSUME ~disturbed' PROVE \A u \in Tasks \ {t} : task'[u].at = "off"
  BY <1>3, <1>6, <1>7
<1>8. Lives'
  <2> SUFFICES ASSUME ~disturbed'
               PROVE  /\ heap' = {u \in Tasks : Buffered(u)'}
                      /\ \A u \in Tasks : Alive(u)'
                      /\ Running(t)'
    BY DEF Lives
  <2>1. /\ heap = {u \in Tasks : Buffered(u)}
        /\ upgrade = None /\ flag = "IDLE" /\ totallength = 0
    BY <1>6 DEF LiveInv, Lives, Running
  <2>2. UNCHANGED <<upgrade, flag, totallength, heap>>
    BY <1>1 DEF globals
  <2>3. ASSUME NEW u \in Tasks
        PROVE  Alive(u)' /\ Buffered(u)' = Buffered(u)
    <3>1. CASE u = t
      BY <1>1, <1>2, <1>3, <2>1, <2>2, <3>1 DEF Alive, Buffered, Inited, At
    <3>2. CASE u # t
      BY <1>6, <1>7, <2>1, <2>2, <3>2 DEF Alive, Buffered, Inited, At
    <3> QED
      BY <3>1, <3>2
  <2>4. Running(t)'
    BY <1>2, <1>3 DEF Running
  <2> QED
    BY <2>1, <2>2, <2>3, <2>4
<1>9. Prepared'
  <2> SUFFICES ASSUME ~disturbed', NEW u \in Tasks
               PROVE  Prepares(u)'
    BY DEF Prepared
  <2>1. task'[u].at \in {"off", "start"}
    BY <1>2, <1>3, <1>7
  <2> QED
    BY <2>1 DEF Prepares, At
<1> QED
  BY <1>4, <1>5, <1>8, <1>9 DEF Kept

(* The check after 300 s, wherever it runs, disturbs.                      *)
LEMMA DisturbedStep ==
  ASSUME LiveInv, upgrade_check \/ upgrade_check_deletes_itself
  PROVE  Kept'
<1>1. CASE upgrade_check /\ precv_buf \notin heap \cup {None}
  <2>1. Rebooted(area) /\ area \in [Pos -> Byte]
    BY <1>1 DEF upgrade_check, Breaks, LiveInv, GlobalTypes
  <2> QED
    BY <2>1, RebootKeeps
<1>2. CASE upgrade_check_deletes_itself \/ (upgrade_check /\ precv_buf \in heap \cup {None})
  <2>1. /\ disturbed' = TRUE /\ area' = area /\ UNCHANGED <<unmeasured, small, prepared, precv_buf>>
        /\ totallength' \in {totallength, 0} /\ sumlength' \in {sumlength, 0}
        /\ flash_erased' \in {flash_erased, FALSE} /\ flag' \in {flag, "IDLE"}
        /\ upgrade' \in {upgrade, None} /\ heap' \subseteq heap /\ upgrade_timer' \in {None, "dead"}
    BY <1>2 DEF upgrade_check_deletes_itself, upgrade_check, globals, Deinit, system_upgrade_deinit
  <2>2. ASSUME NEW u \in Tasks
        PROVE  task'[u].at = task[u].at /\ task'[u].retry = task[u].retry
    <3>1. CASE task' = task
      BY <3>1
    <3>2. CASE task' = [task EXCEPT ![upgrade_timer].upgrade_flag = FALSE,
                                    ![upgrade_timer].server = "freed"]
      BY <3>2 DEF LiveInv, Inv, Types, TaskState
    <3> QED
      BY <1>2, <3>1, <3>2 DEF upgrade_check, upgrade_check_deletes_itself
  <2>3. Tries'
    BY <2>2 DEF LiveInv, Tries
  <2>4. GlobalTypes'
    <3>1. flash_erased' \in BOOLEAN
      BY <2>1 DEF LiveInv, GlobalTypes, Booleans
    <3>2. Booleans'
      BY <2>1, <3>1, Zenon DEF LiveInv, GlobalTypes, Booleans
    <3>3. Numbers' /\ StructureTypes'
      BY <2>1 DEF LiveInv, GlobalTypes, Numbers, StructureTypes
    <3>4. Pointers'
      BY <2>1 DEF LiveInv, GlobalTypes, Pointers
    <3> QED
      BY <2>1, <3>2, <3>3, <3>4 DEF LiveInv, GlobalTypes
  <2> QED
    BY <2>1, <2>3, <2>4 DEF Kept, Lives, Prepared
<1> QED
  BY <1>1, <1>2

-----------------------------------------------------------------------------
LEMMA LiveInit == Init => LiveInv
<1> SUFFICES ASSUME Init
             PROVE  LiveInv
  OBVIOUS
<1>1. Idle
  BY DEF Init, Idle
<1>2. X \in Byte
  BY UpgradeAssumption DEF X, Byte
<1>3. GlobalTypes
  <2>1. Booleans
    BY Zenon DEF Init, Booleans
  <2>2. Numbers /\ Pointers /\ StructureTypes
    BY UpgradeAssumption DEF Init, Numbers, Pointers, StructureTypes
  <2>3. area \in [Pos -> Byte]
    BY <1>2 DEF Init
  <2> QED
    BY <2>1, <2>2, <2>3 DEF GlobalTypes
<1> QED
  BY <1>1, <1>3, InitInv, IdleLives DEF LiveInv

LEMMA LiveStep == LiveInv /\ [Next]_vars => LiveInv'
<1> SUFFICES ASSUME LiveInv, [Next]_vars
             PROVE  Kept'
  BY StepInv DEF LiveInv, Kept
<1>1. area \in [Pos -> Byte]
  BY DEF LiveInv, GlobalTypes
<1>2. ASSUME NEW t \in Tasks, upgrade_task(t)
      PROVE  Kept'
  <2>1. CASE TaskStarts(t) \/ TryAgain(t) \/ WaitForIp(t) \/ ConnectFails(t) \/ Connect(t) \/ RequestFails(t)
    BY <2>1, TaskStartsStep, TryAgainStep, WaitForIpStep, ConnectFailsStep, ConnectStep, RequestFailsStep
  <2>2. CASE Request(t) \/ Read(t) \/ Lost(t)
    BY <2>2, RequestStep, ReadStep, LostStep
  <2>3. CASE LoadErases(t) \/ EraseSector(t) \/ Erased(t) \/ LoadSmall(t) \/ LoadRejects(t) \/ LoadBody(t)
    BY <2>3, LoadErasesStep, EraseSectorStep, ErasedStep, LoadSmallStep, LoadRejectsStep, LoadBodyStep
  <2>4. CASE Finish(t) \/ Crc(t) \/ Free(t) \/ user_esp_platform_upgrade_rsp(t) \/ Exit(t)
    BY <2>4, FinishStep, CrcStep, FreeStep, ReplyStep, ExitStep
  <2>5. CASE ServerGone(t) \/ BufferGone(t) \/ EraseOutOfRange(t)
    BY <1>1, <2>5, RebootKeeps DEF ServerGone, BufferGone, EraseOutOfRange, Breaks
  <2> QED
    BY <1>2, <2>1, <2>2, <2>3, <2>4, <2>5 DEF upgrade_task, Proceeds
<1>3. CASE \E t \in Tasks : user_upgrade_start(t)
  BY <1>3, StartStep
<1>4. CASE upgrade_check \/ upgrade_check_deletes_itself
  BY <1>4, DisturbedStep
<1>5. CASE Restart
  BY <1>1, <1>5, RebootKeeps DEF Restart
<1>6. CASE UNCHANGED vars
  <2>1. Tries' /\ GlobalTypes'
    BY <1>6 DEF LiveInv, Tries, GlobalTypes, Numbers, Pointers, Booleans, StructureTypes,
                vars, globals, history
  <2>2. Lives'
    BY <1>6 DEF LiveInv, Lives, Alive, Buffered, Inited, At, Running, vars, globals, history
  <2>3. Prepared'
    BY <1>6 DEF LiveInv, Prepared, Prepares, AllErased, ErasedFrom, At, vars, globals, history
  <2> QED
    BY <2>1, <2>2, <2>3 DEF Kept
<1> QED
  BY <1>2, <1>3, <1>4, <1>5, <1>6 DEF Next

(* An upgrade that is alone never uses what was freed, leaves nothing      *)
(* behind, and loads the image only into sectors that were erased for it   *)
(* (upgrade.c, upgrade_lib.c): UpgradeInv.                                 *)
THEOREM UpgradeKeepsAlive == Spec => []UpgradeInv
<1>1. LiveInv => UpgradeInv
  <2> SUFFICES ASSUME LiveInv
               PROVE  UpgradeInv
    OBVIOUS
  <2>1. TypeOK
    <3>1. ASSUME NEW t \in Tasks
          PROVE  /\ task[t].at \in Places /\ task[t].retry \in 0..RETRY+1
                 /\ task[t].server \in {None, "live", "freed"} /\ task[t].upgrade_flag \in BOOLEAN
                 /\ task[t].rx.body \in Seq(Byte) /\ task[t].sock.body \in Seq(Byte)
      BY DEF LiveInv, Inv, Types, TaskState, Answer, Tries
    <3>2. disturbed \in BOOLEAN /\ unmeasured \in BOOLEAN /\ small \in BOOLEAN /\ flash_erased \in BOOLEAN
      BY DEF LiveInv, GlobalTypes, Booleans
    <3>3. \A b \in {disturbed, unmeasured, small} : b \in BOOLEAN
      BY <3>2
    <3> QED
      BY <3>1, <3>2, <3>3 DEF TypeOK, LiveInv, GlobalTypes, Numbers, Pointers, StructureTypes
  <2>2. LoadsIntoErased
    BY DEF LiveInv, Prepared, Prepares, ErasedFrom, LoadsIntoErased
  <2>3. ~disturbed =>
           /\ heap = {t \in Tasks : Buffered(t)}
           /\ \A t \in Tasks : Alive(t)
           /\ (\A t \in Tasks : ~Running(t)) => upgrade = None /\ flag = "IDLE"
    BY DEF LiveInv, Lives
  <2> QED
    BY <2>1, <2>2, <2>3 DEF UpgradeInv, Alive
<1> QED
  BY LiveInit, LiveStep, <1>1, PTL DEF Spec
=============================================================================
