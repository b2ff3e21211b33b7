------------------------------ MODULE Saved_proofs ------------------------------
(***************************************************************************)
(* Theorems about what the plug saves: the parameters of the socket        *)
(* (Parameters), for every layout of the log and any number of records;    *)
(* the configuration kept twice, for every range of its numbers; the token *)
(* of the platform, for tokens of any length (Stores); and about the query *)
(* for the trend records (TrendQuery).                                     *)
(***************************************************************************)
EXTENDS Parameters, Stores, TLAPS

(* The parameters of the platform.                                         *)
Chars == STRING \cup {Blank}

EspParams == [activeflag : 0..1, tokenrdy : 0..1, token : [1..ROOM_TOKEN -> Chars]]

(* What RAM holds while it is being saved is what the flash then holds.    *)
TokenInv ==
    /\ esp_param \in EspParams /\ espFlash \in EspParams
    /\ given \in [tokens : Seq(Tokens), times : Int]
    /\ HoldsLast(espFlash.token, given.tokens)
    /\ \/ changing = <<>> /\ HoldsLast(esp_param.token, given.tokens)
       \/ \E tokens \in Seq(Tokens) : changing = <<tokens>> /\ HoldsLast(esp_param.token, tokens)

(* One more token: it takes the places that it reaches, if it fits.        *)
LEMMA LastOfMore ==
  ASSUME NEW tokens \in Seq(Tokens), NEW token \in Tokens, NEW i \in 1..ROOM_TOKEN,
         NEW char, IsLast(char, tokens, i)
  PROVE  IsLast(IF Reaches(token, i) THEN token[i] ELSE char, Append(tokens, token), i)
<1>1. PICK more : more = Append(tokens, token)
  OBVIOUS
<1>2. Len(tokens) \in Nat /\ Len(more) = Len(tokens) + 1
  BY <1>1
<1>3. \A j \in 1..Len(tokens) : more[j] = tokens[j]
  BY <1>1
<1>4. more[Len(tokens) + 1] = token
  BY <1>1
<1>5. CASE Reaches(token, i)
  <2>1. Len(tokens) + 1 \in 1..Len(more) /\ Len(tokens) + 1 + 1 .. Len(more) = {}
    BY <1>2
  <2>2. IsLast(token[i], more, i)
    BY <1>4, <1>5, <2>1, Zenon DEF IsLast
  <2> QED
    BY <1>1, <1>5, <2>2, Zenon
<1>6. CASE ~Reaches(token, i)
  <2>1. \A j \in 1..Len(more) : j \in 1..Len(tokens) \/ j = Len(tokens) + 1
    BY <1>2
  <2>2. CASE (\A j \in 1..Len(tokens) : ~Reaches(tokens[j], i)) /\ char = Blank
    <3>1. \A j \in 1..Len(more) : ~Reaches(more[j], i)
      BY <1>3, <1>4, <1>6, <2>1, <2>2, Zenon
    <3>2. IsLast(char, more, i)
      BY <2>2, <3>1, Zenon DEF IsLast
    <3> QED
      BY <1>1, <1>6, <3>2, Zenon
  <2>3. CASE \E j \in 1..Len(tokens) :
                /\ Reaches(tokens[j], i) /\ char = tokens[j][i]
                /\ \A k \in j + 1 .. Len(tokens) : ~Reaches(tokens[k], i)
    <3>1. PICK j \in 1..Len(tokens) :
                /\ Reaches(tokens[j], i) /\ char = tokens[j][i]
                /\ \A k \in j + 1 .. Len(tokens) : ~Reaches(tokens[k], i)
      BY <2>3
    <3>2. \A k \in j + 1 .. Len(more) :
             (k \in 1..Len(tokens) /\ k \in j + 1 .. Len(tokens)) \/ k = Len(tokens) + 1
      <4>1. j \in 1..Len(tokens)
        OBVIOUS
      <4> QED
        BY <1>2, <4>1
    <3>3. \A k \in j + 1 .. Len(more) : ~Reaches(more[k], i)
      BY <1>3, <1>4, <1>6, <3>1, <3>2, Zenon
    <3>4. j \in 1..Len(more)
      BY <1>2
    <3>5. Reaches(more[j], i) /\ char = more[j][i]
      BY <1>3, <3>1, Zenon
    <3>6. IsLast(char, more, i)
      BY <3>3, <3>4, <3>5, Zenon DEF IsLast
    <3> QED
      BY <1>1, <1>6, <3>6, Zenon
  <2> QED
    BY <2>2, <2>3, Zenon DEF IsLast
<1> QED
  BY <1>5, <1>6

LEMMA TokenStart == ParamInit => TokenInv
<1> SUFFICES ASSUME ParamInit PROVE TokenInv
  OBVIOUS
<1>1. Fresh \in EspParams
  <2>1. Blank \in Chars
    BY DEF Chars
  <2>2. [i \in 1..ROOM_TOKEN |-> Blank] \in [1..ROOM_TOKEN -> Chars]
    BY <2>1
  <2> QED
    BY <2>2 DEF Fresh, EspParams
<1>2. given \in [tokens : Seq(Tokens), times : Int] /\ Len(given.tokens) = 0
  BY DEF ParamInit
<1>3. HoldsLast(Fresh.token, given.tokens)
  <2>1. \A i \in 1..ROOM_TOKEN : Fresh.token[i] = Blank
    BY DEF Fresh
  <2>2. 1..Len(given.tokens) = {}
    BY <1>2
  <2> QED
    BY <2>1, <2>2, Zenon DEF HoldsLast, IsLast
<1> QED
  BY <1>1, <1>2, <1>3 DEF ParamInit, TokenInv

LEMMA SetTokenStep ==
  ASSUME TokenInv, NEW token \in Tokens, user_esp_platform_set_token(token)
  PROVE  TokenInv'
<1> DEFINE new == IF Len(token) <= ROOM_TOKEN THEN Copied(token) ELSE esp_param.token
           tokens == Append(given.tokens, token)
<1>1. /\ esp_param' = [activeflag |-> 0, tokenrdy |-> 1, token |-> new]
      /\ changing = <<>> /\ changing' = <<tokens>> /\ espFlash' = espFlash
      /\ given' = [given EXCEPT !.times = @ + 1]
  BY DEF user_esp_platform_set_token, Changed
<1>2. /\ esp_param.token \in [1..ROOM_TOKEN -> Chars]
      /\ given.tokens \in Seq(Tokens) /\ given.times \in Int
      /\ HoldsLast(esp_param.token, given.tokens)
  BY <1>1 DEF TokenInv, EspParams
<1>3. token \in Seq(STRING) /\ Len(token) \in Nat
  BY TokenAssumption
<1>4. new \in [1..ROOM_TOKEN -> Chars]
  <2>1. ASSUME NEW i \in 1..ROOM_TOKEN, i <= Len(token) PROVE token[i] \in Chars
    BY <1>3, <2>1 DEF Chars
  <2>2. Copied(token) \in [1..ROOM_TOKEN -> Chars]
    BY <1>2, <2>1 DEF Copied
  <2> QED
    BY <1>2, <2>2
<1>5. tokens \in Seq(Tokens)
  BY <1>2
<1>6. ASSUME NEW i \in 1..ROOM_TOKEN
      PROVE  new[i] = IF Reaches(token, i) THEN token[i] ELSE esp_param.token[i]
  BY <1>2, <1>3 DEF Reaches, Copied
<1>7. HoldsLast(new, tokens)
  <2> HIDE DEF new
  <2>1. ASSUME NEW i \in 1..ROOM_TOKEN PROVE IsLast(new[i], tokens, i)
    <3>1. IsLast(esp_param.token[i], given.tokens, i)
      BY <1>2 DEF HoldsLast
    <3>2. PICK char : char = esp_param.token[i]
      OBVIOUS
    <3>3. IsLast(IF Reaches(token, i) THEN token[i] ELSE char, tokens, i)
      BY <1>2, <3>1, <3>2, LastOfMore, Zenon
    <3> QED
      BY <1>6, <3>2, <3>3, Zenon
  <2> QED
    BY <2>1, Zenon DEF HoldsLast
<1> HIDE DEF new, tokens
<1>8. esp_param' \in EspParams /\ esp_param'.token = new
  BY <1>1, <1>4 DEF EspParams
<1>9. given' \in [tokens : Seq(Tokens), times : Int] /\ given'.tokens = given.tokens
  <2>1. given \in [tokens : Seq(Tokens), times : Int]
    BY DEF TokenInv
  <2> QED
    BY <1>1, <2>1
<1>10. HoldsLast(espFlash'.token, given'.tokens) /\ espFlash' \in EspParams
  BY <1>1, <1>9 DEF TokenInv
<1>11. HoldsLast(esp_param'.token, tokens)
  BY <1>7, <1>8, Zenon
<1> QED
  BY <1>1, <1>5, <1>8, <1>9, <1>10, <1>11, Zenon DEF TokenInv

LEMMA SetActiveStep ==
  ASSUME TokenInv, NEW flag \in 0..1, user_esp_platform_set_active(flag)
  PROVE  TokenInv'
<1>1. /\ esp_param' = [esp_param EXCEPT !.activeflag = flag,
                                        !.tokenrdy = IF flag = 0 THEN 0 ELSE @]
      /\ changing = <<>> /\ changing' = <<given.tokens>> /\ espFlash' = espFlash
      /\ given' = [given EXCEPT !.times = @ + 1]
  BY DEF user_esp_platform_set_active, Changed
<1>2. given.tokens \in Seq(Tokens) /\ HoldsLast(esp_param.token, given.tokens)
  BY <1>1 DEF TokenInv
<1>3. esp_param' \in EspParams /\ esp_param'.token = esp_param.token
  BY <1>1 DEF TokenInv, EspParams
<1>4. given' \in [tokens : Seq(Tokens), times : Int] /\ given'.tokens = given.tokens
  <2>1. given \in [tokens : Seq(Tokens), times : Int]
    BY DEF TokenInv
  <2> QED
    BY <1>1, <2>1
<1>5. HoldsLast(espFlash'.token, given'.tokens) /\ espFlash' \in EspParams
  BY <1>1, <1>4 DEF TokenInv
<1>6. HoldsLast(esp_param'.token, given.tokens)
  BY <1>2, <1>3, Zenon
<1> QED
  BY <1>1, <1>2, <1>3, <1>4, <1>5, <1>6, Zenon DEF TokenInv

LEMMA SaveParamStep == ASSUME TokenInv, SaveParam PROVE TokenInv'
<1>1. PICK tokens \in Seq(Tokens) : changing = <<tokens>> /\ HoldsLast(esp_param.token, tokens)
  BY DEF TokenInv, SaveParam
<1>2. /\ changing' = <<>> /\ espFlash' = esp_param /\ esp_param' = esp_param
      /\ given' = [given EXCEPT !.tokens = tokens]
  BY <1>1 DEF SaveParam
<1>3. given' \in [tokens : Seq(Tokens), times : Int] /\ given'.tokens = tokens
  BY <1>2 DEF TokenInv
<1>4. HoldsLast(esp_param'.token, given'.tokens) /\ HoldsLast(espFlash'.token, given'.tokens)
  BY <1>1, <1>2, <1>3, Zenon
<1> QED
  BY <1>2, <1>3, <1>4, Zenon DEF TokenInv

LEMMA RecoverStep == ASSUME TokenInv, user_esp_platform_param_recover PROVE TokenInv'
<1>1. /\ changing' = <<>> /\ esp_param' = espFlash /\ espFlash' = espFlash
      /\ given' = [given EXCEPT !.times = @ + 1]
  BY DEF user_esp_platform_param_recover
<1>2. given' \in [tokens : Seq(Tokens), times : Int] /\ given'.tokens = given.tokens
  <2>1. given \in [tokens : Seq(Tokens), times : Int]
    BY DEF TokenInv
  <2> QED
    BY <1>1, <2>1
<1> QED
  BY <1>1, <1>2 DEF TokenInv

LEMMA TokenStep == TokenInv /\ [Param]_paramvars => TokenInv'
<1> SUFFICES ASSUME TokenInv, [Param]_paramvars PROVE TokenInv'
  OBVIOUS
<1>1. CASE UNCHANGED paramvars
  BY <1>1 DEF TokenInv, paramvars
<1> QED
  BY <1>1, SetTokenStep, SetActiveStep, SaveParamStep, RecoverStep DEF Param

-----------------------------------------------------------------------------
(* The parameters of the socket.                                           *)
USE LayoutAssumption

At == {"idle", "take", "save", "apply", "clean", "wipe"}

(* TypeOK, with the records as a whole, and room for the record that waits *)
(* to be counted.                                                          *)
Types ==
    /\ ram \in Params /\ flash \in Params
    /\ sem \in {"free", "http", "trend", "other"}
    /\ http \in [at : At, cmd : Commands]
    /\ cs \in {"trend_flag", "trend_arm", "protect_flag", "protect_arm", "run"}
    /\ trend \in {"idle", "take", "save", "write"}
    /\ index \in Nat /\ wrote \in [sector : Nat, record : 0..RECORDS]
    /\ relay \in {"OPEN", "CLOSE"} /\ astray \subseteq Flags \cup Met
    /\ trend = "take" => ram.num < RECORDS

Booleans ==
    /\ seen \in BOOLEAN /\ tTrendRecord \in BOOLEAN /\ tCheckCurrentTimer \in BOOLEAN
    /\ I_RMS \in BOOLEAN /\ unsaved \in BOOLEAN

(* A save of anybody's never takes a count back behind the last record.    *)
Counts ==
    /\ wrote.record <= flash.num /\ wrote.record <= ram.num
    /\ trend = "write" => flash.num = ram.num

(* A record under way goes to the sector of the number it gets, unless a   *)
(* reset meets it while it waits.                                          *)
Placed ==
    /\ "waiting" \notin astray =>
          /\ trend = "take" => index = PlaceOf(ram.num)
          /\ trend \in {"save", "write"} => index = PlaceOf(ram.num - 1)
    /\ InItsSector

(* ReportedSurvives, also while a reset waits for the semaphore.           *)
Reported ==
    http.at \in {"idle", "apply", "clean", "wipe"} /\ ~unsaved =>
        /\ ram.trend = flash.trend /\ ram.protect = flash.protect /\ ram.other = flash.other

(* A command for the flag f is under way: its timer is going to be told.   *)
Pending(f) == http.cmd = f /\ http.at \in {"take", "save", "apply"}

Excused(f) == f \in astray \/ Pending(f)

(* What the task has read is the flag, and what it has armed is, unless a  *)
(* command came in between.                                                *)
TrendFollows ==
    /\ cs = "trend_arm" => seen = ram.trend \/ Excused("trend")
    /\ cs \in {"protect_flag", "protect_arm", "run"} => tTrendRecord = ram.trend \/ Excused("trend")

ProtectFollows ==
    /\ cs = "protect_arm" => seen = ram.protect \/ Excused("protect")
    /\ cs = "run" => tCheckCurrentTimer = ram.protect \/ Excused("protect")

Inv == Types /\ Booleans /\ OneSaver /\ Counts /\ Placed /\ Reported /\ TrendFollows /\ ProtectFollows

-----------------------------------------------------------------------------
LEMMA DefaultsType == Defaults \in Params /\ Defaults.num = 0
  BY DEF Defaults, Params

LEMMA InitInv == Init => Inv
<1> SUFFICES ASSUME Init
             PROVE  Inv
  OBVIOUS
<1>1. flash \in Params /\ flash.num = 0 /\ ram = flash
  <2>1. CASE flash = Defaults
    BY <2>1, DefaultsType DEF Init
  <2>2. CASE flash = [Defaults EXCEPT !.trend = TRUE, !.protect = TRUE]
    <3>1. flash = [trend |-> TRUE, protect |-> TRUE, other |-> FALSE, num |-> 0]
      BY <2>2 DEF Defaults
    <3> QED
      BY <3>1 DEF Init, Params
  <2> QED
    BY <2>1, <2>2 DEF Init
<1>2. Types
  BY <1>1 DEF Init, Types, Idle, At, Commands, Nowhere, NoPlace
<1>3. Booleans
  BY Zenon DEF Init, Booleans
<1>4. OneSaver
  BY DEF Init, OneSaver, Idle
<1>5. Counts
  BY <1>1 DEF Init, Counts, Nowhere
<1>8. Placed
  BY DEF Init, Placed, InItsSector
<1>6. Reported
  BY DEF Init, Reported
<1>7. TrendFollows /\ ProtectFollows
  BY DEF Init, TrendFollows, ProtectFollows
<1> QED
  BY <1>2, <1>3, <1>4, <1>5, <1>6, <1>7, <1>8 DEF Inv

-----------------------------------------------------------------------------
(* The set commands as one. *)
SetCommands == \E cmd \in Commands, v \in BOOLEAN : set(cmd, v)

LEMMA NextSplit ==
  ASSUME [Next]_vars
  PROVE  \/ SetCommands \/ cs5463_calib_half_set \/ system_status_reset
         \/ HttpTakes \/ HttpTimeout \/ HttpSaves \/ HttpApplies
         \/ CleanGivesUp \/ CleanTakes \/ DAT_nFlashDataClean
         \/ RoutineReadsTrend \/ RoutineReadsProtect \/ RoutineArmsTrend \/ RoutineArmsProtect
         \/ RoutineReads \/ OtherTakes \/ OtherSaves
         \/ check_current_timer_cb \/ trend_record_callback \/ TrendCounts \/ TrendTimeout
         \/ TrendSaves \/ TrendWrites \/ SwitchedOn \/ Reboot \/ UNCHANGED vars
<1>1. ASSUME trend_enable_set \/ protect_enable_set \/ other_set
      PROVE  SetCommands
  BY <1>1, Zenon DEF trend_enable_set, protect_enable_set, other_set, SetCommands,
     Commands, Flags
<1> QED
  BY <1>1, Zenon DEF Next, HttpTask, HttpGoesOn, CS5463IF_Routine, RoutineStarts, Callbacks, TrendGoesOn

LEMMA PlaceType == \A num \in 0..RECORDS : PlaceOf(num) \in Nat
<1> SUFFICES ASSUME NEW num \in 0..RECORDS
             PROVE  PlaceOf(num) \in Nat
  OBVIOUS
<1>1. MAX \in Nat \ {0}
  BY DEF MAX
<1>2. num % MAX \in Nat
  BY <1>1
<1>3. (num % MAX) \div PER \in Nat
  BY <1>2
<1> QED
  BY <1>3 DEF PlaceOf

LEMMA CommandTypes ==
    /\ Idle \in [at : At, cmd : Commands] /\ Idle.at = "idle" /\ Idle.cmd = "other"
    /\ Nowhere \in [sector : Nat, record : 0..RECORDS] /\ Nowhere.record = 0
  BY DEF Idle, At, Commands, Nowhere

LEMMA FlagTypes ==
  ASSUME Types
  PROVE  ram.trend \in BOOLEAN /\ ram.protect \in BOOLEAN
  BY DEF Types, Params

LEMMA TypesStep ==
  ASSUME Types, [Next]_vars
  PROVE  Types'
<1>1. CASE SetCommands
  BY <1>1 DEF SetCommands, set, SetField, Types, Params, At, log, meter, hist
<1>2. CASE cs5463_calib_half_set
  BY <1>2 DEF cs5463_calib_half_set, SetField, Types, Params, log, meter
<1>3. CASE system_status_reset
  BY <1>3 DEF system_status_reset, Types, At, Commands, log, meter, hist
<1>4. CASE HttpTakes
  BY <1>4 DEF HttpTakes, Semaphore, Types, At, log, meter, hist
<1>5. CASE HttpTimeout
  BY <1>5, CommandTypes DEF HttpTimeout, Types, Flags, log, meter
<1>6. CASE HttpSaves
  BY <1>6 DEF HttpSaves, Types, At, log, meter
<1>7. CASE HttpApplies
  <2>1. astray' \subseteq Flags \cup Met
    <3>1. CASE Arming(http.cmd)
      <4>1. http.cmd \in Flags
        BY <3>1 DEF Arming, Flags
      <4> QED
        BY <1>7, <3>1, <4>1 DEF HttpApplies, Types
    <3>2. CASE ~Arming(http.cmd)
      BY <1>7, <3>2 DEF HttpApplies, Types
    <3> QED
      BY <3>1, <3>2
  <2> QED
    BY <1>7, <2>1, CommandTypes DEF HttpApplies, Types, log, meter
<1>8. CASE DAT_nFlashDataClean
  <2>1. astray' \subseteq Flags \cup Met
    <3>1. CASE trend = "idle"
      BY <1>8, <3>1 DEF DAT_nFlashDataClean
    <3>2. CASE trend # "idle"
      BY <1>8, <3>2 DEF DAT_nFlashDataClean, Met
    <3> QED
      BY <3>1, <3>2
  <2>2. ram' \in Params /\ flash' \in Params /\ ram'.num = 0
    BY <1>8, DefaultsType DEF DAT_nFlashDataClean, Cleaned
  <2>3. trend' = "take" => ram'.num < RECORDS
    BY <1>8, <2>2 DEF DAT_nFlashDataClean, Types, Params
  <2> QED
    BY <1>8, <2>1, <2>2, <2>3, CommandTypes DEF DAT_nFlashDataClean, Types, meter
<1>9. CASE RoutineReadsTrend
  BY <1>9 DEF RoutineReadsTrend, ReadsFlag, Types, log, meter, hist
<1>10. CASE RoutineReadsProtect
  BY <1>10 DEF RoutineReadsProtect, ReadsFlag, Types, log, meter, hist
<1>11. CASE RoutineArmsTrend
  BY <1>11 DEF RoutineArmsTrend, Types, log, meter, hist
<1>12. CASE RoutineArmsProtect
  BY <1>12 DEF RoutineArmsProtect, Types, log, meter, hist
<1>13. CASE RoutineReads
  BY <1>13 DEF RoutineReads, Types, log, hist
<1>14. CASE OtherTakes
  BY <1>14 DEF OtherTakes, Semaphore, Types, log, meter, hist
<1>15. CASE OtherSaves
  BY <1>15 DEF OtherSaves, Types, log, meter
<1>16. CASE check_current_timer_cb
  BY <1>16 DEF check_current_timer_cb, Types, log, hist
<1>17. CASE trend_record_callback
  <2>1. index' \in Nat
    BY <1>17, PlaceType DEF trend_record_callback, Types, Params
  <2> QED
    BY <1>17, <2>1 DEF trend_record_callback, Types, meter, hist
<1>18. CASE TrendCounts
  BY <1>18 DEF TrendCounts, Semaphore, Types, Params, meter, hist
<1>19. CASE TrendTimeout
  BY <1>19 DEF TrendTimeout, Types, NoPlace, meter
<1>20. CASE TrendSaves
  BY <1>20 DEF TrendSaves, SavesCount, Types, meter
<1>21. CASE TrendWrites
  BY <1>21 DEF TrendWrites, Types, Params, Met, NoPlace, meter
<1>22. CASE SwitchedOn
  BY <1>22 DEF SwitchedOn, Types, log, hist
<1>23. CASE Reboot
  BY <1>23, CommandTypes DEF Reboot, Starts, NoPlace, Types
<1>24. CASE UNCHANGED vars
  BY <1>24 DEF vars, Types, log, meter, hist
<1>25. CASE CleanGivesUp
  BY <1>25, CommandTypes DEF CleanGivesUp, Types, At, log, meter, hist
<1>26. CASE CleanTakes
  BY <1>26, CommandTypes DEF CleanTakes, Semaphore, Types, At, log, meter, hist
<1> QED
  BY <1>1, <1>2, <1>3, <1>4, <1>5, <1>6, <1>7, <1>8, <1>9, <1>10, <1>11, <1>12, <1>13,
     <1>14, <1>15, <1>16, <1>17, <1>18, <1>19, <1>20, <1>21, <1>22, <1>23, <1>24,
     <1>25, <1>26, NextSplit

LEMMA BooleansStep ==
  ASSUME Types, Booleans, [Next]_vars
  PROVE  Booleans'
<1>1. CASE SetCommands
  BY <1>1 DEF SetCommands, set, SetField, Booleans, timers, meter, hist
<1>2. CASE cs5463_calib_half_set
  BY <1>2 DEF cs5463_calib_half_set, SetField, Booleans, timers, meter
<1>3. CASE system_status_reset
  BY <1>3 DEF system_status_reset, Booleans, timers, meter, hist
<1>4. CASE HttpTakes
  BY <1>4 DEF HttpTakes, Semaphore, Booleans, timers, meter, hist
<1>5. CASE HttpTimeout
  BY <1>5 DEF HttpTimeout, Booleans, timers, meter
<1>6. CASE HttpSaves
  BY <1>6 DEF HttpSaves, Booleans, timers, meter
<1>7. CASE HttpApplies
  BY <1>7, FlagTypes DEF HttpApplies, Armed, Arming, Booleans, meter
<1>8. CASE DAT_nFlashDataClean
  BY <1>8, Zenon DEF DAT_nFlashDataClean, Cleaned, Booleans, timers, meter, hist
<1>9. CASE RoutineReadsTrend
  BY <1>9, FlagTypes DEF RoutineReadsTrend, ReadsFlag, Booleans, timers, meter, hist
<1>10. CASE RoutineReadsProtect
  BY <1>10, FlagTypes DEF RoutineReadsProtect, ReadsFlag, Booleans, timers, meter, hist
<1>11. CASE RoutineArmsTrend
  BY <1>11 DEF RoutineArmsTrend, Booleans, meter, hist
<1>12. CASE RoutineArmsProtect
  BY <1>12 DEF RoutineArmsProtect, Booleans, meter, hist
<1>13. CASE RoutineReads
  BY <1>13 DEF RoutineReads, Booleans, timers, hist
<1>14. CASE OtherTakes
  BY <1>14 DEF OtherTakes, Semaphore, Booleans, timers, meter, hist
<1>15. CASE OtherSaves
  BY <1>15 DEF OtherSaves, Booleans, timers, meter
<1>16. CASE check_current_timer_cb
  BY <1>16 DEF check_current_timer_cb, Booleans, timers, hist
<1>17. CASE trend_record_callback
  BY <1>17 DEF trend_record_callback, Booleans, timers, meter, hist
<1>18. CASE TrendCounts
  BY <1>18 DEF TrendCounts, Semaphore, Booleans, timers, meter, hist
<1>19. CASE TrendTimeout
  BY <1>19 DEF TrendTimeout, Booleans, timers, meter, hist
<1>20. CASE TrendSaves
  BY <1>20 DEF TrendSaves, SavesCount, Booleans, timers, meter
<1>21. CASE TrendWrites
  BY <1>21 DEF TrendWrites, Booleans, timers, meter, hist
<1>22. CASE SwitchedOn
  BY <1>22 DEF SwitchedOn, Booleans, timers, hist
<1>23. CASE Reboot
  BY <1>23 DEF Reboot, Starts, Booleans
<1>24. CASE UNCHANGED vars
  BY <1>24 DEF vars, Booleans, timers, meter, hist
<1>25. CASE CleanGivesUp
  BY <1>25 DEF CleanGivesUp, Booleans, timers, meter, hist
<1>26. CASE CleanTakes
  BY <1>26 DEF CleanTakes, Semaphore, Booleans, timers, meter, hist
<1> QED
  BY <1>1, <1>2, <1>3, <1>4, <1>5, <1>6, <1>7, <1>8, <1>9, <1>10, <1>11, <1>12, <1>13,
     <1>14, <1>15, <1>16, <1>17, <1>18, <1>19, <1>20, <1>21, <1>22, <1>23, <1>24,
     <1>25, <1>26, NextSplit

LEMMA OneSaverStep ==
  ASSUME OneSaver, [Next]_vars
  PROVE  OneSaver'
<1>1. CASE SetCommands
  BY <1>1, CommandTypes DEF SetCommands, set, SetField, OneSaver, log
<1>2. CASE cs5463_calib_half_set
  BY <1>2 DEF cs5463_calib_half_set, SetField, OneSaver, log
<1>3. CASE system_status_reset
  BY <1>3, CommandTypes DEF system_status_reset, OneSaver, log
<1>4. CASE HttpTakes
  BY <1>4 DEF HttpTakes, Semaphore, OneSaver, log
<1>5. CASE HttpTimeout
  BY <1>5, CommandTypes DEF HttpTimeout, OneSaver, log
<1>6. CASE HttpSaves
  BY <1>6 DEF HttpSaves, OneSaver, log
<1>7. CASE HttpApplies
  BY <1>7, CommandTypes DEF HttpApplies, Armed, Arming, OneSaver, log
<1>8. CASE DAT_nFlashDataClean
  BY <1>8, CommandTypes DEF DAT_nFlashDataClean, Cleaned, OneSaver, HttpMay, CallbackRuns, Blocked
<1>9. CASE RoutineReadsTrend
  BY <1>9 DEF RoutineReadsTrend, ReadsFlag, OneSaver, log
<1>10. CASE RoutineReadsProtect
  BY <1>10 DEF RoutineReadsProtect, ReadsFlag, OneSaver, log
<1>11. CASE RoutineArmsTrend
  BY <1>11 DEF RoutineArmsTrend, OneSaver, log
<1>12. CASE RoutineArmsProtect
  BY <1>12 DEF RoutineArmsProtect, OneSaver, log
<1>13. CASE RoutineReads
  BY <1>13 DEF RoutineReads, OneSaver, log
<1>14. CASE OtherTakes
  BY <1>14 DEF OtherTakes, Semaphore, OneSaver, log
<1>15. CASE OtherSaves
  BY <1>15 DEF OtherSaves, OneSaver, log
<1>16. CASE check_current_timer_cb
  BY <1>16 DEF check_current_timer_cb, OneSaver, log
<1>17. CASE trend_record_callback
  BY <1>17 DEF trend_record_callback, OneSaver, TimersFree
<1>18. CASE TrendCounts
  BY <1>18 DEF TrendCounts, Semaphore, OneSaver
<1>19. CASE TrendTimeout
  BY <1>19 DEF TrendTimeout, OneSaver
<1>20. CASE TrendSaves
  BY <1>20 DEF TrendSaves, SavesCount, OneSaver
<1>21. CASE TrendWrites
  BY <1>21 DEF TrendWrites, OneSaver
<1>22. CASE SwitchedOn
  BY <1>22 DEF SwitchedOn, OneSaver, log
<1>23. CASE Reboot
  BY <1>23, CommandTypes DEF Reboot, Starts, OneSaver
<1>24. CASE UNCHANGED vars
  BY <1>24 DEF vars, OneSaver, log
<1>25. CASE CleanGivesUp
  BY <1>25, CommandTypes DEF CleanGivesUp, OneSaver, log
<1>26. CASE CleanTakes
  BY <1>26, CommandTypes DEF CleanTakes, Semaphore, OneSaver, log
<1> QED
  BY <1>1, <1>2, <1>3, <1>4, <1>5, <1>6, <1>7, <1>8, <1>9, <1>10, <1>11, <1>12, <1>13,
     <1>14, <1>15, <1>16, <1>17, <1>18, <1>19, <1>20, <1>21, <1>22, <1>23, <1>24,
     <1>25, <1>26, NextSplit

LEMMA CountsStep ==
  ASSUME Types, Counts, [Next]_vars
  PROVE  Counts'
<1>1. CASE SetCommands
  BY <1>1 DEF SetCommands, set, SetField, Counts, Types, Params, log
<1>2. CASE cs5463_calib_half_set
  BY <1>2 DEF cs5463_calib_half_set, SetField, Counts, Types, Params, log
<1>3. CASE system_status_reset
  BY <1>3 DEF system_status_reset, Counts, log
<1>4. CASE HttpTakes
  BY <1>4 DEF HttpTakes, Semaphore, Counts, log
<1>5. CASE HttpTimeout
  BY <1>5 DEF HttpTimeout, Counts, log
<1>6. CASE HttpSaves
  BY <1>6 DEF HttpSaves, Counts, log
<1>7. CASE HttpApplies
  BY <1>7 DEF HttpApplies, Armed, Arming, Counts, log
<1>8. CASE DAT_nFlashDataClean
  BY <1>8, CommandTypes, DefaultsType DEF DAT_nFlashDataClean, Cleaned, Counts, HttpMay,
     Blocked, CallbackRuns
<1>9. CASE RoutineReadsTrend
  BY <1>9 DEF RoutineReadsTrend, ReadsFlag, Counts, log
<1>10. CASE RoutineReadsProtect
  BY <1>10 DEF RoutineReadsProtect, ReadsFlag, Counts, log
<1>11. CASE RoutineArmsTrend
  BY <1>11 DEF RoutineArmsTrend, Counts, log
<1>12. CASE RoutineArmsProtect
  BY <1>12 DEF RoutineArmsProtect, Counts, log
<1>13. CASE RoutineReads
  BY <1>13 DEF RoutineReads, Counts, log
<1>14. CASE OtherTakes
  BY <1>14 DEF OtherTakes, Semaphore, Counts, log
<1>15. CASE OtherSaves
  BY <1>15 DEF OtherSaves, Counts, log
<1>16. CASE check_current_timer_cb
  BY <1>16 DEF check_current_timer_cb, Counts, log
<1>17. CASE trend_record_callback
  BY <1>17 DEF trend_record_callback, Counts, TimersFree
<1>18. CASE TrendCounts
  BY <1>18 DEF TrendCounts, Semaphore, Counts, Types, Params
<1>19. CASE TrendTimeout
  BY <1>19 DEF TrendTimeout, Counts
<1>20. CASE TrendSaves
  BY <1>20 DEF TrendSaves, SavesCount, Counts
<1>21. CASE TrendWrites
  BY <1>21 DEF TrendWrites, Counts, Types, Params
<1>22. CASE SwitchedOn
  BY <1>22 DEF SwitchedOn, Counts, log
<1>23. CASE Reboot
  BY <1>23, CommandTypes DEF Reboot, Starts, Counts, Types, Params
<1>24. CASE UNCHANGED vars
  BY <1>24 DEF vars, Counts, log
<1>25. CASE CleanGivesUp
  BY <1>25 DEF CleanGivesUp, Counts, log
<1>26. CASE CleanTakes
  BY <1>26 DEF CleanTakes, Semaphore, Counts, log
<1> QED
  BY <1>1, <1>2, <1>3, <1>4, <1>5, <1>6, <1>7, <1>8, <1>9, <1>10, <1>11, <1>12, <1>13,
     <1>14, <1>15, <1>16, <1>17, <1>18, <1>19, <1>20, <1>21, <1>22, <1>23, <1>24,
     <1>25, <1>26, NextSplit

LEMMA PlacedStep ==
  ASSUME Types, Placed, [Next]_vars
  PROVE  Placed'
<1>1. CASE SetCommands
  BY <1>1 DEF SetCommands, set, SetField, Placed, InItsSector, Types, Params, log, hist
<1>2. CASE cs5463_calib_half_set
  BY <1>2 DEF cs5463_calib_half_set, SetField, Placed, InItsSector, Types, Params, log, hist
<1>3. CASE system_status_reset
  BY <1>3 DEF system_status_reset, Placed, InItsSector, log, hist
<1>4. CASE HttpTakes
  BY <1>4 DEF HttpTakes, Semaphore, Placed, InItsSector, log, hist
<1>5. CASE HttpTimeout
  BY <1>5 DEF HttpTimeout, Placed, InItsSector, log, hist
<1>6. CASE HttpSaves
  BY <1>6 DEF HttpSaves, Placed, InItsSector, log, hist
<1>7. CASE HttpApplies
  <2>1. \A m \in Met : m \in astray => m \in astray'
    <3>1. http.cmd \notin Met
      BY DEF Types, Commands, Flags, Met
    <3> QED
      BY <1>7, <3>1 DEF HttpApplies
  <2> QED
    BY <1>7, <2>1 DEF HttpApplies, Placed, InItsSector, Met, log
<1>8. CASE DAT_nFlashDataClean
  BY <1>8, CommandTypes, DefaultsType DEF DAT_nFlashDataClean, Cleaned, Placed, InItsSector, HttpMay,
     Blocked, CallbackRuns
<1>9. CASE RoutineReadsTrend
  BY <1>9 DEF RoutineReadsTrend, ReadsFlag, Placed, InItsSector, log, hist
<1>10. CASE RoutineReadsProtect
  BY <1>10 DEF RoutineReadsProtect, ReadsFlag, Placed, InItsSector, log, hist
<1>11. CASE RoutineArmsTrend
  BY <1>11 DEF RoutineArmsTrend, Placed, InItsSector, log, hist
<1>12. CASE RoutineArmsProtect
  BY <1>12 DEF RoutineArmsProtect, Placed, InItsSector, log, hist
<1>13. CASE RoutineReads
  BY <1>13 DEF RoutineReads, Placed, InItsSector, log, hist
<1>14. CASE OtherTakes
  BY <1>14 DEF OtherTakes, Semaphore, Placed, InItsSector, log, hist
<1>15. CASE OtherSaves
  BY <1>15 DEF OtherSaves, Placed, InItsSector, log, hist
<1>16. CASE check_current_timer_cb
  BY <1>16 DEF check_current_timer_cb, Placed, InItsSector, log, hist
<1>17. CASE trend_record_callback
  BY <1>17 DEF trend_record_callback, Placed, InItsSector, hist
<1>18. CASE TrendCounts
  <2>1. ram.num \in Nat /\ ram'.num - 1 = ram.num
    BY <1>18 DEF TrendCounts, Types, Params
  <2> QED
    BY <1>18, <2>1 DEF TrendCounts, Placed, InItsSector, hist
<1>19. CASE TrendTimeout
  BY <1>19 DEF TrendTimeout, Placed, InItsSector
<1>20. CASE TrendSaves
  BY <1>20 DEF TrendSaves, SavesCount, Placed, InItsSector
<1>21. CASE TrendWrites
  <2>1. "waiting" \in astray => "written" \in astray'
    BY <1>21 DEF TrendWrites
  <2>2. "waiting" \notin astray => wrote'.sector = PlaceOf(wrote'.record - 1)
    BY <1>21 DEF TrendWrites, Placed
  <2> QED
    BY <1>21, <2>1, <2>2 DEF TrendWrites, Placed, InItsSector
<1>22. CASE SwitchedOn
  BY <1>22 DEF SwitchedOn, Placed, InItsSector, log, hist
<1>23. CASE Reboot
  BY <1>23, CommandTypes DEF Reboot, Starts, Placed, InItsSector, Types, Params
<1>24. CASE UNCHANGED vars
  BY <1>24 DEF vars, Placed, InItsSector, log, hist
<1>25. CASE CleanGivesUp
  BY <1>25 DEF CleanGivesUp, Placed, InItsSector, log, hist
<1>26. CASE CleanTakes
  BY <1>26 DEF CleanTakes, Semaphore, Placed, InItsSector, log, hist
<1> QED
  BY <1>1, <1>2, <1>3, <1>4, <1>5, <1>6, <1>7, <1>8, <1>9, <1>10, <1>11, <1>12, <1>13,
     <1>14, <1>15, <1>16, <1>17, <1>18, <1>19, <1>20, <1>21, <1>22, <1>23, <1>24,
     <1>25, <1>26, NextSplit

LEMMA ReportedStep ==
  ASSUME Types, Reported, [Next]_vars
  PROVE  Reported'
<1>1. CASE SetCommands
  BY <1>1, CommandTypes DEF SetCommands, set, SetField, Reported, hist
<1>2. CASE cs5463_calib_half_set
  BY <1>2 DEF cs5463_calib_half_set, SetField, Reported
<1>3. CASE system_status_reset
  BY <1>3, CommandTypes DEF system_status_reset, Reported, hist
<1>4. CASE HttpTakes
  BY <1>4 DEF HttpTakes, Semaphore, Reported, hist
<1>5. CASE HttpTimeout
  BY <1>5, CommandTypes DEF HttpTimeout, Reported
<1>6. CASE HttpSaves
  BY <1>6 DEF HttpSaves, Reported
<1>7. CASE HttpApplies
  BY <1>7, CommandTypes DEF HttpApplies, Armed, Arming, Reported
<1>8. CASE DAT_nFlashDataClean
  BY <1>8, CommandTypes DEF DAT_nFlashDataClean, Cleaned, Reported, hist
<1>9. CASE RoutineReadsTrend
  BY <1>9 DEF RoutineReadsTrend, ReadsFlag, Reported, hist
<1>10. CASE RoutineReadsProtect
  BY <1>10 DEF RoutineReadsProtect, ReadsFlag, Reported, hist
<1>11. CASE RoutineArmsTrend
  BY <1>11 DEF RoutineArmsTrend, Reported, hist
<1>12. CASE RoutineArmsProtect
  BY <1>12 DEF RoutineArmsProtect, Reported, hist
<1>13. CASE RoutineReads
  BY <1>13 DEF RoutineReads, Reported, hist
<1>14. CASE OtherTakes
  BY <1>14 DEF OtherTakes, Semaphore, Reported, hist
<1>15. CASE OtherSaves
  BY <1>15 DEF OtherSaves, Reported
<1>16. CASE check_current_timer_cb
  BY <1>16 DEF check_current_timer_cb, Reported, hist
<1>17. CASE trend_record_callback
  BY <1>17 DEF trend_record_callback, Reported, hist
<1>18. CASE TrendCounts
  BY <1>18 DEF TrendCounts, Semaphore, Reported, Types, Params, hist
<1>19. CASE TrendTimeout
  BY <1>19 DEF TrendTimeout, Reported, hist
<1>20. CASE TrendSaves
  BY <1>20 DEF TrendSaves, SavesCount, Reported
<1>21. CASE TrendWrites
  BY <1>21 DEF TrendWrites, Reported, hist
<1>22. CASE SwitchedOn
  BY <1>22 DEF SwitchedOn, Reported, hist
<1>23. CASE Reboot
  BY <1>23, CommandTypes DEF Reboot, Starts, Reported
<1>24. CASE UNCHANGED vars
  BY <1>24 DEF vars, Reported, hist
<1>25. CASE CleanGivesUp
  BY <1>25, CommandTypes DEF CleanGivesUp, Reported, hist
<1>26. CASE CleanTakes
  BY <1>26, CommandTypes DEF CleanTakes, Semaphore, Reported, hist
<1> QED
  BY <1>1, <1>2, <1>3, <1>4, <1>5, <1>6, <1>7, <1>8, <1>9, <1>10, <1>11, <1>12, <1>13,
     <1>14, <1>15, <1>16, <1>17, <1>18, <1>19, <1>20, <1>21, <1>22, <1>23, <1>24,
     <1>25, <1>26, NextSplit

LEMMA TrendFollowsStep ==
  ASSUME Types, TrendFollows, [Next]_vars
  PROVE  TrendFollows'
<1>1. CASE SetCommands
  BY <1>1, CommandTypes DEF SetCommands, set, SetField, TrendFollows, Excused, Pending,
     Types, Params, Commands, timers, hist
<1>2. CASE cs5463_calib_half_set
  BY <1>2, CommandTypes DEF cs5463_calib_half_set, SetField, TrendFollows, Excused,
     Pending, Types, Params, timers
<1>3. CASE system_status_reset
  BY <1>3, CommandTypes DEF system_status_reset, TrendFollows, Excused, Pending, timers,
     hist
<1>4. CASE HttpTakes
  BY <1>4 DEF HttpTakes, Semaphore, TrendFollows, Excused, Pending, Types, timers, hist
<1>5. CASE HttpTimeout
  BY <1>5, CommandTypes DEF HttpTimeout, TrendFollows, Excused, Pending, Types, Flags,
     timers
<1>6. CASE HttpSaves
  BY <1>6 DEF HttpSaves, TrendFollows, Excused, Pending, Types, timers
<1>7. CASE HttpApplies
  BY <1>7, CommandTypes DEF HttpApplies, Armed, Arming, TrendFollows, Excused, Pending
<1>8. CASE DAT_nFlashDataClean
  BY <1>8, CommandTypes DEF DAT_nFlashDataClean, Cleaned, TrendFollows, Excused, Pending,
     Flags, timers, hist
<1>9. CASE RoutineReadsTrend
  BY <1>9 DEF RoutineReadsTrend, ReadsFlag, TrendFollows, Excused, Pending, timers, hist
<1>10. CASE RoutineReadsProtect
  BY <1>10 DEF RoutineReadsProtect, ReadsFlag, TrendFollows, Excused, Pending, timers,
     hist
<1>11. CASE RoutineArmsTrend
  BY <1>11 DEF RoutineArmsTrend, TrendFollows, Excused, Pending, hist
<1>12. CASE RoutineArmsProtect
  BY <1>12 DEF RoutineArmsProtect, TrendFollows, Excused, Pending, hist
<1>13. CASE RoutineReads
  BY <1>13 DEF RoutineReads, TrendFollows, Excused, Pending, timers, hist
<1>14. CASE OtherTakes
  BY <1>14 DEF OtherTakes, Semaphore, TrendFollows, Excused, Pending, timers, hist
<1>15. CASE OtherSaves
  BY <1>15 DEF OtherSaves, TrendFollows, Excused, Pending, timers
<1>16. CASE check_current_timer_cb
  BY <1>16 DEF check_current_timer_cb, TrendFollows, Excused, Pending, timers, hist
<1>17. CASE trend_record_callback
  BY <1>17 DEF trend_record_callback, TrendFollows, Excused, Pending, timers, hist
<1>18. CASE TrendCounts
  BY <1>18 DEF TrendCounts, Semaphore, TrendFollows, Excused, Pending, Types, Params,
     timers, hist
<1>19. CASE TrendTimeout
  BY <1>19 DEF TrendTimeout, TrendFollows, Excused, Pending, timers
<1>20. CASE TrendSaves
  BY <1>20 DEF TrendSaves, SavesCount, TrendFollows, Excused, Pending, timers
<1>21. CASE TrendWrites
  BY <1>21 DEF TrendWrites, TrendFollows, Excused, Pending, Met, timers
<1>22. CASE SwitchedOn
  BY <1>22 DEF SwitchedOn, TrendFollows, Excused, Pending, timers, hist
<1>23. CASE Reboot
  BY <1>23, CommandTypes DEF Reboot, Starts, TrendFollows, Excused, Pending
<1>24. CASE UNCHANGED vars
  BY <1>24 DEF vars, TrendFollows, Excused, Pending, timers, hist
<1>25. CASE CleanGivesUp
  BY <1>25, CommandTypes DEF CleanGivesUp, TrendFollows, Excused, Pending, timers, hist
<1>26. CASE CleanTakes
  BY <1>26, CommandTypes DEF CleanTakes, Semaphore, TrendFollows, Excused, Pending, timers, hist
<1> QED
  BY <1>1, <1>2, <1>3, <1>4, <1>5, <1>6, <1>7, <1>8, <1>9, <1>10, <1>11, <1>12, <1>13,
     <1>14, <1>15, <1>16, <1>17, <1>18, <1>19, <1>20, <1>21, <1>22, <1>23, <1>24,
     <1>25, <1>26, NextSplit

LEMMA ProtectFollowsStep ==
  ASSUME Types, ProtectFollows, [Next]_vars
  PROVE  ProtectFollows'
<1>1. CASE SetCommands
  BY <1>1, CommandTypes DEF SetCommands, set, SetField, ProtectFollows, Excused, Pending,
     Types, Params, Commands, timers, hist
<1>2. CASE cs5463_calib_half_set
  BY <1>2, CommandTypes DEF cs5463_calib_half_set, SetField, ProtectFollows, Excused,
     Pending, Types, Params, timers
<1>3. CASE system_status_reset
  BY <1>3, CommandTypes DEF system_status_reset, ProtectFollows, Excused, Pending, timers,
     hist
<1>4. CASE HttpTakes
  BY <1>4 DEF HttpTakes, Semaphore, ProtectFollows, Excused, Pending, Types, timers, hist
<1>5. CASE HttpTimeout
  BY <1>5, CommandTypes DEF HttpTimeout, ProtectFollows, Excused, Pending, Types, Flags,
     timers
<1>6. CASE HttpSaves
  BY <1>6 DEF HttpSaves, ProtectFollows, Excused, Pending, Types, timers
<1>7. CASE HttpApplies
  BY <1>7, CommandTypes DEF HttpApplies, Armed, Arming, ProtectFollows, Excused, Pending
<1>8. CASE DAT_nFlashDataClean
  BY <1>8, CommandTypes DEF DAT_nFlashDataClean, Cleaned, ProtectFollows, Excused,
     Pending, Flags, timers, hist
<1>9. CASE RoutineReadsTrend
  BY <1>9 DEF RoutineReadsTrend, ReadsFlag, ProtectFollows, Excused, Pending, timers, hist
<1>10. CASE RoutineReadsProtect
  BY <1>10 DEF RoutineReadsProtect, ReadsFlag, ProtectFollows, Excused, Pending, timers,
     hist
<1>11. CASE RoutineArmsTrend
  BY <1>11 DEF RoutineArmsTrend, ProtectFollows, Excused, Pending, hist
<1>12. CASE RoutineArmsProtect
  BY <1>12 DEF RoutineArmsProtect, ProtectFollows, Excused, Pending, hist
<1>13. CASE RoutineReads
  BY <1>13 DEF RoutineReads, ProtectFollows, Excused, Pending, timers, hist
<1>14. CASE OtherTakes
  BY <1>14 DEF OtherTakes, Semaphore, ProtectFollows, Excused, Pending, timers, hist
<1>15. CASE OtherSaves
  BY <1>15 DEF OtherSaves, ProtectFollows, Excused, Pending, timers
<1>16. CASE check_current_timer_cb
  BY <1>16 DEF check_current_timer_cb, ProtectFollows, Excused, Pending, timers, hist
<1>17. CASE trend_record_callback
  BY <1>17 DEF trend_record_callback, ProtectFollows, Excused, Pending, timers, hist
<1>18. CASE TrendCounts
  BY <1>18 DEF TrendCounts, Semaphore, ProtectFollows, Excused, Pending, Types, Params,
     timers, hist
<1>19. CASE TrendTimeout
  BY <1>19 DEF TrendTimeout, ProtectFollows, Excused, Pending, timers
<1>20. CASE TrendSaves
  BY <1>20 DEF TrendSaves, SavesCount, ProtectFollows, Excused, Pending, timers
<1>21. CASE TrendWrites
  BY <1>21 DEF TrendWrites, ProtectFollows, Excused, Pending, Met, timers
<1>22. CASE SwitchedOn
  BY <1>22 DEF SwitchedOn, ProtectFollows, Excused, Pending, timers, hist
<1>23. CASE Reboot
  BY <1>23, CommandTypes DEF Reboot, Starts, ProtectFollows, Excused, Pending
<1>24. CASE UNCHANGED vars
  BY <1>24 DEF vars, ProtectFollows, Excused, Pending, timers, hist
<1>25. CASE CleanGivesUp
  BY <1>25, CommandTypes DEF CleanGivesUp, ProtectFollows, Excused, Pending, timers, hist
<1>26. CASE CleanTakes
  BY <1>26, CommandTypes DEF CleanTakes, Semaphore, ProtectFollows, Excused, Pending, timers, hist
<1> QED
  BY <1>1, <1>2, <1>3, <1>4, <1>5, <1>6, <1>7, <1>8, <1>9, <1>10, <1>11, <1>12, <1>13,
     <1>14, <1>15, <1>16, <1>17, <1>18, <1>19, <1>20, <1>21, <1>22, <1>23, <1>24,
     <1>25, <1>26, NextSplit

-----------------------------------------------------------------------------
(* Who saves, what is counted, what is reported and what is armed, at once. *)
THEOREM ParametersInvariant == Spec => []Inv
<1>1. Inv /\ [Next]_vars => Inv'
  BY TypesStep, BooleansStep, OneSaverStep, CountsStep, PlacedStep, ReportedStep,
     TrendFollowsStep, ProtectFollowsStep DEF Inv
<1> QED
  BY InitInv, <1>1, PTL DEF Spec

(* What a get command reports survives a restart, between requests, unless *)
(* a command gave up before its save (user_cgi.c).                         *)
THEOREM ReportedIsSaved == Spec => []ReportedSurvives
<1>1. Inv => ReportedSurvives
  BY DEF Inv, Reported, ReportedSurvives, trend_enable_get, protect_enable_get, other_get
<1> QED
  BY ParametersInvariant, <1>1, PTL

(* One context saves at a time, the timers follow their settings, and no   *)
(* record is written that was not counted first (user_data.c, cs5463.c).   *)
THEOREM ParametersInOrder == Spec => []ParametersInv
<1>1. Inv => TypeOK
  <2>1. ASSUME Types
        PROVE  /\ ram \in Params /\ flash \in Params /\ sem \in {"free", "http", "trend", "other"}
               /\ http.at \in {"idle", "take", "save", "apply", "clean", "wipe"} /\ http.cmd \in Commands
               /\ cs \in {"trend_flag", "trend_arm", "protect_flag", "protect_arm", "run"}
               /\ trend \in {"idle", "take", "save", "write"}
               /\ index \in Nat /\ wrote.sector \in Nat /\ wrote.record \in 0..RECORDS
               /\ relay \in {"OPEN", "CLOSE"} /\ astray \subseteq Flags \cup Met
    BY <2>1 DEF Types, At
  <2> QED
    BY <2>1, Zenon DEF Inv, Booleans, TypeOK
<1>2. Inv => TimersFollow
  <2> SUFFICES ASSUME Inv, cs = "run", http.at \in {"idle", "clean", "wipe"}
               PROVE  /\ (tTrendRecord = ram.trend \/ "trend" \in astray)
                      /\ (tCheckCurrentTimer = ram.protect \/ "protect" \in astray)
    BY Zenon DEF TimersFollow
  <2>1. ~Pending("trend") /\ ~Pending("protect")
    BY DEF Pending
  <2> QED
    BY <2>1 DEF Inv, TrendFollows, ProtectFollows, Excused
<1>3. Inv => CountedFirst
  BY DEF Inv, Counts, CountedFirst
<1>4. Inv => ParametersInv
  BY <1>1, <1>2, <1>3 DEF Inv, Placed, ParametersInv
<1> QED
  BY ParametersInvariant, <1>4, PTL

-----------------------------------------------------------------------------
(* The configuration that is kept twice.                                   *)
USE SeqAssumption

Values  == Confs \cup {DefaultConf}
Sectors == [whole : BOOLEAN, seq : 0 .. SEQ - 1, value : Values]

Other == 1 - confLoc

Following(n) == (n + 1) % SEQ

StoreTypeOK ==
    /\ sectors \in [{0, 1} -> Sectors]
    /\ myConfig \in [seq : 0 .. SEQ - 1, value : Values]
    /\ confLoc \in {0, 1} /\ saving \in BOOLEAN /\ saved \in Values
    /\ saves \in Int

(* Nothing was ever written whole: a load finds the defaults.              *)
NeverSaved ==
    /\ ~Good(0) /\ ~Good(1)
    /\ confLoc = 1 /\ saved = DefaultConf

(* The current sector holds what was saved last; the number in RAM is its  *)
(* number, or the next one while the other sector is being written.        *)
CurrentHolds ==
    /\ Good(confLoc) /\ sectors[confLoc].value = saved
    /\ myConfig.seq = IF saving THEN Following(sectors[confLoc].seq) ELSE sectors[confLoc].seq

(* The other sector is in the making, or it is the predecessor.            *)
OtherPrecedes ==
    /\ saving => ~Good(Other)
    /\ Good(Other) => sectors[confLoc].seq = Following(sectors[Other].seq)

StoreInv == StoreTypeOK /\ (NeverSaved \/ (CurrentHolds /\ OtherPrecedes))

-----------------------------------------------------------------------------
(* Numbers that follow each other differ by one, also where they wrap.     *)
LEMMA Modulo ==
  ASSUME NEW n \in 0 .. SEQ - 1
  PROVE  /\ n % SEQ = n
         /\ (0 - n) % SEQ = IF n = 0 THEN 0 ELSE SEQ - n
  OBVIOUS

LEMMA OneApart ==
  ASSUME NEW n \in 0 .. SEQ - 1
  PROVE  /\ Following(n) \in 0 .. SEQ - 1
         /\ (Following(n) - n) % SEQ < SEQ \div 2
         /\ ~((n - Following(n)) % SEQ < SEQ \div 2)
<1>1. SEQ \in Nat /\ SEQ >= 4 /\ SEQ \div 2 \in Nat /\ SEQ \div 2 >= 2 /\ SEQ \div 2 <= SEQ - 2
  BY SeqAssumption
<1>2. 1 % SEQ = 1 /\ (0 - 1) % SEQ = SEQ - 1
  BY <1>1, Modulo
<1>3. CASE n = SEQ - 1
  <2>1. Following(n) = 0
    BY <1>1, <1>3 DEF Following
  <2>2. Following(n) - n = 1 - SEQ /\ n - Following(n) = SEQ - 1
    BY <1>1, <1>3, <2>1
  <2>3. (1 - SEQ) % SEQ = 1 /\ (SEQ - 1) % SEQ = SEQ - 1
    BY <1>1
  <2> QED
    BY <1>1, <2>1, <2>2, <2>3
<1>4. CASE n < SEQ - 1
  <2>1. Following(n) = n + 1
    BY <1>1, <1>4, Modulo DEF Following
  <2> QED
    BY <1>1, <1>2, <1>4, <2>1
<1> QED
  BY <1>3, <1>4, <1>1

(* A load takes the current sector, and what it holds is what was saved.   *)
LEMMA LoadsCurrent ==
  ASSUME StoreInv
  PROVE  /\ Loaded.value = saved
         /\ Latest = (IF NeverSaved THEN -1 ELSE confLoc)
         /\ Loaded = (IF NeverSaved THEN [seq |-> 0, value |-> DefaultConf]
                      ELSE [seq |-> sectors[confLoc].seq, value |-> sectors[confLoc].value])
<1>1. CASE NeverSaved
  BY <1>1 DEF NeverSaved, Loaded, Latest
<1>2. CASE ~NeverSaved
  <2>1. StoreTypeOK /\ CurrentHolds /\ OtherPrecedes
    BY <1>2 DEF StoreInv
  <2>2. Latest = confLoc
    <3>1. CASE ~Good(Other)
      BY <2>1, <3>1 DEF StoreTypeOK, CurrentHolds, Latest, Other
    <3>2. CASE Good(Other) /\ confLoc = 1
      <4>1. sectors[0].seq \in 0 .. SEQ - 1 /\ sectors[1].seq = Following(sectors[0].seq)
        BY <2>1, <3>2 DEF StoreTypeOK, Sectors, OtherPrecedes, Other
      <4>2. Newer
        BY <4>1, OneApart DEF Newer
      <4> QED
        BY <2>1, <3>2, <4>2 DEF CurrentHolds, Latest, Other
    <3>3. CASE Good(Other) /\ confLoc = 0
      <4>1. sectors[1].seq \in 0 .. SEQ - 1 /\ sectors[0].seq = Following(sectors[1].seq)
        BY <2>1, <3>3 DEF StoreTypeOK, Sectors, OtherPrecedes, Other
      <4>2. ~Newer
        BY <4>1, OneApart DEF Newer
      <4> QED
        BY <2>1, <3>3, <4>2 DEF CurrentHolds, Latest, Other
    <3> QED
      BY <2>1, <3>1, <3>2, <3>3 DEF StoreTypeOK
  <2>3. Latest # -1
    BY <2>1, <2>2 DEF StoreTypeOK
  <2> QED
    BY <1>2, <2>1, <2>2, <2>3 DEF Loaded, CurrentHolds
<1> QED
  BY <1>1, <1>2

-----------------------------------------------------------------------------
LEMMA StoreStart == StoreInit => StoreInv
<1> SUFFICES ASSUME StoreInit
             PROVE  StoreInv
  OBVIOUS
<1>1. StoreTypeOK
  <2>1. 0 \in 0 .. SEQ - 1 /\ DefaultConf \in Values
    BY DEF Values
  <2>2. NotWhole \in Sectors
    BY <2>1 DEF NotWhole, Sectors
  <2>3. sectors \in [{0, 1} -> Sectors]
    BY <2>2 DEF StoreInit
  <2>4. myConfig \in [seq : 0 .. SEQ - 1, value : Values]
    BY <2>1 DEF StoreInit
  <2>5. saving \in BOOLEAN
    BY Zenon DEF StoreInit
  <2> QED
    BY <2>1, <2>3, <2>4, <2>5 DEF StoreInit, StoreTypeOK
<1>2. NeverSaved
  BY DEF StoreInit, NeverSaved, Good, NotWhole
<1> QED
  BY <1>1, <1>2 DEF StoreInv

LEMMA StoreStep == StoreInv /\ [Store]_storevars => StoreInv'
<1> SUFFICES ASSUME StoreInv, [Store]_storevars
             PROVE  StoreInv'
  OBVIOUS
<1>t. StoreTypeOK
  BY DEF StoreInv
<1>n. Following(myConfig.seq) \in 0 .. SEQ - 1
  BY <1>t, OneApart DEF StoreTypeOK
<1>1. CASE Changes
  <2>1. PICK v \in Confs : myConfig' = [myConfig EXCEPT !.value = v]
    BY <1>1 DEF Changes
  <2>2. UNCHANGED <<sectors, confLoc, saving, saved, saves>> /\ myConfig'.seq = myConfig.seq
    BY <1>1, <1>t, <2>1 DEF Changes, StoreTypeOK
  <2>3. StoreTypeOK'
    BY <1>t, <2>1, <2>2 DEF StoreTypeOK, Values
  <2> QED
    BY <2>2, <2>3 DEF StoreInv, NeverSaved, CurrentHolds, OtherPrecedes, Good, Other
<1>2. CASE configSave
  <2>1. /\ ~saving /\ saving' = TRUE
        /\ myConfig' = [myConfig EXCEPT !.seq = Following(@)]
        /\ sectors' = [sectors EXCEPT ![Other] = NotWhole]
        /\ UNCHANGED <<confLoc, saved>> /\ saves' \in Int
    BY <1>2, <1>t DEF configSave, Following, Other, StoreTypeOK
  <2>2. NotWhole \in Sectors /\ ~NotWhole.whole
    BY DEF NotWhole, Sectors, Values
  <2>3. sectors'[Other] = NotWhole /\ sectors'[confLoc] = sectors[confLoc] /\ Other # confLoc
    BY <1>t, <2>1 DEF StoreTypeOK, Other
  <2>4. myConfig'.seq = Following(myConfig.seq)
    BY <1>t, <2>1 DEF StoreTypeOK
  <2>5. StoreTypeOK'
    BY <1>t, <1>n, <2>1, <2>2 DEF StoreTypeOK, Other
  <2>6. CASE NeverSaved
    BY <1>t, <2>1, <2>2, <2>5, <2>6 DEF StoreInv, StoreTypeOK, NeverSaved, Good, Other
  <2>7. CASE CurrentHolds /\ OtherPrecedes
    <3>1. CurrentHolds'
      BY <2>1, <2>3, <2>4, <2>7 DEF CurrentHolds, Good, Following
    <3>2. OtherPrecedes'
      BY <2>1, <2>2, <2>3 DEF OtherPrecedes, Good, Other
    <3> QED
      BY <2>5, <3>1, <3>2 DEF StoreInv
  <2> QED
    BY <2>6, <2>7 DEF StoreInv
<1>3. CASE SaveWrites
  <2>1. /\ saving /\ saving' = FALSE
        /\ sectors' = [sectors EXCEPT ![Other] = Written(myConfig)]
        /\ confLoc' = Other /\ saved' = myConfig.value
        /\ UNCHANGED <<myConfig, saves>>
    BY <1>3 DEF SaveWrites, Other
  <2>2. Written(myConfig) \in Sectors
    BY <1>t DEF Written, Sectors, StoreTypeOK
  <2>3. /\ sectors'[Other] = Written(myConfig) /\ sectors'[confLoc] = sectors[confLoc]
        /\ Other # confLoc /\ Other \in {0, 1} /\ Other' = confLoc
    BY <1>t, <2>1 DEF StoreTypeOK, Other
  <2>4. StoreTypeOK'
    BY <1>t, <2>1, <2>2, <2>3 DEF StoreTypeOK
  <2>5. CurrentHolds'
    BY <2>1, <2>3 DEF CurrentHolds, Good, Written
  <2>6. OtherPrecedes'
    <3>1. CASE NeverSaved
      <4>1. ~Good(confLoc)
        BY <1>t, <3>1 DEF NeverSaved, StoreTypeOK
      <4> QED
        BY <2>1, <2>3, <4>1 DEF OtherPrecedes, Good
    <3>2. CASE CurrentHolds
      BY <2>1, <2>3, <3>2 DEF OtherPrecedes, CurrentHolds, Good, Written, Following
    <3> QED
      BY <3>1, <3>2 DEF StoreInv
  <2> QED
    BY <2>4, <2>5, <2>6 DEF StoreInv
<1>4. CASE PowerLost
  <2>1. /\ myConfig' = Loaded /\ saving' = FALSE
        /\ confLoc' = IF Latest = -1 THEN 1 ELSE Latest
        /\ UNCHANGED <<sectors, saved>> /\ saves' \in Int
    BY <1>4, <1>t DEF PowerLost, configLoad, StoreTypeOK
  <2>2. confLoc' = confLoc
    BY <1>t, <2>1, LoadsCurrent DEF StoreTypeOK, NeverSaved
  <2>3. StoreTypeOK'
    <3>1. Loaded \in [seq : 0 .. SEQ - 1, value : Values]
      BY <1>t, LoadsCurrent DEF StoreTypeOK, Sectors, Values
    <3> QED
      BY <1>t, <2>1, <2>2, <3>1 DEF StoreTypeOK
  <2>4. CASE NeverSaved
    BY <2>1, <2>2, <2>3, <2>4 DEF StoreInv, NeverSaved, Good
  <2>5. CASE ~NeverSaved
    <3>1. CurrentHolds /\ OtherPrecedes
      BY <2>5 DEF StoreInv
    <3>2. myConfig'.seq = sectors[confLoc].seq
      BY <2>1, <2>5, LoadsCurrent
    <3> QED
      BY <2>1, <2>2, <2>3, <3>1, <3>2 DEF StoreInv, CurrentHolds, OtherPrecedes, Good, Other, Following
  <2> QED
    BY <2>4, <2>5
<1>5. CASE UNCHANGED storevars
  BY <1>5 DEF storevars, StoreInv, StoreTypeOK, NeverSaved, CurrentHolds, OtherPrecedes,
              Good, Other, Following
<1> QED
  BY <1>1, <1>2, <1>3, <1>4, <1>5 DEF Store

(* configSave and configLoad: at every moment one sector is the current    *)
(* one, whole and numbered as it is in RAM, the other is its predecessor   *)
(* or in the making.                                                       *)
THEOREM SectorsInOrder == StoreSpec => []StoreInv
<1>1. StoreInv /\ [Store]_storevars => StoreInv'
  BY StoreStep
<1> QED
  BY StoreStart, <1>1, PTL DEF StoreSpec

LEMMA LoadsSavedThen == StoreInv' => (Loaded.value = saved)'
<1>1. StoreInv => Loaded.value = saved
  BY LoadsCurrent
<1> QED
  BY <1>1, PTL

(* What a load would find changes when a save has written its sector, and  *)
(* only then; what is in use changes with a setting or a start.            *)
LEMMA RegisterStep == StoreInv /\ StoreInv' /\ [Store]_storevars => [Reg!Next]_Reg!vars
<1> SUFFICES ASSUME StoreInv, StoreInv', [Store]_storevars
             PROVE  Reg!Next \/ UNCHANGED Reg!vars
  OBVIOUS
<1>l. Loaded.value = saved /\ (Loaded.value)' = saved'
  BY LoadsCurrent, LoadsSavedThen
<1>1. CASE Changes
  <2>1. (myConfig.value)' \in Confs /\ saved' = saved
    BY <1>1 DEF Changes, StoreInv, StoreTypeOK
  <2> QED
    BY <1>l, <2>1 DEF Reg!Next, Reg!Change
<1>2. CASE configSave
  <2>1. (myConfig.value)' = myConfig.value /\ saved' = saved
    BY <1>2 DEF configSave, StoreInv, StoreTypeOK
  <2> QED
    BY <1>l, <2>1 DEF Reg!vars
<1>3. CASE SaveWrites
  <2>1. (myConfig.value)' = myConfig.value /\ saved' = myConfig.value
    BY <1>3 DEF SaveWrites
  <2> QED
    BY <1>l, <2>1 DEF Reg!Next, Reg!Save
<1>4. CASE PowerLost
  <2>1. (myConfig.value)' = Loaded.value /\ saved' = saved
    BY <1>4 DEF PowerLost, configLoad
  <2> QED
    BY <1>l, <2>1 DEF Reg!Next, Reg!Restart
<1>5. CASE UNCHANGED storevars
  <2>1. (myConfig.value)' = myConfig.value /\ saved' = saved
    BY <1>5 DEF storevars
  <2> QED
    BY <1>l, <2>1 DEF Reg!vars
<1> QED
  BY <1>1, <1>2, <1>3, <1>4, <1>5 DEF Store

(* configSave, its erased sector, its numbers and the loads that compare   *)
(* them implement one value that is saved at an instant or not at all.     *)
THEOREM StoreImplementsRegister == StoreSpec => ImplementsRegister
<1>1. StoreInit => Reg!Init
  <2>1. StoreInit => ~Good(0) /\ ~Good(1)
    BY DEF StoreInit, Good, NotWhole
  <2> QED
    BY <2>1 DEF StoreInit, Reg!Init, Loaded, Latest
<1> QED
  BY <1>1, SectorsInOrder, RegisterStep, PTL DEF StoreSpec, ImplementsRegister, Reg!Spec

-----------------------------------------------------------------------------
LEMMA StoresStart == StoresInit => StoreInv /\ TokenInv
  BY StoreStart, TokenStart DEF StoresInit

LEMMA StoresStep ==
  StoreInv /\ TokenInv /\ [StoresNext]_<<storevars, paramvars>> => StoreInv' /\ TokenInv'
<1> SUFFICES ASSUME StoreInv, TokenInv, [StoresNext]_<<storevars, paramvars>>
             PROVE  StoreInv' /\ TokenInv'
  OBVIOUS
<1>1. [Store]_storevars /\ [Param]_paramvars
  BY DEF StoresNext, ConfigStep, ParamStep
<1> QED
  BY <1>1, StoreStep, TokenStep

(* What was saved last is what a start loads, wherever the power goes off: *)
(* the configuration, for every range of the numbers and however often     *)
(* they wrap, and each character of the token, whatever tokens came since  *)
(* that did not fit or did not reach it.                                   *)
THEOREM SavedSurvives == StoresSpec => StoreSurvives
<1>1. StoreInv => ConfigSurvives
  BY LoadsCurrent DEF ConfigSurvives
<1>2. TokenInv => TokenSurvives
  <2>1. \A tokens : <<tokens>> # <<>>
    OBVIOUS
  <2> QED
    BY <2>1, Zenon DEF TokenInv, TokenSurvives, user_esp_platform_get_token
<1>3. StoresSpec => [](ConfigSurvives /\ TokenSurvives)
  BY <1>1, <1>2, StoresStart, StoresStep, PTL DEF StoresSpec
<1>4. StoresSpec => StoreSpec
  <2>1. [StoresNext]_<<storevars, paramvars>> => [Store]_storevars
    BY DEF StoresNext, ConfigStep, ParamStep
  <2> QED
    BY <2>1, PTL DEF StoresSpec, StoresInit, StoreSpec
<1> QED
  BY <1>3, <1>4, StoreImplementsRegister DEF StoreSurvives

-----------------------------------------------------------------------------
(* The query for the trend records, of a log laid out as in Parameters.    *)
CONSTANTS WORD, INTERVAL, QUERY, BYTE

Q == INSTANCE TrendQuery

USE LayoutAssumption

(* A number, less its remainder, is at least the divisor.                  *)
LEMMA RestOf ==
  ASSUME NEW m \in Nat \ {0}, NEW n \in Nat, n > m
  PROVE  n % m \in 0 .. m - 1 /\ n - (n % m) >= m
<1>1. n % m \in 0 .. m - 1 /\ n = m * (n \div m) + (n % m) /\ n \div m \in Nat
  OBVIOUS
<1>2. n \div m # 0
  BY <1>1
<1>3. n \div m >= 1
  BY <1>1, <1>2
<1>4. \A k \in Nat : k >= 1 => m * k >= m
  OBVIOUS
<1> QED
  BY <1>1, <1>3, <1>4

(* The length that is reported is short of the number of records.         *)
LEMMA LogLength ==
  ASSUME NEW num \in Nat
  PROVE  /\ num = 0 => Q!DAT_nGetTrendLength(num) = -1
         /\ num # 0 => Q!DAT_nGetTrendLength(num) \in 0 .. num - 1
         /\ num \in 1 .. Q!MAX => Q!DAT_nGetTrendLength(num) = 0
         /\ Q!MAX \in Nat \ {0}
<1>1. Q!MAX \in Nat /\ Q!MAX >= PER
  <2>1. \A k \in Nat \ {0} : PER * k \in Nat /\ PER * k >= PER
    OBVIOUS
  <2> QED
    BY <2>1 DEF Q!MAX
<1>2. CASE num = 0
  BY <1>1, <1>2 DEF Q!DAT_nGetTrendLength
<1>3. CASE num \in 1 .. Q!MAX
  BY <1>1, <1>3 DEF Q!DAT_nGetTrendLength
<1>4. CASE num > Q!MAX
  <2>1. num % Q!MAX \in 0 .. Q!MAX - 1 /\ num - (num % Q!MAX) >= Q!MAX
    BY <1>1, <1>4, RestOf
  <2>2. Q!DAT_nGetTrendLength(num) = (Q!MAX - PER) + (num % Q!MAX)
    BY <1>1, <1>4 DEF Q!DAT_nGetTrendLength
  <2> QED
    BY <1>1, <1>4, <2>1, <2>2
<1> QED
  BY <1>1, <1>2, <1>3, <1>4

(* trend_get: since the times of the first and of the last record are read *)
(* where none was written, a query that is answered with records is        *)
(* answered with one, the last that was logged, whatever was asked for.    *)
THEOREM OnlyTheLastRecord ==
  ASSUME WORD \in Nat, BYTE \in Nat, BYTE > 1, INTERVAL \in Nat \ {0}, QUERY \in Nat \ {0},
         NEW num \in 0 .. WORD - 1, NEW from \in 0 .. WORD - 1, NEW to \in 0 .. WORD - 1,
         Q!trend_get(num, from, to).answer = "trend"
  PROVE  Q!trend_get(num, from, to).records = <<num - 1>> /\ num > 0
<1> DEFINE start   == IF to - from > Q!QUERY_LEN THEN to - Q!QUERY_LEN ELSE from
           records == Q!DAT_pGetTrends(num, start, to)
           blank   == WORD - 1
<1> HIDE DEF start, records, blank
<1>0. Q!LastTime = blank /\ Q!EarliestTime = blank /\ blank \in Nat
  BY DEF Q!LastTime, Q!EarliestTime, Q!Blank, blank
<1>1. /\ to > from /\ records # <<>>
      /\ Q!trend_get(num, from, to) = [answer |-> "trend", records |-> records]
  <2> DEFINE got == Q!trend_get(num, from, to)
  <2>0. got = CASE from = 0 /\ to = 0 ->
                     IF Q!DAT_nGetTrendLength(num) < 0 THEN Q!Error
                     ELSE [answer |-> "length", from |-> Q!EarliestTime, to |-> Q!LastTime]
                [] to <= from /\ from > 0 -> Q!Error
                [] to > from ->
                     IF records = <<>> THEN Q!Error ELSE [answer |-> "trend", records |-> records]
    BY DEF Q!trend_get, start, records
  <2> HIDE DEF got
  <2>1. CASE from = 0 /\ to = 0
    <3>1. got.answer \in {"error", "length"}
      BY <2>0, <2>1 DEF Q!Error
    <3> QED BY <3>1 DEF got
  <2>2. CASE to <= from /\ from > 0
    <3>1. got = Q!Error
      BY <2>0, <2>2
    <3> QED BY <3>1 DEF Q!Error, got
  <2>3. CASE to > from
    <3>1. got = IF records = <<>> THEN Q!Error ELSE [answer |-> "trend", records |-> records]
      BY <2>0, <2>3
    <3> QED BY <2>3, <3>1 DEF Q!Error, got
  <2> QED BY <2>1, <2>2, <2>3
<1>2. /\ num > 0 /\ to = blank
      /\ Q!DAT_nGetTrendLength(num) >= 0
  <2>1. records # <<>>
    BY <1>1
  <2>2. ~(Q!DAT_nGetTrendLength(num) < 0) /\ ~(to < blank)
    BY <1>0, <2>1 DEF records, Q!DAT_pGetTrends
  <2> QED BY <2>2, LogLength DEF blank
<1>3. start \in Int /\ start < blank
  <2>1. Q!QUERY_LEN \in Nat \ {0}
    BY DEF Q!QUERY_LEN
  <2> QED BY <1>1, <1>2, <2>1 DEF start, blank
<1>4. Q!EndIndex(num, blank) = num - 1
  BY <1>0 DEF Q!EndIndex
<1> DEFINE first == (num - Q!DAT_nGetTrendLength(num)) % WORD
           at    == Q!StartIndex(num, blank, blank)
           n     == (num - 1 - at + 1) % BYTE
<1>5. /\ Q!DAT_nGetTrendLength(num) \in 0 .. num - 1
      /\ first = num - Q!DAT_nGetTrendLength(num)
  <2>1. Q!DAT_nGetTrendLength(num) \in 0 .. num - 1
    BY <1>2, LogLength
  <2>2. \A k \in 0 .. num - 1 : (num - k) % WORD = num - k
    OBVIOUS
  <2> QED BY <2>1, <2>2
<1>6. at = IF num - 1 < first THEN first ELSE num - 1
  <2>1. ((blank - blank) \div INTERVAL + 1) % BYTE = 1
    <3>1. blank - blank = 0 /\ 0 \div INTERVAL = 0
      BY <1>0
    <3> QED BY <3>1
  <2>2. (num - 1 + 1 - 1) % WORD = num - 1
    BY <1>2
  <2> QED BY <1>4, <2>1, <2>2 DEF Q!StartIndex
<1> HIDE DEF at, first
<1>7. records = [i \in 1..n |-> Q!getSpecifiedTrendRecordByIndex(num, (at + i - 1) % WORD)]
  <2>1. records # <<>> /\ ~(blank < blank)
    BY <1>0, <1>1
  <2>2. (IF to > blank THEN blank ELSE to) = blank /\ (IF start < blank THEN blank ELSE start) = blank
    BY <1>2, <1>3, <1>0
  <2> QED
    BY <1>0, <1>4, <2>1, <2>2 DEF records, Q!DAT_pGetTrends, at
<1>8. CASE num - 1 < first
  <2>1. n = 0
    BY <1>5, <1>6, <1>8
  <2> QED BY <1>1, <1>7, <2>1
<1>9. CASE ~(num - 1 < first)
  <2>1. n = 1 /\ at = num - 1
    BY <1>2, <1>6, <1>9
  <2>2. Q!Held(num, num - 1)
    BY <1>2, LogLength DEF Q!Held
  <2>3. (at + 1 - 1) % WORD = num - 1
    BY <1>2, <2>1
  <2>4. records = [i \in 1..1 |-> num - 1]
    BY <1>7, <2>1, <2>2, <2>3 DEF Q!getSpecifiedTrendRecordByIndex
  <2>5. [i \in 1..1 |-> num - 1] = <<num - 1>>
    OBVIOUS
  <2> QED BY <1>1, <1>2, <2>4, <2>5
<1> QED BY <1>8, <1>9
=================================================================================
