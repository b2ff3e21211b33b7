------------------------------ MODULE ConfigApi ------------------------------
(***************************************************************************)
(* The commands of app/user/user_cgi.c, one after the other: cgiEspApi     *)
(* finds the command in espCgiApiNodes; a POST calls its set function with *)
(* the JSON text, a GET its get function.  How the save of a command races *)
(* other tasks is module Parameters, the Wi-Fi command WifiPlatform, the   *)
(* trend query is left out.  A JSON text is not JSON, or has no "set", or  *)
(* it is the function from the names in its "set" to their values.         *)
(***************************************************************************)
EXTENDS Integers

CONSTANTS
    NotJson, NoSet,
    NoAnswer,    \* nothing was answered yet
    Calls,       \* the files and commands that are asked for
    Bodies,      \* command -> the texts that are posted with it
    REQUESTS     \* bound: POSTs that set something in a behaviour

VARIABLES
    ram,         \* tSmartSocketParameter: what the commands read and write of it
    flash,       \* its saved copy
    plug,        \* what else the commands have an effect on
    told,        \* what the last request was for, and the answer
    requests     \* how many POSTs there were

(* History. *)
VARIABLES
    meant,       \* the parameters as the commands that were carried out meant them
    stray,       \* those that a command has set which then failed
    unsaved      \* those that were set since the last save

apihist == <<meant, stray, unsaved>>
apivars == <<ram, flash, plug, told, requests, apihist>>

MIN_CURRENT_THRESHOLD == 1
MAX_CURRENT_THRESHOLD == 10
MAX_SNTP_SERVER_NUM   == 3
MAX_TCP_PORT          == 65535

(* A JSON value, and what cJSON has for one that is of another type.       *)
JsonNumber(n)   == [type |-> "number", number |-> n]
JsonText(t)     == [type |-> "text", text |-> t]
valueint(v) == IF v.type = "number" THEN v.number ELSE 0

(* DAT_nFlashDataClean *)
Clean ==
    [sntp |-> 1, manual |-> 1, trend |-> 0, protect |-> 0, threshold |-> 9,
     iMax |-> 9, vMax |-> 225, servers |-> <<"cn", "asia", "pool">>, schedule |-> "",
     server |-> "", host |-> "", token |-> "", url |-> "http://www.zulolo.cn", port |-> 80]

Fields == DOMAIN Clean

AtRest == [relay |-> "OPEN", calib |-> FALSE, protecting |-> FALSE, trending |-> FALSE,
           event |-> "none", bin |-> "user1", upgrades |-> {}]

Told(how, node, answer) == [how |-> how, node |-> node, answer |-> answer]
NothingTold == Told("none", 0, NoAnswer)

(* systemInit and the starts of user_main.c: the parameters as they were   *)
(* saved.  What was not saved is as if it had not been asked for.          *)
systemInit(bin) ==
    /\ ram' = flash
    /\ plug' = [AtRest EXCEPT !.bin = bin, !.protecting = flash.protect = 1,
                              !.trending = flash.trend = 1]
    /\ meant' = [f \in Fields |-> IF f \in unsaved THEN flash[f] ELSE meant[f]]
    /\ unsaved' = {}
    /\ UNCHANGED <<flash, stray>>

ApiInit ==
    /\ ram = Clean /\ flash = Clean /\ plug = AtRest
    /\ told = NothingTold /\ requests = 0
    /\ meant = Clean /\ stray = {} /\ unsaved = {}

-----------------------------------------------------------------------------
(* The set functions: what is in RAM when they return or come to the save, *)
(* whether they save, and what they do once that is done.                  *)
Returns(r)      == [ram |-> r, saves |-> FALSE, then |-> plug, ok |-> FALSE]
Saves(r, after) == [ram |-> r, saves |-> TRUE, then |-> after, ok |-> TRUE]
Does(r, after)  == [ram |-> r, saves |-> FALSE, then |-> after, ok |-> TRUE]

Has(body, name) == body \notin {NotJson, NoSet} /\ name \in DOMAIN body

(* A flag is one bit wide. *)
FlagSet(body, flag, timer) ==
    IF Has(body, "enable") /\ body["enable"].type = "number"
    THEN LET bit == valueint(body["enable"]) % 2
         IN  Saves([ram EXCEPT ![flag] = bit],
                   IF timer = "none" THEN plug ELSE [plug EXCEPT ![timer] = bit = 1])
    ELSE Returns(ram)

trend_enable_set(body)   == FlagSet(body, "trend", "trending")
protect_enable_set(body) == FlagSet(body, "protect", "protecting")
manual_enable_set(body)  == FlagSet(body, "manual", "none")

InRange(n) == n >= MIN_CURRENT_THRESHOLD /\ n <= MAX_CURRENT_THRESHOLD

current_threshold_set(body) ==
    IF Has(body, "current_threshold") /\ InRange(valueint(body["current_threshold"]))
    THEN Saves([ram EXCEPT !.threshold = valueint(body["current_threshold"])], plug)
    ELSE Returns(ram)

sntp_set(body) ==
    LET index == valueint(body["index"]) + 1
    IN  CASE Has(body, "sntp") ->
               IF /\ Has(body, "index") /\ index \in 1..MAX_SNTP_SERVER_NUM
                  /\ Has(body, "url") /\ body["url"].text # "long"
               THEN Saves([ram EXCEPT !.servers[index] = body["url"].text], plug)
               ELSE Returns(ram)
          [] ~Has(body, "sntp") /\ Has(body, "enable") ->
               IF valueint(body["enable"]) \in {0, 1}
               THEN Saves([ram EXCEPT !.sntp = valueint(body["enable"])], plug)
               ELSE Returns(ram)
          [] OTHER -> Returns(ram)

(* The first field is set before the second one is looked for. *)
WithNumber(r, field, v) == IF v.type = "number" THEN [r EXCEPT ![field] = v.number] ELSE r

cs5463_calib_set(body) ==
    CASE ~Has(body, "I_Max") -> Returns(ram)
      [] Has(body, "I_Max") /\ ~Has(body, "V_Max") -> Returns(WithNumber(ram, "iMax", body["I_Max"]))
      [] Has(body, "I_Max") /\ Has(body, "V_Max") ->
           Saves(WithNumber(WithNumber(ram, "iMax", body["I_Max"]), "vMax", body["V_Max"]), plug)

(* user_platform_timer_reset, user_platform_timer_start (RelaySchedule).   *)
relay_schedule_set(body) ==
    CASE Has(body, "reset")  -> Saves([ram EXCEPT !.schedule = ""], plug)
      [] ~Has(body, "reset") /\ Has(body, "timers") ->
           Saves([ram EXCEPT !.schedule = body["timers"].text], plug)
      [] OTHER -> Returns(ram)

switch_status_set(body) ==
    IF ~plug.calib /\ Has(body, "status") /\ body["status"].type = "number"
    THEN LET status == IF valueint(body["status"]) = 1 THEN "CLOSE" ELSE "OPEN"
         IN  Does(ram, [plug EXCEPT !.relay = status, !.event = status])
    ELSE Returns(ram)

(* The four texts of an upgrade are set one by one, each cut to its field; *)
(* the port is optional.  None of them is saved.                           *)
Kept(v) == IF v.text = "long" THEN "long, cut" ELSE v.text

Keys == <<"upgrade_server", "upgrade_host", "upgrade_token", "upgrade_url">>

WithTexts(body) ==
    LET present(i) == \A j \in 1..i : Has(body, Keys[j])
        text(i, old) == IF present(i) THEN Kept(body[Keys[i]]) ELSE old
    IN  [ram EXCEPT !.server = text(1, @), !.host = text(2, @), !.token = text(3, @), !.url = text(4, @)]

Port(body, r) ==
    IF Has(body, "upgrade_port") /\ valueint(body["upgrade_port"]) \in 1..MAX_TCP_PORT
    THEN [r EXCEPT !.port = valueint(body["upgrade_port"])] ELSE r

OtherBin_same(bin) == bin    \* mutant: the image that runs

OtherBin(bin) == IF bin = "user1" THEN "user2" ELSE "user1"

(* user_esp_platform_upgrade_begin: a task of its own for the other image, *)
(* with its copy of the request, whatever tasks of former requests run:    *)
(* pxCreatedTask is never set.  What they then do to each other's buffer,  *)
(* totals and area is the matter of Upgrade.  The tasks that run are the   *)
(* set of their requests.                                                  *)
UpgradeTask(r, bin) ==
    [server |-> r.server, port |-> r.port, host |-> r.host, token |-> r.token,
     url |-> <<r.url, OtherBin(bin)>>]

user_esp_platform_upgrade_begin(r) ==
    [plug EXCEPT !.upgrades = @ \cup {UpgradeTask(r, plug.bin)}]

user_upgrade_start(body) ==
    LET r == WithTexts(body)
    IN  IF \A i \in 1..4 : Has(body, Keys[i])
        THEN Does(Port(body, r), user_esp_platform_upgrade_begin(Port(body, r)))
        ELSE Returns(r)

(* debug_smart_config, user_upgrade_reset: nothing of this module changes. *)
debug_smart_config(body) == IF Has(body, "enable") THEN Does(ram, plug) ELSE Returns(ram)
user_upgrade_reset(body) == Does(ram, plug)

(* system_status_reset: the event list and the parameters are clean, and   *)
(* saved; the timers are left as they are.                                 *)
system_status_reset == Saves(Clean, [plug EXCEPT !.event = "none", !.calib = FALSE])

-----------------------------------------------------------------------------
(* The get functions. *)
user_plug_get_status     == plug.relay
switch_status_get(r)     == [status |-> user_plug_get_status]
manual_enable_get(r)     == [enable |-> r.manual]
relay_schedule_get(r)    == [timers |-> r.schedule]
current_threshold_get(r) == [current_threshold |-> r.threshold]
trend_enable_get(r)      == [enable |-> r.trend]
protect_enable_get(r)    == [enable |-> r.protect]
sntp_get(r)              == [enable |-> r.sntp, servers |-> r.servers]
cs5463_calib_get(r)      == [I_Max |-> r.iMax, V_Max |-> r.vMax]
update_url_get(r)        == [upgrade_url |-> r.server, upgrade_port |-> r.port]
user_binfo_get(r)        == [user_bin |-> plug.bin]
event_history_get(r)     == [event |-> plug.event]

(* Constants, and readings that nothing here depends on. *)
system_info_get       == [hardware |-> "0.3", product |-> "Smart Plug"]
temperature_value_get == [temperature |-> 27, unit |-> "C"]
voltage_value_get     == [voltage |-> "V_RMS", unit |-> "V"]
power_value_get       == [power |-> "active power", unit |-> "W"]
current_value_get     == [current |-> "I_RMS, or 0 up to 10 mA", unit |-> "mA"]
signal_strength_get   == [signal |-> "rssi"]
connect_status_get    == [status |-> "device status"]
meter_status_get      == [status |-> "status register"]
upgrade_status_get    == [upgrade_status |-> "flag and progress (Upgrade)"]

-----------------------------------------------------------------------------
(* file, command, and the functions there are for it.                      *)
espCgiApiNodes ==
    <<<<"config", "switch", {"get", "set"}>>, <<"config", "manual", {"get", "set"}>>,
      <<"config", "debug", {"set"}>>, <<"config", "schedule", {"get", "set"}>>,
      <<"config", "threshold", {"get", "set"}>>, <<"config", "trendenable", {"get", "set"}>>,
      <<"config", "protectenable", {"get", "set"}>>, <<"config", "sntp", {"get", "set"}>>,
      <<"config", "calib", {"get", "set"}>>, <<"config", "reset", {"set"}>>,
      <<"config", "reboot", {"set"}>>, <<"client", "status", {"get"}>>,
      <<"client", "meterstatus", {"get"}>>, <<"client", "info", {"get"}>>,
      <<"client", "updateurl", {"get"}>>, <<"client", "rssi", {"get"}>>,
      <<"client", "current", {"get"}>>, <<"client", "voltage", {"get"}>>,
      <<"client", "power", {"get"}>>, <<"client", "temperature", {"get"}>>,
      <<"client", "event", {"get"}>>, <<"upgrade", "getstatus", {"get"}>>,
      <<"upgrade", "getuser", {"get"}>>, <<"upgrade", "start", {"set"}>>,
      <<"upgrade", "reset", {"set"}>>>>

Nodes == DOMAIN espCgiApiNodes

NotFound == 0

MatchesNode(node, file, command) == node[1] = file /\ node[2] = command

Files    == {"config", "client", "upgrade"}
Commands == {espCgiApiNodes[i][2] : i \in Nodes}

(* The first one that matches. *)
Find ==
    [call \in Files \X Commands |->
        LET found == {i \in Nodes : MatchesNode(espCgiApiNodes[i], call[1], call[2])}
        IN  IF found = {} THEN NotFound ELSE CHOOSE i \in found : \A j \in found : i <= j]

NodeOf(file, command) == CHOOSE i \in Nodes : espCgiApiNodes[i][1] = file /\ espCgiApiNodes[i][2] = command

ConfigReset  == NodeOf("config", "reset")
UpgradeReset == NodeOf("upgrade", "reset")
Reboot       == NodeOf("config", "reboot")

HasGet(i) == i # NotFound /\ "get" \in espCgiApiNodes[i][3]
HasSet(i) == i # NotFound /\ "set" \in espCgiApiNodes[i][3]

Sets(i, body) ==
    LET command == espCgiApiNodes[i][2]
    IN  CASE i = ConfigReset  -> system_status_reset
          [] i = UpgradeReset -> user_upgrade_reset(body)
          [] command = "switch"        -> switch_status_set(body)
          [] command = "manual"        -> manual_enable_set(body)
          [] command = "debug"         -> debug_smart_config(body)
          [] command = "schedule"      -> relay_schedule_set(body)
          [] command = "threshold"     -> current_threshold_set(body)
          [] command = "trendenable"   -> trend_enable_set(body)
          [] command = "protectenable" -> protect_enable_set(body)
          [] command = "sntp"          -> sntp_set(body)
          [] command = "calib"         -> cs5463_calib_set(body)
          [] command = "start"         -> user_upgrade_start(body)

Gets(i, r) ==
    LET command == espCgiApiNodes[i][2]
    IN  CASE command = "switch"        -> switch_status_get(r)
          [] command = "manual"        -> manual_enable_get(r)
          [] command = "schedule"      -> relay_schedule_get(r)
          [] command = "threshold"     -> current_threshold_get(r)
          [] command = "trendenable"   -> trend_enable_get(r)
          [] command = "protectenable" -> protect_enable_get(r)
          [] command = "sntp"          -> sntp_get(r)
          [] command = "calib"         -> cs5463_calib_get(r)
          [] command = "updateurl"     -> update_url_get(r)
          [] command = "getstatus"     -> upgrade_status_get
          [] command = "getuser"       -> user_binfo_get(r)
          [] command = "event"         -> event_history_get(r)
          [] command = "info"          -> system_info_get
          [] command = "temperature"   -> temperature_value_get
          [] command = "voltage"       -> voltage_value_get
          [] command = "power"         -> power_value_get
          [] command = "current"       -> current_value_get
          [] command = "rssi"          -> signal_strength_get
          [] command = "status"        -> connect_status_get
          [] command = "meterstatus"   -> meter_status_get

(* The parameters a command is for. *)
Owns(file, command) ==
    CASE command = "manual"        -> {"manual"}
      [] command = "schedule"      -> {"schedule"}
      [] command = "threshold"     -> {"threshold"}
      [] command = "trendenable"   -> {"trend"}
      [] command = "protectenable" -> {"protect"}
      [] command = "sntp"          -> {"sntp", "servers"}
      [] command = "calib"         -> {"iMax", "vMax"}
      [] command = "start"         -> {"server", "host", "token", "url", "port"}
      [] file = "config" /\ command = "reset" -> Fields
      [] OTHER                     -> {}

-----------------------------------------------------------------------------
(* cgiEspApi.  A POST is answered "ok" whatever its set function returns;  *)
(* busy: the semaphore could not be had for ten seconds.                   *)
Counted == requests < REQUESTS /\ requests' = requests + 1

(* What is asked for is in the table or not, but is a file and a command    *)
(* of it; and a value that is taken for a text is one (cJSON has a null     *)
(* pointer there for a number).                                             *)
TextNames == {"url", "timers", "upgrade_server", "upgrade_host", "upgrade_token", "upgrade_url"}

JsonNumbers == [type : {"number"}, number : Int]
JsonTexts   == [type : {"text"}, text : STRING]

WellTyped(body) ==
    \A n \in DOMAIN body :
        body[n] \in IF n \in TextNames THEN JsonTexts ELSE JsonNumbers \cup JsonTexts

ASSUME ApiAssumption ==
    /\ Calls \subseteq Files \X Commands
    /\ \A call \in Calls : \A body \in Bodies[call[2]] :
           body \in {NotJson, NoSet} \/ WellTyped(body)

Remembers(own, s, ok) ==
    LET changed == {f \in Fields : s.ram[f] # ram[f]}
    IN  /\ meant' = [f \in Fields |-> IF ok /\ f \in own THEN s.ram[f] ELSE meant[f]]
        /\ stray' = IF ok THEN stray \ own ELSE stray \cup (changed \cap own)
        /\ unsaved' = IF ok /\ s.saves THEN {} ELSE unsaved \cup changed

Saved_before(r) == flash' = ram    \* mutant: saved before the field is set

Saved(r) == flash' = r

Post(file, command, body, busy) ==
    LET i    == Find[<<file, command>>]
        s    == IF busy /\ i = ConfigReset THEN Returns(ram) ELSE Sets(i, body)
        done == s.saves /\ ~busy
    IN  /\ HasSet(i) /\ i # Reboot
        /\ busy => Sets(i, body).saves
        /\ Counted
        /\ ram' = s.ram
        /\ IF done THEN Saved(s.ram) ELSE UNCHANGED flash
        /\ plug' = IF busy THEN plug ELSE s.then
        /\ Remembers(Owns(file, command), s, s.ok /\ ~busy)
        /\ told' = Told("POST", NotFound, "ok")

Get(file, command) ==
    LET i == Find[<<file, command>>]
    IN  /\ HasGet(i)
        /\ told' = Told("GET", i, Gets(i, ram))
        /\ UNCHANGED <<ram, flash, plug, requests, apihist>>

(* A POST to a command that cannot be set is answered "ok" all the same,   *)
(* and one that is not in the table "404 Not Found".                       *)
NothingDone(file, command) ==
    LET i == Find[<<file, command>>]
    IN  /\ ~HasSet(i)
        /\ told' = Told("POST", NotFound, IF i = NotFound THEN "404 Not Found" ELSE "ok")
        /\ UNCHANGED <<ram, flash, plug, requests, apihist>>

(* user_set_reboot; and the GET of a command that has no get function.     *)
Restarts(file, command) ==
    LET i == Find[<<file, command>>]
    IN  /\ i # NotFound
        /\ i = Reboot \/ ~HasGet(i)
        /\ systemInit(plug.bin) /\ told' = NothingTold /\ UNCHANGED requests

(* The answer to a GET is taken before anything else (bound).         *)
Taken ==
    /\ told.how = "GET" /\ told' = NothingTold
    /\ UNCHANGED <<ram, flash, plug, requests, apihist>>

cgiEspApi ==
    \E call \in Calls :
        \/ \E body \in Bodies[call[2]], busy \in BOOLEAN : Post(call[1], call[2], body, busy)
        \/ Get(call[1], call[2])
        \/ NothingDone(call[1], call[2])
        \/ Restarts(call[1], call[2])

-----------------------------------------------------------------------------
(* What happens between the requests: the button, the calibration with its *)
(* save, the end of an upgrade, a loss of power.                           *)
ShortPress ==
    /\ ram.manual = 1 /\ ~plug.calib
    /\ LET status == IF plug.relay = "OPEN" THEN "CLOSE" ELSE "OPEN"
       IN  plug' = [plug EXCEPT !.relay = status, !.event = status]
    /\ told' = NothingTold
    /\ UNCHANGED <<ram, flash, requests, apihist>>

CalibBegins ==
    /\ ~plug.calib
    /\ plug' = [plug EXCEPT !.calib = TRUE]
    /\ told' = NothingTold
    /\ UNCHANGED <<ram, flash, requests, apihist>>

CalibEnds ==
    /\ plug.calib
    /\ plug' = [plug EXCEPT !.calib = FALSE, !.relay = "OPEN", !.event = "OPEN"]
    /\ flash' = ram /\ unsaved' = {}
    /\ told' = NothingTold
    /\ UNCHANGED <<ram, requests, meant, stray>>

(* A task ends, or one of several with the same request does.              *)
UpgradeEnds ==
    \E task \in plug.upgrades :
        /\ told' = NothingTold /\ UNCHANGED requests
        /\ \/ /\ plug' \in {plug, [plug EXCEPT !.upgrades = @ \ {task}]}
              /\ UNCHANGED <<ram, flash, apihist>>
           \/ systemInit(OtherBin(plug.bin))

PowerCycle == systemInit(plug.bin) /\ told' = NothingTold /\ UNCHANGED requests

Api ==
    \/ Taken
    \/ /\ told.how # "GET"
       /\ cgiEspApi \/ ShortPress \/ CalibBegins \/ CalibEnds \/ UpgradeEnds \/ PowerCycle

ApiSpec == ApiInit /\ [][Api]_apivars

-----------------------------------------------------------------------------
(* Whatever was posted, in whatever order, what is stored is what the rest *)
(* of the program takes without a check: the protection compares with the  *)
(* threshold, the bits are bits, the texts end within their fields.        *)
StoredInRange ==
    \A r \in {ram, flash} :
        /\ r.threshold \in MIN_CURRENT_THRESHOLD..MAX_CURRENT_THRESHOLD
        /\ r.sntp \in {0, 1} /\ r.manual \in {0, 1} /\ r.trend \in {0, 1} /\ r.protect \in {0, 1}
        /\ r.port \in 1..MAX_TCP_PORT
        /\ "long" \notin {r.servers[1], r.servers[2], r.servers[3], r.server, r.host, r.token, r.url}

(* A GET answers with what the last command of that name that was carried  *)
(* out meant, across other commands, resets and restarts, but for what one *)
(* that failed has left in RAM.                                            *)
ReportedIsMeant ==
    told.how = "GET" =>
        Gets(told.node, [f \in Fields |-> IF f \in stray THEN ram[f] ELSE meant[f]]) = told.answer

(* Flash holds what was meant, of everything that is ever saved.           *)
SavedIsMeant == \A f \in Fields \ (stray \cup unsaved) : flash[f] = meant[f]

(* After any series of commands, half-failed ones too, what is reported,   *)
(* and what is in the flash, is what the commands meant.                   *)
CommandsMeant == StoredInRange /\ ReportedIsMeant /\ SavedIsMeant

(* An upgrade is started with what its request said, whatever half-failed   *)
(* requests came before it and whatever upgrades run already, and for the   *)
(* image that does not run.                                                 *)
UpgradeAsAsked ==
    [][\A task \in plug'.upgrades \ plug.upgrades :
          /\ task.server = meant'.server /\ task.port = meant'.port
          /\ task.host = meant'.host /\ task.token = meant'.token
          /\ task.url[1] = meant'.url /\ task.url[2] # plug'.bin]_apivars
=============================================================================
