---------------------------- MODULE WifiPlatform ----------------------------
(***************************************************************************)
(* How the socket gets into a network and moves to another one:            *)
(* app/user/user_esp_platform.c (start, smart config, link status), the    *)
(* WiFi commands of app/user/user_cgi.c, and the link LED of               *)
(* app/user/user_plug.c.                                                   *)
(*                                                                         *)
(* Four contexts take turns: the maintainer task, the one-shot tasks that  *)
(* start smart config, the HTTP task, and the callbacks of the SDK (timers,*)
(* WiFi events, smart config), which preempt the tasks.  The SDK itself is *)
(* external.                                                               *)
(*                                                                         *)
(* A configuration is an ssid and a password, and each of them two parts,  *)
(* its beginning and its end: what a short text covers, and what only a    *)
(* long one does.  A part is the tag of where it came from: the number of  *)
(* a request, Phone, Old, or 0 for zeros.                                  *)
(***************************************************************************)
EXTENDS Naturals

CONSTANTS
    POSTS,     \* bound: requests that set a configuration, over all starts
    PRESSES,   \* bound: long presses
    Ssids,     \* the texts that requests hold as ssid and as password,
    Passwords, \* of "none", "short" and "long"
    None       \* a NULL pointer

(* A text is copied over the beginning of what was there, without an end   *)
(* and without clearing it; one that is too long for its field, like none  *)
(* at all, leaves the field alone and refuses nothing.                     *)
Texts == {"none", "short", "long"}

ASSUME BoundsAreNumbers == POSTS \in Nat /\ PRESSES \in Nat
ASSUME TextsAreSent == Ssids \subseteq Texts /\ Passwords \subseteq Texts

VARIABLES
    boot,           \* where user_esp_platform_maintainer stands
    handler,        \* wifi_conn_event_cb is registered
    device_status,  \* 0, DEVICE_GOT_IP or DEVICE_CONNECTING
    led,            \* the pattern of the link LED
    opmode,         \* the operating mode, kept in flash by the SDK
    stored,         \* the AP to connect to, kept in flash by the SDK
    station,        \* the link
    sc,             \* how far the smart config of the SDK is
    sctasks,        \* smartconfig_task tasks created and not yet run
    sta_conf, ap_conf, rstparm, restart_xms,  \* user_cgi.c
    http            \* where the HTTP task stands in wifi_info_get

(* History. *)
VARIABLES
    posts, presses,
    calling,        \* the last long press waits for its result, undisturbed
    due,            \* the last accepted request with an ssid, or 0 once a refused
                    \* request, a GET, the phone or a start came after it
    since,          \* the requests received since the buffers were last made anew
    spoilt,         \* a GET was served while the timer was armed, and it was not since
    broken          \* a NULL configuration was read, and no GET spoilt it

link    == <<opmode, stored, station>>
request == <<sta_conf, ap_conf, rstparm, restart_xms>>
hist    == <<posts, presses, calling, due, since, spoilt, broken>>
vars    == <<boot, handler, device_status, led, link, sc, sctasks, request, http, hist>>

DEVICE_GOT_IP     == 39
DEVICE_CONNECTING == 40

Phone == POSTS + 1
Old   == POSTS + 2
Tags  == 0..Old
Text  == [head : Tags, tail : Tags]
Conf  == [ssid : Text, password : Text]

From(tag)   == [head |-> tag, tail |-> tag]
ConfOf(tag) == [ssid |-> From(tag), password |-> From(tag)]
Empty       == ConfOf(0)
PartsOf(conf) == {conf.ssid.head, conf.ssid.tail, conf.password.head, conf.password.tail}

Named == {0, 1}    \* of the soft AP it matters only whether it has an ssid

ASSUME NoneIsNoConf == None \notin Conf /\ None \notin Named

Modes    == {"STATION_MODE", "STATIONAP_MODE"}
Patterns == {"LED_OFF", "LED_ON", "LED_1HZ", "LED_20HZ"}

(* Somebody can reach the HTTP server. *)
Reachable == station = "got_ip" \/ opmode = "STATIONAP_MODE"

user_link_led_init == led' = "LED_OFF"

(* A start: the memory is lost, the flash keeps the AP; the mode may have *)
(* been changed by setmode.cgi (CgiWifi).                                 *)
Starts ==
    /\ boot' = "start" /\ handler' = FALSE /\ device_status' = 0
    /\ user_link_led_init /\ opmode' \in Modes /\ station' = "idle"
    /\ sc' = "off" /\ sctasks' = 0
    /\ sta_conf' = None /\ ap_conf' = None /\ rstparm' = FALSE /\ restart_xms' = FALSE
    /\ http' = "idle"
    /\ calling' = FALSE /\ due' = 0 /\ since' = {} /\ spoilt' = FALSE
    /\ UNCHANGED <<posts, presses>>

Init ==
    /\ boot = "start" /\ handler = FALSE /\ device_status = 0
    /\ led = "LED_OFF" /\ opmode \in Modes /\ station = "idle"
    /\ stored \in {Empty, ConfOf(Old)}
    /\ sc = "off" /\ sctasks = 0
    /\ sta_conf = None /\ ap_conf = None /\ rstparm = FALSE /\ restart_xms = FALSE
    /\ http = "idle" /\ posts = 0 /\ presses = 0
    /\ calling = FALSE /\ due = 0 /\ since = {} /\ spoilt = FALSE /\ broken = FALSE

PowerCycle == Starts /\ UNCHANGED <<stored, broken>>

(* Reading through a NULL pointer ends in an exception and a start. *)
NullRead == Starts /\ broken' = (broken \/ ~spoilt) /\ UNCHANGED stored

(* Any pattern but on and off leaves a repeating timer behind; each call *)
(* disarms it first.                                                     *)
user_link_led_output(pattern) == led' = pattern

user_esp_platform_set_connect_status(status) == device_status' = status

-----------------------------------------------------------------------------
(* The station of the SDK. *)
wifi_station_set_config(conf) == stored' = conf
wifi_station_reconnect == station' = "connecting"

(* Off the network and on to the stored AP. *)
Join(conf) == wifi_station_set_config(conf) /\ wifi_station_reconnect

(* wifi_conn_event_cb *)
wifi_conn_event_cb ==
    IF handler
    THEN device_status' = DEVICE_GOT_IP /\ user_link_led_output("LED_ON")
    ELSE UNCHANGED <<device_status, led>>

GotIp ==
    /\ station = "connecting" /\ stored.ssid.head # 0
    /\ station' = "got_ip"
    /\ wifi_conn_event_cb
    /\ UNCHANGED <<boot, handler, opmode, stored, sc, sctasks, request, http, hist>>

LinkLost ==
    /\ station = "got_ip"
    /\ wifi_station_reconnect
    /\ UNCHANGED <<boot, handler, device_status, led, opmode, stored, sc, sctasks, request, http, hist>>

user_esp_platform_get_connect_status ==
    IF station # "got_ip" THEN 0
    ELSE IF device_status = 0 THEN DEVICE_CONNECTING ELSE device_status

-----------------------------------------------------------------------------
(* PLTFM_startSmartConfig: forget the link, let a task start smart config. *)
PLTFM_startSmartConfig ==
    /\ device_status' = 0
    /\ sctasks' = sctasks + 1

smartconfig_stop  == sc' = "off"
smartconfig_start == sc' = "search"

smartconfig_task_unless_on ==    \* mutant: no smartconfig_stop, so that start is refused
    /\ sctasks > 0
    /\ sctasks' = sctasks - 1
    /\ user_link_led_output("LED_1HZ")
    /\ opmode' = "STATION_MODE"
    /\ station' = "idle"
    /\ sc' = IF sc = "off" THEN "search" ELSE sc
    /\ UNCHANGED <<boot, handler, device_status, stored, request, http, hist>>

(* smartconfig_task: whatever smart config was doing ends, and it begins. *)
smartconfig_task ==
    /\ sctasks > 0
    /\ sctasks' = sctasks - 1
    /\ user_link_led_output("LED_1HZ")
    /\ opmode' = "STATION_MODE"
    /\ station' = "idle"
    /\ smartconfig_start
    /\ UNCHANGED <<boot, handler, device_status, stored, request, http, hist>>

(* smartconfig_done, one disjunct for each status it is told. *)
SmartConfigWaits ==      \* SC_STATUS_WAIT, SC_STATUS_FIND_CHANNEL
    /\ sc = "search"
    /\ user_link_led_output("LED_1HZ")
    /\ UNCHANGED <<boot, handler, device_status, link, sc, sctasks, request, http, hist>>

SmartConfigGetting ==    \* SC_STATUS_GETTING_SSID_PSWD
    /\ sc = "search"
    /\ user_link_led_output("LED_20HZ")
    /\ sc' = "getting"
    /\ UNCHANGED <<boot, handler, device_status, link, sctasks, request, http, hist>>

(* Time: the phone takes seconds, restart_xms 20 ms. *)
SmartConfigLink ==       \* SC_STATUS_LINK
    /\ sc = "getting" /\ ~restart_xms
    /\ sc' = "link"
    /\ Join(ConfOf(Phone))
    /\ due' = 0
    /\ UNCHANGED <<boot, handler, device_status, led, opmode, sctasks, request, http,
                   posts, presses, calling, since, spoilt, broken>>

SmartConfigLinkOver ==   \* SC_STATUS_LINK_OVER
    /\ sc = "link" /\ station = "got_ip"
    /\ smartconfig_stop
    /\ user_link_led_output("LED_ON")
    /\ device_status' = DEVICE_GOT_IP
    /\ UNCHANGED <<boot, handler, link, sctasks, request, http, hist>>

smartconfig_done ==
    SmartConfigWaits \/ SmartConfigGetting \/ SmartConfigLink \/ SmartConfigLinkOver

(* The long press of the button (Button), and smart config over HTTP. *)
LongPress ==
    /\ presses < PRESSES
    /\ presses' = presses + 1
    /\ calling' = TRUE
    /\ PLTFM_startSmartConfig
    /\ UNCHANGED <<boot, handler, led, link, sc, request, http, posts, due, since, spoilt, broken>>

debug_smart_config ==
    /\ http = "idle" /\ Reachable /\ presses < PRESSES
    /\ presses' = presses + 1
    /\ PLTFM_startSmartConfig
    /\ UNCHANGED <<boot, handler, led, link, sc, request, http, posts, calling, due, since, spoilt, broken>>

-----------------------------------------------------------------------------
(* user_esp_platform_maintainer: nothing stored, smart config; otherwise   *)
(* the station connects by itself.                                         *)
MaintainerSmartConfig ==
    /\ boot = "start" /\ stored.ssid.head = 0
    /\ boot' = "wait"
    /\ PLTFM_startSmartConfig
    /\ UNCHANGED <<handler, led, link, sc, request, http, hist>>

reconnectAP ==
    /\ boot = "start" /\ stored.ssid.head # 0
    /\ boot' = "wait"
    /\ user_link_led_output("LED_20HZ")
    /\ opmode' = "STATION_MODE"
    /\ wifi_station_reconnect
    /\ handler' = TRUE
    /\ UNCHANGED <<device_status, stored, sc, sctasks, request, http, hist>>

(* It looks every two seconds; then PLTF_startSBTP, and it idles for good. *)
MaintainerProceeds ==
    /\ boot = "wait" /\ device_status >= DEVICE_GOT_IP
    /\ boot' = "sntp"
    /\ UNCHANGED <<handler, device_status, led, link, sc, sctasks, request, http, hist>>

user_esp_platform_maintainer == MaintainerSmartConfig \/ reconnectAP \/ MaintainerProceeds

-----------------------------------------------------------------------------
(* wifi_info_set.  The timer is stopped, the buffers are made or taken over *)
(* from an earlier request, the fields of this one are put in (those it     *)
(* has), and the timer is set to restart_xms_cb.  A malformed request       *)
(* returns early, with the fields that came before the fault put in.        *)
Field(text, old) ==
    CASE text = "none"  -> old
      [] text = "short" -> [old EXCEPT !.head = posts + 1]
      [] text = "long"  -> From(posts + 1)

SetStation(ssid, password) ==
    LET old == IF sta_conf = None THEN Empty ELSE sta_conf
    IN  [ssid |-> Field(ssid, old.ssid), password |-> Field(password, old.password)]

SetSoftap(named) == IF named \/ ap_conf = 1 THEN 1 ELSE 0

Received ==
    /\ http = "idle" /\ Reachable /\ posts < POSTS
    /\ posts' = posts + 1
    /\ user_esp_platform_set_connect_status(DEVICE_CONNECTING)
    /\ calling' = FALSE
    /\ UNCHANGED <<boot, handler, led, link, sc, sctasks, http, presses, broken>>

wifi_info_set_refused(ssid, password) ==
    /\ Received
    /\ sta_conf' = SetStation(ssid, password)
    /\ ap_conf' = SetSoftap(FALSE)
    /\ restart_xms' = FALSE
    /\ due' = 0
    /\ since' = since \cup {posts + 1}
    /\ UNCHANGED <<rstparm, spoilt>>

wifi_info_set_taken_unarmed(ssid, password, named) ==    \* mutant: armed with a new rstparm only
    LET sta == SetStation(ssid, password)
        soft == SetSoftap(named)
        armed == sta.ssid.head # 0 \/ soft = 1
    IN  /\ Received
        /\ sta_conf' = IF armed THEN sta ELSE None
        /\ ap_conf' = IF armed THEN soft ELSE None
        /\ rstparm' = armed
        /\ restart_xms' = (armed /\ ~rstparm)
        /\ due' = IF ssid # "none" THEN posts + 1 ELSE due
        /\ since' = IF armed THEN since \cup {posts + 1} ELSE {}
        /\ spoilt' = FALSE

wifi_info_set_taken(ssid, password, named) ==
    LET sta == SetStation(ssid, password)
        soft == SetSoftap(named)
        armed == sta.ssid.head # 0 \/ soft = 1
    IN  /\ Received
        /\ sta_conf' = IF armed THEN sta ELSE None
        /\ ap_conf' = IF armed THEN soft ELSE None
        /\ rstparm' = armed
        /\ restart_xms' = armed
        /\ due' = IF ssid # "none" THEN posts + 1 ELSE due
        /\ since' = IF armed THEN since \cup {posts + 1} ELSE {}
        /\ spoilt' = FALSE

wifi_info_set ==
    \E ssid \in Ssids, password \in Passwords :
        \/ wifi_info_set_refused(ssid, password)
        \/ \E named \in BOOLEAN : wifi_info_set_taken(ssid, password, named)

(* restart_xms_cb: join the AP of the station part; a soft AP part takes a *)
(* restart; then the buffers are given back.                               *)
Forget_rearmed ==    \* mutant: the timer repeats
    /\ sta_conf' = None /\ ap_conf' = None
    /\ UNCHANGED <<rstparm, restart_xms>>

Forget_not == rstparm' = FALSE /\ restart_xms' = FALSE /\ UNCHANGED <<sta_conf, ap_conf>>    \* mutant: not freed

Forget == sta_conf' = None /\ ap_conf' = None /\ rstparm' = FALSE /\ restart_xms' = FALSE

Applied ==
    /\ IF sta_conf.ssid.head # 0 THEN Join(sta_conf) ELSE UNCHANGED <<stored, station>>
    /\ Forget
    /\ since' = {}
    /\ UNCHANGED <<boot, handler, device_status, led, opmode, sc, sctasks, http,
                   posts, presses, calling, due, spoilt, broken>>

AppliedWithRestart ==
    /\ IF sta_conf.ssid.head # 0 THEN wifi_station_set_config(sta_conf) ELSE UNCHANGED stored
    /\ Starts
    /\ UNCHANGED broken

restart_xms_cb ==
    /\ restart_xms
    /\ \/ /\ ~rstparm
          /\ restart_xms' = FALSE
          /\ UNCHANGED <<boot, handler, device_status, led, link, sc, sctasks,
                         sta_conf, ap_conf, rstparm, http, hist>>
       \/ rstparm /\ sta_conf = None /\ NullRead
       \/ rstparm /\ sta_conf # None /\ ap_conf = 1 /\ AppliedWithRestart
       \/ rstparm /\ sta_conf # None /\ ap_conf = 0 /\ Applied

(* wifi_info_get uses the same two pointers for its answer: it makes new   *)
(* buffers, whatever the pointers held, fills them with what is in force,  *)
(* and frees them; the callback may run in between.                        *)
GetBegins ==
    /\ http = "idle" /\ Reachable
    /\ sta_conf' = Empty /\ ap_conf' = 0
    /\ http' \in {"station", "idle"}   \* idle: out of memory, the buffers stay
    /\ spoilt' = (spoilt \/ restart_xms) /\ due' = 0 /\ since' = {}
    /\ UNCHANGED <<boot, handler, device_status, led, link, sc, sctasks, rstparm, restart_xms,
                   posts, presses, calling, broken>>

GetStep(at, next, sta, ap) ==
    /\ http = at
    /\ IF sta_conf = None
       THEN NullRead
       ELSE /\ http' = next
            /\ sta_conf' = sta /\ ap_conf' = ap
            /\ UNCHANGED <<boot, handler, device_status, led, link, sc, sctasks,
                           rstparm, restart_xms, hist>>

wifi_station_get == GetStep("station", "softap", stored, ap_conf)
wifi_softap_get  == GetStep("softap", "answer", sta_conf, 1)

(* free(NULL) is harmless: the end needs no buffer. *)
GetEnds ==
    /\ http = "answer"
    /\ http' = "idle"
    /\ sta_conf' = None /\ ap_conf' = None
    /\ UNCHANGED <<boot, handler, device_status, led, link, sc, sctasks, rstparm, restart_xms, hist>>

wifi_info_get == GetBegins \/ wifi_station_get \/ wifi_softap_get \/ GetEnds

-----------------------------------------------------------------------------
Next ==
    \/ PowerCycle \/ GotIp \/ LinkLost
    \/ smartconfig_task \/ smartconfig_done \/ LongPress \/ debug_smart_config
    \/ user_esp_platform_maintainer
    \/ wifi_info_set \/ wifi_info_get \/ restart_xms_cb

(* The scheduler runs the tasks and the timers expire; the phone sends what *)
(* it was asked for, and its AP takes the socket.                           *)
Fairness ==
    /\ WF_vars(smartconfig_task)
    /\ WF_vars(SmartConfigGetting) /\ WF_vars(SmartConfigLink) /\ SF_vars(SmartConfigLinkOver)
    /\ WF_vars(GotIp /\ stored.ssid.head = Phone)
    /\ WF_vars(user_esp_platform_maintainer)
    /\ WF_vars(restart_xms_cb)
    /\ WF_vars(wifi_station_get \/ wifi_softap_get \/ GetEnds)

Spec == Init /\ [][Next]_vars /\ Fairness

-----------------------------------------------------------------------------
TypeOK ==
    /\ boot \in {"start", "wait", "sntp"} /\ handler \in BOOLEAN
    /\ device_status \in {0, DEVICE_GOT_IP, DEVICE_CONNECTING}
    /\ led \in Patterns /\ opmode \in Modes /\ stored \in Conf
    /\ station \in {"idle", "connecting", "got_ip"}
    /\ sc \in {"off", "search", "getting", "link"} /\ sctasks \in Nat
    /\ sta_conf \in Conf \cup {None} /\ ap_conf \in Named \cup {None}
    /\ rstparm \in BOOLEAN /\ restart_xms \in BOOLEAN
    /\ http \in {"idle", "station", "softap", "answer"}
    /\ posts \in 0..POSTS /\ presses \in 0..PRESSES
    /\ calling \in BOOLEAN /\ due \in 0..POSTS /\ since \subseteq 1..POSTS
    /\ spoilt \in BOOLEAN /\ broken \in BOOLEAN

(* While restart_xms is armed there is something for restart_xms_cb to     *)
(* apply, unless a GET has taken the buffers away: with requests that      *)
(* build on one another, or end half-way, it finds no NULL pointer.        *)
PendingWhole ==
    /\ (restart_xms => rstparm)
    /\ (sta_conf = None <=> ap_conf = None)
    /\ (restart_xms /\ ~spoilt => sta_conf # None /\ (sta_conf.ssid.head # 0 \/ ap_conf = 1))
    /\ ~broken

(* restart_xms_cb always has a configuration with a name to apply, and no  *)
(* handler reads through a NULL pointer, however requests and the timer    *)
(* come: unless a GET came while the timer was armed, since it frees what  *)
(* the timer is to apply (spoilt).                                         *)
WifiInv == TypeOK /\ PendingWhole

(* What restart_xms_cb has the socket join is put together from what was   *)
(* received since it last did so: nothing of a request that was applied    *)
(* turns up in a later one, and a request that comes alone is joined as it *)
(* was sent.  Of several that come before the timer runs, refused ones     *)
(* too, the code does mix the fields and the ends of longer texts into one *)
(* configuration; there the property says only that its name begins with   *)
(* that of the last request that was accepted with one, unless a refused   *)
(* request came behind it.                                                 *)
NoLeftovers ==
    [][ stored' # stored /\ stored' # ConfOf(Phone) /\ ~spoilt =>
          /\ PartsOf(stored') \subseteq since \cup {0}
          /\ due # 0 => stored'.ssid.head = due ]_vars

(* An accepted request with an ssid is joined, unless something overtakes  *)
(* it: a further request with an ssid, which replaces it, a refused one,   *)
(* which stops its timer and does not set it again (the code drops the     *)
(* earlier request, although it was acknowledged), a GET or a start.       *)
RequestTakesEffect == due # 0 ~> (stored.ssid.head = due \/ due = 0)

Online ==
    /\ station = "got_ip" /\ led = "LED_ON"
    /\ user_esp_platform_get_connect_status = DEVICE_GOT_IP

(* Whatever state the socket is in, another network stored, smart config   *)
(* half-way, a request about to be applied: after a long press the phone   *)
(* gets it online, it says so and its LED is on; a request or a start may  *)
(* call that off.                                                          *)
PressRecovers == calling ~> (Online \/ ~calling)
=============================================================================
