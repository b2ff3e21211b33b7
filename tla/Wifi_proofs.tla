---------------------------- MODULE Wifi_proofs ----------------------------
(***************************************************************************)
(* Proofs about the WiFi of the socket, for any number of requests and of  *)
(* presses, of connections, access points and attempts.                    *)
(***************************************************************************)
EXTENDS WifiPlatform, CgiWifi, SequenceTheorems, TLAPS

(* While wifi_info_get has the buffers, nobody frees them unless the timer *)
(* was armed when it took them.                                            *)
GetHolds ==
    http # "idle" => due = 0 /\ (spoilt \/ (sta_conf # None /\ ~restart_xms))

(* The pending request is made of what was received since the buffers were *)
(* made anew; they hold something else only while wifi_info_get has them.  *)
NoOldTags ==
    http = "idle" /\ sta_conf # None => PartsOf(sta_conf) \subseteq since \cup {0}

(* Its name begins as that of the request that is due.                     *)
DueIsFirst ==
    due # 0 /\ sta_conf # None /\ sta_conf.ssid.head # 0 => sta_conf.ssid.head = due

Strong == TypeOK /\ PendingWhole /\ GetHolds /\ NoOldTags /\ DueIsFirst

(* What NoLeftovers says of a step.                                        *)
AppliesNew ==
    stored' # stored /\ stored' # ConfOf(Phone) /\ ~spoilt =>
        /\ PartsOf(stored') \subseteq since \cup {0}
        /\ due # 0 => stored'.ssid.head = due

USE BoundsAreNumbers, NoneIsNoConf

LEMMA ConfsOfTags ==
    /\ \A tag \in Tags : From(tag) \in Text /\ ConfOf(tag) \in Conf
    /\ Empty \in Conf /\ ConfOf(Old) \in Conf /\ ConfOf(Phone) \in Conf
    /\ Empty.ssid.head = 0 /\ PartsOf(Empty) = {0}
<1>1. 0 \in Tags /\ Old \in Tags /\ Phone \in Tags
  BY DEF Tags, Old, Phone
<1> QED
  BY <1>1 DEF From, ConfOf, Text, Conf, Empty, PartsOf

LEMMA WifiStarts == Init => Strong
<1> SUFFICES ASSUME Init PROVE Strong
  OBVIOUS
<1>1. TypeOK
  <2>1. /\ boot \in {"start", "wait", "sntp"} /\ handler \in BOOLEAN
        /\ device_status \in {0, DEVICE_GOT_IP, DEVICE_CONNECTING}
        /\ led \in Patterns /\ opmode \in Modes
        /\ station \in {"idle", "connecting", "got_ip"}
        /\ sc \in {"off", "search", "getting", "link"} /\ sctasks \in Nat
    BY DEF Init, TypeOK, Patterns, Modes, DEVICE_GOT_IP, DEVICE_CONNECTING
  <2>2. /\ sta_conf \in Conf \cup {None} /\ ap_conf \in Named \cup {None}
        /\ rstparm \in BOOLEAN /\ restart_xms \in BOOLEAN
        /\ http \in {"idle", "station", "softap", "answer"}
    BY DEF Init, TypeOK, Named
  <2>3. /\ posts \in 0..POSTS /\ presses \in 0..PRESSES
        /\ due \in 0..POSTS /\ since \subseteq 1..POSTS
    BY DEF Init, TypeOK
  <2>4. /\ calling \in BOOLEAN
        /\ spoilt \in BOOLEAN /\ broken \in BOOLEAN
    BY Zenon DEF Init, TypeOK
  <2>5. stored \in Conf
    BY ConfsOfTags DEF Init
  <2> QED
    BY <2>1, <2>2, <2>3, <2>4, <2>5 DEF TypeOK
<1> QED
  BY <1>1 DEF Init, Strong, PendingWhole, GetHolds, NoOldTags, DueIsFirst

(* A start leaves nothing pending. *)
LEMMA StartsAnew ==
  ASSUME TypeOK, Starts, stored' \in Conf, broken' = FALSE
  PROVE  Strong'
<1>1. TypeOK'
  <2>1. /\ boot' \in {"start", "wait", "sntp"} /\ handler' \in BOOLEAN
        /\ device_status' \in {0, DEVICE_GOT_IP, DEVICE_CONNECTING}
        /\ led' \in Patterns /\ opmode' \in Modes
        /\ station' \in {"idle", "connecting", "got_ip"}
        /\ sc' \in {"off", "search", "getting", "link"} /\ sctasks' \in Nat
    BY DEF Starts, user_link_led_init, TypeOK, Patterns, Modes, DEVICE_GOT_IP, DEVICE_CONNECTING
  <2>2. /\ sta_conf' \in Conf \cup {None} /\ ap_conf' \in Named \cup {None}
        /\ rstparm' \in BOOLEAN /\ restart_xms' \in BOOLEAN
        /\ http' \in {"idle", "station", "softap", "answer"}
    BY DEF Starts, user_link_led_init, TypeOK
  <2>3. /\ posts' \in 0..POSTS /\ presses' \in 0..PRESSES
        /\ due' \in 0..POSTS /\ since' \subseteq 1..POSTS
    BY DEF Starts, user_link_led_init, TypeOK
  <2>4. /\ calling' \in BOOLEAN
        /\ spoilt' \in BOOLEAN /\ broken' \in BOOLEAN
    BY Zenon DEF Starts, user_link_led_init, TypeOK
  <2> QED
    BY <2>1, <2>2, <2>3, <2>4 DEF TypeOK
<1> QED
  BY <1>1 DEF Starts, Strong, PendingWhole, GetHolds, NoOldTags, DueIsFirst

LEMMA PowerCycleStep ==
  ASSUME Strong, PowerCycle
  PROVE  Strong' /\ AppliesNew
<1>1. stored' = stored /\ stored \in Conf /\ broken' = FALSE
  BY DEF PowerCycle, Strong, TypeOK, PendingWhole
<1> QED
  BY <1>1, StartsAnew DEF PowerCycle, Strong, AppliesNew

(* A NULL pointer is read only after a GET took the buffers away.          *)
LEMMA NullReadStep ==
  ASSUME Strong, NullRead, spoilt
  PROVE  Strong' /\ AppliesNew
<1>1. stored' = stored /\ stored \in Conf
  BY DEF NullRead, Strong, TypeOK
<1>2. broken' = FALSE
  <2>1. broken' = (broken \/ ~spoilt)
    BY DEF NullRead
  <2>2. ~(broken \/ ~spoilt)
    BY DEF Strong, PendingWhole
  <2> QED
    BY <2>1, <2>2, Zenon
<1> QED
  BY <1>1, <1>2, StartsAnew DEF NullRead, Strong, AppliesNew

LEMMA wifi_station_getStep ==
  ASSUME Strong, wifi_station_get
  PROVE  Strong' /\ AppliesNew
<1>1. http = "station" /\ due = 0
  BY DEF wifi_station_get, GetStep, Strong, GetHolds
<1>2. CASE sta_conf = None
  BY <1>1, <1>2, NullReadStep DEF wifi_station_get, GetStep, Strong, GetHolds
<1>3. CASE sta_conf # None
  <2>1. /\ UNCHANGED <<boot, handler, device_status, led, link, sc, sctasks, rstparm, restart_xms, hist>>
        /\ sta_conf' \in Conf /\ ap_conf' \in Named
        /\ http' \in {"softap", "answer"}
    BY <1>3 DEF wifi_station_get, GetStep, Strong, TypeOK, PendingWhole, Named
  <2>2. TypeOK'
    BY <2>1 DEF Strong, TypeOK, link, hist
  <2> QED
    BY <1>1, <2>1, <2>2 DEF Strong, link, hist, PendingWhole, GetHolds, NoOldTags, DueIsFirst, AppliesNew
<1> QED
  BY <1>2, <1>3

LEMMA wifi_softap_getStep ==
  ASSUME Strong, wifi_softap_get
  PROVE  Strong' /\ AppliesNew
<1>1. http = "softap" /\ due = 0
  BY DEF wifi_softap_get, GetStep, Strong, GetHolds
<1>2. CASE sta_conf = None
  BY <1>1, <1>2, NullReadStep DEF wifi_softap_get, GetStep, Strong, GetHolds
<1>3. CASE sta_conf # None
  <2>1. /\ UNCHANGED <<boot, handler, device_status, led, link, sc, sctasks, rstparm, restart_xms, hist>>
        /\ sta_conf' \in Conf /\ ap_conf' \in Named
        /\ http' \in {"softap", "answer"}
    BY <1>3 DEF wifi_softap_get, GetStep, Strong, TypeOK, PendingWhole, Named
  <2>2. TypeOK'
    BY <2>1 DEF Strong, TypeOK, link, hist
  <2> QED
    BY <1>1, <2>1, <2>2 DEF Strong, link, hist, PendingWhole, GetHolds, NoOldTags, DueIsFirst, AppliesNew
<1> QED
  BY <1>2, <1>3

LEMMA GotIpStep ==
  ASSUME Strong, GotIp
  PROVE  Strong' /\ AppliesNew
<1>1. TypeOK'
  BY DEF Strong, GotIp, wifi_conn_event_cb, user_link_led_output, link, request, hist,
     TypeOK, PendingWhole, GetHolds, Conf, Tags, Empty, Modes, Patterns, Phone, Old,
     DEVICE_GOT_IP, DEVICE_CONNECTING
<1>2. PendingWhole' /\ GetHolds' /\ NoOldTags' /\ DueIsFirst'
  BY DEF Strong, GotIp, wifi_conn_event_cb, user_link_led_output, link, request, hist,
     TypeOK, PendingWhole, GetHolds, NoOldTags, DueIsFirst, Conf, Tags, Empty, Modes, Patterns,
     Phone, Old, DEVICE_GOT_IP, DEVICE_CONNECTING
<1>3. AppliesNew
  BY DEF Strong, GotIp, wifi_conn_event_cb, user_link_led_output, link, request, hist,
     TypeOK, PendingWhole, GetHolds, AppliesNew, Conf, Tags, Empty, Modes, Patterns,
     Phone, Old, DEVICE_GOT_IP, DEVICE_CONNECTING
<1> QED
  BY <1>1, <1>2, <1>3 DEF Strong

LEMMA LinkLostStep ==
  ASSUME Strong, LinkLost
  PROVE  Strong' /\ AppliesNew
<1>1. TypeOK'
  BY DEF Strong, LinkLost, wifi_station_reconnect, link, request, hist, TypeOK,
     PendingWhole, GetHolds, Conf, Tags, Empty, Modes, Patterns, Phone, Old,
     DEVICE_GOT_IP, DEVICE_CONNECTING
<1>2. PendingWhole' /\ GetHolds' /\ NoOldTags' /\ DueIsFirst'
  BY DEF Strong, LinkLost, wifi_station_reconnect, link, request, hist, TypeOK,
     PendingWhole, GetHolds, NoOldTags, DueIsFirst, Conf, Tags, Empty, Modes, Patterns, Phone, Old,
     DEVICE_GOT_IP, DEVICE_CONNECTING
<1>3. AppliesNew
  BY DEF Strong, LinkLost, wifi_station_reconnect, link, request, hist, TypeOK,
     PendingWhole, GetHolds, AppliesNew, Conf, Tags, Empty, Modes, Patterns, Phone, Old,
     DEVICE_GOT_IP, DEVICE_CONNECTING
<1> QED
  BY <1>1, <1>2, <1>3 DEF Strong

LEMMA smartconfig_taskStep ==
  ASSUME Strong, smartconfig_task
  PROVE  Strong' /\ AppliesNew
<1>1. TypeOK'
  BY DEF Strong, smartconfig_task, user_link_led_output, smartconfig_start, link, request,
     hist, TypeOK, PendingWhole, GetHolds, Conf, Tags, Empty, Modes, Patterns, Phone,
     Old, DEVICE_GOT_IP, DEVICE_CONNECTING
<1>2. PendingWhole' /\ GetHolds' /\ NoOldTags' /\ DueIsFirst'
  BY DEF Strong, smartconfig_task, user_link_led_output, smartconfig_start, link, request,
     hist, TypeOK, PendingWhole, GetHolds, NoOldTags, DueIsFirst, Conf, Tags, Empty, Modes, Patterns,
     Phone, Old, DEVICE_GOT_IP, DEVICE_CONNECTING
<1>3. AppliesNew
  BY DEF Strong, smartconfig_task, user_link_led_output, smartconfig_start, link, request,
     hist, TypeOK, PendingWhole, GetHolds, AppliesNew, Conf, Tags, Empty, Modes,
     Patterns, Phone, Old, DEVICE_GOT_IP, DEVICE_CONNECTING
<1> QED
  BY <1>1, <1>2, <1>3 DEF Strong

LEMMA SmartConfigWaitsStep ==
  ASSUME Strong, SmartConfigWaits
  PROVE  Strong' /\ AppliesNew
<1>1. TypeOK'
  BY DEF Strong, SmartConfigWaits, user_link_led_output, link, request, hist, TypeOK,
     PendingWhole, GetHolds, Conf, Tags, Empty, Modes, Patterns, Phone, Old,
     DEVICE_GOT_IP, DEVICE_CONNECTING
<1>2. PendingWhole' /\ GetHolds' /\ NoOldTags' /\ DueIsFirst'
  BY DEF Strong, SmartConfigWaits, user_link_led_output, link, request, hist, TypeOK,
     PendingWhole, GetHolds, NoOldTags, DueIsFirst, Conf, Tags, Empty, Modes, Patterns, Phone, Old,
     DEVICE_GOT_IP, DEVICE_CONNECTING
<1>3. AppliesNew
  BY DEF Strong, SmartConfigWaits, user_link_led_output, link, request, hist, TypeOK,
     PendingWhole, GetHolds, AppliesNew, Conf, Tags, Empty, Modes, Patterns, Phone, Old,
     DEVICE_GOT_IP, DEVICE_CONNECTING
<1> QED
  BY <1>1, <1>2, <1>3 DEF Strong

LEMMA SmartConfigGettingStep ==
  ASSUME Strong, SmartConfigGetting
  PROVE  Strong' /\ AppliesNew
<1>1. TypeOK'
  BY DEF Strong, SmartConfigGetting, user_link_led_output, link, request, hist, TypeOK,
     PendingWhole, GetHolds, Conf, Tags, Empty, Modes, Patterns, Phone, Old,
     DEVICE_GOT_IP, DEVICE_CONNECTING
<1>2. PendingWhole' /\ GetHolds' /\ NoOldTags' /\ DueIsFirst'
  BY DEF Strong, SmartConfigGetting, user_link_led_output, link, request, hist, TypeOK,
     PendingWhole, GetHolds, NoOldTags, DueIsFirst, Conf, Tags, Empty, Modes, Patterns, Phone, Old,
     DEVICE_GOT_IP, DEVICE_CONNECTING
<1>3. AppliesNew
  BY DEF Strong, SmartConfigGetting, user_link_led_output, link, request, hist, TypeOK,
     PendingWhole, GetHolds, AppliesNew, Conf, Tags, Empty, Modes, Patterns, Phone, Old,
     DEVICE_GOT_IP, DEVICE_CONNECTING
<1> QED
  BY <1>1, <1>2, <1>3 DEF Strong

LEMMA SmartConfigLinkStep ==
  ASSUME Strong, SmartConfigLink
  PROVE  Strong' /\ AppliesNew
<1>1. TypeOK'
  BY ConfsOfTags DEF Strong, SmartConfigLink, Join, wifi_station_set_config, wifi_station_reconnect,
     link, request, hist, TypeOK, PendingWhole, GetHolds, Conf, Tags, Empty, Modes,
     Patterns, Phone, Old, DEVICE_GOT_IP, DEVICE_CONNECTING
<1>2. PendingWhole' /\ GetHolds' /\ NoOldTags' /\ DueIsFirst'
  BY ConfsOfTags DEF Strong, SmartConfigLink, Join, wifi_station_set_config, wifi_station_reconnect,
     link, request, hist, TypeOK, PendingWhole, GetHolds, NoOldTags, DueIsFirst, Conf, Tags, Empty,
     Modes, Patterns, Phone, Old, DEVICE_GOT_IP, DEVICE_CONNECTING
<1>3. AppliesNew
  BY ConfsOfTags DEF Strong, SmartConfigLink, Join, wifi_station_set_config, wifi_station_reconnect,
     link, request, hist, TypeOK, PendingWhole, GetHolds, AppliesNew, Conf, Tags, Empty,
     Modes, Patterns, Phone, Old, DEVICE_GOT_IP, DEVICE_CONNECTING
<1> QED
  BY <1>1, <1>2, <1>3 DEF Strong

LEMMA SmartConfigLinkOverStep ==
  ASSUME Strong, SmartConfigLinkOver
  PROVE  Strong' /\ AppliesNew
<1>1. TypeOK'
  BY DEF Strong, SmartConfigLinkOver, smartconfig_stop, user_link_led_output, link,
     request, hist, TypeOK, PendingWhole, GetHolds, Conf, Tags, Empty, Modes, Patterns,
     Phone, Old, DEVICE_GOT_IP, DEVICE_CONNECTING
<1>2. PendingWhole' /\ GetHolds' /\ NoOldTags' /\ DueIsFirst'
  BY DEF Strong, SmartConfigLinkOver, smartconfig_stop, user_link_led_output, link,
     request, hist, TypeOK, PendingWhole, GetHolds, NoOldTags, DueIsFirst, Conf, Tags, Empty, Modes,
     Patterns, Phone, Old, DEVICE_GOT_IP, DEVICE_CONNECTING
<1>3. AppliesNew
  BY DEF Strong, SmartConfigLinkOver, smartconfig_stop, user_link_led_output, link,
     request, hist, TypeOK, PendingWhole, GetHolds, AppliesNew, Conf, Tags, Empty, Modes,
     Patterns, Phone, Old, DEVICE_GOT_IP, DEVICE_CONNECTING
<1> QED
  BY <1>1, <1>2, <1>3 DEF Strong

LEMMA LongPressStep ==
  ASSUME Strong, LongPress
  PROVE  Strong' /\ AppliesNew
<1>1. TypeOK'
  BY DEF Strong, LongPress, PLTFM_startSmartConfig, link, request, hist, TypeOK,
     PendingWhole, GetHolds, Conf, Tags, Empty, Modes, Patterns, Phone, Old,
     DEVICE_GOT_IP, DEVICE_CONNECTING
<1>2. PendingWhole' /\ GetHolds' /\ NoOldTags' /\ DueIsFirst'
  BY DEF Strong, LongPress, PLTFM_startSmartConfig, link, request, hist, TypeOK,
     PendingWhole, GetHolds, NoOldTags, DueIsFirst, Conf, Tags, Empty, Modes, Patterns, Phone, Old,
     DEVICE_GOT_IP, DEVICE_CONNECTING
<1>3. AppliesNew
  BY DEF Strong, LongPress, PLTFM_startSmartConfig, link, request, hist, TypeOK,
     PendingWhole, GetHolds, AppliesNew, Conf, Tags, Empty, Modes, Patterns, Phone, Old,
     DEVICE_GOT_IP, DEVICE_CONNECTING
<1> QED
  BY <1>1, <1>2, <1>3 DEF Strong

LEMMA debug_smart_configStep ==
  ASSUME Strong, debug_smart_config
  PROVE  Strong' /\ AppliesNew
<1>1. TypeOK'
  BY DEF Strong, debug_smart_config, PLTFM_startSmartConfig, link, request, hist, TypeOK,
     PendingWhole, GetHolds, Conf, Tags, Empty, Modes, Patterns, Phone, Old,
     DEVICE_GOT_IP, DEVICE_CONNECTING
<1>2. PendingWhole' /\ GetHolds' /\ NoOldTags' /\ DueIsFirst'
  BY DEF Strong, debug_smart_config, PLTFM_startSmartConfig, link, request, hist, TypeOK,
     PendingWhole, GetHolds, NoOldTags, DueIsFirst, Conf, Tags, Empty, Modes, Patterns, Phone, Old,
     DEVICE_GOT_IP, DEVICE_CONNECTING
<1>3. AppliesNew
  BY DEF Strong, debug_smart_config, PLTFM_startSmartConfig, link, request, hist, TypeOK,
     PendingWhole, GetHolds, AppliesNew, Conf, Tags, Empty, Modes, Patterns, Phone, Old,
     DEVICE_GOT_IP, DEVICE_CONNECTING
<1> QED
  BY <1>1, <1>2, <1>3 DEF Strong

LEMMA MaintainerSmartConfigStep ==
  ASSUME Strong, MaintainerSmartConfig
  PROVE  Strong' /\ AppliesNew
<1>1. TypeOK'
  BY DEF Strong, MaintainerSmartConfig, PLTFM_startSmartConfig, link, request, hist,
     TypeOK, PendingWhole, GetHolds, Conf, Tags, Empty, Modes, Patterns, Phone, Old,
     DEVICE_GOT_IP, DEVICE_CONNECTING
<1>2. PendingWhole' /\ GetHolds' /\ NoOldTags' /\ DueIsFirst'
  BY DEF Strong, MaintainerSmartConfig, PLTFM_startSmartConfig, link, request, hist,
     TypeOK, PendingWhole, GetHolds, NoOldTags, DueIsFirst, Conf, Tags, Empty, Modes, Patterns,
     Phone, Old, DEVICE_GOT_IP, DEVICE_CONNECTING
<1>3. AppliesNew
  BY DEF Strong, MaintainerSmartConfig, PLTFM_startSmartConfig, link, request, hist,
     TypeOK, PendingWhole, GetHolds, AppliesNew, Conf, Tags, Empty, Modes, Patterns,
     Phone, Old, DEVICE_GOT_IP, DEVICE_CONNECTING
<1> QED
  BY <1>1, <1>2, <1>3 DEF Strong

LEMMA reconnectAPStep ==
  ASSUME Strong, reconnectAP
  PROVE  Strong' /\ AppliesNew
<1>1. TypeOK'
  BY DEF Strong, reconnectAP, user_link_led_output, wifi_station_reconnect, link, request,
     hist, TypeOK, PendingWhole, GetHolds, Conf, Tags, Empty, Modes, Patterns, Phone,
     Old, DEVICE_GOT_IP, DEVICE_CONNECTING
<1>2. PendingWhole' /\ GetHolds' /\ NoOldTags' /\ DueIsFirst'
  BY DEF Strong, reconnectAP, user_link_led_output, wifi_station_reconnect, link, request,
     hist, TypeOK, PendingWhole, GetHolds, NoOldTags, DueIsFirst, Conf, Tags, Empty, Modes, Patterns,
     Phone, Old, DEVICE_GOT_IP, DEVICE_CONNECTING
<1>3. AppliesNew
  BY DEF Strong, reconnectAP, user_link_led_output, wifi_station_reconnect, link, request,
     hist, TypeOK, PendingWhole, GetHolds, AppliesNew, Conf, Tags, Empty, Modes,
     Patterns, Phone, Old, DEVICE_GOT_IP, DEVICE_CONNECTING
<1> QED
  BY <1>1, <1>2, <1>3 DEF Strong

LEMMA MaintainerProceedsStep ==
  ASSUME Strong, MaintainerProceeds
  PROVE  Strong' /\ AppliesNew
<1>1. TypeOK'
  BY DEF Strong, MaintainerProceeds, link, request, hist, TypeOK, PendingWhole, GetHolds,
     Conf, Tags, Empty, Modes, Patterns, Phone, Old, DEVICE_GOT_IP, DEVICE_CONNECTING
<1>2. PendingWhole' /\ GetHolds' /\ NoOldTags' /\ DueIsFirst'
  BY DEF Strong, MaintainerProceeds, link, request, hist, TypeOK, PendingWhole, GetHolds,
     NoOldTags, DueIsFirst, Conf, Tags, Empty, Modes, Patterns, Phone, Old, DEVICE_GOT_IP,
     DEVICE_CONNECTING
<1>3. AppliesNew
  BY DEF Strong, MaintainerProceeds, link, request, hist, TypeOK, PendingWhole, GetHolds,
     AppliesNew, Conf, Tags, Empty, Modes, Patterns, Phone, Old, DEVICE_GOT_IP,
     DEVICE_CONNECTING
<1> QED
  BY <1>1, <1>2, <1>3 DEF Strong

LEMMA GetBeginsStep ==
  ASSUME Strong, GetBegins
  PROVE  Strong' /\ AppliesNew
<1>1. TypeOK'
  BY ConfsOfTags DEF Strong, GetBegins, Named, link, request, hist, TypeOK, PendingWhole, GetHolds, Conf,
     Tags, Empty, Modes, Patterns, Phone, Old, DEVICE_GOT_IP, DEVICE_CONNECTING
<1>2. PendingWhole' /\ GetHolds' /\ NoOldTags' /\ DueIsFirst'
  BY ConfsOfTags DEF Strong, GetBegins, Named, link, request, hist, TypeOK, PendingWhole, GetHolds,
     NoOldTags, DueIsFirst, Conf, Tags, Empty, Modes, Patterns, Phone, Old, DEVICE_GOT_IP,
     DEVICE_CONNECTING
<1>3. AppliesNew
  BY ConfsOfTags DEF Strong, GetBegins, Named, link, request, hist, TypeOK, PendingWhole, GetHolds,
     AppliesNew, Conf, Tags, Empty, Modes, Patterns, Phone, Old, DEVICE_GOT_IP,
     DEVICE_CONNECTING
<1> QED
  BY <1>1, <1>2, <1>3 DEF Strong

LEMMA GetEndsStep ==
  ASSUME Strong, GetEnds
  PROVE  Strong' /\ AppliesNew
<1>1. TypeOK'
  BY DEF Strong, GetEnds, link, request, hist, TypeOK, PendingWhole, GetHolds, Conf,
     Tags, Empty, Modes, Patterns, Phone, Old, DEVICE_GOT_IP, DEVICE_CONNECTING
<1>2. PendingWhole' /\ GetHolds' /\ NoOldTags' /\ DueIsFirst'
  BY DEF Strong, GetEnds, link, request, hist, TypeOK, PendingWhole, GetHolds, NoOldTags, DueIsFirst,
     Conf, Tags, Empty, Modes, Patterns, Phone, Old, DEVICE_GOT_IP, DEVICE_CONNECTING
<1>3. AppliesNew
  BY DEF Strong, GetEnds, link, request, hist, TypeOK, PendingWhole, GetHolds,
     AppliesNew, Conf, Tags, Empty, Modes, Patterns, Phone, Old, DEVICE_GOT_IP,
     DEVICE_CONNECTING
<1> QED
  BY <1>1, <1>2, <1>3 DEF Strong


(* wifi_info_set puts the fields of one request into the buffers.          *)
LEMMA FieldPutIn ==
  ASSUME Strong, posts < POSTS, NEW text \in Texts, NEW old \in Text
  PROVE  /\ Field(text, old) \in Text
         /\ {Field(text, old).head, Field(text, old).tail} \subseteq {old.head, old.tail, posts + 1}
         /\ Field(text, old).head = IF text = "none" THEN old.head ELSE posts + 1
<1>1. posts + 1 \in Tags
  BY DEF Strong, TypeOK, Tags, Old
<1> QED
  BY <1>1 DEF Field, Texts, Text, From

LEMMA FieldsPutIn ==
  ASSUME Strong, Received, NEW ssid \in Texts, NEW password \in Texts, NEW named \in BOOLEAN
  PROVE  /\ SetStation(ssid, password) \in Conf /\ SetSoftap(named) \in Named
         /\ PartsOf(SetStation(ssid, password)) \subseteq since \cup {posts + 1, 0}
         /\ ssid # "none" => SetStation(ssid, password).ssid.head = posts + 1
         /\ ssid = "none" /\ due # 0 /\ SetStation(ssid, password).ssid.head # 0
              => SetStation(ssid, password).ssid.head = due
         /\ posts + 1 \in 1..POSTS
<1>1. posts < POSTS /\ posts + 1 \in 1..POSTS
  BY DEF Received, Strong, TypeOK
<1>2. PICK old \in Conf :
         /\ SetStation(ssid, password)
               = [ssid |-> Field(ssid, old.ssid), password |-> Field(password, old.password)]
         /\ PartsOf(old) \subseteq since \cup {0}
         /\ due # 0 /\ old.ssid.head # 0 => old.ssid.head = due
  <2>1. CASE sta_conf = None
    BY <2>1, ConfsOfTags DEF SetStation
  <2>2. CASE sta_conf # None
    BY <2>2 DEF SetStation, Received, Strong, TypeOK, NoOldTags, DueIsFirst
  <2> QED
    BY <2>1, <2>2
<1>3. old.ssid \in Text /\ old.password \in Text
  BY DEF Conf
<1>4. SetSoftap(named) \in Named
  BY DEF SetSoftap, Named
<1>5. PICK s \in Text, p \in Text :
         /\ s = Field(ssid, old.ssid) /\ p = Field(password, old.password)
         /\ {s.head, s.tail} \subseteq {old.ssid.head, old.ssid.tail, posts + 1}
         /\ {p.head, p.tail} \subseteq {old.password.head, old.password.tail, posts + 1}
         /\ s.head = IF ssid = "none" THEN old.ssid.head ELSE posts + 1
  BY <1>1, <1>3, FieldPutIn
<1>6. SetStation(ssid, password) = [ssid |-> s, password |-> p]
  BY <1>2, <1>5
<1>7. PartsOf(SetStation(ssid, password)) \subseteq PartsOf(old) \cup {posts + 1}
  BY <1>5, <1>6 DEF PartsOf
<1>8. SetStation(ssid, password) \in Conf
  BY <1>6 DEF Conf
<1> QED
  BY <1>1, <1>2, <1>4, <1>5, <1>6, <1>7, <1>8

LEMMA ReceivedTypes ==
  ASSUME Strong, Received, sta_conf' \in Conf \cup {None}, ap_conf' \in Named \cup {None},
         rstparm' \in BOOLEAN, restart_xms' \in BOOLEAN, due' \in 0..POSTS, spoilt' \in BOOLEAN,
         since' \subseteq since \cup {posts + 1}
  PROVE  TypeOK'
<1>1. posts' \in 0..POSTS /\ since' \subseteq 1..POSTS
  BY DEF Received, Strong, TypeOK
<1> QED
  BY <1>1 DEF Received, user_esp_platform_set_connect_status, Strong, TypeOK, link

LEMMA wifi_info_set_refusedStep ==
  ASSUME Strong, NEW ssid \in Texts, NEW password \in Texts,
         wifi_info_set_refused(ssid, password)
  PROVE  Strong' /\ AppliesNew
<1>1. /\ Received /\ sta_conf' = SetStation(ssid, password) /\ ap_conf' = SetSoftap(FALSE)
      /\ restart_xms' = FALSE /\ due' = 0 /\ UNCHANGED <<rstparm, spoilt>>
      /\ since' = since \cup {posts + 1}
  BY Zenon DEF wifi_info_set_refused
<1>2. /\ sta_conf' \in Conf /\ ap_conf' \in Named
      /\ PartsOf(sta_conf') \subseteq since' \cup {0}
  BY <1>1, FieldsPutIn
<1>3. TypeOK'
  <2>1. rstparm' \in BOOLEAN /\ restart_xms' \in BOOLEAN /\ spoilt' \in BOOLEAN
    BY <1>1, Zenon DEF Strong, TypeOK
  <2>2. due' \in 0..POSTS
    BY <1>1
  <2> QED
    BY <1>1, <1>2, <2>1, <2>2, ReceivedTypes
<1>4. sta_conf' # None /\ ap_conf' # None
  BY <1>2
<1>5. PartsOf(sta_conf)' = PartsOf(sta_conf')
  BY DEF PartsOf
<1>6. PendingWhole' /\ GetHolds' /\ NoOldTags' /\ DueIsFirst'
  BY <1>1, <1>2, <1>4, <1>5
     DEF Received, Strong, PendingWhole, GetHolds, NoOldTags, DueIsFirst
<1>7. AppliesNew
  BY <1>1 DEF Received, link, AppliesNew
<1> QED
  BY <1>3, <1>6, <1>7 DEF Strong

LEMMA wifi_info_set_takenStep ==
  ASSUME Strong, NEW ssid \in Texts, NEW password \in Texts, NEW named \in BOOLEAN,
         wifi_info_set_taken(ssid, password, named)
  PROVE  Strong' /\ AppliesNew
<1>1. PICK sta, soft, armed :
         /\ Received
         /\ sta = SetStation(ssid, password) /\ soft = SetSoftap(named)
         /\ armed = (sta.ssid.head # 0 \/ soft = 1)
         /\ sta_conf' = (IF armed THEN sta ELSE None) /\ ap_conf' = (IF armed THEN soft ELSE None)
         /\ rstparm' = armed /\ restart_xms' = armed
         /\ due' = (IF ssid # "none" THEN posts + 1 ELSE due) /\ spoilt' = FALSE
         /\ since' = (IF armed THEN since \cup {posts + 1} ELSE {})
  BY Zenon DEF wifi_info_set_taken
<1>2. /\ sta \in Conf /\ soft \in Named /\ PartsOf(sta) \subseteq since \cup {posts + 1, 0}
      /\ due' # 0 /\ sta.ssid.head # 0 => sta.ssid.head = due'
      /\ posts + 1 \in 1..POSTS
  BY <1>1, FieldsPutIn
<1>3. armed \in BOOLEAN
  BY <1>1
<1>4. due' \in 0..POSTS
  BY <1>1, <1>2 DEF Strong, TypeOK
<1>5. rstparm' \in BOOLEAN /\ restart_xms' \in BOOLEAN /\ spoilt' \in BOOLEAN
  BY <1>1, <1>3, Zenon
<1>6. PartsOf(sta_conf)' = PartsOf(sta_conf')
  BY DEF PartsOf
<1>7. http = "idle" /\ http' = "idle" /\ broken' = broken /\ stored' = stored
  BY <1>1 DEF Received, link
<1>8. sta # None /\ soft # None
  BY <1>2
<1>9. CASE armed
  <2>1. sta_conf' = sta /\ ap_conf' = soft /\ since' = since \cup {posts + 1}
    BY <1>1, <1>9, Zenon
  <2>2. TypeOK'
    BY <1>1, <1>2, <1>4, <1>5, <2>1, ReceivedTypes
  <2>3. PendingWhole'
    <3>1. sta.ssid.head # 0 \/ soft = 1
      BY <1>1, <1>9
    <3>2. rstparm' /\ ~broken
      BY <1>1, <1>9 DEF Strong, PendingWhole
    <3> QED
      BY <1>7, <1>8, <2>1, <3>1, <3>2 DEF PendingWhole
  <2>4. GetHolds' /\ NoOldTags' /\ DueIsFirst'
    BY <1>2, <1>6, <1>7, <2>1 DEF GetHolds, NoOldTags, DueIsFirst
  <2> QED
    BY <1>7, <2>2, <2>3, <2>4 DEF AppliesNew, Strong
<1>10. CASE ~armed
  <2>1. /\ sta_conf' = None /\ ap_conf' = None /\ ~rstparm' /\ ~restart_xms' /\ since' = {}
    BY <1>1, <1>10, Zenon
  <2>2. TypeOK'
    BY <1>1, <1>2, <1>4, <1>5, <2>1, ReceivedTypes
  <2>3. PendingWhole' /\ GetHolds' /\ NoOldTags' /\ DueIsFirst'
    BY <1>7, <2>1 DEF Strong, PendingWhole, GetHolds, NoOldTags, DueIsFirst
  <2> QED
    BY <1>7, <2>2, <2>3 DEF AppliesNew, Strong
<1> QED
  BY <1>3, <1>9, <1>10

(* restart_xms_cb applies what is pending, which is new unless a GET came. *)
LEMMA restart_xms_cbStep ==
  ASSUME Strong, restart_xms_cb
  PROVE  Strong' /\ AppliesNew
<1>1. restart_xms /\ rstparm
  BY DEF restart_xms_cb, Strong, PendingWhole
<1>2. CASE sta_conf = None /\ NullRead
  BY <1>1, <1>2, NullReadStep DEF Strong, PendingWhole
<1>3. ASSUME sta_conf # None
      PROVE  /\ sta_conf \in Conf
             /\ ~spoilt => /\ PartsOf(sta_conf) \subseteq since \cup {0}
                           /\ due # 0 /\ sta_conf.ssid.head # 0 => sta_conf.ssid.head = due
  BY <1>1, <1>3 DEF Strong, TypeOK, GetHolds, NoOldTags, DueIsFirst
<1>4. CASE sta_conf # None /\ AppliedWithRestart
  <2>1. stored' \in Conf /\ broken' = FALSE
    BY <1>3, <1>4 DEF AppliedWithRestart, wifi_station_set_config, Strong, TypeOK, PendingWhole
  <2>2. Strong'
    BY <1>4, <2>1, StartsAnew DEF AppliedWithRestart, Strong
  <2> QED
    BY <1>3, <1>4, <2>2 DEF AppliedWithRestart, wifi_station_set_config, AppliesNew
<1>5. CASE sta_conf # None /\ Applied
  <2>1. stored' \in Conf /\ station' \in {"idle", "connecting", "got_ip"}
    BY <1>3, <1>5 DEF Applied, Join, wifi_station_set_config, wifi_station_reconnect, Strong, TypeOK
  <2>2. TypeOK'
    <3>1. due' \in 0..POSTS
      BY <1>5 DEF Applied, Strong, TypeOK
    <3>2. rstparm' \in BOOLEAN /\ restart_xms' \in BOOLEAN
      BY <1>5, Zenon DEF Applied, Forget
    <3>3. sta_conf' \in Conf \cup {None} /\ ap_conf' \in Named \cup {None} /\ since' \subseteq 1..POSTS
      BY <1>5 DEF Applied, Forget
    <3> QED
      BY <1>5, <2>1, <3>1, <3>2, <3>3 DEF Applied, Strong, TypeOK
  <2>3. PendingWhole' /\ GetHolds' /\ NoOldTags' /\ DueIsFirst'
    BY <1>1, <1>5 DEF Applied, Forget, Strong, PendingWhole, GetHolds, NoOldTags, DueIsFirst
  <2> QED
    BY <1>3, <1>5, <2>2, <2>3 DEF Applied, Join, wifi_station_set_config, AppliesNew, Strong
<1> QED
  BY <1>1, <1>2, <1>4, <1>5 DEF restart_xms_cb

LEMMA WifiSteps == Strong /\ [Next]_vars => Strong' /\ (AppliesNew \/ UNCHANGED vars)
<1> SUFFICES ASSUME Strong, [Next]_vars PROVE Strong' /\ (AppliesNew \/ UNCHANGED vars)
  OBVIOUS
<1>1. CASE PowerCycle \/ GotIp \/ LinkLost \/ smartconfig_task
  BY <1>1, PowerCycleStep, GotIpStep, LinkLostStep, smartconfig_taskStep
<1>2. CASE smartconfig_done
  BY <1>2, SmartConfigWaitsStep, SmartConfigGettingStep, SmartConfigLinkStep, SmartConfigLinkOverStep
     DEF smartconfig_done
<1>3. CASE LongPress \/ debug_smart_config
  BY <1>3, LongPressStep, debug_smart_configStep
<1>4. CASE user_esp_platform_maintainer
  BY <1>4, MaintainerSmartConfigStep, reconnectAPStep, MaintainerProceedsStep
     DEF user_esp_platform_maintainer
<1>5. CASE wifi_info_set
  BY <1>5, TextsAreSent, wifi_info_set_refusedStep, wifi_info_set_takenStep DEF wifi_info_set
<1>6. CASE wifi_info_get
  BY <1>6, GetBeginsStep, wifi_station_getStep, wifi_softap_getStep, GetEndsStep DEF wifi_info_get
<1>7. CASE restart_xms_cb
  BY <1>7, restart_xms_cbStep
<1>8. CASE UNCHANGED vars
  BY <1>8 DEF vars, link, request, hist, Strong, TypeOK, PendingWhole, GetHolds, NoOldTags, DueIsFirst
<1> QED
  BY <1>1, <1>2, <1>3, <1>4, <1>5, <1>6, <1>7, <1>8 DEF Next

(* wifi_info_set, wifi_info_get and restart_xms_cb share two pointers:     *)
(* unless a GET took the buffers, the callback finds a whole request.      *)
THEOREM NoNullPointerRead == Spec => []WifiInv
<1>1. Spec => []Strong
  BY WifiStarts, WifiSteps, PTL DEF Spec
<1>2. Strong => WifiInv
  BY DEF Strong, WifiInv
<1> QED
  BY <1>1, <1>2, PTL

(* No part of an ssid or a password of an applied request is applied again, *)
(* and the name that is applied begins as the request that is due has it.  *)
THEOREM AppliedOnce == Spec => NoLeftovers
<1>1. Spec => []Strong
  BY WifiStarts, WifiSteps, PTL DEF Spec
<1>2. Strong /\ [Next]_vars =>
        [stored' # stored /\ stored' # ConfOf(Phone) /\ ~spoilt =>
           /\ PartsOf(stored') \subseteq since \cup {0}
           /\ due # 0 => stored'.ssid.head = due]_vars
  BY WifiSteps DEF AppliesNew
<1> QED
  BY <1>1, <1>2, PTL DEF Spec, NoLeftovers

-----------------------------------------------------------------------------
(* The answer after its head and n entries that are not the last.          *)
Begun(n) ==
    [i \in 1 .. n + 2 |-> IF i = 1 THEN "request" ELSE IF i = 2 THEN "head" ELSE "entry,"]

Parts == {"request", "head", "inProgress", "entry", "entry,", "tail"}

CgiTypes == CgiTypeOK /\ answer \in [Conns -> Seq(Parts)]

(* A scan whose flag is down had it cleared; the HTTP task reads the list  *)
(* for an answer that goes on, with the flag down.                         *)
ScanOrder ==
    /\ scanning /\ ~scanInProgress => cleared
    /\ reading # Nobody => reading \in Conns /\ ~scanInProgress /\ Answering(reading)

(* An answer that nobody disturbed so far is the beginning of a whole one, *)
(* and the list is still the one it began with.                            *)
SoFar(c) ==
    /\ cgiData[c] = 0 => answer[c] \in {<<>>, <<"request">>}
    /\ cgiData[c] # 0 /\ c \notin overlapped =>
         /\ ~scanInProgress
         /\ answer[c] = Begun(cgiData[c] - 1)
         /\ cgiData[c] = 1 \/ cgiData[c] <= noAps

CgiInv == CgiTypes /\ ScanOrder /\ AnswersWhole /\ (\A c \in Conns \ done : SoFar(c))

(* Part i of such an answer. *)
BegunPart(i) == IF i = 1 THEN "request" ELSE IF i = 2 THEN "head" ELSE "entry,"

LEMMA BegunSeq ==
  ASSUME NEW n \in Nat
  PROVE  /\ Begun(n) \in Seq(Parts) /\ Len(Begun(n)) = n + 2
         /\ \A i \in 1 .. n + 2 : Begun(n)[i] = BegunPart(i)
  BY DEF Begun, Parts, BegunPart

LEMMA OneMore ==
  ASSUME NEW S, NEW s \in Seq(S), NEW b \in S
  PROVE  s \o <<b>> = Append(s, b)
<1>1. PICK o : o = <<b>>
  OBVIOUS
<1>2. o \in Seq(S) /\ Len(o) = 1 /\ o[1] = b
  BY <1>1
<1>3. /\ s \o o \in Seq(S) /\ Len(s \o o) = Len(s) + Len(o)
      /\ \A i \in 1 .. Len(s) + Len(o) : (s \o o)[i] = IF i <= Len(s) THEN s[i] ELSE o[i - Len(s)]
  BY <1>2, ConcatProperties
<1>4. /\ Append(s, b) \in Seq(S) /\ Len(Append(s, b)) = Len(s) + 1
      /\ \A i \in 1 .. Len(s) : Append(s, b)[i] = s[i]
      /\ Append(s, b)[Len(s) + 1] = b
  BY AppendProperties
<1>5. PICK c : c = s \o o
  OBVIOUS
<1>6. PICK a : a = Append(s, b)
  OBVIOUS
<1>7. c \in Seq(S) /\ Len(c) = Len(s) + 1 /\ a \in Seq(S) /\ Len(a) = Len(s) + 1
  BY <1>2, <1>3, <1>4, <1>5, <1>6
<1>8. \A i \in 1 .. Len(s) + 1 : c[i] = IF i <= Len(s) THEN s[i] ELSE o[i - Len(s)]
  BY <1>2, <1>3, <1>5, Zenon
<1>9. (\A i \in 1 .. Len(s) : a[i] = s[i]) /\ a[Len(s) + 1] = b
  BY <1>4, <1>6, Zenon
<1>10. ASSUME NEW i \in 1 .. Len(s) + 1 PROVE c[i] = a[i]
  BY <1>2, <1>8, <1>9
<1> QED
  BY <1>1, <1>5, <1>6, <1>7, <1>10, SeqEqual

LEMMA OneAndOne ==
  ASSUME NEW S, NEW a \in S, NEW b \in S
  PROVE  Append(<<a>>, b) = <<a, b>>
<1>1. PICK o : o = <<a>>
  OBVIOUS
<1>2. PICK t : t = <<a, b>>
  OBVIOUS
<1>3. PICK p : p = Append(o, b)
  OBVIOUS
<1>4. o \in Seq(S) /\ Len(o) = 1 /\ o[1] = a
  BY <1>1
<1>5. t \in Seq(S) /\ Len(t) = 2
  BY <1>2
<1>6. t[1] = a
  BY <1>2
<1>7. t[2] = b
  BY <1>2
<1>8. p \in Seq(S) /\ Len(p) = 2
  <2>1. Append(o, b) \in Seq(S) /\ Len(Append(o, b)) = Len(o) + 1
    BY <1>4, AppendProperties
  <2> QED
    BY <1>3, <1>4, <2>1
<1>9. p[1] = o[1]
  <2>1. \A i \in 1 .. Len(o) : Append(o, b)[i] = o[i]
    BY <1>4, AppendProperties
  <2>2. 1 \in 1 .. Len(o)
    BY <1>4
  <2> QED
    BY <1>3, <2>1, <2>2, Zenon
<1>10. p[2] = b
  <2>1. Append(o, b)[Len(o) + 1] = b
    BY <1>4, AppendProperties, SMTT(30)
  <2>2. Len(o) + 1 = 2
    BY <1>4
  <2> QED
    BY <1>3, <2>1, <2>2, Zenon
<1>11. ASSUME NEW i \in 1 .. 2 PROVE p[i] = t[i]
  <2>1. CASE i = 1
    BY <1>4, <1>6, <1>9, <2>1
  <2>2. CASE i = 2
    BY <1>7, <1>10, <2>2
  <2> QED
    BY <2>1, <2>2
<1>12. p = t
  BY <1>5, <1>8, <1>11, SeqEqual
<1> QED
  BY <1>1, <1>2, <1>3, <1>12, Zenon

(* What appending a part makes of an answer. *)
IsAppend(t, s, part) ==
    /\ t \in Seq(Parts) /\ Len(t) = Len(s) + 1
    /\ \A i \in 1 .. Len(s) : t[i] = s[i]
    /\ t[Len(s) + 1] = part

LEMMA AppendIs ==
  ASSUME NEW s \in Seq(Parts), NEW part \in Parts
  PROVE  IsAppend(Append(s, part), s, part)
  BY AppendProperties DEF IsAppend

LEMMA BegunNext ==
  ASSUME NEW n \in Nat
  PROVE  Append(Begun(n), "entry,") = Begun(n + 1)
<1>1. PICK b : b = Begun(n)
  OBVIOUS
<1>2. PICK next : next = Begun(n + 1)
  OBVIOUS
<1>3. b \in Seq(Parts) /\ Len(b) = n + 2
  BY <1>1, BegunSeq
<1>4. \A i \in 1 .. n + 2 : b[i] = BegunPart(i)
  BY <1>1, BegunSeq
<1>5. n + 1 \in Nat /\ n + 1 + 2 = n + 3
  OBVIOUS
<1>6. next \in Seq(Parts) /\ Len(next) = n + 3
  BY <1>2, <1>5, BegunSeq
<1>7. \A i \in 1 .. n + 3 : next[i] = BegunPart(i)
  BY <1>2, <1>5, BegunSeq
<1>8. BegunPart(n + 3) = "entry,"
  BY DEF BegunPart
<1>9. IsAppend(Append(b, "entry,"), b, "entry,")
  <2>1. "entry," \in Parts
    BY DEF Parts
  <2> QED
    BY <1>3, <2>1, AppendIs
<1>10. PICK a : a = Append(b, "entry,")
  OBVIOUS
<1>11. n + 2 + 1 = n + 3 /\ Len(b) + 1 = n + 3
  BY <1>3
<1>12. /\ a \in Seq(Parts) /\ Len(a) = n + 3
       /\ \A i \in 1 .. n + 2 : a[i] = b[i]
       /\ a[n + 3] = "entry,"
  BY <1>3, <1>9, <1>10, <1>11, Zenon DEF IsAppend
<1>13. ASSUME NEW i \in 1 .. n + 3 PROVE a[i] = next[i]
  <2>1. CASE i \in 1 .. n + 2
    BY <1>4, <1>7, <1>12, <2>1
  <2>2. CASE i = n + 3
    BY <1>7, <1>8, <1>12, <2>2
  <2> QED
    BY <2>1, <2>2
<1>14. a = next
  BY <1>6, <1>12, <1>13, SeqEqual
<1> QED
  BY <1>1, <1>2, <1>10, <1>14

(* The short sequences the answers are put together from. *)
LEMMA ShortParts ==
  /\ Append(<<"request">>, "inProgress") = <<"request", "inProgress">>
  /\ <<"entry">> \o <<"tail">> = <<"entry", "tail">>
  /\ <<>> \o <<"tail">> = <<"tail">>
  /\ <<"entry,">> \o <<>> = <<"entry,">>
<1>1. "request" \in Parts /\ "inProgress" \in Parts /\ "entry" \in Parts /\ "tail" \in Parts
  BY DEF Parts
<1>2. <<"entry">> \in Seq(Parts) /\ <<"entry,">> \in Seq(Parts) /\ <<"tail">> \in Seq(Parts)
  BY DEF Parts
<1>3. Append(<<"request">>, "inProgress") = <<"request", "inProgress">>
  BY <1>1, OneAndOne
<1>4. <<"entry">> \o <<"tail">> = Append(<<"entry">>, "tail")
  BY <1>1, <1>2, OneMore
<1>5. Append(<<"entry">>, "tail") = <<"entry", "tail">>
  BY <1>1, OneAndOne
<1>6. <<>> \o <<"tail">> = <<"tail">> /\ <<"entry,">> \o <<>> = <<"entry,">>
  BY <1>2, ConcatEmptySeq
<1> QED
  BY <1>3, <1>4, <1>5, <1>6, Zenon

LEMMA BegunFirst == Append(<<"request">>, "head") = Begun(0)
  BY DEF Begun

(* Two ways to put the same parts together. *)
SameOnBothSides(g, h, e, u, t, n) ==
    /\ g[1] = h[1] /\ g[2] = h[2] /\ \A i \in 3 .. n + 1 : g[i] = e[i - 2]
    /\ u[1] = e[n] /\ u[2] = t[1]
SameJoined(g, h, e, u, t) == h \o e \o t = g \o u

LEMMA SameParts ==
  ASSUME NEW S, NEW n \in Nat \ {0},
         NEW h \in Seq(S), Len(h) = 2, NEW e \in Seq(S), Len(e) = n,
         NEW t \in Seq(S), Len(t) = 1,
         NEW g \in Seq(S), Len(g) = n + 1, NEW u \in Seq(S), Len(u) = 2
  PROVE  SameOnBothSides(g, h, e, u, t, n) => SameJoined(g, h, e, u, t)
<1>1. /\ h \o e \in Seq(S) /\ Len(h \o e) = Len(h) + Len(e)
      /\ \A i \in 1 .. Len(h) + Len(e) : (h \o e)[i] = IF i <= Len(h) THEN h[i] ELSE e[i - Len(h)]
  BY ZenonT(30), ConcatProperties
<1>2. PICK he : he = h \o e
  OBVIOUS
<1>3. Len(h) + Len(e) = n + 2 /\ Len(g) + Len(u) = n + 3
  OBVIOUS
<1>4. /\ he \in Seq(S) /\ Len(he) = n + 2
      /\ \A i \in 1 .. n + 2 : he[i] = IF i <= 2 THEN h[i] ELSE e[i - 2]
  BY <1>1, <1>2, <1>3, Zenon
<1>5. /\ he \o t \in Seq(S) /\ Len(he \o t) = Len(he) + Len(t)
      /\ \A i \in 1 .. Len(he) + Len(t) : (he \o t)[i] = IF i <= Len(he) THEN he[i] ELSE t[i - Len(he)]
  BY ZenonT(30), <1>4, ConcatProperties
<1>6. PICK w : w = he \o t
  OBVIOUS
<1>7. Len(he) + Len(t) = n + 3
  BY <1>4
<1>8. /\ w \in Seq(S) /\ Len(w) = n + 3
      /\ \A i \in 1 .. n + 3 : w[i] = IF i <= n + 2 THEN he[i] ELSE t[i - (n + 2)]
  BY <1>4, <1>5, <1>6, <1>7, Zenon
<1>9. /\ g \o u \in Seq(S) /\ Len(g \o u) = Len(g) + Len(u)
      /\ \A i \in 1 .. Len(g) + Len(u) : (g \o u)[i] = IF i <= Len(g) THEN g[i] ELSE u[i - Len(g)]
  BY ZenonT(60), ConcatProperties
<1>10. PICK gu : gu = g \o u
  OBVIOUS
<1>11. /\ gu \in Seq(S) /\ Len(gu) = n + 3
       /\ \A i \in 1 .. n + 3 : gu[i] = IF i <= n + 1 THEN g[i] ELSE u[i - (n + 1)]
  BY <1>3, <1>9, <1>10, Zenon
<1>12. ASSUME g[1] = h[1] /\ g[2] = h[2], \A i \in 3 .. n + 1 : g[i] = e[i - 2],
              u[1] = e[n] /\ u[2] = t[1], NEW i \in 1 .. n + 3
       PROVE  w[i] = gu[i]
  <2>1. CASE i \in 1 .. 2
    <3>1. i \in 1 .. n + 3 /\ i <= n + 2 /\ i <= n + 1 /\ i <= 2 /\ i \in 1 .. n + 2
      BY <2>1, SMTT(30)
    <3>2. w[i] = he[i]
      BY <1>8, <3>1
    <3>3. he[i] = h[i]
      BY <1>4, <3>1
    <3>4. gu[i] = g[i]
      BY <1>11, <3>1
    <3>5. i = 1 \/ i = 2
      BY <2>1
    <3>6. g[i] = h[i]
      BY <1>12, <3>5
    <3> QED
      BY <3>2, <3>3, <3>4, <3>6, Zenon
  <2>2. CASE i \in 3 .. n + 1
    <3>1. i \in 1 .. n + 3 /\ i <= n + 2 /\ i <= n + 1 /\ i > 2 /\ i \in 1 .. n + 2
      BY <2>2, SMTT(30)
    <3>2. w[i] = he[i]
      BY <1>8, <3>1
    <3>3. he[i] = e[i - 2]
      BY <1>4, <3>1
    <3>4. gu[i] = g[i]
      BY <1>11, <3>1
    <3>5. g[i] = e[i - 2]
      BY <1>12, <2>2, Zenon
    <3> QED
      BY <3>2, <3>3, <3>4, <3>5, Zenon
  <2>3. CASE i = n + 2
    <3>1. w[i] = e[n]
      BY <1>4, <1>8, <2>3
    <3>2. gu[i] = u[1]
      BY <1>11, <2>3
    <3> QED
      BY <1>12, <3>1, <3>2
  <2>4. CASE i = n + 3
    <3>1. w[i] = t[1]
      BY <1>8, <2>4
    <3>2. gu[i] = u[2]
      BY <1>11, <2>4
    <3> QED
      BY <1>12, <3>1, <3>2
  <2>5. i \in 1 .. 2 \/ i \in 3 .. n + 1 \/ i = n + 2 \/ i = n + 3
    BY <1>12, SMTT(30)
  <2> QED
    BY <2>1, <2>2, <2>3, <2>4, <2>5, ZenonT(30)
<1>13. (\A i \in 1 .. n + 3 : w[i] = gu[i]) => w = gu
  BY <1>8, <1>11, SeqEqual
<1> QED
  BY <1>2, <1>6, <1>10, <1>12, <1>13, Zenon DEF SameOnBothSides, SameJoined

LEMMA WholeEmpty == Whole(Begun(0) \o <<"tail">>)
<1> DEFINE es == [i \in 1..0 |-> IF i = 0 THEN "entry" ELSE "entry,"]
<1>1. Begun(0) = <<"request", "head">> /\ Begun(0) \in Seq(Parts)
  BY DEF Begun, Parts
<1>2. es = <<>>
  OBVIOUS
<1>3. <<"request", "head">> \o es = Begun(0)
  BY <1>1, <1>2, ConcatEmptySeq
<1>4. 0 \in 0..APS
  BY CgiBounds
<1> QED
  BY <1>3, <1>4, Zenon DEF Whole

LEMMA WholeEntries ==
  ASSUME NEW n \in 1..APS
  PROVE  Whole(Begun(n - 1) \o <<"entry", "tail">>)
<1>1. n \in Nat \ {0} /\ n - 1 \in Nat /\ n \in 0..APS
  BY CgiBounds
<1>2. PICK es : es = [i \in 1..n |-> IF i = n THEN "entry" ELSE "entry,"]
  OBVIOUS
<1>3. PICK g : g = Begun(n - 1)
  OBVIOUS
<1>4. PICK h : h = <<"request", "head">>
  OBVIOUS
<1>5. PICK t : t = <<"tail">>
  OBVIOUS
<1>6. PICK u : u = <<"entry", "tail">>
  OBVIOUS
<1>7. es \in Seq(Parts) /\ Len(es) = n
  <2>1. \A i \in 1..n : (IF i = n THEN "entry" ELSE "entry,") \in Parts
    BY DEF Parts
  <2>2. es \in [1..n -> Parts]
    BY <1>2, <2>1, Zenon
  <2> QED
    BY <1>1, <2>2
<1>8. es[n] = "entry" /\ \A i \in 1 .. n - 1 : es[i] = "entry,"
  <2>1. n \in 1..n /\ \A i \in 1 .. n - 1 : i \in 1..n /\ i # n
    BY <1>1
  <2> QED
    BY <1>2, <2>1, Zenon
<1>9. /\ h \in Seq(Parts) /\ Len(h) = 2 /\ t \in Seq(Parts) /\ Len(t) = 1
      /\ u \in Seq(Parts) /\ Len(u) = 2
  BY <1>4, <1>5, <1>6 DEF Parts
<1>10. u[1] = "entry" /\ u[2] = t[1] /\ h[1] = "request" /\ h[2] = "head"
  BY <1>4, <1>5, <1>6
<1>11. n - 1 + 2 = n + 1
  BY <1>1
<1>12. g \in Seq(Parts) /\ Len(g) = n + 1
  BY <1>1, <1>3, <1>11, BegunSeq
<1>13. \A i \in 1 .. n + 1 : g[i] = BegunPart(i)
  BY <1>1, <1>3, <1>11, BegunSeq
<1>14. g[1] = h[1] /\ g[2] = h[2]
  <2>1. 1 \in 1 .. n + 1 /\ 2 \in 1 .. n + 1
    BY <1>1
  <2>2. BegunPart(1) = "request" /\ BegunPart(2) = "head"
    BY DEF BegunPart
  <2> QED
    BY <1>10, <1>13, <2>1, <2>2, Zenon
<1>15. ASSUME NEW i \in 3 .. n + 1 PROVE g[i] = es[i - 2]
  <2>1. g[i] = "entry,"
    <3>1. i \in 1 .. n + 1 /\ BegunPart(i) = "entry,"
      BY <1>1 DEF BegunPart
    <3> QED
      BY <1>13, <3>1, Zenon
  <2>2. i - 2 \in 1 .. n - 1
    BY <1>1
  <2> QED
    BY <1>8, <2>1, <2>2, Zenon
<1>16. SameOnBothSides(g, h, es, u, t, n)
  BY <1>8, <1>10, <1>14, <1>15, Zenon DEF SameOnBothSides
<1>17. SameJoined(g, h, es, u, t)
  BY <1>1, <1>7, <1>9, <1>12, <1>16, SameParts
<1> QED
  BY <1>1, <1>2, <1>3, <1>4, <1>5, <1>6, <1>17, Zenon DEF Whole, SameJoined


-----------------------------------------------------------------------------
(* What the pages and the scan keep through a step that touches neither. *)
LEMMA OtherStep ==
  ASSUME CgiInv, CgiTypes', UNCHANGED <<scan, page, cleared, overlapped>>
  PROVE  CgiInv'
<1>1. ScanOrder'
  BY DEF CgiInv, ScanOrder, Answering, scan, page, Nobody
<1>2. AnswersWhole'
  BY DEF CgiInv, AnswersWhole, page
<1>3. \A c \in Conns \ done : SoFar(c)'
  BY DEF CgiInv, SoFar, scan, page
<1> QED
  BY <1>1, <1>2, <1>3 DEF CgiInv, page

LEMMA CgiStart == CgiInit => CgiInv
<1> SUFFICES ASSUME CgiInit PROVE CgiInv
  OBVIOUS
<1>1. CgiTypes
  <2>1. <<>> \in Seq(Parts)
    OBVIOUS
  <2>2. answer \in [Conns -> Seq(Parts)]
    BY <2>1 DEF CgiInit
  <2>3. /\ cgiData \in [Conns -> 0..(APS + 1)] /\ noAps \in 0..APS /\ attempts \in 0..ATTEMPTS
        /\ trying \in 0..attempts /\ joined \in 0..trying
    BY CgiBounds DEF CgiInit
  <2> QED
    BY <2>2, <2>3 DEF CgiInit, CgiTypes, CgiTypeOK, Parts, CgiModes, Nobody
<1>2. ScanOrder
  BY DEF CgiInit, ScanOrder
<1>3. AnswersWhole
  BY DEF CgiInit, AnswersWhole
<1>4. \A c \in Conns \ done : SoFar(c)
  BY DEF CgiInit, SoFar
<1> QED
  BY <1>1, <1>2, <1>3, <1>4 DEF CgiInv

LEMMA StationMovesStep == ASSUME CgiInv, StationMoves PROVE CgiInv'
<1>1. CgiTypes'
  BY DEF CgiInv, StationMoves, CgiTypes, CgiTypeOK, scan, page, try, tried, cgihist
<1> QED
  BY <1>1, OtherStep DEF StationMoves, cgihist

LEMMA ConnectStep == ASSUME CgiInv, cgiWiFiConnect PROVE CgiInv'
<1>1. attempts' \in 0..ATTEMPTS
  <2>1. attempts \in 0..ATTEMPTS /\ attempts < ATTEMPTS /\ attempts' = attempts + 1
    BY DEF CgiInv, CgiTypes, CgiTypeOK, cgiWiFiConnect
  <2> QED
    BY <2>1, CgiBounds
<1>3. trying' \in 0..attempts' /\ joined' \in 0..trying'
  <2>1. /\ attempts' = attempts + 1 /\ trying' = trying /\ joined' = joined
        /\ attempts \in 0..ATTEMPTS /\ trying \in 0..attempts /\ joined \in 0..trying
    BY DEF CgiInv, CgiTypes, CgiTypeOK, cgiWiFiConnect, tried
  <2> QED
    BY <2>1, CgiBounds
<1>2. CgiTypes'
  BY <1>1, <1>3 DEF CgiInv, cgiWiFiConnect, CgiTypes, CgiTypeOK, scan, page, tried
<1> QED
  BY <1>2, OtherStep DEF cgiWiFiConnect

LEMMA ReassTimerStep == ASSUME CgiInv, reassTimerCb PROVE CgiInv'
<1>1. resetTimer' \in BOOLEAN
  BY DEF CgiInv, CgiTypes, CgiTypeOK, reassTimerCb, Reassociate
<1>3. trying' \in 0..attempts' /\ joined' \in 0..trying'
  <2>1. /\ trying' = attempts /\ attempts' = attempts /\ joined' = joined
        /\ attempts \in 0..ATTEMPTS /\ trying \in 0..attempts /\ joined \in 0..trying
    BY DEF CgiInv, CgiTypes, CgiTypeOK, reassTimerCb, Reassociate, cgihist
  <2> QED
    BY <2>1, CgiBounds
<1>2. CgiTypes'
  BY <1>1, <1>3 DEF CgiInv, reassTimerCb, Reassociate, CgiTypes, CgiTypeOK, scan, page, cgihist
<1> QED
  BY <1>2, OtherStep DEF reassTimerCb, Reassociate, cgihist

LEMMA ResetTimerStep == ASSUME CgiInv, resetTimerCb PROVE CgiInv'
<1>2. joined' \in 0..trying' /\ trying' = trying /\ attempts' = attempts
  <2>1. trying \in 0..attempts /\ joined \in 0..trying
    BY DEF CgiInv, CgiTypes, CgiTypeOK
  <2>2. trying' = trying /\ attempts' = attempts /\ joined' \in {trying, joined}
    BY DEF resetTimerCb, cgihist
  <2> QED
    BY <2>1, <2>2
<1>1. CgiTypes'
  BY <1>2 DEF CgiInv, resetTimerCb, CgiTypes, CgiTypeOK, CgiModes, scan, page, cgihist
<1> QED
  BY <1>1, OtherStep DEF resetTimerCb, cgihist

LEMMA ConnStatusStep == ASSUME CgiInv, cgiWiFiConnStatus PROVE CgiInv'
<1>1. CgiTypes'
  BY DEF CgiInv, cgiWiFiConnStatus, CgiTypes, CgiTypeOK, scan, page, cgihist, tried
<1> QED
  BY <1>1, OtherStep DEF cgiWiFiConnStatus, cgihist

(* The list changes: the answers it could spoil are those a cleared flag   *)
(* left exposed; with the flag up there is none that goes on.              *)
LEMMA ScanDoneStep == ASSUME CgiInv, wifiScanDoneCb PROVE CgiInv'
<1>1. CgiTypes'
  <2>1. noAps' \in 0..APS
    BY DEF CgiInv, CgiTypes, CgiTypeOK, wifiScanDoneCb
  <2>2. overlapped' \subseteq Conns
    BY DEF CgiInv, CgiTypes, CgiTypeOK, wifiScanDoneCb
  <2> QED
    BY <2>1, <2>2 DEF CgiInv, CgiTypes, CgiTypeOK, wifiScanDoneCb, page, try, tried
<1>2. ScanOrder'
  BY DEF CgiInv, ScanOrder, Answering, wifiScanDoneCb, page
<1>3. AnswersWhole'
  <2>1. overlapped \subseteq overlapped' /\ done' = done /\ answer' = answer
    BY DEF wifiScanDoneCb, page
  <2> QED
    BY <2>1 DEF CgiInv, AnswersWhole
<1>4. ASSUME NEW c \in Conns \ done PROVE SoFar(c)'
  <2>1. SoFar(c)
    BY <1>4 DEF CgiInv
  <2>2. CASE cgiData[c] = 0
    BY <2>1, <2>2 DEF SoFar, wifiScanDoneCb, page
  <2>3. CASE cgiData[c] # 0
    <3>1. c \in overlapped'
      BY <1>4, <2>1, <2>3 DEF CgiInv, ScanOrder, SoFar, Answering, wifiScanDoneCb
    <3> QED
      BY <2>3, <3>1 DEF SoFar, wifiScanDoneCb, page
  <2> QED
    BY <2>2, <2>3
<1> QED
  BY <1>1, <1>2, <1>3, <1>4 DEF CgiInv, wifiScanDoneCb, page

LEMMA RequestStep == ASSUME CgiInv, NEW c \in Conns, Request(c) PROVE CgiInv'
<1>1. CgiTypes'
  <2>1. <<"request">> \in Seq(Parts)
    BY DEF Parts
  <2>2. answer' \in [Conns -> Seq(Parts)]
    BY <2>1 DEF CgiInv, CgiTypes, Request
  <2>3. cgiData' \in [Conns -> 0..(APS + 1)]
    <3>1. 0 \in 0..(APS + 1)
      BY CgiBounds
    <3>2. cgiData \in [Conns -> 0..(APS + 1)]
      BY DEF CgiInv, CgiTypes, CgiTypeOK
    <3>3. cgiData' = [cgiData EXCEPT ![c] = 0]
      BY DEF Request
    <3> QED
      BY <3>1, <3>2, <3>3
  <2> QED
    BY <2>2, <2>3 DEF CgiInv, CgiTypes, CgiTypeOK, Parts, Request, scan, try, tried
<1>2. ScanOrder'
  BY DEF CgiInv, CgiTypes, CgiTypeOK, ScanOrder, Answering, Request, scan
<1>3. AnswersWhole'
  <2>1. ASSUME NEW d \in done' PROVE d \in done /\ answer'[d] = answer[d] /\ (d \in overlapped => d \in overlapped')
    BY <2>1 DEF CgiInv, CgiTypes, CgiTypeOK, Request
  <2> QED
    BY <2>1 DEF CgiInv, AnswersWhole
<1>4. ASSUME NEW d \in Conns \ done' PROVE SoFar(d)'
  <2>1. CASE d = c
    BY <2>1 DEF CgiInv, CgiTypes, CgiTypeOK, SoFar, Request
  <2>2. CASE d # c
    <3>1. SoFar(d)
      BY <1>4, <2>2 DEF CgiInv, Request
    <3>2. cgiData'[d] = cgiData[d] /\ answer'[d] = answer[d] /\ (d \in overlapped => d \in overlapped')
      BY <1>4, <2>2 DEF CgiInv, CgiTypes, CgiTypeOK, Request
    <3> QED
      BY <3>1, <3>2 DEF SoFar, Request, scan
  <2> QED
    BY <2>1, <2>2
<1> QED
  BY <1>1, <1>2, <1>3, <1>4 DEF CgiInv

LEMMA ScanChecksStep == ASSUME CgiInv, NEW c \in Conns, ScanChecks(c) PROVE CgiInv'
<1>1. CgiTypes'
  BY DEF CgiInv, CgiTypes, CgiTypeOK, ScanChecks, scan, try, tried, cgihist
<1>2. ScanOrder'
  BY DEF CgiInv, ScanOrder, Answering, ScanChecks, Waiting, scan, cgihist
<1>3. AnswersWhole'
  BY DEF CgiInv, AnswersWhole, ScanChecks, cgihist
<1>4. \A d \in Conns \ done : SoFar(d)'
  BY DEF CgiInv, SoFar, ScanChecks, scan, cgihist
<1> QED
  BY <1>1, <1>2, <1>3, <1>4 DEF CgiInv, ScanChecks

LEMMA SetModeStep == ASSUME CgiInv, NEW mode \in CgiModes, cgiWiFiSetMode(mode) PROVE CgiInv'
<1>1. CgiTypes'
  <2>1. wifi_station' \in {"idle", "got_ip"}
    BY DEF CgiInv, CgiTypes, CgiTypeOK, cgiWiFiSetMode
  <2>2. cleared' \in BOOLEAN
    BY DEF CgiInv, CgiTypes, CgiTypeOK, cgiWiFiSetMode
  <2> QED
    BY <2>1, <2>2 DEF CgiInv, CgiTypes, CgiTypeOK, cgiWiFiSetMode, page, try, tried
<1>2. ScanOrder'
  BY DEF CgiInv, ScanOrder, Answering, cgiWiFiSetMode, HttpTaskFree, page
<1>3. AnswersWhole'
  BY DEF CgiInv, AnswersWhole, cgiWiFiSetMode, page
<1>4. \A d \in Conns \ done : SoFar(d)'
  BY DEF CgiInv, SoFar, cgiWiFiSetMode, page
<1> QED
  BY <1>1, <1>2, <1>3, <1>4 DEF CgiInv, cgiWiFiSetMode, page


(* The head: a scan under way ends the answer here; otherwise it begins.   *)
LEMMA ScanHeadStep == ASSUME CgiInv, NEW c \in Conns, ScanHead(c) PROVE CgiInv'
<1> USE DEF CgiInv
<1>0. /\ answer \in [Conns -> Seq(Parts)] /\ answer[c] \in Seq(Parts) /\ answer[c] # <<>> /\ c \notin done
      /\ cgiData \in [Conns -> 0..(APS + 1)] /\ SoFar(c)
  BY DEF CgiTypes, CgiTypeOK, ScanHead, Waiting
<1>1. ASSUME cgiData[c] = 0 PROVE answer[c] = <<"request">>
  BY <1>0, <1>1 DEF SoFar
<1>2. reading = Nobody /\ reading' = Nobody /\ UNCHANGED <<scan, cgihist>>
  BY DEF ScanHead, Waiting, HttpTaskFree
<1>3. ScanOrder'
  BY <1>2 DEF ScanOrder, scan, cgihist
<1>4. CASE scanInProgress
  <2>1. /\ answer' = [answer EXCEPT ![c] = Append(@, "inProgress")]
        /\ done' = done \cup {c} /\ cgiData' = cgiData
    BY <1>4 DEF ScanHead, Send
  <2>2. answer'[c] = Append(answer[c], "inProgress")
    BY <1>0, <2>1
  <2>3. CgiTypes'
    <3>1. "inProgress" \in Parts
      BY DEF Parts
    <3>2. Append(answer[c], "inProgress") \in Seq(Parts)
      BY <1>0, <3>1
    <3>3. answer' \in [Conns -> Seq(Parts)]
      BY <1>0, <2>1, <3>2
    <3> QED
      BY <2>1, <3>3 DEF CgiTypes, CgiTypeOK, Parts, ScanHead, scan, try, tried, cgihist
  <2>4. AnswersWhole'
    <3>1. Whole(answer'[c]) \/ c \in overlapped'
      <4>1. CASE cgiData[c] = 0
        <5>1. answer'[c] = Append(<<"request">>, "inProgress")
          BY <1>1, <2>2, <4>1, Zenon
        <5>2. answer'[c] = <<"request", "inProgress">>
          BY <5>1, ShortParts, Zenon
        <5> QED
          BY <5>2, Zenon DEF Whole
      <4>2. CASE cgiData[c] # 0
        BY <1>0, <1>2, <1>4, <4>2 DEF SoFar, cgihist
      <4> QED
        BY <4>1, <4>2
    <3>2. ASSUME NEW d \in done PROVE Whole(answer'[d]) \/ d \in overlapped'
      <4>1. d # c /\ d \in Conns
        BY <1>0 DEF CgiTypes, CgiTypeOK
      <4>2. answer'[d] = answer[d]
        BY <1>0, <2>1, <4>1
      <4> QED
        BY <1>2, <4>2, Zenon DEF AnswersWhole, cgihist
    <3> QED
      BY <2>1, <3>1, <3>2, Zenon DEF AnswersWhole
  <2>5. ASSUME NEW d \in Conns \ done' PROVE SoFar(d)'
    <3>1. SoFar(d) /\ d # c
      BY <2>1
    <3>2. answer'[d] = answer[d] /\ cgiData'[d] = cgiData[d]
      BY <1>0, <2>1, <3>1
    <3> QED
      BY <1>2, <3>1, <3>2 DEF SoFar, scan, cgihist
  <2> QED
    BY <1>3, <2>3, <2>4, <2>5
<1>5. CASE ~scanInProgress
  <2>1. /\ answer' = [answer EXCEPT ![c] = Append(@, "head")]
        /\ cgiData' = [cgiData EXCEPT ![c] = 1] /\ done' = done /\ cgiData[c] = 0
    BY <1>5 DEF ScanHead, Send
  <2>2. answer'[c] = Append(answer[c], "head") /\ cgiData'[c] = 1
    BY <1>0, <2>1
  <2>3. CgiTypes'
    <3>1. "head" \in Parts /\ 1 \in 0..(APS + 1)
      BY CgiBounds DEF Parts
    <3>2. Append(answer[c], "head") \in Seq(Parts)
      BY <1>0, <3>1
    <3>3. answer' \in [Conns -> Seq(Parts)]
      BY <1>0, <2>1, <3>2
    <3>4. cgiData' \in [Conns -> 0..(APS + 1)]
      BY <1>0, <2>1, <3>1
    <3> QED
      BY <2>1, <3>3, <3>4 DEF CgiTypes, CgiTypeOK, Parts, ScanHead, scan, try, tried, cgihist
  <2>4. AnswersWhole'
    <3>1. ASSUME NEW d \in done PROVE Whole(answer'[d]) \/ d \in overlapped'
      <4>1. d # c /\ d \in Conns
        BY <1>0 DEF CgiTypes, CgiTypeOK
      <4>2. answer'[d] = answer[d]
        BY <1>0, <2>1, <4>1
      <4> QED
        BY <1>2, <4>2, Zenon DEF AnswersWhole, cgihist
    <3> QED
      BY <2>1, <3>1, Zenon DEF AnswersWhole
  <2>5. SoFar(c)'
    <3>1. answer'[c] = Begun(0)
      BY <1>1, <2>1, <2>2, BegunFirst, Zenon
    <3>2. answer'[c] = Begun(cgiData'[c] - 1)
      <4>1. cgiData'[c] - 1 = 0
        BY <2>2
      <4> QED
        BY <3>1, <4>1, Zenon
    <3> QED
      BY <1>2, <1>5, <2>2, <3>2 DEF SoFar, scan
  <2>6. ASSUME NEW d \in Conns \ done', d # c PROVE SoFar(d)'
    <3>1. SoFar(d)
      BY <2>1, <2>6
    <3>2. answer'[d] = answer[d] /\ cgiData'[d] = cgiData[d]
      BY <1>0, <2>1, <2>6
    <3> QED
      BY <1>2, <3>1, <3>2 DEF SoFar, scan, cgihist
  <2> QED
    BY <1>3, <2>1, <2>3, <2>4, <2>5, <2>6
<1> QED
  BY <1>4, <1>5

(* An entry of the list, for the only page that reads it, with the flag    *)
(* down: one more, or the last one and the tail, when it starts a scan.    *)
LEMMA ScanReadsStep == ASSUME CgiInv, NEW c \in Conns, ScanReads(c) PROVE CgiInv'
<1> USE DEF CgiInv
<1> DEFINE pos == cgiData[c]
           new == EntriesThen(c, pos >= noAps)
<1>1. /\ answer \in [Conns -> Seq(Parts)] /\ answer[c] \in Seq(Parts)
      /\ cgiData \in [Conns -> 0..(APS + 1)] /\ pos \in 0..(APS + 1) /\ noAps \in 0..APS
  BY DEF CgiTypes, CgiTypeOK
<1>2. reading = c /\ reading' = Nobody /\ UNCHANGED <<noAps, wifi_opmode, wifi_station, try, attempts>>
  BY DEF ScanReads, ScanEntry
<1>3. ~scanInProgress /\ pos # 0 /\ c \notin done /\ c # Nobody /\ SoFar(c)
  BY <1>2, CgiBounds DEF ScanOrder, Answering, Nobody
<1>4. APS \in Nat /\ pos \in Nat /\ noAps \in Nat
  BY <1>1, CgiBounds
<1>5. answer' = [answer EXCEPT ![c] = @ \o new]
  BY DEF ScanReads, ScanEntry
<1>6. answer'[c] = answer[c] \o new /\ \A d \in Conns \ {c} : answer'[d] = answer[d]
  BY <1>1, <1>5
<1>7. new \in Seq(Parts)
  <2> HIDE DEF pos
  <2>1. <<"entry">> \in Seq(Parts) /\ <<"entry,">> \in Seq(Parts) /\ <<"tail">> \in Seq(Parts) /\ <<>> \in Seq(Parts)
    BY DEF Parts
  <2>2. PICK first : first = IF pos <= noAps THEN <<IF pos = noAps THEN "entry" ELSE "entry,">> ELSE <<>>
    OBVIOUS
  <2>3. PICK rest : rest = IF pos >= noAps THEN <<"tail">> ELSE <<>>
    OBVIOUS
  <2>4. first \in Seq(Parts) /\ rest \in Seq(Parts)
    BY <2>1, <2>2, <2>3, Zenon
  <2>5. new = first \o rest
    BY <2>2, <2>3, Zenon DEF EntriesThen, pos
  <2> QED
    BY <2>4, <2>5, ConcatProperties
<1>8. answer' \in [Conns -> Seq(Parts)]
  <2>1. answer[c] \o new \in Seq(Parts)
    BY <1>1, <1>7, ConcatProperties
  <2> QED
    BY <1>1, <1>5, <2>1
<1>9. ASSUME NEW d \in done PROVE (Whole(answer'[d]) \/ d \in overlapped) /\ d \in Conns
  <2>1. d # c /\ d \in Conns
    BY <1>3 DEF CgiTypes, CgiTypeOK
  <2>2. answer'[d] = answer[d]
    BY <1>6, <2>1
  <2> QED
    BY <2>1, <2>2, Zenon DEF AnswersWhole
<1> HIDE DEF new, pos
<1>10. CASE pos >= noAps
  <2>1. done' = done \cup {c} /\ cgiData' = cgiData /\ wifiStartScan(c)
    BY <1>10 DEF ScanReads, ScanEntry, pos
  <2>2. /\ scanInProgress' = TRUE /\ wifi_station_scan
        /\ overlapped' = overlapped \cup {d \in Conns \ {c} : Answering(d)}
    BY <1>3, <2>1 DEF wifiStartScan
  <2>3. CgiTypes'
    <3>1. scanning' \in BOOLEAN /\ cleared' \in BOOLEAN
      BY <2>2 DEF CgiTypes, CgiTypeOK, wifi_station_scan
    <3>2. overlapped' \subseteq Conns /\ done' \subseteq Conns
      BY <2>1, <2>2 DEF CgiTypes, CgiTypeOK
    <3> QED
      BY <1>2, <1>8, <2>1, <2>2, <3>1, <3>2 DEF CgiTypes, CgiTypeOK, Parts, try, tried
  <2>4. ScanOrder'
    BY <1>2, <2>2 DEF ScanOrder
  <2>5. c \in overlapped \/ Whole(answer'[c])
    <3>1. SUFFICES ASSUME c \notin overlapped PROVE Whole(answer'[c])
      OBVIOUS
    <3>2. answer[c] = Begun(pos - 1) /\ (pos = 1 \/ pos <= noAps)
      BY <1>3, <3>1 DEF SoFar, pos
    <3>3. CASE pos <= noAps
      <4>1. pos = noAps /\ pos \in 1..APS
        BY <1>1, <1>3, <1>4, <1>10, <3>3
      <4>2. new = <<"entry">> \o <<"tail">>
        BY <1>10, <3>3, <4>1, Zenon DEF EntriesThen, new, pos
      <4>3. <<"entry">> \o <<"tail">> = <<"entry", "tail">>
        BY ShortParts
      <4>4. answer'[c] = Begun(pos - 1) \o <<"entry", "tail">>
        BY <1>6, <3>2, <4>2, <4>3, Zenon
      <4> QED
        BY <4>1, <4>4, WholeEntries, Zenon
    <3>4. CASE ~ (pos <= noAps)
      <4>1. pos - 1 = 0
        BY <1>4, <3>2, <3>4
      <4>2. new = <<>> \o <<"tail">>
        BY <1>10, <3>4, Zenon DEF EntriesThen, new, pos
      <4>3. <<>> \o <<"tail">> = <<"tail">>
        BY ShortParts
      <4>4. answer'[c] = Begun(0) \o <<"tail">>
        BY <1>6, <3>2, <4>1, <4>2, <4>3, Zenon
      <4> QED
        BY <4>4, WholeEmpty, Zenon
    <3> QED
      BY <3>3, <3>4
  <2>6. AnswersWhole'
    <3>1. ASSUME NEW d \in done' PROVE Whole(answer'[d]) \/ d \in overlapped'
      BY <1>9, <2>1, <2>2, <2>5
    <3> QED
      BY <3>1, Zenon DEF AnswersWhole
  <2>7. ASSUME NEW d \in Conns \ done' PROVE SoFar(d)'
    <3>1. d # c /\ d \notin done /\ SoFar(d) /\ answer'[d] = answer[d] /\ cgiData'[d] = cgiData[d]
      BY <1>6, <2>1
    <3>2. cgiData[d] # 0 => d \in overlapped'
      BY <2>2, <3>1 DEF Answering
    <3> QED
      BY <3>1, <3>2 DEF SoFar
  <2> QED
    BY <2>3, <2>4, <2>6, <2>7
<1>11. CASE ~ (pos >= noAps)
  <2>1. /\ cgiData' = [cgiData EXCEPT ![c] = @ + 1]
        /\ UNCHANGED <<done, scanInProgress, scanning, cleared, overlapped>>
    BY <1>11 DEF ScanReads, ScanEntry, pos
  <2>2. pos < noAps /\ pos <= noAps /\ pos # noAps /\ pos + 1 <= noAps /\ pos + 1 \in 0..(APS + 1)
    BY <1>1, <1>4, <1>11
  <2>3. cgiData' = [cgiData EXCEPT ![c] = pos + 1]
    BY <2>1 DEF pos
  <2>4. cgiData'[c] = pos + 1 /\ \A d \in Conns \ {c} : cgiData'[d] = cgiData[d]
    BY <1>1, <2>3
  <2>5. CgiTypes'
    <3>1. cgiData' \in [Conns -> 0..(APS + 1)]
      BY <1>1, <2>2, <2>3
    <3> QED
      BY <1>2, <1>8, <2>1, <3>1 DEF CgiTypes, CgiTypeOK, Parts, try, tried
  <2>6. ScanOrder'
    BY <1>2, <2>1 DEF ScanOrder
  <2>7. AnswersWhole'
    BY <1>9, <2>1, Zenon DEF AnswersWhole
  <2>8. SoFar(c)'
    <3>1. cgiData'[c] # 0
      BY <1>4, <2>4
    <3>2. c \notin overlapped => answer'[c] = Begun(pos)
      <4>1. SUFFICES ASSUME c \notin overlapped PROVE answer'[c] = Begun(pos)
        OBVIOUS
      <4>2. answer[c] = Begun(pos - 1)
        BY <1>3, <4>1 DEF SoFar, pos
      <4>3. pos - 1 \in Nat /\ pos - 1 + 1 = pos
        BY <1>3, <1>4
      <4>4. Append(Begun(pos - 1), "entry,") = Begun(pos)
        BY <4>3, BegunNext, Zenon
      <4>5. new = <<"entry,">> \o <<>>
        BY <1>11, <2>2, Zenon DEF EntriesThen, new, pos
      <4>6. <<"entry,">> \o <<>> = <<"entry,">>
        BY ShortParts
      <4>7. answer[c] \o <<"entry,">> = Append(answer[c], "entry,")
        <5>1. "entry," \in Parts
          BY DEF Parts
        <5> QED
          BY <1>1, <5>1, OneMore
      <4> QED
        BY <1>6, <4>2, <4>4, <4>5, <4>6, <4>7, Zenon
    <3>3. cgiData'[c] - 1 = pos
      BY <1>4, <2>4
    <3>4. c \notin overlapped => answer'[c] = Begun(cgiData'[c] - 1)
      BY <3>2, <3>3, Zenon
    <3>5. cgiData'[c] <= noAps'
      BY <1>2, <2>2, <2>4
    <3> QED
      BY <1>3, <2>1, <3>1, <3>4, <3>5 DEF SoFar
  <2>9. ASSUME NEW d \in Conns \ done', d # c PROVE SoFar(d)'
    <3>1. SoFar(d) /\ answer'[d] = answer[d] /\ cgiData'[d] = cgiData[d]
      BY <1>6, <2>1, <2>4, <2>9
    <3> QED
      BY <1>2, <2>1, <3>1 DEF SoFar
  <2> QED
    BY <2>1, <2>5, <2>6, <2>7, <2>8, <2>9
<1> QED
  BY <1>10, <1>11

(* The pages of the WiFi never see the list of a scan change under them:   *)
(* while the HTTP task reads the list no scan is under way, unless         *)
(* setmode.cgi cleared its flag, and every answer that ended is whole,     *)
(* unless another page started a scan during it.                           *)
THEOREM AnswersAreWhole == CgiSpec => []CgiWifiInv
<1>1. CgiInit => CgiInv
  BY CgiStart
<1>2. CgiInv /\ [CgiNext]_cgivars => CgiInv'
  <2> SUFFICES ASSUME CgiInv, [CgiNext]_cgivars PROVE CgiInv'
    OBVIOUS
  <2>1. CASE UNCHANGED cgivars
    <3>1. CgiTypes'
      BY <2>1 DEF CgiInv, CgiTypes, CgiTypeOK, cgivars, scan, page, try, tried, cgihist
    <3> QED
      BY <2>1, <3>1, OtherStep DEF cgivars, cgihist
  <2>2. ASSUME NEW c \in Conns, Request(c) \/ cgiWiFiScan(c) PROVE CgiInv'
    BY <2>2, RequestStep, ScanHeadStep, ScanChecksStep, ScanReadsStep DEF cgiWiFiScan
  <2>3. ASSUME NEW mode \in CgiModes, cgiWiFiSetMode(mode) PROVE CgiInv'
    BY <2>3, SetModeStep
  <2> QED
    BY <2>1, <2>2, <2>3, StationMovesStep, ScanDoneStep, ConnectStep, ReassTimerStep,
       ResetTimerStep, ConnStatusStep DEF CgiNext
<1>3. CgiInv => CgiWifiInv
  BY DEF CgiInv, CgiTypes, ScanOrder, CgiWifiInv, ListStays
<1> QED
  BY <1>1, <1>2, <1>3, PTL DEF CgiSpec
=============================================================================
