------------------------------ MODULE CgiWifi ------------------------------
(***************************************************************************)
(* The WiFi pages of the HTTP server, libesphttpd/util/cgiwifi.c: the scan *)
(* for access points, whose answer is sent one entry a call, the attempt   *)
(* to join one, which two timers carry out, and the change of mode.        *)
(*                                                                         *)
(* The functions are called by the HTTP task (HttpServer), for one         *)
(* connection at a time; the scan of the SDK and the timers call back in a *)
(* context that preempts it.  An answer is the sequence of its parts.      *)
(***************************************************************************)
EXTENDS Naturals, Sequences

CONSTANTS
    Conns,      \* connections of the server
    APS,        \* bound: access points a scan finds
    ATTEMPTS    \* bound: attempts to join one

ASSUME CgiBounds == APS \in Nat /\ ATTEMPTS \in Nat /\ "nobody" \notin Conns

VARIABLES
    \* cgiWifiAps
    scanInProgress,
    noAps,
    \* the SDK
    scanning,        \* a scan is under way
    wifi_opmode, wifi_station,    \* opmode and station of WifiPlatform
    \* the connections
    cgiData,         \* the position of the answer; 0 before its head
    answer,          \* the parts sent so far; <<>> when there is no request
    done,            \* HTTPD_CGI_DONE was returned
    reading,         \* the connection the HTTP task reads the list for
    \* the attempt to join
    connTryStatus, reassTimer, resetTimer

(* History. *)
VARIABLES
    attempts,
    cleared,         \* setmode.cgi cleared the flag of the scan under way
    overlapped,      \* answers during which another page started a scan, or
                     \* one whose flag was cleared came to its end
    trying,          \* the attempt that was made last; 0: none
    unwatched,       \* it was made by a station only: nothing looks at its outcome
    joined           \* the attempt that was last found to have succeeded

scan    == <<scanInProgress, noAps, scanning>>
page    == <<cgiData, answer, done, reading>>
tried   == <<trying, unwatched, joined>>
try     == <<connTryStatus, reassTimer, resetTimer, tried>>
cgihist == <<attempts, cleared, overlapped>>
cgivars == <<scan, wifi_opmode, wifi_station, page, try, cgihist>>

Nobody == "nobody"
CgiModes  == {"STATION_MODE", "SOFTAP_MODE", "STATIONAP_MODE"}

CgiInit ==
    /\ scanInProgress = FALSE /\ noAps = 0 /\ scanning = FALSE
    /\ wifi_opmode \in CgiModes /\ wifi_station \in {"idle", "got_ip"}
    /\ (wifi_opmode = "SOFTAP_MODE" => wifi_station = "idle")
    /\ cgiData = [c \in Conns |-> 0] /\ answer = [c \in Conns |-> <<>>]
    /\ done = {} /\ reading = Nobody
    /\ connTryStatus = "IDLE" /\ reassTimer = FALSE /\ resetTimer = FALSE
    /\ attempts = 0 /\ cleared = FALSE /\ overlapped = {}
    /\ trying = 0 /\ unwatched = FALSE /\ joined = 0

HttpTaskFree == reading = Nobody

(* An answer has begun and goes on with another call. *)
Answering(c) == cgiData[c] # 0 /\ c \notin done

-----------------------------------------------------------------------------
(* The station connects or gives up as it likes; no link in soft AP mode.  *)
StationMoves ==
    /\ wifi_opmode # "SOFTAP_MODE"
    /\ wifi_station' = IF wifi_station = "idle" THEN "got_ip" ELSE "idle"
    /\ UNCHANGED <<scan, wifi_opmode, page, try, cgihist>>

(* wifi_station_scan: refused, without a word, in soft AP mode and while   *)
(* another scan is under way.                                              *)
wifi_station_scan ==
    /\ scanning' = (scanning \/ wifi_opmode # "SOFTAP_MODE")
    /\ cleared' = (cleared /\ scanning)

wifiStartScan(c) ==
    IF scanInProgress
    THEN UNCHANGED <<scanInProgress, scanning, cleared, overlapped>>
    ELSE /\ scanInProgress' = TRUE
         /\ wifi_station_scan
         /\ overlapped' = overlapped \cup {d \in Conns \ {c} : Answering(d)}

(* wifiScanDoneCb: a new list in place of the old one, or, if the scan     *)
(* failed, none; the flag goes down in either case.                        *)
wifiScanDoneCb ==
    /\ scanning
    /\ scanning' = FALSE /\ cleared' = FALSE
    /\ scanInProgress' = FALSE
    /\ \/ \E n \in 0..APS : noAps' = n
       \/ UNCHANGED noAps
    /\ overlapped' = overlapped \cup (IF cleared THEN {c \in Conns : Answering(c)} ELSE {})
    /\ UNCHANGED <<wifi_opmode, wifi_station, page, try, attempts>>

-----------------------------------------------------------------------------
(* A page asks for the scan. *)
Request(c) ==
    /\ cgiData[c] = 0 \/ c \in done
    /\ cgiData' = [cgiData EXCEPT ![c] = 0]
    /\ answer' = [answer EXCEPT ![c] = <<"request">>]
    /\ done' = done \ {c}
    /\ overlapped' = overlapped \ {c}
    /\ UNCHANGED <<scan, wifi_opmode, wifi_station, reading, try, attempts, cleared>>

Send(c, part) == answer' = [answer EXCEPT ![c] = Append(@, part)]

Waiting(c) == HttpTaskFree /\ answer[c] # <<>> /\ c \notin done

(* cgiWiFiScan, the head: at the first call, and again at a later one that *)
(* finds a scan under way.                                                 *)
ScanHead(c) ==
    /\ Waiting(c) /\ (scanInProgress \/ cgiData[c] = 0)
    /\ IF scanInProgress
       THEN /\ Send(c, "inProgress")
            /\ done' = done \cup {c}
            /\ UNCHANGED cgiData
       ELSE /\ Send(c, "head")
            /\ cgiData' = [cgiData EXCEPT ![c] = 1]
            /\ UNCHANGED done
    /\ UNCHANGED <<scan, wifi_opmode, wifi_station, reading, try, cgihist>>

(* The flag is down: the list may be read. *)
ScanChecks(c) ==
    /\ Waiting(c) /\ ~scanInProgress /\ cgiData[c] # 0
    /\ reading' = c
    /\ UNCHANGED <<scan, wifi_opmode, wifi_station, cgiData, answer, done, try, cgihist>>

(* One entry, if one is left, and the tail after the last one.  The last   *)
(* entry goes without a comma.                                             *)
EntriesThen(c, last) ==
    LET pos == cgiData[c]
    IN  (IF pos <= noAps THEN <<IF pos = noAps THEN "entry" ELSE "entry,">> ELSE <<>>)
        \o (IF last THEN <<"tail">> ELSE <<>>)

ScanEntry(c, last) ==
    /\ reading = c
    /\ reading' = Nobody
    /\ answer' = [answer EXCEPT ![c] = @ \o EntriesThen(c, last)]
    /\ IF last
       THEN done' = done \cup {c} /\ wifiStartScan(c) /\ UNCHANGED cgiData
       ELSE /\ cgiData' = [cgiData EXCEPT ![c] = @ + 1]
            /\ UNCHANGED <<done, scanInProgress, scanning, cleared, overlapped>>
    /\ UNCHANGED <<noAps, wifi_opmode, wifi_station, try, attempts>>

ScanReads_early(c) == ScanEntry(c, cgiData[c] + 1 >= noAps)    \* mutant: one entry short

ScanReads(c) == ScanEntry(c, cgiData[c] >= noAps)

cgiWiFiScan(c) == ScanHead(c) \/ ScanChecks(c) \/ ScanReads(c)

-----------------------------------------------------------------------------
(* cgiWiFiConnect: the attempt is made half a second later. *)
cgiWiFiConnect ==
    /\ HttpTaskFree /\ attempts < ATTEMPTS
    /\ attempts' = attempts + 1
    /\ reassTimer' = TRUE
    /\ UNCHANGED <<scan, wifi_opmode, wifi_station, page, connTryStatus, resetTimer, tried, cleared, overlapped>>

(* reassTimerCb: leave the network, try the other one; unless the socket   *)
(* is a station only, look at the outcome in 15 seconds.  A station only   *)
(* keeps the look at a former attempt, if one was due.                     *)
Reassociate(look) ==
    /\ reassTimer
    /\ reassTimer' = FALSE
    /\ wifi_station' = "idle"
    /\ connTryStatus' = "WORKING"
    /\ resetTimer' = (resetTimer \/ look)
    /\ trying' = attempts /\ unwatched' = (wifi_opmode = "STATION_MODE")
    /\ UNCHANGED <<scan, wifi_opmode, page, cgihist, joined>>

reassTimerCb_inverted == Reassociate(wifi_opmode = "STATION_MODE")    \* mutant: the condition inverted

reassTimerCb == Reassociate(wifi_opmode # "STATION_MODE")

(* resetTimerCb: a station only from now on, or the attempt has failed. *)
resetTimerCb ==
    /\ resetTimer
    /\ resetTimer' = FALSE
    /\ IF wifi_station = "got_ip"
       THEN wifi_opmode' = "STATION_MODE" /\ joined' = trying /\ UNCHANGED connTryStatus
       ELSE connTryStatus' = "FAIL" /\ UNCHANGED <<wifi_opmode, joined>>
    /\ UNCHANGED <<scan, wifi_station, page, reassTimer, trying, unwatched, cgihist>>

(* cgiWiFiConnStatus: once the page was told of the success, look sooner. *)
cgiWiFiConnStatus ==
    /\ HttpTaskFree
    /\ connTryStatus = "WORKING" /\ wifi_station = "got_ip"
    /\ resetTimer' = TRUE
    /\ UNCHANGED <<scan, wifi_opmode, wifi_station, page, connTryStatus, reassTimer, tried, cgihist>>

(* cgiWiFiSetMode: the flag of the scan goes down with it. *)
cgiWiFiSetMode(mode) ==
    /\ HttpTaskFree
    /\ wifi_opmode' = mode
    /\ wifi_station' = IF mode = "SOFTAP_MODE" THEN "idle" ELSE wifi_station
    /\ scanInProgress' = FALSE
    /\ cleared' = (cleared \/ scanning)
    /\ UNCHANGED <<noAps, scanning, page, try, attempts, overlapped>>

-----------------------------------------------------------------------------
CgiNext ==
    \/ StationMoves \/ wifiScanDoneCb
    \/ \E c \in Conns : Request(c) \/ cgiWiFiScan(c)
    \/ cgiWiFiConnect \/ reassTimerCb \/ resetTimerCb \/ cgiWiFiConnStatus
    \/ \E mode \in CgiModes : cgiWiFiSetMode(mode)

(* Timers expire. *)
CgiFairness == WF_cgivars(reassTimerCb) /\ WF_cgivars(resetTimerCb)

CgiSpec == CgiInit /\ [][CgiNext]_cgivars /\ CgiFairness

-----------------------------------------------------------------------------
CgiTypeOK ==
    /\ scanInProgress \in BOOLEAN /\ scanning \in BOOLEAN /\ noAps \in 0..APS
    /\ wifi_opmode \in CgiModes /\ wifi_station \in {"idle", "got_ip"}
    /\ cgiData \in [Conns -> 0..(APS + 1)] /\ done \subseteq Conns
    /\ \A c \in Conns : answer[c] \in Seq({"request", "head", "inProgress", "entry", "entry,", "tail"})
    /\ reading \in Conns \cup {Nobody}
    /\ connTryStatus \in {"IDLE", "WORKING", "FAIL"}
    /\ reassTimer \in BOOLEAN /\ resetTimer \in BOOLEAN
    /\ attempts \in 0..ATTEMPTS /\ cleared \in BOOLEAN /\ overlapped \subseteq Conns
    /\ trying \in 0..attempts /\ unwatched \in BOOLEAN /\ joined \in 0..trying

(* "if 1, don't access the underlying stuff from the webpage": no scan     *)
(* replaces the list, and frees the old one, while the HTTP task reads it; *)
(* the exception is a scan whose flag setmode.cgi has cleared.             *)
ListStays == reading # Nobody => ~scanning \/ cleared

(* A whole answer: the head, the entries with commas between them, the     *)
(* tail; or the word that a scan is under way.                             *)
Whole(parts) ==
    \/ parts = <<"request", "inProgress">>
    \/ \E n \in 0..APS :
          parts = <<"request", "head">>
                  \o [i \in 1..n |-> IF i = n THEN "entry" ELSE "entry,"]
                  \o <<"tail">>

(* The answer to a page is whole, however often the list is replaced       *)
(* between two answers, unless another page starts a scan during it, or    *)
(* the mode is changed.                                                    *)
AnswersWhole ==
    \A c \in done : Whole(answer[c]) \/ c \in overlapped

(* The list that is being sent is neither freed nor changed under a page,  *)
(* and what it was sent is one whole scan.                                 *)
CgiWifiInv == CgiTypeOK /\ ListStays /\ AnswersWhole

(* An attempt to join an AP that is not overtaken by another one is made,  *)
(* and then it is itself found to have failed, which the page is told, or  *)
(* to have brought an address, not the address of the network left for it  *)
(* nor the failure of an attempt before it.  The exception: nothing looks  *)
(* at an attempt of a station only, which is reported as "working" for as  *)
(* long as it has no address.                                              *)
AttemptEnds ==
    \A k \in 1..ATTEMPTS :
        (reassTimer /\ attempts = k)
            ~> \/ attempts > k
               \/ trying = k /\ (connTryStatus = "FAIL" \/ joined = k \/ unwatched)
=============================================================================
