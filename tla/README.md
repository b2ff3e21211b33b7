# Verification of the smart socket firmware

This directory holds TLA+ models of the firmware of a WiFi power socket (ESP8266, FreeRTOS SDK): modules that
translate its C code, TLC configurations that check them on small instances, and TLAPS proofs for every value of
their constants. Paths such as `user_data.c` are below `src/app/user/`, unless another directory is given.

## 1. The system

One processor, FreeRTOS with priorities (a higher number preempts a lower one), interrupts above all tasks.

| context | priority | code | what it does |
|---|---|---|---|
| GPIO interrupt | - | `driver/key.c` `key_intr_handler` | edges of the push button |
| timer context | above the tasks below | callbacks of `os_timer` | debounce, long press, schedule, SNTP check, trend record, current protection |
| `platform_maintainer`, `upgrade_task` | 5 | `user_esp_platform.c`, `upgrade/upgrade.c` | connects, starts SNTP; fetches firmware |
| `httpdserver` | 4 | `libesphttpd/core/httpd.c`, `user_cgi.c` | every request, one at a time |
| `cs5463_manager`, `smartconfig_task` | 2 | `cs5463.c`, `user_esp_platform.c` | calibrates and reads the energy meter; smart config |

### Components

| component | state | operations | correct when |
|---|---|---|---|
| push button (`driver/key.c`, `user_plug.c`) | level the driver believes, edge the GPIO waits for, two one-shot timers, `bJustLongPressed` | interrupt, 50 ms and 5 s callbacks, short and long press | a press is either long or a switch of the relay, unless a reset took its flag; every release that is debounced is reported |
| switch of the relay (`user_plug.c`, `driver/gpio.c`) | relay, LED and its timer, latest event | `user_plug_set_status` from five callers of three priorities | what the LED and the latest event say is what the relay does, once a switch that met no other has ended |
| calibration (`cs5463.c`, `user_plug.c`, `user_cgi.c`) | relay, calibration state and flag, parameters in RAM and flash, two semaphores | `CS5463IF_Calib`, press, HTTP switch, manual, reset, schedule, reboot | the flash never holds half a calibration that counts as valid; nobody closes the relay under a measurement; it ends |
| energy meter (`cs5463.c`, `driver/gpio.c`) | pins, registers of the chip, bytes being read, last readings | init, read, write, calibrate, convert, protect | words arrive whole; the chip measures as it was set; the protection trips at its threshold |
| event history (`user_data.c`) | ring of 32 events, count, semaphore, copy in the flash | add, read, erase | it is a log of the last 32 events, each once, in order; what is read is fresh |
| relay schedule (`user_esp_platform_timer.c`) | list of timers, base time, nearest wait, one software timer, copy in the flash | set, reset, expire, perform, restore | each action that is due is done once, on time, in order; what is reported is what runs |
| parameters and trend records (`user_data.c`, `cs5463.c`, `user_cgi.c`) | one block in RAM and flash with its semaphore; count and region of the records | set, get, save, reset; add each 5 s, query by time | what is reported survives a restart; no record without its count; the protection does what its setting says |
| WiFi platform (`user_esp_platform.c`, `user_cgi.c`) | device status, stored access point, smart config, link LED, pending request | connect, events of the station, smart config, WiFi request and its delayed application | an accepted request is applied or overtaken, with nothing of one that was applied before; a long press always leads to smart config |
| firmware upgrade (`upgrade/`) | area not running, totals, buffer, flag, 300 s timer | start, receive, erase, retry, check, restart | an area is started only if the whole image is in it; an upgrade ends |
| HTTP server (`libesphttpd/core/`) | pool of connections, state of the parser, CGI continuation | accept, receive, call the CGI, send, retire | a request is executed once, with all of its body; nothing opened for it is lost |
| pages (`libesphttpd/espfs/`, `lib/heatshrink/`, `core/httpdespfs.c`) | image in the flash, open file with its decoder, token being collected | compress and lay out (at the build), open, read, replace tokens | the browser gets the page that was built |
| WiFi CGI (`libesphttpd/util/cgiwifi.c`) | list of the last scan, flag, attempt and its two timers | scan, send in pieces, connect, status, set mode | an answer is one scan; an attempt ends with an outcome of its own |
| configuration CGI (`user_cgi.c`) | - | a GET and a SET handler per command | a command sets what it names; an upgrade is started as asked |
| captive DNS, device discovery (`util/captdns.c`, `user_devicefind.c`) | a socket | answer a datagram | the name asked for, the interface asked on |
| configuration store (`user_configstore.c`) | two sectors with sequence number and check sum | load, save | what was saved last is loaded, whatever is cut off |
| firmware image (`tools/gen_appbin.py`, `upgrade/upgrade_crc32.c`) | - | build, append the CRC, check it | passes exactly if no byte changed |
| others | - | SPI and UART drivers, upload by HTTP, light and sensor products | not modelled, section 8 |

### Interactions

The parameters `tSmartSocketParameter` are the shared memory of the system: every handler changes its own part in
RAM, then saves *all* of it under `xSmartSocketParameterSemaphore`. A calibration that is under way is therefore
saved by any handler that saves something else, and `DAT_nFlashDataClean` takes everything from everybody.
The relay is operated by the button, by HTTP, by the schedule, by the protection and by the calibration, all through
`user_plug_set_status`, which adds an event under `xSmartSocketEventListSemaphore` and may wait there for ten
seconds. `xSmartSocketCaliSemaphore` carries presses from the button to the calibration.

Hard are, therefore: interrupts between two statements of a callback; a value computed before a semaphore and used
after it; the semaphore that remembers a press; a save or a reset by somebody else in the middle of a calibration;
a power cut at any moment; a timer that fires while what it works from is being replaced; time-outs of every wait;
waits that are split, and lists of timers that are due together. `PROJECT.json` lists the hazards line by line.

## 2. Modules

| module | models | extends / instantiates |
|---|---|---|
| `Button` | `driver/key.c`, press callbacks of `user_plug.c` | |
| `Plug` | relay, LED and latest event under all that switches | |
| `MCPlug` | one run for the two above | extends `Button`, `Plug` |
| `Calibration` | calibration of `cs5463.c` and all that meets it | |
| `Meter` | pins, bus, transfers and conversions of `cs5463.c` | |
| `MCCs5463` | one run for the two above | extends `Calibration`, `Meter` |
| `EventLog` | abstract: what the event history promises | |
| `EventHistory`, `MCEventHistory` | ring, semaphore, flash of `user_data.c` | instantiates `EventLog` |
| `RelaySchedule`, `MCRelaySchedule` | `user_esp_platform_timer.c`, SNTP check of `user_esp_platform.c` | |
| `Parameters` | the parameter block, trend records, current protection | |
| `WifiPlatform` | `user_esp_platform.c`, WiFi requests of `user_cgi.c` | |
| `Upgrade`, `MCUpgrade` | `upgrade.c`, `upgrade_lib.c`, use of the checksum | |
| `HttpServer`, `MCHttpServer` | the task and the pool of `core/httpd.c`, `httpdespfs.c` as it holds a file | |
| `CgiWifi` | `util/cgiwifi.c` | |
| `EspFs` | heatshrink encoder and decoder, `mkespfsimage`, `espfs.c` | |
| `Pages` | headers and templates, `core/httpdespfs.c`, `tplWlan` | extends `EspFs` |
| `Requests` | request line, headers, arguments, login, host, table of URLs | |
| `TimerText`, `TrendQuery` | the list of timers as text; the query for trend records | |
| `ConfigApi` | the commands of `user_cgi.c` | |
| `CaptiveDns`, `DeviceFind` | the two UDP services | |
| `Services` | how the three serving tasks get their sockets and serve | |
| `FirmwareImage` | `gen_appbin.py` and `upgrade_crc32.c` | |
| `Register` | abstract: what a store that is kept twice promises | |
| `ConfigStore`, `PlatformParam` | `user_configstore.c`; token and flags of `user_esp_platform.c` | the first instantiates `Register` |
| `Stores` | the two of them side by side | extends both |
| `Answers`, `MCAnswers` | composition of all that is answered | extends `Pages`, `FirmwareImage`, `ConfigApi`, `Services`, `Stores`; instantiates `Requests`, `CaptiveDns`, `DeviceFind`, `TimerText`, `TrendQuery` |
| `EventHistory_proofs`, `RelaySchedule_proofs`, `Upgrade_proofs` | theorems | the module of the name, `TLAPS` |
| `Plug_proofs`, `Calibration_proofs`, `HttpServer_proofs` | theorems of `Plug` and `Button`; of `Calibration` and `Meter`; of `HttpServer` and `ConfigApi` | these, `TLAPS` |
| `Wifi_proofs`, `Saved_proofs` | theorems of `WifiPlatform` and `CgiWifi`; of `Parameters`, `Stores` and `TrendQuery` | these, `TLAPS` |

`MCPlug` and `MCCs5463` put two specifications that share no variable under one run: a variable `part`, chosen at the
start, says which of the two moves while the other stands still, so that the run has the behaviours of each.

Modules that share a proof or an MC module are told apart by the names of their specifications (`Spec`, `ButtonSpec`,
`MeterSpec`, `ApiSpec`, `CgiSpec`, `StoreSpec`, `StoresSpec`).

In all of them a step ends where another context may come in between: before a semaphore, a delay, or a statement
whose effect another context reads. History variables (declared apart, under `History`) record what the properties
speak of; no guard reads them, but for the bounds of the counters among them.

The parts meet through what they share: the relay (`Plug`, `Calibration`, `RelaySchedule`, `Parameters`), the event
list (`EventHistory`, `Plug`), the parameter block (`Parameters`, `Calibration`), and the HTTP task that calls every
handler (`HttpServer`, `CgiWifi`, `WifiPlatform`, `ConfigApi`). A module keeps of a neighbour what it can observe of it:
`Plug` takes the ring of the events for its latest entry, `Calibration` takes a switch for the relay it sets,
`HttpServer` a CGI function for its results.

### Button

`pin`, `intr`, `gpio_status` are the hardware: an edge is latched only if the GPIO is set to it. The handler is
entered (`key_intr_enter`, interrupt disabled) and finished (`key_intr_press`, `key_intr_release`) in two steps; a
callback of the timer context is cut where it has sampled the pin (`key_50ms_cb`) but has not yet enabled the
interrupt (`key_50ms_low`, `key_50ms_high`), and before it calls the press callbacks. The pin moves at any time.
Time is abstracted: an armed timer may expire at any later moment. `DAT_nFlashDataClean` is here for one bit: its
`memset` clears `bJustLongPressed` also between a long press and its release (`user_data.c:119`), and the release then
switches the relay (`user_plug.c:165`). `effects` (history) keeps what became of a press, the reset included, and
`OneEffectPerPress` names the reset as the one way in which a press is both long and a switch.

### Calibration

`cs` is the position of the cs5463 task in `CS5463_Manager` and `CS5463IF_Calib`, `tCaliState` its local. The six
stages of the code differ in the register and in whether the relay is closed for them; a stage is a number in
`1..NSTAGE`, those that close the relay are `GainStages`, what is measured is the set of stages done. Against it run
the button, three HTTP handlers, the schedule, the reset and a reboot. Reading the chip is one step that succeeds
or times out.

### EventHistory and EventLog

Every caller of `DAT_nAddEventHistory`, `DAT_nGetEventHistory` and `DAT_nFlashDataClean` has a program counter; the
write to a slot, the count and the save are separate steps. `EventLog` has only the sequence of the events added
since the last erasure and its `N` latest, with `Add`, `Erase` and a read that answers one of them.
`ImplementsLog` is the refinement: an event enters the log when the count passes it, not when its slot is written.
`DAT_nGetEventHistory` tests a local it never set: the model lets any call find nothing.

### RelaySchedule

A timer of the list is a record of mode (`f` fixed, `l` loop, `w` week), time and action. The base
(`unTimestamp`) moves by the minimum each time, as in the code; the software timer holds its callback and its due
time, and waits of more than an `Hour` are split. The callback performs one action per step, since each may wait for
the event semaphore, and the HTTP server's set is five steps, from freeing the strings to starting the timer. A
count that exceeds the strings is a trap: the plug restarts. `disturbed` records that a callback met a change of the
list, that a change was given up half way with the timer armed, or that the reset erased the copy of a schedule
that runs. The safety properties speak of schedules that were not disturbed since they were set: the code has no
lock here, and what happens otherwise (the hazards name it) is in the model.

The code compares the wait of each timer with the shortest; `Nth` gives the actions of those that are due in the order
of the list, as its loop copies them. `DueActions`, which the properties use, is stated from the clock instead: the
actions of the timers of the list that are due at a second, in the order of the list.

Assumed: a request carries the present time; a list has at most `TIMER_NUMBER` timers (the code does not check);
week and loop times are those the format allows; software timers are exact; `malloc` succeeds.

The texts of the actions are copied without an end into places that nobody clears (`:174`, `:329`). A text is one of the
three that are known, another of their length (`unknown`), one that begins with `0` and ends the callback's loop
(`:257`), one that covers no action whole (`on_`), or none, which stands also for more than the 16 characters that are
copied; `Copied` says what is in the place afterwards. Texts of 15 and 16 characters, which run into the next place, are
left out. `pSplitBuffer` is `null`, `held` or `freed`: a list that is too long returns after the old buffer was freed
and leaves the pointer (`:473`-`:481`), and whoever comes next frees it again. From there on the heap may be anything,
which `spoilt` records, and no property speaks of the schedule before the next start of the plug.

### HttpServer

`connData` is the pool (with what `connPostData` and `sockData` hold for a slot), `httpd` the place of the one task in
its loop, with the sets that `select` returned and what `recv` gave it. The loop over the slots is the choice of the
least slot that is left in those sets; a slot that is closed leaves both. `httpdRecv` goes unit by unit: a head is one
unit, a body `len` of them. A CGI function is what it returns and holds: the API is done in one call, a file is opened
by the first call and closed by the last, a redirect depends on the address the server noted for the peer. Peers may
send a part and stop, hang up at any time, or leave their socket full; the watches of the timer context fire between
any two steps. `peer` holds, as history, how often and with how much of its body a request was executed.

Left out: a head in several pieces (each piece only restarts the watch), a peer that sends more than one request over
a connection, and the texts.

### Plug

Every switch is `user_plug_set_status`: relay, then LED, then event, each a step of one of three contexts (`timer`,
`http`, `cs5463`), of which a higher one preempts a lower one anywhere and gives way only when it is done or waits for
the event semaphore, ten seconds at most. The LED flashes by a timer of its own. `alone` (history) says that the latest
switch overlapped no other; two that overlap may leave the LED or the event behind, which the code has no lock against.

### Meter

The task is the list of transfers that `CS5463_Manager` makes of its calls, and a transfer is the edges it drives:
select, clock, data, deselect, on the pins of `gpio.c`. The chip is external: it shifts on the edges, ends a conversion
at any time (`DRDY`) and forgets its registers at a reset. Words have the 24 bits of the chip; between any two bits the
callback of the protection, or a request, may read the bytes that are being filled. What a stage is to measure
(`Result`) and what an earlier calibration left in the flash (`Calib`) are constants, so that a register tells whose
value it holds. `EARLY` bounds how often a
conversion ends between `clearDRDY` and the halt, the one case in which a stage keeps a value that is too early.

### Parameters

The block `tSmartSocketParameter` as the flags of trend and protection, one setting that stands for the others, and the
count of the trend records, in RAM and in the flash. A set command changes RAM, takes the semaphore, saves all of it and
arms or disarms its timer; the trend callback counts, saves, then writes its record; a reset clears everything; the
power may fail between any two steps. `unsaved` marks a command that gave up at its semaphore, `astray` a flag whose
command met the task while that armed its timer, and a record that a reset met while it waited (`waiting`) or after it
was written (`written`). The address of a record is computed as the code does, base included twice, before the semaphore
is taken; `ParametersInv` compares it with the count that was saved. A reset that does not get the event semaphore
within its time gives up before it touches the parameters (`user_data.c:107`).

### WifiPlatform

An ssid and a password have each a beginning (`head`) and an end (`tail`), and each part is the tag of the request it
came from, so that a mixture is seen. A request copies `strlen` bytes over the buffers of `user_cgi.c`, which are
cleared only when they are made: a `short` text covers the beginning, a `long` one both, one that is missing, or too
long for its field, neither (`:1493`, `:1501`, `:1528`). An error ends a request half-way, and its fields stay.
`restart_xms_cb` applies and frees the buffers 20 ms later; `since` (history) is what was received since they were made.
`sctasks` counts the tasks of smart config that were created and have not run. A `GET` makes the same two buffers anew
and frees them at its end (`:1427`-`:1430`), also while the timer that is to apply them is armed: what it spoils
(`spoilt`) is in the model, to the NULL pointer, and excepted. The SDK (station, smart config, events) is external and
written down as its callbacks and calls show it.

### Upgrade

The globals of `upgrade.c` (`totallength`, `sumlength`, `flash_erased`, `precv_buf`) and of `upgrade_lib.c` are shared
by every upgrade task. An image is a sequence of `L` units in sectors of `SEC`; a server may answer with the image,
with more than it, with something else, with nothing or with a length no area holds, in segments, and may stop at any
unit. `heap` holds the buffers that are allocated, and a use of a freed one breaks the model. `upgrade_check` has its
two readings: where the callback runs in a task, `vTaskDelete(NULL)` ends that task; where not, it frees what the
upgrade task works on: nothing ends the upgrade task, because the handle of it is never kept. `disturbed` says that the
check struck or that a second upgrade runs, `unmeasured` that the checksum was computed over nothing, as it is when all
tries failed, or the flash could not be read, which the code takes for a pass. `save`, the bytes of an incomplete word,
outlives a try, as in the code: after a connection that was lost inside a word the next image is shifted
by what is left, and refused by its CRC. `prepared` is how many sectors were erased for the
answer that came first; another answer that is longer is written behind them, to cells nobody erased, and
`LoadsIntoErased` speaks of the prepared ones.

### CgiWifi

Two browsers ask for the scan, each answer being sent one entry a call, while the callback of the SDK replaces the list;
`connect.cgi` starts an attempt that two timers and the status request end. `setmode.cgi` clears `scanInProgress`, after
which a second scan may free a list that is being sent: `cleared` marks that exception, as `overlapped` does an answer
during which another page started a scan. An attempt has a number: `trying` is the latest one, `joined` the one that was
found to have an address after its own start. Until `reassTimerCb` has run the page is told of the attempt before, and
the address of the network that is being left counts for nothing; both are in the model, and `AttemptEnds` takes neither
for an end. The attempt of a plug that is a station only is `unwatched`: no timer looks at it, and it is "working" for
as long as it has no address (`cgiwifi.c:202`, `:288`).

### Answers

One specification holds what the device answers without memory of earlier questions, with one phase for each kind of
work. A behaviour is one page on its way from the build to the browser (`EspFs`, `Pages`); or one question (an
argument list, a login, a host, a path, a list of timers, a query for records, a name, a search, an image) whose task
first gets its socket (`Services`); or a sequence of commands (`ConfigApi`); or of saves, starts and losses of power
(`ConfigStore`, `PlatformParam`). `EspFs` goes byte by byte, the states of encoder and decoder being those of the code;
bytes have `B` bits, the window `2^W` bytes. A text is a sequence of characters where it is parsed and a model value
elsewhere. Exclusive or is the symmetric difference of sets of bit positions, so that the checksum and the CRC of
`FirmwareImage` are computed as in the code.

A name in a datagram need not end: a pointer that leads back, or a byte of 0x40 to 0xBF, keeps `labelToStr` where it is,
and the behaviour stays in the phase `endless`. A reply, or a name, longer than its buffer of `DNS_LEN` bytes, which the
code does not check (`captdns.c:162` is commented out), ends in `overrun`. The name of the root is read one byte too
far, as in the code. `DatagramsAnswered` says that what neither loops nor overruns is answered as meant, `AnswerEnds`
that a datagram is done with or is `endless`. In `ConfigApi` the upgrades that run are a set, since nothing refuses a
second one.

`TrendQuery` reads where the code reads, which is not where `Parameters` writes; see section 3.

## 3. Runs

| run | question | properties | distinct states |
|---|---|---|---|
| `plug` | every interleaving of bounces, interrupt, timers and callbacks; switches of five callers in three contexts, calibration, resets, reboots | `OneEffectPerPress`, `ReleaseReported`, `SettledAgrees`, `FlashesInCalibration`, `SwitchEnds` | 68 638 |
| `cs5463` | a calibration of 3 stages, one with the relay closed, with all disturbances; the program of the task over the bus with preemption between any two bits | `AllOrNothing`, `RelayOwner`, `CalibrationEnds`, `MeterInv`, `TripsNearThreshold`, `StageIsFresh` | 305 318 |
| `event_history` | ring of 2, 3 events, two contexts, time-outs, restarts | `FlashFollows`, `LatestIsFresh`, `ImplementsLog` | 301 084 |
| `relay_schedule` | 4 lists, set, refused, run, reset, restored, restarted | `ScheduleInv`, `DueActionsDone` | 3 013 522 |
| `http_server` | 3 peers, 2 slots: pieces, hang-ups, idle peers, full sockets, failing `select` | `FilesReleased`, `ExecutedOnce`, `RequestEnds` | 189 680 |
| `upgrade` | wrong answers, lost connections, three tries, the 300 s check, one upgrade after another | `UpgradeInv`, `StartsWholeImage`, `UpgradeEnds` | 964 092 |
| `wifi_platform` | two requests of short, long and missing texts and two long presses at any time, links lost, restarts | `WifiInv`, `NoLeftovers`, `RequestTakesEffect`, `PressRecovers` | 478 876 |
| `cgi_wifi` | two browsers, scans of up to 2 stations, two attempts | `CgiWifiInv`, `AttemptEnds` | 453 460 |
| `parameters` | commands, trend records and protection with time-outs, resets and loss of power | `ParametersInv`, `ReportedSurvives`, `Protected` | 1 094 890 |
| `answers` | every page, question, series of commands and saves within the bounds | `RoundTrip`, `PageAsMeant`, `RequestsUnderstood`, `DatagramsAnswered`, `StoreSurvives`, `ImageChecked`, `CommandsMeant`, `AnswerEnds`, `UpgradeAsAsked` | 208 388 |
| `upgrade_tries` | is an upgrade whose tries have all failed reported as failed? | `TooManyTriesFail`, violated | - |
| `upgrade_late` | does the 300 s check end the upgrade? | `LateUpgradeExits`, violated | - |

Each property of a run that passes is paired in `PROJECT.json` with a plausible bug that violates it.

**Two comments that a run refutes.** Both are in `upgrade.c`.

* `upgrade_tries`: "retry too many times, fail" (`:269`). The code compares `retry_count` with `UPGRADE_RETRY_TIMES`
  (`:268`), which is the number of the last try; when that one fails as well the loop leaves it one higher. The CRC is
  then computed over no bytes, because the failed try has set `sumlength` to 0, and where that passes (the read of the
  flash fails, or the word in front of the area is erased) an area that was not written is reported as done and
  started. `StartsWholeImage` names the case (`unmeasured`).
* `upgrade_late`: "check the upgrade process, if not finished in 300S,exit" (`:299`). `upgrade_check` deletes
  `pxCreatedTask`, which is NULL for ever, since `xTaskCreate` gets its value and not its address (`:346`): it deletes
  its caller, or frees the buffer, totals and server under a task that goes on. `UpgradeInv` and `StartsWholeImage`
  claim nothing of such an upgrade (`disturbed`).

**Bounds.** In `plug` the button has none: presses are counted modulo two, because a press that begins can only overlap
with the release of the one before. Neither has the plug: every state of relay, LED and event is reached. `cs5463`:
three stages give a first, a middle and a last one, and the middle one closes the relay; what distinguishes the six of
the code beyond that is the register. `event_history`: with two slots the third event wraps the ring and overwrites the
oldest; one time-out and one concurrent caller are all that a caller can meet; `MaxEvents` bounds the counter, `Times`
the clock. `relay_schedule`: a week of five seconds and an hour of two give waits that are split twice and a week that
ends; the lists hold timers that are due together in different modes, fixed timers that pass, are due now, or are the
only ones left, and texts that are no action, begin with a zero or are too short. `MaxTime` is a whole week; `MaxLate`
lets one wait for a semaphore delay the schedule. `http_server`: two slots and three peers make a pool that fills up,
and a first slot next to one that is not the first; a body of two units is cut in every way; a file takes three calls.
Bodies longer than the buffer, which the pages of the socket do not post, are in the module and not in this run.
`upgrade`: an image of two sectors, so that a write ends inside one, at the end of one and behind the last; three tries
have a first, a next and a last one; one task, since a second upgrade while one runs breaks everything at once
(`disturbed`) and is in the module only. `wifi_platform`: a second request is what meets a pending first one, a second
press what meets smart config; an ssid is missing, short or long, a password missing or long, which is enough for the
end of either to be another's. `cgi_wifi`: two stations make a list with a first, a last and none; two attempts let one
end in the other. `parameters`: two records, the latest and the one before, go to two sectors of one record; that the
places wrap is in the theorem only. In `cs5463` also: words around the threshold that differ in one byte, and a negative
power; `POLLS` bounds the polls of `DRDY`. `answers`: every file of up to seven bytes of two values, and long ones for
which the window moves twice, through a decoder whose input buffer ends inside codes and calls shorter and longer than a
repeated section; two arguments, users and questions are the first and another one; names of up to two labels, a reply
of `DNS_LEN` = 80 bytes (512 in the code) that two questions can overrun; numbers wrap at `WORD` and `BYTE`; a sequence
number of two bits wraps within the saves; two commands are what one half-failed command needs to be noticed.

Deadlock is not checked in `relay_schedule`, where the clock (`MaxTime`) stops the model.

**Fairness.** `CalibrationEnds` needs weak fairness of the cs5463 task only: each of its waits has a time-out, and all
tasks of higher priority block. A press is never assumed. The callbacks of armed timers are weakly fair in `Button` (the
SDK calls them), and the handlers that run are finished; no edge of the pin is assumed. In `Plug` a context that has
something to do is strongly fair, since those above it come back again and again but block each time. In `EventHistory`
the callers that hold the semaphore, or wait for it with a time-out, are weakly fair. In `HttpServer` the task and the
armed watches are weakly fair; a socket with something to send is strongly fair, since TCP either delivers or ends the
connection. No peer is expected to send. In `Upgrade` the task is weakly fair; its waits for the network end in data, an
error or the end of the connection, but for the wait for an address, which the property excepts. That is an assumption
on the server: the code sets no time-out for its reads, and the check that should end an upgrade after 300 s does not
(`upgrade_late`). In `WifiPlatform` the tasks and timers are weakly fair, and smart config is assumed to get what a
phone sends it and a link to it; a link may be lost at any time. In `CgiWifi` the two timers. In `Parameters` the timer
of the protection, strongly, as it is stopped and started, and a trend record that was begun; not the requests and not
the task. In `Answers` the steps of a page, of a serving task and of the reply to a datagram that was received: nothing
in them waits for anybody (a name that never ends keeps the server, fair or not). No fairness is stated for inputs.

### What the code does that no run calls wrong

What else was met while modelling; each is in the model, and the property next to it names it as an exception or does
not speak of it.

* Button: a reset between a long press and its release takes the flag, and the release switches the relay
  (`user_data.c:119`). An edge that comes and goes while the interrupt is off is lost.
* Plug: of two switches that overlap the later may leave the LED or the event behind; `SettledAgrees` speaks of those
  that met no other (`alone`).
* Calibration: the semaphore keeps a press made while none was awaited, and the next stage starts without the operator
  (`cs5463.c:449`). A reset between the loop condition and the last state erases the constants, which are then
  declared valid and saved (`:641`). `CS5463IF_ProtectEnable` ignores its argument (`:679`).
* Meter: the sign of the power is lost (`cs5463.c:778`), and the conversion described as one to -1..1 (`:93`) is not one
  for words with the sign bit set; `MeterInv` speaks of the magnitude.
* Events: the list is saved, and never loaded after a restart (`user_main.c:151`). The command that is documented as
  erasing the events erases all parameters, and the copy of the schedule with them (`user_cgi.c:796`).
  `DAT_nGetEventHistory` tests a local it has not set (`user_data.c:323`).
* HTTP: the watch marks an idle connection and `select` does not wake up for it; if its own request does, the sweep cuts
  the answer after the first part (`httpd.c:818`, where the code prints "should never happen"). The address that decides
  on a redirect is that of slot 0 (`:707`). A `GET` of a command that has only a set function calls NULL
  (`user_cgi.c:1803`); a `POST` is answered ok whatever came of it. `bSNTPEnable` is stored and not consulted. A value
  that fills its room is decoded without the zero at its end (`httpd.c:148`) that the comment at `:166` promises;
  `ArgumentsArrive` compares what there was room for.
* Trend records: the sector index already contains the base and is added to it again, so that records are written
  behind the region and, with the sectors of the code, behind the end of a 4 MB chip (`user_data.c:167`); the times of
  the first and last record are read from the start of the region, where nothing was ever written; the length is 0
  until the region is full, whereas the comment (`user_data.c:176`) promises the number of records. A query returns
  records only if its end is the largest time there is, and then the last one alone: `TrendsHeld`, a part of
  `RequestsUnderstood`, therefore says little. A record that a reset meets while it waits goes to the sector of its old
  number (`:151`).
* Parameters: a command that gives up at the semaphore leaves its setting in RAM, reported and not saved (`unsaved`).
* Schedule: a list that is too long is refused after its predecessor's strings and buffer were freed, with the timer
  armed, and the next one frees that buffer again (`user_esp_platform_timer.c:473`-`:481`). The end of an older action
  stays behind a shorter one, and the whole of it in place of one that is empty or too long (`:329`), so that an action
  may be performed that no list asks for; a set that meets the callback has no lock; `split` writes as many strings as
  the list has into an array of ten. `user_plug_relay_schedule_validation` (uncalled) accepts an interval that contains
  another one, against the comment above it.
* Upgrade: when the tries are exhausted the last one, even if it was whole, is not started as such (see above). A flash
  that cannot be read passes the check of the checksum. One to three bytes of a lost try stay in `save`
  (`upgrade_lib.c:103`) and shift the image of the next, which its CRC then refuses: no property claims that `save` is
  empty. `gen_appbin.py` appends a CRC of `zlib`, the device computes another one: the image that passes is the one to
  which `esp_FOTA_bin_crc_gen` has appended its own. Nothing refuses a second upgrade, and the two share buffer, totals
  and area.
* Captive DNS: a pointer that leads back, or a byte of 0x40 to 0xBF, is read for ever; the name of the root is misread;
  a long name or many answers overrun the reply (`captdns.c:122`-`:142`, `:162`, `:178`). `captdnsInit` is commented
  out.
* WiFi: a request that is refused, or a `GET`, drops the acknowledged one whose timer runs (`user_cgi.c:1459`, `:1427`),
  and a `GET` leaves its timer a NULL pointer. Requests that come within 20 ms are mixed, ends of longer texts included.
  The attempt of a plug that is a station only is reported as working until it has an address, and until `reassTimerCb`
  has run the page shows the attempt before (`cgiwifi.c:202`, `:288`). A refused scan leaves `scanInProgress` set. An
  answer during which another page starts a scan may be of two lists (`overlapped`). A shorter token leaves the end of
  the longer one before it (`user_esp_platform.c:291`). `user_devicefind_stop` is never called.
* Failed `xTaskCreate` and, but for the buffers of a WiFi `GET`, `malloc` are not modelled.

## 4. Theorems

All are invariants, action properties or refinements of the specification without fairness, for all values of the
constants that satisfy the named assumptions. `KeyInv`, `MutualExclusion`, `HttpInv` and `Watched` have no run of their
own: what they say of small instances follows from the theorems.

* `Plug_proofs`, of `Button`: `DriverNeverDeaf` (`KeyInv`) and `LongPressNeverSwitches` (`OneEffectPerPress`). The
  invariant relates the three things that can enable the interrupt (handler, callback, armed debounce timer) to the
  interrupt being off, and the flag of the long press to the press it belongs to (`FlagInv`): a press under way that was
  reported as long has the flag up or was met by a reset. `LongPressNeverSwitches` has that reset as its only exception.
* `Plug_proofs`, of `Plug`: `PlugSettles` (`SettledAgrees`) and `NoFlashLeftBehind` (`FlashesInCalibration`). What is
  claimed of a plug at rest has to be known at every step on the way to it: `AloneAt` says how far a switch that meets
  no other has brought relay, LED and timer, and `Jobs` which context can be at which step with what, the holder of the
  semaphore included.
* `Calibration_proofs`: `CalibrationInvariant`, and from it `NeverHalfCalibrated` (`AllOrNothing`) and
  `RelayBelongsToCalibration` (`RelayOwner`), for any number of stages and any set of gain stages. `AllOrNothing`
  speaks of the flash only; it becomes inductive with `Progress`: as long as the flag is up, all stages before the
  present one are measured, and parameters are not valid from the first prompt to the last state. The lemma
  `MeasuredUpTo` is the arithmetic of it.
* `Calibration_proofs`, of `Meter`: `MeterIsSound` (`MeterInv`), `ProtectionTrips` (`TripsNearThreshold`) and
  `CalibrationIsFresh` (`StageIsFresh`), for any measured words, results, saved calibration, threshold, number of polls
  and of early conversions. `MeterInd` follows a transfer edge by edge: `Sending` says which of its bits the chip has
  taken, `Quiet` that outside a transfer neither pins nor chip keep anything of it, and `InFlight` that what memory has
  received and what the chip has still to shift out are one word (`Carried`), the one that was asked for (`Meant`).
  `RoutineInv` names the registers up to the step that the routine has reached, `CalibInv` what each of the seven steps
  of a stage leaves to the next, with `early` excusing a conversion between `clearDRDY` and the halt. The protection
  reads bytes of two readings at once; that it opens the relay only when one of the two is above the threshold or less
  than 2^16 below it is the bound of `FirstByte`. A word being 24 bits and three bytes, what would be induction over
  its bits is done by cases: `WordOfBits`, `WordOfBytes`, `BitsOfBytes`, `HighSteps` (a byte that is received bit by
  bit), `FloatIsWord` and `PowerOfBytes` (the conversions keep the magnitude).
* `EventHistory_proofs`: `ListInOneHand` (`MutualExclusion`), `FlashHoldsTheList` (`FlashFollows`), `AnswerIsFresh`
  (`LatestIsFresh`) and `RingImplementsLog` (`ImplementsLog`, a refinement of safety only), for any size of the ring and
  any number of callers. `EventInv` says who holds the semaphore at which step, that the slots hold the last events of
  the log in their places modulo `N`, and that their times do not decrease; `Apart` shows that two of the last `N`
  numbers never share a slot.
* `RelaySchedule_proofs`: `ScheduleInvariant`, and from it `SchedulesAreKept` (`ScheduleInv`) and
  `DueActionsArePerformed` (`DueActionsDone`), for every list of timers, every week and hour. `ScheduleInd` says of each
  of the three states a schedule can be in what base, wait, action and software timer mean together: the timer waits
  (`Awaited`: its due time and the hours still to be taken add up to `Goal`), its callback runs (`Performing`: so many
  of the planned actions are done), or the HTTP server is setting a list (`Setting`). `NextDue` ties the plan to the
  clock: what is waited for are the actions that are due at `Goal`, and nothing is due between the base and then. That
  the shortest wait of the code gives such a plan is `FirstDue` and `FirstStartMeans`, over remainders that may turn
  over within the wait (`Remainder`); the least wait exists by `LeastNat`. The texts enter by `Copied`: a text that is
  an action is in its place whatever was there before, so that what is due is performed up to the first text that is
  none, which is all `DueActionsDone` claims; `spoilt` is followed with the buffer that may be freed twice, and
  excepted.
* `HttpServer_proofs`: `PoolInOrder` (`HttpInv`), `NoConnectionForgotten` (`Watched`), `NoFileLost` (`FilesReleased`)
  and `ApiExecutedOnce` (`ExecutedOnce`), for any number of peers, slots and requests and any size of the buffer.
  `FilesReleased` needs `ParseInv`: a file is held only for a request without a body, so that no later part of the
  request can reach its slot and forget the file. `ExecutedOnce` needs a count (`Fits`): what a peer has not sent,
  what waits in the socket and what the parser holds are together never more than what the parser waits for, so that
  nothing can be parsed after the request is complete, and `Execution`, which ties the buffer and the executions to
  how much of the body has come. Two lemmas carry the steps: `Closing` (giving back any set of slots keeps the pool)
  and `Updating` (a change of one slot does). The theorems assume `HttpAssumption`: nobody posts a body to a page.
* `HttpServer_proofs`, of `ConfigApi`: `CommandsDoAsMeant` (`CommandsMeant`) and `UpgradeIsAsAsked` (`UpgradeAsAsked`,
  an action property), for any sequence of commands and any numbers and texts in them, and for any number of upgrades
  that run already. The invariant has three parts: what a command was to set is in RAM unless its body was refused
  half-way (`RamIsMeant`), the flash follows RAM but for what is not saved (`FlashIsRam`), and an answer to a `GET` is
  the present value (`AnswerIsRam`). Each set function of the table gets a lemma that says which fields it touches and
  that, where it succeeds, they are what the body said. The theorems assume `ApiAssumption`; see section 5.
* `Saved_proofs`, of `Parameters`: `ParametersInvariant`, and from it `ReportedIsSaved` (`ReportedSurvives`) and
  `ParametersInOrder` (`ParametersInv`), for every layout of the log and any number of records. `TimersFollow` speaks of
  the time after the task has armed its timers; `TrendFollows` and `ProtectFollows` add what the task has read and not
  yet armed, and excuse a flag while its command is under way (`Pending`). `CountedFirst` needs that nobody's save takes
  the count back (`Counts`): a record that waits to be written is counted in RAM and in the flash.
* `Saved_proofs`, of `Stores`: `SectorsInOrder`, `StoreImplementsRegister` (`ImplementsRegister`, a refinement that is
  part of `StoreSurvives`) and `SavedSurvives` (`StoreSurvives`), for every range of at least four numbers and tokens
  of any length. `OneApart` is the arithmetic: of two numbers that follow each other the comparison
  of `configLoad` takes the later one, also where they wrap; `OtherPrecedes` says that they always follow each other.
  So a load finds the same before and after the erasure, and the write of the sector is the instant of the save.
  For the token, each place of it holds the character of the last save that reached it (`LastOfMore`): a shorter token
  leaves the end of a longer one, which section 3 reports and the theorem states.
* `Saved_proofs`, of `TrendQuery`: `OnlyTheLastRecord`, for any layout of the log, interval and limits: since
  `DAT_pGetTrends` takes the first and the last time from flash that is never written, a query that is answered with
  records is answered with the last one alone. `TrendsHeld` follows for all such answers; it is a part of
  `RequestsUnderstood`, the rest of which is only model-checked.
* `Wifi_proofs`, of `WifiPlatform`: `NoNullPointerRead` (`WifiInv`) and `AppliedOnce` (`NoLeftovers`, an action
  property), for any number of requests and presses and any texts. `NoOldTags` is what `NoLeftovers` needs: every part
  of the buffers, beginnings and ends alike, is zero or came since they were made anew, and only a `GET` puts anything
  else there (`GetSpoils`). What mixes within one life of the buffers, refused requests included, is not excluded; of a
  request that comes alone the theorem says that nothing else is in it.
* `Wifi_proofs`, of `CgiWifi`: `AnswersAreWhole` (`CgiWifiInv`), for any number of connections, stations and attempts.
  An answer is whole at its end because it was the beginning of a whole one before every piece (`SoFar`: as many entries
  as its place in the list says), and because nothing replaces the list under it (`ScanOrder`). The lemmas before it
  are about sequences that begin alike.
* `Upgrade_proofs`: `UpgradeAlone`, `OnlyWholeImagesStart` (`StartsWholeImage`) and `UpgradeKeepsAlive` (`UpgradeInv`),
  for any number of tasks, tries and bytes and whatever a server answers. The flag of the boot loader alone is not
  inductive, since a task that loads would change the area under it: `Finished` says that whoever has put it up is past
  the CRC, and `Alone` that nobody else runs. All steps that work on the area go through one lemma, `Working`, which
  asks only that they do not put the flag up. `UpgradeKeepsAlive` needs, with `LiveInv`, where structure, flag and
  totals are at the places `UpgradeInv` does not speak of (`Alive`); and that a prepared cell stays erased from the
  erasure over the lost and repeated connections to the byte that is written there (`Prepares`). `Writing` and
  `BodyWritten` follow the buffer of a word at a time through `system_upgrade_internal`. The attempt to prove it showed
  that the property as first stated, of every sector behind the address, holds for the answers of the run and not for
  others: hence `prepared`. None of the three speaks of an upgrade that is `disturbed`.

The three largest inductive invariants, `ScheduleInd`, `LiveInv` and `MeterInd`, were checked by TLC as invariants of
their runs before they were proved (`MeterInd` with the words that occur for `w` in `InFlight`, since TLC cannot
enumerate `Words`). Where a proof needs a least number, it takes it from the well-founded order of the naturals
(`LeastNat` in `RelaySchedule_proofs`).

Model-checked only:

* liveness (`ReleaseReported`, `SwitchEnds`, `CalibrationEnds`, `RequestEnds`, `UpgradeEnds`, `RequestTakesEffect`,
  `PressRecovers`, `AttemptEnds`, `Protected`, `AnswerEnds`), since fairness is out of the prover's reach;
* `RoundTrip`, `PageAsMeant`, `RequestsUnderstood`, `DatagramsAnswered` and `ImageChecked`: what a codec, a parser or a
  checksum computes for an input of any length is known only by induction over it. `CaptiveDns`
  also declares recursive operators, which the prover does not support, and `Answers` reaches them; `Stores` and
  `ConfigApi`, whose properties the run `answers` checks as well, do not and are proved about by themselves.

## 5. Assumptions of the models

* A bit of `tConfigure` is written atomically. The compiler reads, modifies and writes the word (`user_data.c:19`); a
  preempted write may restore a neighbour's old bit, which no module shows.
* `sntp_get_current_timestamp` does not go back between two events.
* A save to the flash by the SDK's protected save is atomic (it keeps two copies); a save of `user_configstore.c` is
  not.
* A command of the API carries values of the types its handler expects (`WellTyped`): texts for `TextNames`, numbers or
  texts elsewhere. `cJSON` has a null pointer as the text of a number, and the
  handlers do not look at the type before they read it.
* The registers of the chip are words of 24 bits and the polls at least one (`MeterAssumption`).
* In the schedule, time passes during a handler only while it waits for a semaphore.
* The SDK, the flash, the chip and the network are external: what is written of them is what the code relies on.

## 6. Plan

| step | module | content |
|---|---|---|
| done | all of section 2 | modelled, checked and, where section 4 says so, proved |
| 1 | `Services`, `FirmwareImage` | what `ImageChecked` says of one changed byte |
| later | `tConfigure` | its bits as read-modify-write of one word, in `Parameters` and `Plug` |

An abstract specification worth stating besides `EventLog` and `Register`: a timetable that performs what is due at each
second, for `RelaySchedule`.

## 7. Running it

    tlc -workers 2 -config CgiWifi.cfg CgiWifi.tla
    tlc -workers 2 -config Answers.cfg MCAnswers.tla     # likewise the others: PROJECT.json names module and cfg
    tlapm Plug_proofs.tla      # likewise the other *_proofs.tla

The definitions whose comment says `mutant` are not used by any specification: each is a plausible bug which, put in
place of the definition it is named after, violates the property that `PROJECT.json` pairs it with.

## 8. Not modelled

* `spi_interface.c`, `uart.c`: register accesses without a decision of their own; the meter of the plug is on GPIO
  pins.
* `cgiflash.c` (no URL leads to it) and `smart_config.c` (its functions are superseded by those of
  `user_esp_platform.c`).
* `user_light*.c`, `user_sensor.c`: products that `user_config.h` does not select.
* The texts of JSON answers (`cJSON`), of pages and of the log; gzip, which the browser undoes.
* `extra_include/`, `test_heatshrink*.c`, `heatshrink.c`: vendored headers, tests and a command line tool.
