------------------------------ MODULE MCAnswers ------------------------------
(* Pages: every file of up to seven bytes of two values, of which one is   *)
(* the percent sign, files of 21 bytes with much that repeats, for which   *)
(* the window is moved twice, one file behind others of every length of    *)
(* name and data, and one for every kind of request.  Questions: at most   *)
(* two arguments, users and names, with everything that needs care.        *)
EXTENDS Answers

Short(n) == {f \in [1..n -> {0, 1}] : f[1] = 1}
Blocks   == {<<1, 0, 1>>, <<1, 1, 0>>}
Long     == {FlattenSeq(<<<<1, 0, 1>>>> \o b) : b \in [1..6 -> Blocks]}
Fixed    == [name |-> 3, size |-> 5]

Page(cgi, gzip, accepts, opmode, inputs) ==
    [page |-> [cgi |-> cgi, gzip |-> gzip, accepts |-> accepts, opmode |-> opmode,
              type |-> "text/html"],
     inputs |-> inputs]

Template(opmode, inputs) == Page("template", FALSE, FALSE, opmode, inputs)

MCPages ==
    {Template(2, ((UNION {Short(n) : n \in 1..7}) \cup Long) \X {Fixed}),
     Template(2, {<<1, 1, 1, 1, 1>>} \X [name : 2..5, size : 1..4])}
        \cup {Template(m, {<<<<1, 0, 1, 0>>, Fixed>>}) : m \in {1, 3}}
        \cup {Page(c, g, a, 1, {<<<<1, 0, 1, 0, 1, 0>>, Fixed>>}) :
                  c \in {"hook", "template"}, g \in BOOLEAN, a \in BOOLEAN}

MCNameOf == (<<0>> :> "WiFiMode") @@ (<<0, 0>> :> "WiFiapwarn")

MCCode == ("%" :> 37) @@ ("&" :> 38) @@ ("+" :> 43) @@ ("=" :> 61) @@ (" " :> 32)
              @@ (":" :> 58) @@ ("a" :> 97) @@ ("b" :> 98)

-----------------------------------------------------------------------------
Values == UNION {[1..n -> {"a", "&", "%", " "}] : n \in 0..2}
Args   == [name : {<<"a">>, <<"a", "b">>}, value : Values]

Arguments(path, type, args, room) ==
    [kind |-> "arguments", path |-> path, type |-> type, args |-> args, room |-> room,
     names |-> {<<"a">>, <<"a", "b">>, <<"b">>}]

ArgumentQuestions ==
    {Arguments(<<"/">>, "text/html", args, 1) : args \in UNION {[1..n -> Args] : n \in 0..2}}
        \cup {Arguments(<<"/", "a", ".", "c", "s", "s">>, "text/css", <<>>, 9),
              Arguments(<<"/", ".", "a", ".", "j", "s">>, "text/javascript",
                        <<[name |-> <<"b">>, value |-> <<"=", "+", "b">>]>>, 9)}

Words == UNION {[1..n -> {"a", "b"}] : n \in 0..2}

LoginQuestions ==
    [kind : {"login"}, scheme : {R!Basic, <<"D", "i", "g", "e", "s">>}, user : Words, pass : Words,
     users : {{[user |-> <<"a">>, pass |-> <<"b", "a">>], [user |-> <<"a", "b">>, pass |-> <<"a">>]}},
     room : {4, 6}]

Host(host, address) ==
    [kind |-> "host", host |-> host, address |-> address, own |-> <<"a">>]

HostQuestions ==
    {h @@ [opmode |-> m, inApNet |-> n] :
        h \in {Host(<<"a">>, FALSE), Host(<<"a", "b">>, FALSE),
               Host(<<"1", "9", "2", ".", "1", "6", "8", ".", "4", ".", "1">>, TRUE),
               Host(<<"1", "9", "2", ".", "1", "6", "8", ".", "4", ".", "a">>, FALSE)},
        m \in 1..3, n \in BOOLEAN}

-----------------------------------------------------------------------------
FileSystems == [plain : SUBSET {"/index.html", "/wifi/wifi.tpl"}, gzipped : SUBSET {"/index.html", "/wifi/wifi.tpl"}]

Functions == {"/wifi/connect.cgi", "/config"}

LeadsTo(url) == CASE url = "/" -> "/index.html" [] url = "/wifi" -> "/wifi/wifi.tpl" [] OTHER -> url

UrlQuestions ==
    {[kind |-> "url", url |-> u, files |-> f,
      there |-> LeadsTo(u) \in Functions \cup f.plain \cup f.gzipped] :
        u \in Functions \cup {"/", "/wifi", "/index.html", "/wifi/wifi.tpl", "/other"}, f \in FileSystems}

OneTimer == [mode : {"l", "f", "w"}, wait : {<<"6">>, <<"6", "0">>}, action : {<<"o", "n">>, <<"o">>}]

Join(timers) ==
    Tail(FlattenSeq([i \in DOMAIN timers |->
             <<";", timers[i].mode>> \o timers[i].wait \o <<"=">> \o timers[i].action]))

TimerQuestions ==
    {[kind |-> "timers", list |-> Join(t), timers |-> t] :
        t \in UNION {[1..n -> OneTimer] : n \in 1..2}
                \cup {[i \in 1..TIMER_NUMBER |-> t] : t \in OneTimer}}

Times == {0, 1, 7, 52, 53, 61, 62, 63}

TrendQuestions == [kind : {"trends"}, num : 0..9, from : Times, to : Times]

-----------------------------------------------------------------------------
Names == UNION {[1..n -> {<<97>>, <<98, 99>>}] : n \in 1..2}
Types == {1, 2, 256, 15}

FirstQuestion  == [how : {"full"}, labels : Names, type : Types]
SecondQuestion == FirstQuestion \cup [how : {"in"}, labels : [1..1 -> {<<97>>, <<98, 99>>}], type : Types]
                \cup [how : {"pointer"}, labels : {<<>>}, type : Types]

DnsHeader(n, flags) ==
    [id |-> 7, qdcount |-> n, ancount |-> flags[1], nscount |-> flags[2], arcount |-> flags[3],
     tc |-> flags[4]]

Well == <<0, 0, 0, FALSE>>
Ill  == {<<1, 0, 0, FALSE>>, <<0, 1, 0, FALSE>>, <<0, 0, 1, FALSE>>, <<0, 0, 0, TRUE>>}

Dns(qs, flags) ==
    [kind |-> "dns", questions |-> qs, header |-> DnsHeader(Len(qs), flags),
     wellformed |-> flags = Well]

Root == [how |-> "full", labels |-> <<>>, type |-> 1]
Byte64 == [how |-> "neither", labels |-> <<>>, type |-> 1]
Backwards == {[how |-> "pointer", labels |-> <<>>, type |-> 1], [how |-> "in", labels |-> <<<<97>>>>, type |-> 1],
              [how |-> "in", labels |-> <<<<33>>>>, type |-> 1]}

DnsQuestions ==
    {Dns(<<q>>, Well) : q \in FirstQuestion \cup Backwards \cup {Root, Byte64}}
        \cup {Dns(<<q, r>>, flags) : q \in Backwards \cup {Root, Byte64}, r \in {Root, Byte64} \cup Backwards,
                                    flags \in {Well} \cup Ill}
        \cup {Dns(<<q, r>>, Well) : q \in FirstQuestion, r \in {Root, Byte64}}
        \cup {Dns(<<q, r>>, Well) : q \in FirstQuestion, r \in SecondQuestion}
        \cup {Dns(<<[how |-> "full", labels |-> <<<<97>>>>, type |-> 1]>>, ill) : ill \in Ill}

-----------------------------------------------------------------------------
MCMacOf == ("SOFTAP_IF" :> "mac of the AP") @@ ("STATION_IF" :> "mac of the station")
MCIpOf  == ("SOFTAP_IF" :> <<4, 1>>) @@ ("STATION_IF" :> <<1, 9>>)

FindQuestions ==
    [kind : {"find"}, opmode : 1..3, from : {<<4, 2>>, <<1, 2>>, <<2, 2>>},
     msg : {F!FindRequest, F!SomethingElse, F!Asks("another mac")}
               \cup {F!Asks(MCMacOf[i]) : i \in DOMAIN MCMacOf}]

-----------------------------------------------------------------------------
Section(n) == [i \in 1..n |-> {i % 8}]

Sections(text, irom) ==
    [text |-> Section(text), data |-> Section(2), rodata |-> Section(3), irom |-> Section(irom)]

Damages(n) ==
    {<<>>} \cup {i :> d : i \in 1..n, d \in {{0}, {7}, 0..7}}
           \cup {(i :> {1, 6}) @@ ((i + 1) :> {0}) : i \in 1 .. n - 1}

ImageQuestions ==
    {[kind |-> "image", boot_mode |-> m, sections |-> Sections(text, irom), damage |-> <<>>] :
        m \in 0..2, text \in 1..13, irom \in {1, 16}}
        \cup {[kind |-> "image", boot_mode |-> 2, sections |-> Sections(1, 1), damage |-> d] :
                  d \in Damages(Len(gen_appbin(2, Sections(1, 1))) + 4)}

MCTokens == {<<"a">>, <<"b", "c">>, <<"d", "e">>, <<"f", "g", "h">>}

MCQuestions == ArgumentQuestions \cup UrlQuestions \cup TimerQuestions \cup TrendQuestions
                   \cup LoginQuestions \cup HostQuestions \cup DnsQuestions
                   \cup FindQuestions \cup ImageQuestions

-----------------------------------------------------------------------------
(* Commands: values at and beyond the limits, texts too long, a part of    *)
(* what a command needs, values of another type.                           *)
(* One reading stands for all of them. *)
MCCalls ==
    {<<espCgiApiNodes[i][1], espCgiApiNodes[i][2]>> :
        i \in {j \in Nodes : espCgiApiNodes[j][2] \notin
                   {"meterstatus", "info", "rssi", "voltage", "power", "temperature", "status"}}}
        \cup {<<"client", "reset">>}

Flag(n) == {NotJson, [enable |-> JsonText("on")], [enable |-> JsonNumber(n)]}

Sntp ==
    {[sntp |-> JsonNumber(0), index |-> JsonNumber(n), url |-> JsonText(t)] :
        n \in {-1, 2, 3}, t \in {"u", "long"}}
        \cup {[sntp |-> JsonNumber(0), index |-> JsonNumber(0)],
              [enable |-> JsonNumber(0)], [enable |-> JsonNumber(2)]}

UpgradeBody ==
    [upgrade_server |-> JsonText("a"), upgrade_host |-> JsonText("b"),
     upgrade_token |-> JsonText("c"), upgrade_url |-> JsonText("long")]

UpgradeBodies ==
    {NotJson, UpgradeBody, [upgrade_server |-> JsonText("d"), upgrade_host |-> JsonText("long")]}
        \cup {UpgradeBody @@ [upgrade_port |-> JsonNumber(n)] : n \in {81, 70000}}

MCBodies ==
    [c \in Commands |->
        CASE c \in {"trendenable", "protectenable"} -> Flag(1)
          [] c = "manual"    -> Flag(2)
          [] c = "threshold" -> {[current_threshold |-> JsonNumber(n)] : n \in {0, 10, 11}}
          [] c = "sntp"      -> Sntp
          [] c = "calib"     -> {NoSet, [I_Max |-> JsonNumber(5)],
                                 [I_Max |-> JsonNumber(6), V_Max |-> JsonText("t")],
                                 [I_Max |-> JsonNumber(7), V_Max |-> JsonNumber(230)]}
          [] c = "schedule"  -> {[reset |-> JsonNumber(1)], [timers |-> JsonText("l60")], NoSet}
          [] c = "switch"    -> {[status |-> JsonNumber(0)], [status |-> JsonNumber(1)], NotJson}
          [] c = "start"     -> UpgradeBodies
          [] c = "debug" -> {NotJson, [enable |-> JsonNumber(1)]}
          [] OTHER -> {NotJson}]
=============================================================================
