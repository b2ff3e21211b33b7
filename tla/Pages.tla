-------------------------------- MODULE Pages --------------------------------
(***************************************************************************)
(* What becomes of a file of module EspFs on its way to the browser        *)
(* (core/httpdespfs.c): cgiEspFsHook passes it through, cgiEspFsTemplate   *)
(* replaces every %token% by what tplWlan (util/cgiwifi.c) puts there,     *)
(* piece by piece as espFsRead delivers it.                                *)
(***************************************************************************)
EXTENDS EspFs

CONSTANTS
    PERCENT,    \* the byte that begins and ends a token
    TOKEN,      \* the longest token that is kept: 63
    SENDBUFF,   \* MAX_SENDBUFF_LEN: 2048, for pieces of 1024
    NameOf,     \* the tokens of the pages: bytes -> name
    Expansion,  \* the length of what stands for a token, at most 127
    Pages       \* what is asked for: [page |-> [cgi, gzip, accepts, opmode, type], inputs]

VARIABLES
    page,       \* the request
    tpl,        \* the template: the token that is being collected, None in the
                \* text (TplData), the text not yet sent (buff, sp), the send
                \* buffer of the connection, and whether it ever had no room
    seen,       \* how much of got went through
    sent        \* what went to the browser

tpd      == <<page, tpl, seen, sent>>
pagevars == <<vars, tpd>>

StartPage(q) ==
    /\ page = q /\ seen = 0 /\ sent = <<>>
    /\ tpl = [token |-> None, text |-> <<>>, buff |-> <<>>, dropped |-> FALSE]

PagesInit ==
    \E q \in Pages : \E input \in q.inputs : Start(input[1], input[2], "encode") /\ StartPage(q.page)

(* The image is built and the file looked for as module EspFs has it.      *)
Prepare == (compressHeatshrink \/ mkespfsimage \/ (phase = "open" /\ espFsOpen)) /\ UNCHANGED tpd

(* First call: a file that is gzipped is refused by the template, and by   *)
(* the hook for a browser that does not accept it.                         *)
Refused == page.gzip /\ (page.cgi = "template" \/ ~page.accepts)

First == phase = "read" /\ got = <<>> /\ want = 0 /\ sent = <<>> /\ fh.posDecomp = 0

(* It answers, or lets another CGI function try, with nothing sent.        *)
gzipNonSupportedMessage == <<<<"status", 501>>>>

FirstCallRefuses ==
    /\ First /\ Refused
    /\ phase' = "refused"
    /\ sent' = IF page.cgi = "hook" THEN gzipNonSupportedMessage ELSE <<>>
    /\ UNCHANGED <<file, before, enc, taken, code, image, p, fh, dec, want, elen, got, page, tpl, seen>>

(* What the browser is told of the page: it is sent before the first piece. *)
httpdStartResponse(code200) == <<"status", code200>>
httpdHeader(field, val) == <<field, val>>
httpdEndHeaders == <<"end">>

ResponseHead ==
    LET type == <<httpdStartResponse(200), httpdHeader("Content-Type", page.type)>>
        gzip == IF page.gzip THEN <<httpdHeader("Content-Encoding", "gzip")>> ELSE <<>>
        kept == <<httpdHeader("Cache-Control", "max-age=3600, must-revalidate")>>
    IN  IF page.cgi = "hook" THEN type \o gzip \o kept \o <<httpdEndHeaders>>
        ELSE Append(type, httpdEndHeaders)

FirstCall ==
    /\ First /\ ~Refused
    /\ sent' = ResponseHead
    /\ UNCHANGED <<vars, page, tpl, seen>>

(* Every further call reads a piece... *)
Unsent == SubSeq(got, seen + 1, Len(got))

Whole == want = 0 /\ phase \in {"read", "closed"}

ReadPiece ==
    /\ phase \in {"read", "poll"} /\ sent # <<>>
    /\ Whole => Unsent = <<>>
    /\ espFsRead
    /\ UNCHANGED tpd

(* ...and takes it byte by byte: text is sent at the next %, at the end of *)
(* the piece, or not at all if the buffer has no room for it.              *)
Weight(item) == IF item[1] = "text" THEN 1 ELSE Expansion

Total(items) == FoldLeft(LAMBDA n, item : n + Weight(item), 0, items)

httpdSend(s, items) ==
    IF Total(s.buff) + Total(items) > SENDBUFF THEN [s EXCEPT !.dropped = TRUE]
    ELSE [s EXCEPT !.buff = @ \o items]

tplWlan(bytes) ==
    LET name == IF bytes \in DOMAIN NameOf THEN NameOf[bytes] ELSE "other"
    IN  CASE name = "WiFiMode" /\ page.opmode = 1 -> "Client"
          [] name = "WiFiMode" /\ page.opmode = 2 -> "SoftAP"
          [] name = "WiFiMode" /\ page.opmode = 3 -> "STA+AP"
          [] name = "currSsid"                    -> "ssid"
          [] name = "WiFiPasswd"                  -> "password"
          [] name = "WiFiapwarn" /\ page.opmode = 2 -> "Can't scan in this mode"
          [] name = "WiFiapwarn" /\ page.opmode # 2 -> "go to standalone AP mode"
          [] OTHER                                -> "Unknown"

Text(byte) == <<"text", byte>>

Closes(s) ==
    [httpdSend(s, IF s.token = <<>> THEN <<Text(PERCENT)>> ELSE <<<<"token", tplWlan(s.token)>>>>)
        EXCEPT !.token = None]

Collects(s, c) == [s EXCEPT !.token = IF Len(@) < TOKEN THEN Append(@, c) ELSE @]

Opens(s) == [httpdSend(s, s.text) EXCEPT !.text = <<>>, !.token = <<>>]

Takes(s, c) ==
    CASE s.token = None /\ c = PERCENT -> Opens(s)
      [] s.token = None /\ c # PERCENT -> [s EXCEPT !.text = Append(@, Text(c))]
      [] s.token # None /\ c = PERCENT -> Closes(s)
      [] s.token # None /\ c # PERCENT -> Collects(s, c)

(* The end of the piece: the text is sent, and the buffer written out.     *)
EndsPiece(s) == [httpdSend(s, s.text) EXCEPT !.text = <<>>]

Leaves_forgets(s) == [s EXCEPT !.buff = <<>>, !.token = None]    \* mutant: the token too

Leaves(s) == [s EXCEPT !.buff = <<>>]

cgiEspFsTemplate ==
    /\ page.cgi = "template" /\ Whole /\ Unsent # <<>>
    /\ LET taken1 == Takes(tpl, Head(Unsent))
           last   == EndsPiece(taken1)
       IN  IF Len(Unsent) > 1 THEN tpl' = taken1 /\ UNCHANGED sent
           ELSE tpl' = Leaves(last) /\ sent' = sent \o last.buff
    /\ seen' = seen + 1
    /\ UNCHANGED <<vars, page>>

(* The hook writes the piece to the socket.                                *)
cgiEspFsHook ==
    /\ page.cgi = "hook" /\ Whole /\ Unsent # <<>>
    /\ sent' = sent \o [i \in 1..Len(Unsent) |-> Text(Unsent[i])]
    /\ seen' = Len(got)
    /\ UNCHANGED <<vars, page, tpl>>

CgiEspFs == Prepare \/ FirstCall \/ FirstCallRefuses \/ ReadPiece \/ cgiEspFsTemplate \/ cgiEspFsHook

-----------------------------------------------------------------------------
(* The page as it is meant: the percent signs pair up; between the two of  *)
(* a pair stands a token, or nothing, which stands for the sign itself.    *)
Percents(n) == {i \in 1..n : file[i] = PERCENT}
Inside(i)   == Cardinality(Percents(i - 1)) % 2 = 1

Meant(i) ==
    LET from == Max({0} \cup Percents(i - 1))
    IN  CASE ~Inside(i) /\ file[i] # PERCENT -> <<Text(file[i])>>
          [] Inside(i) /\ file[i] = PERCENT /\ from = i - 1 -> <<Text(PERCENT)>>
          [] Inside(i) /\ file[i] = PERCENT /\ from < i - 1 ->
               <<<<"token", tplWlan(SubSeq(file, from + 1, Min({i - 1, from + TOKEN})))>>>>
          [] OTHER -> <<>>

(* However a page is cut into pieces, between the signs of a pair and in   *)
(* the middle of a token too, the browser gets it as it is meant, behind   *)
(* what it needs to show it, unless it was told of a piece for which the   *)
(* buffer had no room; gzipped bytes reach only who takes them for that.   *)
PageAsMeant ==
    /\ phase = "closed" /\ seen = Len(got) /\ ~tpl.dropped =>
           LET headed == Min({i \in 1..Len(sent) : sent[i] = httpdEndHeaders})
           IN  /\ {<<"status", 200>>, <<"Content-Type", page.type>>}
                      \subseteq {sent[i] : i \in 1 .. headed - 1}
               /\ SubSeq(sent, headed + 1, Len(sent)) =
                      IF page.cgi = "hook" THEN [i \in 1..Len(file) |-> Text(file[i])]
                      ELSE FlattenSeq([i \in 1..Len(file) |-> Meant(i)])
    /\ page.gzip /\ (\E i \in DOMAIN sent : sent[i][1] = "text") =>
           page.accepts /\ <<"Content-Encoding", "gzip">> \in Range(sent)
=============================================================================
