------------------------------ MODULE Requests ------------------------------
(***************************************************************************)
(* What the HTTP server reads out of a request: path and arguments of the  *)
(* request line, decoded (core/httpd.c), a header, the user it names       *)
(* (core/auth.c, core/base64.c), and whether the client of the soft-AP is  *)
(* to be sent to the name of the plug.  A text is a sequence of characters.*)
(***************************************************************************)
EXTENDS Integers, SequencesExt

CONSTANT Code    \* character -> its code, for the characters that occur

Char(code) == CHOOSE c \in DOMAIN Code : Code[c] = code

Digits   == <<"0", "1", "2", "3", "4", "5", "6", "7", "8", "9">>
HexUpper == Digits \o <<"A", "B", "C", "D", "E", "F">>
HexLower == Digits \o <<"a", "b", "c", "d", "e", "f">>

httpdHexVal(c) ==
    LET at == {i \in 1..16 : HexUpper[i] = c \/ HexLower[i] = c}
    IN  IF at = {} THEN 0 ELSE (CHOOSE i \in at : TRUE) - 1

(* Up to room characters of what a value stands for.  They are followed by *)
(* a zero only if that still fits, though the comment of the code promises *)
(* one (httpd.c:148); who reads on behind a value is not modelled.         *)
httpdUrlDecode(val, room) ==
    LET step(s, c) ==
            CASE Len(s.out) = room -> s
              [] Len(s.out) < room /\ s.esced = 1 ->
                     [s EXCEPT !.esced = 2, !.escVal = 16 * httpdHexVal(c)]
              [] Len(s.out) < room /\ s.esced = 2 ->
                     [s EXCEPT !.esced = 0, !.out = Append(@, Char(s.escVal + httpdHexVal(c)))]
              [] Len(s.out) < room /\ s.esced = 0 ->
                     IF c = "%" THEN [s EXCEPT !.esced = 1]
                     ELSE [s EXCEPT !.out = Append(@, IF c = "+" THEN " " ELSE c)]
    IN  FoldLeft(step, [out |-> <<>>, esced |-> 0, escVal |-> 0], val).out

(* Where c occurs from a position on, the end of the text if nowhere.      *)
Until(text, from, c) ==
    Min({i \in from..Len(text) : text[i] = c} \cup {Len(text) + 1})

At(text, from, word) ==
    /\ from + Len(word) - 1 <= Len(text)
    /\ \A i \in 1..Len(word) : text[from + i - 1] = word[i]

Names(line, i, arg) == At(line, i, arg \o <<"=">>)

NOT_FOUND == <<"not found">>    \* -1
NULL      == <<"NULL">>

(* The arguments begin at the start and after every &; the first counts.   *)
httpdFindArg(line, arg, room) ==
    LET begins == {1} \cup {i + 1 : i \in {j \in 1..Len(line) : line[j] = "&"}}
        found  == {i \in begins : Names(line, i, arg)}
        value  == Min(found) + Len(arg) + 1
    IN  CASE line = NULL                 -> <<>>
          [] line # NULL /\ found = {} -> NOT_FOUND
          [] line # NULL /\ found # {} -> httpdUrlDecode(SubSeq(line, value, Until(line, value, "&") - 1), room)

(* httpdParseHeader of the request line: the path ends at the first space  *)
(* behind it, the arguments behind a ?.                                    *)
httpdParseHeader(h) ==
    LET target == Until(h, 1, " ") + 1
        end    == Until(h, target, " ") - 1
        mark   == Min({Until(h, target, "?"), end + 1})
    IN  [url |-> SubSeq(h, target, mark - 1),
         getArgs |-> IF mark > end THEN NULL ELSE SubSeq(h, mark + 1, end)]

(* httpdGetHeader: the first line of that name; room - 1 characters of it. *)
httpdGetHeader(head, header, room) ==
    LET lines == {i \in 1..Len(head) : At(head[i], 1, header \o <<":">>)}
        line  == head[Min(lines)]
        value == Min({i \in Len(header) + 2..Len(line) : line[i] # " "} \cup {Len(line) + 1})
    IN  IF lines = {} THEN NOT_FOUND
        ELSE SubSeq(line, value, Min({Len(line), value + room - 2}))

-----------------------------------------------------------------------------
(* base64: six bits of every character, eight of them make a byte; ends at *)
(* = and at anything that is not in the table.                             *)
base64dec_tab ==
    <<"A", "B", "C", "D", "E", "F", "G", "H", "I", "J", "K", "L", "M", "N", "O", "P", "Q", "R",
      "S", "T", "U", "V", "W", "X", "Y", "Z", "a", "b", "c", "d", "e", "f", "g", "h", "i", "j",
      "k", "l", "m", "n", "o", "p", "q", "r", "s", "t", "u", "v", "w", "x", "y", "z",
      "0", "1", "2", "3", "4", "5", "6", "7", "8", "9", "+", "/">>

Six == [c \in Range(base64dec_tab) |-> (CHOOSE i \in 1..64 : base64dec_tab[i] = c) - 1]

base64_decode(in, room) ==
    LET text  == SelectSeq(in, LAMBDA c : c # " ")
        stop  == Min({i \in 1..Len(text) : text[i] \notin DOMAIN Six} \cup {Len(text) + 1}) - 1
        step(s, c) ==
            LET v == s.v * 64 + Six[c]    \* the rem bits that are not out yet
                rem == s.rem + 6
            IN  IF rem < 8 THEN [s EXCEPT !.v = v, !.rem = rem]
                ELSE [v |-> v % 2^(rem - 8), rem |-> rem - 8,
                      out |-> Append(s.out, Char(v \div 2^(rem - 8)))]
        all   == FoldLeft(step, [v |-> 0, rem |-> 0, out |-> <<>>], SubSeq(text, 1, stop)).out
    IN  IF Len(all) > room THEN NOT_FOUND ELSE all

(* authBasic: the decoded user:password is that of one of the users.  It   *)
(* passes a request on (AUTHENTICATED) or answers 401 (DONE).              *)
Basic == <<"B", "a", "s", "i", "c">>
Authorization == <<"A", "u", "t", "h">>    \* the name, shortened

Matches_part(userpass, u) == IsPrefix(userpass, u.user \o <<":">> \o u.pass)    \* mutant: a part is enough

Matches(userpass, u) == userpass = u.user \o <<":">> \o u.pass

authBasic(head, users, hdr_room, userpass_room) ==
    LET hdr      == httpdGetHeader(head, Authorization, hdr_room)
        decoded  == base64_decode(SubSeq(hdr, 7, Len(hdr)), userpass_room)
        userpass == IF decoded = NOT_FOUND THEN <<>> ELSE decoded
    IN  IF /\ hdr # NOT_FOUND /\ At(hdr, 1, Basic)
           /\ \E u \in users : Matches(userpass, u)
        THEN "AUTHENTICATED" ELSE "DONE"

-----------------------------------------------------------------------------
(* httpdGetMimetype: what follows the last dot, or the whole of a path     *)
(* without one, decides.                                                   *)
MimeType(type) == <<"text/htm", "text/html", "text/css", "text/javascript", "text/plain",
                    "image/jpeg", "image/jpeg", "image/png">>[type]

mimeTypes == <<<<"h", "t", "m">>, <<"h", "t", "m", "l">>, <<"c", "s", "s">>, <<"j", "s">>,
               <<"t", "x", "t">>, <<"j", "p", "g">>, <<"j", "p", "e", "g">>, <<"p", "n", "g">>>>

httpdGetMimetype(url) ==
    LET dot  == Max({i \in 1..Len(url) : url[i] = "."} \cup {0})
        ext  == SubSeq(url, dot + 1, Len(url))
        type == {i \in 1..8 : mimeTypes[i] = ext}
    IN  IF type = {} THEN "text/html" ELSE MimeType(Min(type))

(* cgiRedirectToHostname lets a request pass that names our host, or what  *)
(* looks like an address.                                                  *)
IsIP(hostName) == Len(hostName) > 8 /\ Range(hostName) \subseteq Range(Digits) \cup {"."}

cgiRedirectToHostname(hostName, own) ==
    IF IsIP(hostName) \/ hostName = own THEN "NOTFOUND" ELSE "DONE"

(* cgiRedirectApClientToHostname: clients of the soft-AP only.             *)
cgiRedirectApClientToHostname(opmode, inApNet, hostName, own) ==
    IF opmode \in {2, 3} /\ inApNet THEN cgiRedirectToHostname(hostName, own) ELSE "NOTFOUND"

-----------------------------------------------------------------------------
(* Which function answers for a path; a path is a name here, and of the    *)
(* patterns only those that begin with the * match more than one.          *)
builtInUrls ==
    <<<<"*", "cgiRedirectApClientToHostname", "esp.nonet">>,
      <<"/", "cgiRedirect", "/index.html">>,
      <<"/wifi", "cgiRedirect", "/wifi/wifi.tpl">>,
      <<"/wifi/wifiscan.cgi", "cgiWiFiScan", "">>,
      <<"/wifi/wifi.tpl", "cgiEspFsTemplate", "tplWlan">>,
      <<"/wifi/connect.cgi", "cgiWiFiConnect", "">>,
      <<"/wifi/connstatus.cgi", "cgiWiFiConnStatus", "">>,
      <<"/wifi/setmode.cgi", "cgiWiFiSetMode", "">>,
      <<"/config", "cgiEspApi", "">>,
      <<"/client", "cgiEspApi", "">>,
      <<"/upgrade", "cgiEspApi", "">>,
      <<"*", "cgiEspFsHook", "">>>>

cgiRedirect(newUrl) == [status |-> 302, Location |-> newUrl]

httpNotFoundHeader == [status |-> 404, Location |-> ""]

Answered(by) == [status |-> 200, Location |-> by]

(* The files that there are; a template is not a gzipped one.              *)
TakesUrl(i, url, files) ==
    /\ builtInUrls[i][1] \in {"*", url}
    /\ CASE builtInUrls[i][2] = "cgiRedirectApClientToHostname" -> FALSE
          [] builtInUrls[i][2] = "cgiEspFsTemplate" -> url \in files.plain
          [] builtInUrls[i][2] = "cgiEspFsHook"     -> url \in files.plain \cup files.gzipped
          [] OTHER -> TRUE

(* httpdProcessRequest, of a client that is not to be sent to our name.    *)
httpdProcessRequest(url, files) ==
    LET takers == {i \in 1..Len(builtInUrls) : TakesUrl(i, url, files)}
        by     == builtInUrls[Min(takers)]
    IN  CASE takers = {} -> httpNotFoundHeader
          [] takers # {} /\ by[2] = "cgiRedirect" -> cgiRedirect(by[3])
          [] takers # {} /\ by[2] # "cgiRedirect" -> Answered(by[2])
=============================================================================
