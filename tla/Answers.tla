------------------------------- MODULE Answers -------------------------------
(***************************************************************************)
(* What the plug answers from nothing but what it is asked and what was    *)
(* built into it: the pages (modules EspFs and Pages), the arguments, the  *)
(* login, the host and the path of a request (Requests), the timers and    *)
(* the times in it (TimerText, TrendQuery), names (CaptiveDns), the search *)
(* for devices (DeviceFind), and whether a firmware image is whole         *)
(* (FirmwareImage).  A behaviour is one question and its answer, once the  *)
(* task that gives it has its socket (Services); or it is a sequence of    *)
(* JSON commands (ConfigApi), or of saves and starts (Stores).             *)
(***************************************************************************)
EXTENDS Pages, FirmwareImage, ConfigApi, Services, Stores

CONSTANTS
    Code, MacOf, IpOf,             \* of the modules below
    LINE,                          \* a CRC is summed up that many bytes at a time
    WORD, PER, SECTORS, INTERVAL, QUERY, BYTE,
    TIMER_NUMBER, WAIT, ROOM, DNS_LEN,
    Questions                      \* everything that is asked, but for pages

R == INSTANCE Requests
D == INSTANCE CaptiveDns
F == INSTANCE DeviceFind
T == INSTANCE TimerText
Q == INSTANCE TrendQuery

VARIABLES asked, reply

allvars == <<pagevars, asked, reply, apivars, servicevars, storevars, paramvars>>

NoPage == [cgi |-> "none", gzip |-> FALSE]

(* The socket is waited for by who asks for a page, a name or a device.    *)
Server(kind) == IF kind \in {"dns", "find"} THEN kind ELSE "none"

Begins(how, server) ==
    /\ Start(<<>>, None, how) /\ StartPage(NoPage)
    /\ ServiceInit(server)

AnswersInit ==
    /\ ApiInit /\ StoresInit /\ reply = None
    /\ \/ PagesInit /\ asked = None /\ ServiceInit("http")
       \/ asked \in Questions /\ Begins("ask", Server(asked.kind))
       \/ asked = [kind |-> "api"] /\ Begins("api", "none")
       \/ asked = [kind |-> "store"] /\ Begins("saves", "none")
       \/ asked = [kind |-> "token"] /\ Begins("tokens", "none")

Asked(kind) == phase = "ask" /\ asked.kind = kind

Answered(how, with) ==
    /\ reply' = with
    /\ phase' = how
    /\ UNCHANGED <<file, before, enc, taken, code, image, p, fh, dec, want, elen, got, tpd, asked>>

Replies(with) == Answered("replied", with)

(* The server never returns, or what it overwrites is another's.           *)
Stops(how) == Answered(how, None)

-----------------------------------------------------------------------------
(* A GET with arguments, as a browser writes it.                           *)
Escaped(c) ==
    CASE c = " " -> <<"+">>
      [] c \in {"%", "&", "+", "="} ->
            <<"%", R!HexUpper[(Code[c] \div 16) + 1], R!HexLower[(Code[c] % 16) + 1]>>
      [] OTHER -> <<c>>

Argument(a) == a.name \o <<"=">> \o FlattenSeq([i \in 1..Len(a.value) |-> Escaped(a.value[i])])

Query(args) ==
    IF args = <<>> THEN <<>>
    ELSE <<"?">> \o Argument(args[1])
             \o FlattenSeq([i \in 1 .. Len(args) - 1 |-> <<"&">> \o Argument(args[i + 1])])

RequestLine(q) == <<"G", "E", "T", " ">> \o q.path \o Query(q.args) \o <<" ", "H", "T", "T", "P">>

ReplyArguments ==
    /\ Asked("arguments")
    /\ LET parsed == R!httpdParseHeader(RequestLine(asked))
       IN  Replies([url |-> parsed.url, type |-> R!httpdGetMimetype(parsed.url),
                    value |-> [n \in asked.names |->
                                  R!httpdFindArg(parsed.getArgs, n, asked.room)]])

(* A login; the header is one of several.                                  *)
Base64(text) ==
    LET bits   == FlattenSeq([i \in 1..Len(text) |-> BitsOf(Code[text[i]], 8)])
        padded == bits \o [i \in 1 .. (6 - (Len(bits) % 6)) % 6 |-> 0]
        chars  == [i \in 1 .. Len(padded) \div 6 |->
                      R!base64dec_tab[ValueOf(SubSeq(padded, 6 * i - 5, 6 * i)) + 1]]
    IN  chars \o [i \in 1 .. (4 - (Len(chars) % 4)) % 4 |-> "="]

HeaderLines(q) ==
    <<<<"H", "o", "s", "t", ":", "a">>,
      R!Authorization \o <<":", " ">> \o q.scheme \o <<" ">>
          \o Base64(q.user \o <<":">> \o q.pass)>>

ReplyLogin ==
    /\ Asked("login")
    /\ Replies(R!authBasic(HeaderLines(asked), asked.users, 100, asked.room))

ReplyHost ==
    /\ Asked("host")
    /\ Replies(R!cgiRedirectApClientToHostname(asked.opmode, asked.inApNet, asked.host, asked.own))

(* The path of a request, with the redirects that a browser follows.       *)
ReplyUrl ==
    /\ Asked("url")
    /\ LET first  == R!httpdProcessRequest(asked.url, asked.files)
           second == R!httpdProcessRequest(first.Location, asked.files)
       IN  Replies(IF first.status = 302 THEN <<first, second>> ELSE <<first>>)

ReplyTimers ==
    /\ Asked("timers")
    /\ Replies(T!user_platform_timer_first_start(asked.list))

ReplyTrends ==
    /\ Asked("trends")
    /\ Replies(Q!trend_get(asked.num, asked.from, asked.to))

-----------------------------------------------------------------------------
(* Questions to the name server: a name in full, the name of the first     *)
(* question again as a pointer, or a label in front of it; in the first    *)
(* question these lead back to themselves.  Or a byte that is neither the  *)
(* length of a label nor a pointer.                                        *)
LabelBytes(labels) == FlattenSeq([i \in 1..Len(labels) |-> <<Len(labels[i])>> \o labels[i]])

NameOfQuestion(qs, i) ==
    CASE qs[i].how = "full"    -> qs[i].labels
      [] qs[i].how = "pointer" -> qs[1].labels
      [] qs[i].how = "in"      -> qs[i].labels \o qs[1].labels
      [] qs[i].how = "neither" -> <<>>

QuestionBytes(q) ==
    (CASE q.how = "full"    -> Append(LabelBytes(q.labels), 0)
       [] q.how = "pointer" -> <<192, 12>>
       [] q.how = "in"      -> LabelBytes(q.labels) \o <<192, 12>>
       [] q.how = "neither" -> <<64, 97, 0>>)
        \o <<q.type \div 256, q.type % 256, 0, 1>>

Body(qs) == FlattenSeq([i \in 1..Len(qs) |-> QuestionBytes(qs[i])])

ReplyDns ==
    /\ Asked("dns") /\ Served
    /\ LET done == D!captdnsRecv(asked.header, Body(asked.questions))
       IN  \/ done.how \in {"read", "refused"} /\ Replies(done.reply)
           \/ done.how \in {"endless", "overrun"} /\ Stops(done.how)

ReplyFind ==
    /\ Asked("find") /\ Served
    /\ Replies(F!user_devicefind_data_process(asked.opmode, asked.from, asked.msg))

-----------------------------------------------------------------------------
(* A firmware image: does the boot loader take it; with its CRC behind it, *)
(* and some of its bytes changed on the way, does the download pass?       *)
Built(q) == gen_appbin(q.boot_mode, q.sections)

Damaged(bytes, d) ==
    [i \in DOMAIN bytes |-> IF i \in DOMAIN d THEN Xor(bytes[i], d[i]) ELSE bytes[i]]

Summing(sum) ==
    /\ reply' = sum
    /\ phase' = "sum"
    /\ UNCHANGED <<file, before, enc, taken, code, image, p, fh, dec, want, elen, got, tpd, asked>>

BuildImage ==
    /\ Asked("image")
    /\ Summing([built |-> FALSE, bytes |-> Built(asked), at |-> 0, crc |-> CRC_INIT,
                boots |-> LoaderAccepts(Built(asked), FlashPart(asked.boot_mode, asked.sections))])

End == IF reply.built THEN Covered(reply.bytes) ELSE Len(reply.bytes)

SumLine ==
    /\ phase = "sum" /\ reply.at < End
    /\ LET to == Min({reply.at + LINE, End})
       IN  Summing([reply EXCEPT !.at = to,
                        !.crc = calc_img_crc(SubSeq(reply.bytes, reply.at + 1, to), @)])

(* The tool esp_FOTA_bin_crc_gen of the Makefile, as upgrade_crc_check     *)
(* wants it: the check sum of everything goes behind it.                   *)
AppendCrc ==
    /\ phase = "sum" /\ reply.at = End /\ ~reply.built
    /\ Summing([reply EXCEPT !.built = TRUE, !.at = 0, !.crc = CRC_INIT,
                    !.bytes = Damaged(@ \o Stored(reply.crc), asked.damage)])

ReplyImage ==
    /\ phase = "sum" /\ reply.at = End /\ reply.built
    /\ Replies([boots |-> reply.boots, passes |-> upgrade_crc_check(reply.bytes, reply.crc) = 0])

ReplyAlone == ReplyArguments \/ ReplyLogin \/ ReplyHost \/ ReplyUrl \/ ReplyTimers \/ ReplyTrends
                  \/ BuildImage \/ SumLine \/ AppendCrc \/ ReplyImage

(* The image of the files is built before the plug starts.                 *)
Build == phase \in {"encode", "store"}

AnswersPage == CgiEspFs /\ (Build \/ stands = "serving") /\ UNCHANGED servicevars

ServiceStep == ~Build /\ phase \notin {"replied", "endless", "overrun"} /\ UNCHANGED <<pagevars, asked, reply>>

Answering ==
    \/ AnswersPage /\ UNCHANGED <<asked, reply>>
    \/ ReplyAlone /\ UNCHANGED servicevars
    \/ ReplyDns \/ ReplyFind
    \/ Serves /\ ServiceStep

Finished ==
    /\ \/ phase \in {"closed", "refused", "replied", "broken", "endless", "overrun"}
       \/ phase = "ask" /\ stands = "gone" /\ service # "none"
       \/ phase = "tokens" /\ given.times = TOKENS
    /\ UNCHANGED allvars

AnswersNext ==
    \/ Answering /\ UNCHANGED <<apivars, storevars, paramvars>>
    \/ phase = "api" /\ Api /\ UNCHANGED <<pagevars, asked, reply, servicevars, storevars, paramvars>>
    \/ /\ \/ phase = "saves" /\ ConfigStep
          \/ phase = "tokens" /\ ParamStep
       /\ UNCHANGED <<pagevars, asked, reply, apivars, servicevars>>
    \/ Finished

(* What ReplyDns and ReplyFind do, whatever they reply.                    *)
DatagramSeenTo == phase = "ask" /\ Served /\ phase' \in {"replied", "endless", "overrun"}

AnswersSpec ==
    /\ AnswersInit /\ [][AnswersNext]_allvars
    /\ WF_pagevars(AnswersPage) /\ WF_servicevars(TaskRuns /\ ServiceStep)
    /\ WF_phase(DatagramSeenTo)

-----------------------------------------------------------------------------
Replied(kind) == phase = "replied" /\ asked.kind = kind

(* Whatever an argument holds, and whatever other names begin with its     *)
(* name, the CGI function that looks for it gets the first one of that     *)
(* name, as far as it has room (see httpdUrlDecode for its end), and the   *)
(* path is what stands before them.                                        *)
ArgumentsArrive ==
    Replied("arguments") =>
        /\ reply.url = asked.path
        /\ reply.type = asked.type
        /\ \A n \in asked.names :
               LET named == {i \in 1..Len(asked.args) : asked.args[i].name = n}
                   value == asked.args[Min(named)].value
               IN  reply.value[n] =
                       CASE asked.args = <<>> -> <<>>
                         [] asked.args # <<>> /\ named = {} -> R!NOT_FOUND
                         [] named # {} -> SubSeq(value, 1, Min({Len(value), asked.room}))

(* A request passes authBasic exactly with the name and the password of    *)
(* one user, not with parts of them or with those of two.                  *)
LoginChecked ==
    Replied("login") =>
        (reply = "AUTHENTICATED" <=>
            /\ asked.scheme = R!Basic
            /\ Len(asked.user) + Len(asked.pass) < asked.room
            /\ \E u \in asked.users : u.user = asked.user /\ u.pass = asked.pass)

(* A client of the soft-AP that does not know the plug's name is sent to   *)
(* it, once: under that name, or by address, it is served.                 *)
SentToItsName ==
    Replied("host") =>
        (reply = "DONE" <=>
            asked.opmode # 1 /\ asked.inApNet /\ asked.host # asked.own /\ ~asked.address)

(* Whatever path is asked for, a browser ends at a page or at a function   *)
(* if there is one, and is told so if there is none.                       *)
UrlsServed ==
    Replied("url") => reply[Len(reply)].status = IF asked.there THEN 200 ELSE 404

(* The timers of a list are those that were put in, in order.              *)
TimersUnderstood == Replied("timers") => reply = asked.timers

(* A trend query is answered with records that the log still holds, oldest *)
(* first, and never more than it may return.  That says little: the code   *)
(* reads the times of the log where none is written, so that the last      *)
(* record alone is ever answered.                                          *)
TrendsHeld ==
    Replied("trends") /\ reply.answer = "trend" =>
        /\ Len(reply.records) <= QUERY
        /\ reply.records[1] >= 0
        /\ \A i \in 2..Len(reply.records) : reply.records[i] = reply.records[i - 1] + 1

(* A request does what its text says: arguments, password, URL, timers and *)
(* the records asked for are what the client wrote, however it wrote them. *)
RequestsUnderstood ==
    ArgumentsArrive /\ LoginChecked /\ SentToItsName /\ UrlsServed /\ TimersUnderstood /\ TrendsHeld

(* The names of a packet end, and so does the search for their ends: what  *)
(* comes behind the name of the root is read from its second byte on.      *)
NamesEnd(qs) ==
    \A i \in 1..Len(qs) :
        /\ qs[i].how # "neither" /\ (i = 1 => qs[i].how = "full")
        /\ NameOfQuestion(qs, i) = <<>> => i = Len(qs)

IsAnswered(q) == q.type \in {1, 2, 256}

(* Room for a packet and a record for each of its questions that has one;  *)
(* a question for the address of the root is taken for one for a URI.      *)
FitsReply(qs) ==
    LET name(i) == NameOfQuestion(qs, i)
        record(i) == CASE name(i) # <<>> /\ IsAnswered(qs[i]) ->
                            Len(LabelBytes(name(i))) + 1 + (IF qs[i].type = 256 THEN 30 ELSE 14)
                       [] name(i) = <<>> /\ qs[i].type = 1 -> 2 + 30
                       [] OTHER -> 0
    IN  12 + Len(Body(qs)) + FoldSeq(+, 0, [i \in 1..Len(qs) |-> record(i)]) <= DNS_LEN

(* Every question for an address, a name server or a URI is answered under *)
(* its own name, in order, however the packet shortens the name: unless a  *)
(* name is that of the root, or never ends, or the reply does not fit the  *)
(* buffer, which the server does not look at.                              *)
NamesAnswered ==
    Replied("dns") =>
        LET qs == asked.questions
            answered == SelectSeq([i \in 1..Len(qs) |-> i], LAMBDA i : IsAnswered(qs[i]))
        IN  IF ~asked.wellformed THEN ~reply.sent
            ELSE /\ FitsReply(qs) \/ \E i \in 1..Len(qs) : NameOfQuestion(qs, i) = <<>>
                 /\ (\A i \in 1..Len(qs) : NameOfQuestion(qs, i) # <<>>) =>
                        /\ reply.sent /\ reply.ancount = Len(answered)
                        /\ [i \in 1..Len(answered) |-> reply.records[i].label]
                             = [i \in 1..Len(answered) |->
                                   Append(LabelBytes(NameOfQuestion(qs, answered[i])), 0)]
                        /\ \A i \in 1..Len(answered) : reply.records[i].type = qs[answered[i]].type

(* Who looks for devices and is in the net of an interface that is up is   *)
(* told an address that it can reach; every plug that is meant answers,    *)
(* and only that one: who asks again with the MAC it was told finds it.    *)
UpIn(opmode) == CASE opmode = 1 -> {"STATION_IF"} [] opmode = 2 -> {"SOFTAP_IF"} [] OTHER -> DOMAIN IpOf

RightInterface ==
    Replied("find") /\ (\E i \in UpIn(asked.opmode) : IpOf[i][1] = asked.from[1]) =>
        LET reached == CHOOSE i \in UpIn(asked.opmode) : IpOf[i][1] = asked.from[1]
            asks    == asked.msg.asks /\ asked.msg.mac \in {"any", MacOf[reached]}
        IN  IF asks THEN reply.to = asked.from /\ reply.ip[1] = asked.from[1] /\ reply.mac = MacOf[reached]
            ELSE reply.to = "nobody"

(* Names are answered with the name asked for, within the exceptions of    *)
(* NamesAnswered, and a search with the address of the interface it came   *)
(* over.                                                                   *)
DatagramsAnswered == NamesAnswered /\ RightInterface

(* An image that was built boots, and passes the check of the upgrade      *)
(* exactly when no byte of it, or of its CRC, was changed on the way.      *)
ImageChecked ==
    Replied("image") => reply.boots /\ (reply.passes <=> asked.damage = <<>>)

(* Datagrams that the name server may not come back from: a name leads     *)
(* back to itself, or has a byte that is neither a length nor a pointer,   *)
(* or seems to, behind the name of the root; or the reply does not fit.    *)
Lost(q) ==
    q # None /\ q.kind = "dns" /\ q.wellformed
        /\ (~NamesEnd(q.questions) \/ \E i \in 1..Len(q.questions) : ~FitsReply(SubSeq(q.questions, 1, i)))

(* Every page that is asked for is delivered, or refused: the coder, the    *)
(* decoder, the file system and the template never wait for one another;   *)
(* every datagram that is not Lost is seen to, unless its task has ended:  *)
(* the task never waits for good for a socket, or for what has been        *)
(* answered.                                                               *)
AnswerEnds ==
    /\ asked = None => <>(phase \in {"closed", "refused"} /\ (phase = "closed" => seen = Len(got)))
    /\ service \in {"dns", "find"} => <>(phase = "replied" \/ stands = "gone" \/ Lost(asked))
=============================================================================
