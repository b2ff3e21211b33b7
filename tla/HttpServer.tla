----------------------------- MODULE HttpServer -----------------------------
(***************************************************************************)
(* The HTTP server (app/libesphttpd/core/httpd.c): one task that waits in  *)
(* select for a pool of connections, parses what arrives, calls the CGI    *)
(* function of the URL, lets it continue whenever the socket takes more,   *)
(* and gives the connection back.  A stop watch per connection, of the     *)
(* timer context, marks those that were idle too long.                     *)
(*                                                                         *)
(* Peers stand for the connections of browsers and of the app: each sends  *)
(* one well-formed request at a time, whole or not, hangs up when it likes *)
(* and comes back.  A request is a head and len units of body.             *)
(***************************************************************************)
EXTENDS Integers, Sequences

CONSTANTS
    Peers, Nobody,
    ApPeers,      \* those in the network of the soft AP, none if it is off
    Requests,     \* what each peer may ask: peer -> set of requests
    MAX_CONN,     \* connections of the pool, 3 in the code
    MAX_POST,     \* units of body the buffer holds, 1024 bytes in the code
    FileReads     \* calls that send a file after the one that opens it

(* "api" is answered in one call, "file" holds an open file between calls, *)
(* no CGI function takes "missing", and "NULL" is a head without a URL.    *)
Urls == {"api", "file", "missing", "NULL"}

(* foreign: the Host header names another host than the socket. *)
Request == [url : Urls, len : Nat, foreign : BOOLEAN]

ASSUME HttpAssumption ==
    /\ ApPeers \subseteq Peers /\ Nobody \notin Peers
    /\ MAX_CONN \in Nat \ {0} /\ MAX_POST \in Nat \ {0} /\ FileReads \in Nat \ {0}
    /\ \A p \in Peers : /\ Requests[p] \subseteq Request
                        /\ \A r \in Requests[p] : r.url = "file" => r.len = 0    \* pages are read

Slots  == 0..MAX_CONN-1

VARIABLES
    connData,  \* the pool, with connPostData and sockData
    stop_watch,\* slot -> its timer is armed
    httpd,     \* the task: where it stands, what select returned, what was received
    peer       \* the other ends, and (history) what became of each one's request:
               \* executed, the units of body received at each call of the API
               \* function, and whether it was redirected

(* History: a file was left open for good, other than by an error of select. *)
VARIABLE leaked

vars == <<connData, stop_watch, httpd, peer, leaked>>

Conn == [conn : BOOLEAN, sockfd : Peers \cup {Nobody}, remote_ip : Peers \cup {Nobody},
         timeout : BOOLEAN, len : Nat \cup {-1}, received : Nat, buffLen : Nat,
         url : Urls, cgi : {"NULL", "cgiEspFsHook"}, cgiData : 0..FileReads,
         destruct_flg : BOOLEAN]

Peer == [at : {"away", "calling", "connected"}, request : Request,
         unsent : Nat, inbox : Nat, fin : BOOLEAN,
         executed : Seq(Nat), redirected : BOOLEAN]

TypeOK ==
    /\ connData \in [Slots -> Conn]
    /\ stop_watch \in [Slots -> BOOLEAN]
    /\ httpd \in [at : {"select", "accept", "watch", "serve", "parse"},
                  index : Slots, readset : SUBSET Slots, writeset : SUBSET Slots, rx : Nat]
    /\ peer \in [Peers -> Peer]
    /\ leaked \in BOOLEAN

Free == [conn |-> FALSE, sockfd |-> Nobody, remote_ip |-> Nobody, timeout |-> FALSE,
         len |-> -1, received |-> 0, buffLen |-> 0, url |-> "NULL", cgi |-> "NULL",
         cgiData |-> 0, destruct_flg |-> FALSE]

Away == [at |-> "away", request |-> [url |-> "NULL", len |-> 0, foreign |-> FALSE],
         unsent |-> 0, inbox |-> 0, fin |-> FALSE,
         executed |-> <<>>, redirected |-> FALSE]

(* httpdInit, and the task has opened the socket it listens to. *)
Init ==
    /\ connData = [i \in Slots |-> Free]
    /\ stop_watch = [i \in Slots |-> FALSE]
    /\ httpd = [at |-> "select", index |-> 0, readset |-> {}, writeset |-> {}, rx |-> 0]
    /\ peer = [p \in Peers |-> Away]
    /\ leaked = FALSE

Open     == {i \in Slots : connData[i].conn}
Callers  == {p \in Peers : peer[p].at = "calling"}
Held(i)  == connData[i].cgiData # 0    \* its CGI function has a file open
Asker(i) == connData[i].sockfd
At(step) == httpd.at = step

Least(i, slots) == i \in slots /\ \A j \in slots : i <= j

-----------------------------------------------------------------------------
(* The other ends.                                                         *)

Call(p) ==
    /\ peer[p].at = "away"
    /\ \E r \in Requests[p] :
           peer' = [peer EXCEPT ![p] = [Away EXCEPT !.at = "calling", !.request = r,
                                                   !.unsent = 1 + r.len]]
    /\ UNCHANGED <<connData, stop_watch, httpd, leaked>>

(* What a caller sends, or that it gives up, shows once it was accepted.  *)
Send(p) ==
    /\ peer[p].at = "connected" /\ peer[p].unsent > 0
    /\ peer' = [peer EXCEPT ![p].unsent = @ - 1, ![p].inbox = @ + 1]
    /\ UNCHANGED <<connData, stop_watch, httpd, leaked>>

(* Or its keep-alive probes stay unanswered. *)
HangUp(p) ==
    /\ peer[p].at = "connected" /\ ~peer[p].fin
    /\ peer' = [peer EXCEPT ![p].fin = TRUE, ![p].unsent = 0]
    /\ UNCHANGED <<connData, stop_watch, httpd, leaked>>

-----------------------------------------------------------------------------
(* The stop watch marks whoever owns the slot now; the mark on a slot that *)
(* is free is cleared by accept and not kept here.                         *)
httpserver_conn_watcher(i) ==
    /\ stop_watch[i]
    /\ stop_watch' = [stop_watch EXCEPT ![i] = FALSE]
    /\ connData' = IF i \in Open THEN [connData EXCEPT ![i].timeout = TRUE] ELSE connData
    /\ UNCHANGED <<httpd, peer, leaked>>

-----------------------------------------------------------------------------
(* select.                                                                 *)

Readable == {i \in Open : peer[Asker(i)].inbox > 0 \/ peer[Asker(i)].fin}
Wanted   == {i \in Open : connData[i].cgi # "NULL" \/ connData[i].destruct_flg}

(* It waits without limit until a socket can be read or written, writable  *)
(* being what the network takes of what is wanted, or somebody calls.      *)
SelectReturns(writable) ==
    /\ At("select")
    /\ Readable \cup writable # {} \/ Callers # {}
    /\ httpd' = [httpd EXCEPT !.at = IF Callers = {} THEN "serve" ELSE "accept",
                              !.readset = Readable, !.writeset = writable]
    /\ UNCHANGED <<connData, stop_watch, peer, leaked>>

(* httpdRetireConn.  Of what it leaves behind nothing is read before it is *)
(* set anew.                                                               *)
httpdRetireConn(slots) == [i \in Slots |-> IF i \in slots THEN Free ELSE connData[i]]

HungUpOn(slots) ==
    [p \in Peers |-> IF \E i \in slots : Asker(i) = p THEN Away ELSE peer[p]]

(* An error of select closes everything; no CGI function is told, so that  *)
(* it never closes its file, and no watch is stopped.                      *)
SelectFails ==
    /\ At("select")
    /\ connData' = httpdRetireConn(Open)
    /\ peer' = HungUpOn(Open)
    /\ UNCHANGED <<stop_watch, httpd, leaked>>

-----------------------------------------------------------------------------
(* A new connection.                                                       *)

(* getpeername asks for the peer of connData->conn, which is slot 0,       *)
(* whatever slot was found.                                                *)
PeerName(i, p) == IF i = 0 THEN p ELSE Asker(0)

Accepted(i, p) == [Free EXCEPT !.conn = TRUE, !.sockfd = p, !.remote_ip = PeerName(i, p)]

(* The first slot that is free.  Its watch is not set yet.                 *)
Accept(p) ==
    /\ At("accept") /\ p \in Callers
    /\ \E i \in Slots :
           /\ Least(i, Slots \ Open)
           /\ connData' = [connData EXCEPT ![i] = Accepted(i, p)]
           /\ httpd' = [httpd EXCEPT !.at = "watch", !.index = i]
    /\ peer' = [peer EXCEPT ![p].at = "connected"]
    /\ UNCHANGED <<stop_watch, leaked>>

AcceptWatch == stop_watch' = [stop_watch EXCEPT ![httpd.index] = TRUE]

WatchAccepted ==
    /\ At("watch")
    /\ AcceptWatch
    /\ httpd' = [httpd EXCEPT !.at = "serve", !.index = 0]
    /\ UNCHANGED <<connData, peer, leaked>>

(* The pool is full, or accept failed: the caller is turned away.          *)
Refuse(p) ==
    /\ At("accept") /\ p \in Callers
    /\ peer' = [peer EXCEPT ![p] = Away]
    /\ httpd' = [httpd EXCEPT !.at = "serve"]
    /\ UNCHANGED <<connData, stop_watch, leaked>>

-----------------------------------------------------------------------------
(* The CGI functions, in the order of builtInUrls (app/user/user_main.c).  *)

(* cgiRedirectApClientToHostname.  A body has overwritten the host name.   *)
cgiRedirectApClientToHostname(c) ==
    /\ c.url # "NULL"
    /\ c.remote_ip \in ApPeers
    /\ peer[c.sockfd].request.foreign /\ c.len = 0

Takes(c, url) == c.url = url /\ ~cgiRedirectApClientToHostname(c)

Done(c) == [c EXCEPT !.cgi = "NULL", !.cgiData = 0, !.destruct_flg = TRUE]

(* cgiEspFsHook opens the file and is called again; cgiEspApi, a redirect  *)
(* and the answer that nothing was found are complete.                     *)
httpdProcessRequest(c) ==
    IF Takes(c, "file")
      THEN [c EXCEPT !.cgi = "cgiEspFsHook", !.cgiData = FileReads]
      ELSE Done(c)

Process(i, c) ==
    /\ connData' = [connData EXCEPT ![i] = [httpdProcessRequest(c) EXCEPT !.buffLen = 0]]
    /\ peer' = [peer EXCEPT
                   ![c.sockfd].executed = IF Takes(c, "api") THEN Append(@, c.received) ELSE @,
                   ![c.sockfd].redirected = cgiRedirectApClientToHostname(c)]
    /\ leaked' = (leaked \/ Held(i))    \* cgiData is forgotten

-----------------------------------------------------------------------------
(* What select found, slot by slot: first what can be read, then what can  *)
(* be written.                                                             *)

Turn(i) == At("serve") /\ Least(i, httpd.readset \cup httpd.writeset)

Reading(i) == Turn(i) /\ i \in httpd.readset
Writing(i) == Turn(i) /\ i \notin httpd.readset
Parsing(i) == At("parse") /\ i = httpd.index

Stop(i)    == stop_watch' = [stop_watch EXCEPT ![i] = FALSE]

Restart(i) == stop_watch' = [stop_watch EXCEPT ![i] = TRUE]

HasRead(i) ==
    httpd' = [httpd EXCEPT !.at = "serve", !.index = 0, !.readset = @ \ {i}]

Finished(i) == httpd' = [httpd EXCEPT !.readset = @ \ {i}, !.writeset = @ \ {i}]

(* A CGI function that runs is called once more when its connection is     *)
(* gone, and closes its file.                                              *)
Unflushed_always(i) == Held(i)    \* mutant: it is not called

Unflushed(i) == Held(i) /\ connData[i].cgi = "NULL"

(* recv takes what is there; a part that it leaves is one that came later. *)
Recv(i) ==
    /\ Reading(i) /\ peer[Asker(i)].inbox > 0
    /\ httpd' = [httpd EXCEPT !.at = "parse", !.index = i, !.rx = peer[Asker(i)].inbox]
    /\ peer' = [peer EXCEPT ![Asker(i)].inbox = 0]
    /\ Stop(i)
    /\ UNCHANGED <<connData, leaked>>

(* Nothing is there: the peer hung up.                                     *)
RecvClosed(i) ==
    /\ Reading(i) /\ peer[Asker(i)].inbox = 0
    /\ Stop(i)
    /\ connData' = httpdRetireConn({i}) /\ peer' = HungUpOn({i})
    /\ Finished(i)
    /\ leaked' = (leaked \/ Unflushed(i))

NoBody_assumed(r) == TRUE    \* mutant

NoBody(r) == r.len = 0

(* httpdRecv: the head ends, and the request is processed if it has no     *)
(* body.                                                                   *)
RecvHead(i) ==
    /\ Parsing(i) /\ httpd.rx > 0 /\ connData[i].len = -1
    /\ LET r == peer[Asker(i)].request
           c == [connData[i] EXCEPT !.len = r.len, !.url = r.url]
       IN  IF NoBody(r) THEN Process(i, c)
           ELSE /\ connData' = [connData EXCEPT ![i] = c]
                /\ UNCHANGED <<peer, leaked>>
    /\ httpd' = [httpd EXCEPT !.rx = @ - 1]
    /\ UNCHANGED stop_watch

buffSize(c) == IF c.len > MAX_POST THEN MAX_POST ELSE c.len

ChunkComplete(c) == c.buffLen >= buffSize(c) \/ c.received = c.len

(* httpdRecv: a unit of the body; a full buffer is processed.              *)
RecvBody(i) ==
    /\ Parsing(i) /\ httpd.rx > 0 /\ connData[i].len > 0
    /\ LET c == [connData[i] EXCEPT !.received = @ + 1, !.buffLen = @ + 1]
       IN  IF ChunkComplete(c) THEN Process(i, c)
           ELSE /\ connData' = [connData EXCEPT ![i] = c]
                /\ UNCHANGED <<peer, leaked>>
    /\ httpd' = [httpd EXCEPT !.rx = @ - 1]
    /\ UNCHANGED stop_watch

RecvEnd(i) ==
    /\ Parsing(i) /\ httpd.rx = 0
    /\ Restart(i)
    /\ HasRead(i)
    /\ UNCHANGED <<connData, peer, leaked>>

(* The socket takes more, and nothing is left to send: it is closed.       *)
Destroy(i) ==
    /\ Writing(i) /\ connData[i].destruct_flg
    /\ Stop(i)
    /\ connData' = httpdRetireConn({i}) /\ peer' = HungUpOn({i})
    /\ Finished(i)
    /\ leaked' = (leaked \/ Held(i))

Sent_unmarked(c) == [c EXCEPT !.cgi = "NULL", !.cgiData = 0]    \* mutant

Sent(c) == Done(c)

(* The CGI function continues: a part of the file, which it closes after   *)
(* the last one.                                                           *)
Continue(i) ==
    /\ Writing(i) /\ ~connData[i].destruct_flg /\ connData[i].cgi # "NULL"
    /\ LET c == connData[i]
       IN  connData' = [connData EXCEPT ![i] = IF c.cgiData = 1 THEN Sent(c)
                                               ELSE [c EXCEPT !.cgiData = c.cgiData - 1]]
    /\ Restart(i)
    /\ Finished(i)
    /\ UNCHANGED <<peer, leaked>>

(* All was served: the connections that were idle too long are closed.     *)
Sweeping == At("serve") /\ httpd.readset \cup httpd.writeset = {}
TimedOut == {i \in Open : connData[i].timeout}

Sweep ==
    /\ Sweeping
    /\ connData' = httpdRetireConn(TimedOut) /\ peer' = HungUpOn(TimedOut)
    /\ leaked' = (leaked \/ \E i \in TimedOut : Unflushed(i))
    /\ httpd' = [httpd EXCEPT !.at = "select"]
    /\ UNCHANGED stop_watch

httpserver_task ==
    \/ \E writable \in SUBSET Wanted : SelectReturns(writable)
    \/ \E p \in Peers : Accept(p) \/ Refuse(p)
    \/ WatchAccepted \/ Sweep
    \/ \E i \in Slots : \/ Recv(i) \/ RecvClosed(i)
                         \/ RecvHead(i) \/ RecvBody(i) \/ RecvEnd(i)
                         \/ Destroy(i) \/ Continue(i)

Next ==
    \/ \E p \in Peers : Call(p) \/ Send(p) \/ HangUp(p)
    \/ \E i \in Slots : httpserver_conn_watcher(i)
    \/ SelectFails
    \/ httpserver_task

TakesMore(i) == i \in Wanted /\ \E w \in SUBSET Wanted : i \in w /\ SelectReturns(w)

(* The task runs, a watch that is armed expires, and a socket takes more   *)
(* again and again.                                                        *)
Fairness ==
    /\ WF_vars(httpserver_task)
    /\ \A i \in Slots :
           /\ WF_vars(httpserver_conn_watcher(i))
           /\ SF_vars(TakesMore(i))

Spec == Init /\ [][Next]_vars /\ Fairness

-----------------------------------------------------------------------------
(* Properties.                                                             *)

(* The pool is kept in order: an open slot and a connected peer belong     *)
(* together one to one, a slot that is given back holds nothing, a CGI     *)
(* function runs just as long as its file is open, and the mark for        *)
(* closing means that none runs.                                           *)
PoolInv ==
    /\ \A i \in Slots : connData[i] = Free \/ (connData[i].conn /\ Asker(i) \in Peers)
    /\ \A i, j \in Open : Asker(i) = Asker(j) => i = j
    /\ \A p \in Peers : peer[p].at = "connected" <=> \E i \in Open : Asker(i) = p
    /\ \A i \in Slots : Held(i) <=> connData[i].cgi # "NULL"
    /\ \A i \in Slots : connData[i].destruct_flg => connData[i].cgi = "NULL"

(* What select returned never speaks of a slot that was closed since.      *)
LoopInv ==
    /\ ~At("select") =>
           /\ httpd.readset \cup httpd.writeset \subseteq Open
           /\ \A i \in httpd.writeset : connData[i].destruct_flg \/ connData[i].cgi # "NULL"
    /\ At("select") => httpd.readset \cup httpd.writeset = {}
    /\ httpd.at \in {"watch", "parse"} => httpd.index \in Open

HttpInv == TypeOK /\ PoolInv /\ LoopInv

(* No connection is forgotten: whoever is connected has a watch that runs, *)
(* is marked as idle, or is the one being served.                          *)
Watched ==
    \A i \in Open :
        \/ stop_watch[i] \/ connData[i].timeout
        \/ httpd.at \in {"watch", "parse"} /\ httpd.index = i

(* Every file that was opened for an answer is closed, whether it was sent *)
(* or the peer hung up or was too slow.                                    *)
FilesReleased == ~leaked

(* A request for the API whose body fits in the buffer is executed once,   *)
(* with the whole body, however it is cut into segments, and is executed   *)
(* before its connection is marked for closing.                            *)
ExecutedOnce ==
    \A p \in Peers :
        LET r == peer[p].request
        IN  peer[p].at = "connected" /\ r.len <= MAX_POST =>
                /\ peer[p].executed \in {<<>>, <<r.len>>}
                /\ \A i \in Open :
                       connData[i].destruct_flg /\ connData[i].url = "api" /\ Asker(i) = p =>
                           peer[p].executed = <<r.len>> \/ peer[p].redirected

(* A peer that has sent all of its request gets an answer, or is closed:   *)
(* the connection ends.                                                    *)
RequestEnds ==
    \A i \in Slots : i \in Open /\ peer[Asker(i)].unsent = 0 ~> i \notin Open
=============================================================================
