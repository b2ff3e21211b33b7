-------------------------- MODULE HttpServer_proofs --------------------------
(***************************************************************************)
(* The pool of the HTTP server is kept in order, no connection is          *)
(* forgotten, no file is lost, and what is asked of the API is executed    *)
(* once, for any number of peers and slots and any size of the buffer; and *)
(* what is executed, the commands of the API one after the other, does     *)
(* what they mean (second part).                                           *)
(***************************************************************************)
EXTENDS HttpServer, ConfigApi, NaturalsInduction, WellFoundedInduction, TLAPS

(* What is left to parse decides what a connection can hold: nothing       *)
(* before its head has come, and a file only if the request has no body.   *)
ParseInv ==
    /\ \A i \in Open :
           /\ connData[i].len = -1 => connData[i].cgi = "NULL" /\ ~connData[i].destruct_flg
           /\ connData[i].len # -1 =>
                  /\ connData[i].len = peer[Asker(i)].request.len
                  /\ connData[i].url = peer[Asker(i)].request.url
           /\ connData[i].cgi # "NULL" => connData[i].url = "file" /\ connData[i].len = 0
    /\ \A p \in Peers : peer[p].at # "away" => peer[p].request \in Requests[p]

IInv == HttpInv /\ ParseInv /\ FilesReleased

LEMMA FreeIsConn == Free \in Conn
BY HttpAssumption DEF Free, Conn, Urls

LEMMA AwayIsPeer == Away \in Peer
BY DEF Away, Peer, Request, Urls

LEMMA CallerIsPeer ==
    ASSUME NEW q \in Peer, NEW r \in Request, NEW n \in Nat
    PROVE  /\ [q EXCEPT !.at = "calling", !.request = r, !.unsent = n] \in Peer
           /\ [q EXCEPT !.at = "calling", !.request = r, !.unsent = n].at = "calling"
BY DEF Peer

LEMMA SenderIsPeer ==
    ASSUME NEW q \in Peer, NEW u \in Nat, NEW n \in Nat
    PROVE  [q EXCEPT !.unsent = u, !.inbox = n] \in Peer
BY DEF Peer

LEMMA InitInv == Init => IInv /\ Watched
<1> SUFFICES ASSUME Init PROVE IInv /\ Watched
  OBVIOUS
<1> USE FreeIsConn, AwayIsPeer, HttpAssumption DEF Init
<1>0. 0 \in Slots
  BY DEF Slots
<1>1. TypeOK
  BY <1>0 DEF TypeOK
<1>2. Open = {}
  BY DEF Open, Free
<1>3. PoolInv
  BY <1>2 DEF PoolInv, Away, Held, Free
<1>4. LoopInv
  BY DEF LoopInv, At
<1>5. ParseInv
  BY <1>2 DEF ParseInv, Away
<1> QED
  BY <1>1, <1>2, <1>3, <1>4, <1>5 DEF IInv, HttpInv, FilesReleased, Watched

-----------------------------------------------------------------------------
(* Closing connections keeps the pool in order.                            *)

LEMMA Closing ==
    ASSUME IInv, NEW S \in SUBSET Open,
           connData' = httpdRetireConn(S), peer' = HungUpOn(S)
    PROVE  /\ connData' \in [Slots -> Conn] /\ peer' \in [Peers -> Peer]
           /\ PoolInv' /\ ParseInv'
           /\ Open' = Open \ S
           /\ \A i \in Slots \ S : connData'[i] = connData[i]
<1> USE DEF IInv, HttpInv
<1>1. connData' \in [Slots -> Conn] /\ peer' \in [Peers -> Peer]
  BY FreeIsConn, AwayIsPeer DEF TypeOK, httpdRetireConn, HungUpOn
<1>2. \A i \in Slots : connData'[i] = IF i \in S THEN Free ELSE connData[i]
  BY DEF httpdRetireConn
<1>3. \A p \in Peers : peer'[p] = IF \E i \in S : Asker(i) = p THEN Away ELSE peer[p]
  BY DEF HungUpOn
<1>4. Open' = Open \ S
  BY <1>2 DEF Open, Free
<1>5. PoolInv'
  <2>1. \A i \in Slots : connData'[i] = Free \/ (connData'[i].conn /\ connData'[i].sockfd \in Peers)
    BY <1>2 DEF PoolInv, Asker
  <2>2. \A i \in Open' : connData'[i].sockfd = Asker(i)
    BY <1>2, <1>4 DEF Asker, Open
  <2>3. \A i, j \in Open' : connData'[i].sockfd = connData'[j].sockfd => i = j
    BY <1>4, <2>2 DEF PoolInv
  <2>4. \A p \in Peers : peer'[p].at = "connected" <=> \E i \in Open' : connData'[i].sockfd = p
    <3> SUFFICES ASSUME NEW p \in Peers
                 PROVE  peer'[p].at = "connected" <=> \E i \in Open' : Asker(i) = p
      BY <2>2
    <3>1. CASE \E i \in S : Asker(i) = p
      <4>1. peer'[p].at # "connected"
        BY <1>3, <3>1 DEF Away
      <4>2. \A i \in Open' : Asker(i) # p
        BY <1>4, <3>1 DEF PoolInv
      <4> QED
        BY <4>1, <4>2
    <3>2. CASE ~\E i \in S : Asker(i) = p
      BY <1>3, <1>4, <3>2 DEF PoolInv
    <3> QED
      BY <3>1, <3>2
  <2>5. \A i \in Slots : connData'[i].cgiData # 0 <=> connData'[i].cgi # "NULL"
    BY <1>2 DEF PoolInv, Held, Free
  <2>6. \A i \in Slots : connData'[i].destruct_flg => connData'[i].cgi = "NULL"
    BY <1>2 DEF PoolInv, Free
  <2> QED
    BY <2>1, <2>3, <2>4, <2>5, <2>6 DEF PoolInv, Asker, Held
<1>6. ParseInv'
  <2>1. \A i \in Open' : /\ i \in Open /\ connData'[i] = connData[i]
                        /\ peer'[Asker(i)] = peer[Asker(i)]
    BY <1>2, <1>3, <1>4 DEF PoolInv, Open, Asker, Free
  <2>2. \A p \in Peers : peer'[p].at # "away" => peer'[p] = peer[p]
    BY <1>3 DEF Away
  <2> QED
    BY <2>1, <2>2 DEF ParseInv, Asker
<1> QED
  BY <1>1, <1>2, <1>4, <1>5, <1>6

-----------------------------------------------------------------------------
(* The peers, the watches and select.                                      *)

LEMMA PeerStep ==
    ASSUME IInv, NEW p \in Peers, Call(p) \/ Send(p) \/ HangUp(p)
    PROVE  IInv'
<1> USE DEF IInv, HttpInv
<1>1. /\ connData' = connData /\ httpd' = httpd /\ stop_watch' = stop_watch /\ leaked' = leaked
      /\ \A q \in Peers \ {p} : peer'[q] = peer[q]
  BY DEF Call, Send, HangUp, TypeOK
<1>2. peer' \in [Peers -> Peer] /\ (peer'[p].at = "connected" <=> peer[p].at = "connected")
  <2>1. CASE Call(p)
    <3> PICK r \in Requests[p] :
               peer' = [peer EXCEPT ![p] = [Away EXCEPT !.at = "calling", !.request = r,
                                                       !.unsent = 1 + r.len]]
      BY <2>1 DEF Call
    <3>1. r \in Request /\ 1 + r.len \in Nat
      BY HttpAssumption DEF Request
    <3> DEFINE c == [Away EXCEPT !.at = "calling", !.request = r, !.unsent = 1 + r.len]
    <3>2. c \in Peer /\ c.at = "calling"
      <4>1. \A q \in Peer, n \in Nat :
               /\ [q EXCEPT !.at = "calling", !.request = r, !.unsent = n] \in Peer
               /\ [q EXCEPT !.at = "calling", !.request = r, !.unsent = n].at = "calling"
        BY <3>1, CallerIsPeer
      <4> QED
        BY <3>1, <4>1, AwayIsPeer
    <3>3. peer' = [peer EXCEPT ![p] = c]
      OBVIOUS
    <3> HIDE DEF c
    <3> QED
      BY <2>1, <3>2, <3>3 DEF Call, TypeOK
  <2>2. CASE Send(p)
    <3>1. peer[p] \in Peer /\ peer[p].unsent > 0
      BY <2>2 DEF Send, TypeOK
    <3>2. peer[p].unsent - 1 \in Nat /\ peer[p].inbox + 1 \in Nat
      BY <3>1 DEF Peer
    <3>4. [peer[p] EXCEPT !.unsent = @ - 1, !.inbox = @ + 1] \in Peer
      BY <3>1, <3>2, SenderIsPeer
    <3>3. peer' = [peer EXCEPT ![p] = [peer[p] EXCEPT !.unsent = @ - 1, !.inbox = @ + 1]]
      BY <2>2 DEF Send, TypeOK
    <3> QED
      BY <2>2, <3>1, <3>4, <3>3 DEF Send, TypeOK
  <2>3. CASE HangUp(p)
    <3>1. PICK q \in Peer : q = peer[p]
      BY DEF TypeOK
    <3> DEFINE d == [q EXCEPT !.fin = TRUE, !.unsent = 0]
    <3>2. peer' = [peer EXCEPT ![p] = d] /\ q.at = "connected"
      BY <2>3, <3>1 DEF HangUp, TypeOK
    <3>3. d \in Peer /\ d.at = q.at
      BY DEF Peer
    <3> HIDE DEF d
    <3> QED
      BY <3>1, <3>2, <3>3 DEF TypeOK
  <2> QED
    BY <2>1, <2>2, <2>3
<1>3. peer[p].at = "connected" => peer'[p].request = peer[p].request
  BY DEF Call, Send, HangUp, TypeOK, Peer
<1>4. peer'[p].at # "away" => peer'[p].request \in Requests[p]
  BY ZenonT(30) DEF Call, Send, HangUp, TypeOK, Peer, ParseInv, Away
<1>5. \A i \in Open : peer'[Asker(i)].request = peer[Asker(i)].request
  BY <1>1, <1>3 DEF PoolInv, Free, Open, Asker
<1>6. PoolInv'
  BY <1>1, <1>2 DEF PoolInv, Open, Asker, Held
<1>7. ParseInv'
  BY <1>1, <1>4, <1>5 DEF ParseInv, Open, Asker
<1>8. TypeOK' /\ LoopInv' /\ FilesReleased'
  BY <1>1, <1>2 DEF TypeOK, LoopInv, FilesReleased, At, Open
<1> QED
  BY <1>6, <1>7, <1>8

LEMMA WatchStep ==
    ASSUME IInv, NEW i \in Slots, httpserver_conn_watcher(i)
    PROVE  IInv'
<1> USE DEF IInv, HttpInv, httpserver_conn_watcher
<1>1. /\ connData' \in [Slots -> Conn] /\ stop_watch' \in [Slots -> BOOLEAN]
      /\ UNCHANGED <<httpd, peer, leaked>>
  <2>1. connData[i] \in Conn
    BY DEF TypeOK
  <2>2. [connData[i] EXCEPT !.timeout = TRUE] \in Conn
    BY <2>1 DEF Conn
  <2>3. connData' \in [Slots -> Conn]
    BY <2>2 DEF TypeOK
  <2> QED
    BY <2>3 DEF TypeOK
<1>0. \A j \in Slots :
         connData'[j] = IF j = i /\ i \in Open THEN [connData[i] EXCEPT !.timeout = TRUE]
                       ELSE connData[j]
  <2>1. CASE i \in Open
    <3>1. connData' = [connData EXCEPT ![i] = [connData[i] EXCEPT !.timeout = TRUE]]
      BY <2>1
    <3> QED
      BY <2>1, <3>1 DEF TypeOK
  <2>2. CASE i \notin Open
    BY <2>2
  <2> QED
    BY <2>1, <2>2
<1>2. \A j \in Slots : connData[j] = Free => connData'[j] = Free
  BY <1>0 DEF Free, Open
<1>3. \A j \in Slots : /\ connData'[j].conn = connData[j].conn
                       /\ connData'[j].sockfd = connData[j].sockfd
                       /\ connData'[j].len = connData[j].len
                       /\ connData'[j].url = connData[j].url
                       /\ connData'[j].cgi = connData[j].cgi
                       /\ connData'[j].cgiData = connData[j].cgiData
                       /\ connData'[j].destruct_flg = connData[j].destruct_flg
  <2> SUFFICES ASSUME NEW j \in Slots, j = i, i \in Open,
                      connData'[j] = [connData[i] EXCEPT !.timeout = TRUE]
               PROVE  /\ connData'[j].conn = connData[j].conn
                      /\ connData'[j].sockfd = connData[j].sockfd
                      /\ connData'[j].len = connData[j].len
                      /\ connData'[j].url = connData[j].url
                      /\ connData'[j].cgi = connData[j].cgi
                      /\ connData'[j].cgiData = connData[j].cgiData
                      /\ connData'[j].destruct_flg = connData[j].destruct_flg
    BY <1>0
  <2> QED
    BY DEF TypeOK, Conn
<1>4. Open' = Open
  BY <1>3 DEF Open
<1>5. PoolInv'
  BY <1>1, <1>2, <1>3, <1>4 DEF PoolInv, Asker, Held
<1>6. ParseInv'
  BY <1>1, <1>3, <1>4 DEF ParseInv, Asker, Open
<1>7. TypeOK' /\ FilesReleased'
  BY <1>1 DEF TypeOK, FilesReleased
<1>8. LoopInv'
  BY <1>1, <1>3, <1>4 DEF LoopInv, At, TypeOK
<1> QED
  BY <1>5, <1>6, <1>7, <1>8

LEMMA SelectStep ==
    ASSUME IInv, \E w \in SUBSET Wanted : SelectReturns(w)
    PROVE  IInv'
<1> USE DEF IInv, HttpInv
<1> PICK w \in SUBSET Wanted : SelectReturns(w)
  OBVIOUS
<1>1. Readable \subseteq Open /\ w \subseteq Open /\ Open \subseteq Slots
  BY DEF Readable, Wanted, Open
<1>2. /\ httpd' \in [at : {"accept", "serve"}, index : Slots,
                     readset : SUBSET Slots, writeset : SUBSET Slots, rx : Nat]
      /\ httpd'.readset = Readable /\ httpd'.writeset = w
  BY <1>1 DEF SelectReturns, TypeOK
<1>5. TypeOK'
  BY <1>2 DEF SelectReturns, TypeOK
<1>3. PoolInv' /\ ParseInv' /\ FilesReleased'
  BY DEF SelectReturns, PoolInv, ParseInv, FilesReleased, Open, Asker, Held
<1>4. LoopInv'
  BY <1>1, <1>2 DEF SelectReturns, LoopInv, At, Wanted, Open
<1> QED
  BY <1>3, <1>4, <1>5

LEMMA SelectFailsStep == ASSUME IInv, SelectFails PROVE IInv'
<1> USE DEF IInv, HttpInv, SelectFails
<1>1. /\ connData' \in [Slots -> Conn] /\ peer' \in [Peers -> Peer]
      /\ PoolInv' /\ ParseInv'
  BY Closing
<1>2. TypeOK' /\ FilesReleased'
  BY <1>1 DEF TypeOK, FilesReleased
<1>3. LoopInv'
  BY DEF LoopInv, At
<1> QED
  BY <1>1, <1>2, <1>3

-----------------------------------------------------------------------------
(* A step that changes one open slot keeps the pool in order if it leaves  *)
(* the slot to its peer and holds a file only for a request of one.        *)

LEMMA Updating ==
    ASSUME IInv, NEW i \in Open, NEW c \in Conn,
           connData' = [connData EXCEPT ![i] = c],
           c.conn, c.sockfd = Asker(i),
           c.cgiData # 0 <=> c.cgi # "NULL",
           c.destruct_flg => c.cgi = "NULL",
           c.len = -1 => c.cgi = "NULL" /\ ~c.destruct_flg,
           c.len # -1 => /\ c.len = peer[Asker(i)].request.len
                         /\ c.url = peer[Asker(i)].request.url,
           c.cgi # "NULL" => c.url = "file" /\ c.len = 0,
           peer' \in [Peers -> Peer],
           \A p \in Peers : peer'[p].at = peer[p].at /\ peer'[p].request = peer[p].request
    PROVE  /\ connData' \in [Slots -> Conn]
           /\ PoolInv' /\ ParseInv'
           /\ Open' = Open
           /\ \A j \in Slots : connData'[j] = IF j = i THEN c ELSE connData[j]
<1> USE DEF IInv, HttpInv
<1>0. i \in Slots /\ Asker(i) \in Peers /\ connData[i].conn
  BY DEF Open, PoolInv, Free
<1>1. connData' \in [Slots -> Conn]
  BY <1>0 DEF TypeOK
<1>2. \A j \in Slots : connData'[j] = IF j = i THEN c ELSE connData[j]
  BY <1>0 DEF TypeOK
<1>3. Open' = Open
  BY <1>0, <1>2 DEF Open
<1>4. \A j \in Slots : connData'[j].sockfd = Asker(j)
  BY <1>2 DEF Asker
<1>5. PoolInv'
  <2>1. \A j \in Slots : connData'[j] = Free \/ (connData'[j].conn /\ connData'[j].sockfd \in Peers)
    BY <1>0, <1>2, <1>4 DEF PoolInv
  <2>2. \A j, k \in Open : connData'[j].sockfd = connData'[k].sockfd => j = k
    BY <1>4 DEF PoolInv, Open
  <2>3. \A p \in Peers : peer'[p].at = "connected" <=> \E j \in Open : connData'[j].sockfd = p
    BY <1>4 DEF PoolInv, Open
  <2>4. \A j \in Slots : /\ connData'[j].cgiData # 0 <=> connData'[j].cgi # "NULL"
                         /\ connData'[j].destruct_flg => connData'[j].cgi = "NULL"
    BY <1>2 DEF PoolInv, Held
  <2> QED
    BY <1>3, <2>1, <2>2, <2>3, <2>4 DEF PoolInv, Asker, Held
<1>6. ParseInv'
  <2>1. ASSUME NEW j \in Open
        PROVE  /\ connData'[j].len = -1 => connData'[j].cgi = "NULL" /\ ~connData'[j].destruct_flg
               /\ connData'[j].len # -1 =>
                      /\ connData'[j].len = peer'[connData'[j].sockfd].request.len
                      /\ connData'[j].url = peer'[connData'[j].sockfd].request.url
               /\ connData'[j].cgi # "NULL" => connData'[j].url = "file" /\ connData'[j].len = 0
    <3>1. j \in Slots /\ Asker(j) \in Peers /\ connData'[j].sockfd = Asker(j)
      BY <1>4 DEF Open, PoolInv, Free
    <3>2. peer'[Asker(j)].request = peer[Asker(j)].request
      BY <3>1
    <3>3. CASE j = i
      BY <1>2, <3>1, <3>2, <3>3
    <3>4. CASE j # i
      BY <1>2, <3>1, <3>2, <3>4 DEF ParseInv
    <3> QED
      BY <3>3, <3>4
  <2> QED
    BY <1>3, <2>1 DEF ParseInv, Asker
<1> QED
  BY <1>1, <1>2, <1>3, <1>5, <1>6

(* What the updates of a slot do to its fields. *)
Same(c, d) == c.conn = d.conn /\ c.sockfd = d.sockfd

LEMMA BodyConn ==
    ASSUME NEW c \in Conn, NEW n \in Nat, NEW m \in Nat
    PROVE  LET d == [c EXCEPT !.received = n, !.buffLen = m]
           IN  /\ d \in Conn /\ Same(c, d) /\ d.len = c.len /\ d.url = c.url
               /\ d.cgi = c.cgi /\ d.cgiData = c.cgiData /\ d.destruct_flg = c.destruct_flg
BY DEF Conn, Same

LEMMA EmptiedConn ==
    ASSUME NEW c \in Conn
    PROVE  LET d == [c EXCEPT !.buffLen = 0]
           IN  /\ d \in Conn /\ Same(c, d) /\ d.len = c.len /\ d.url = c.url
               /\ d.cgi = c.cgi /\ d.cgiData = c.cgiData /\ d.destruct_flg = c.destruct_flg
BY DEF Conn, Same

LEMMA CgiConn ==
    ASSUME NEW c \in Conn, NEW g \in {"NULL", "cgiEspFsHook"}, NEW n \in 0..FileReads,
           NEW b \in BOOLEAN
    PROVE  LET d == [c EXCEPT !.cgi = g, !.cgiData = n, !.destruct_flg = b]
           IN  /\ d \in Conn /\ Same(c, d) /\ d.len = c.len /\ d.url = c.url
               /\ d.cgi = g /\ d.cgiData = n /\ d.destruct_flg = b
<1> DEFINE Reads == 0..FileReads
<1>1. n \in Reads
  OBVIOUS
<1> HIDE DEF Reads
<1> QED
  BY <1>1 DEF Conn, Same

LEMMA FileConn ==
    ASSUME NEW c \in Conn, NEW n \in 0..FileReads
    PROVE  LET d == [c EXCEPT !.cgi = "cgiEspFsHook", !.cgiData = n]
           IN  /\ d \in Conn /\ Same(c, d) /\ d.len = c.len /\ d.url = c.url
               /\ d.cgi = "cgiEspFsHook" /\ d.cgiData = n /\ d.destruct_flg = c.destruct_flg
BY DEF Conn, Same

LEMMA PartConn ==
    ASSUME NEW c \in Conn, NEW n \in 0..FileReads
    PROVE  LET d == [c EXCEPT !.cgiData = n]
           IN  /\ d \in Conn /\ Same(c, d) /\ d.len = c.len /\ d.url = c.url
               /\ d.cgi = c.cgi /\ d.cgiData = n /\ d.destruct_flg = c.destruct_flg
BY DEF Conn, Same

LEMMA DoneConn ==
    ASSUME NEW c \in Conn
    PROVE  /\ Done(c) \in Conn /\ Same(c, Done(c))
           /\ Done(c).len = c.len /\ Done(c).url = c.url
           /\ Done(c).cgi = "NULL" /\ Done(c).cgiData = 0 /\ Done(c).destruct_flg
<1>1. PICK n \in 0..FileReads : n = 0
  BY HttpAssumption
<1>2. Done(c) = [c EXCEPT !.cgi = "NULL", !.cgiData = n, !.destruct_flg = TRUE]
  BY <1>1 DEF Done
<1> DEFINE d == [c EXCEPT !.cgi = "NULL", !.cgiData = n, !.destruct_flg = TRUE]
<1>3. /\ d \in Conn /\ Same(c, d) /\ d.len = c.len /\ d.url = c.url
      /\ d.cgi = "NULL" /\ d.cgiData = n /\ d.destruct_flg = TRUE
  BY CgiConn
<1> HIDE DEF d
<1> QED
  BY <1>1, <1>2, <1>3 DEF d

LEMMA AcceptedConn ==
    ASSUME NEW p \in Peers, NEW q \in Peers \cup {Nobody}
    PROVE  LET d == [Free EXCEPT !.conn = TRUE, !.sockfd = p, !.remote_ip = q]
           IN  /\ d \in Conn /\ d.conn /\ d.sockfd = p /\ d.len = -1
               /\ d.cgi = "NULL" /\ d.cgiData = 0 /\ ~d.destruct_flg
<1>1. 0 \in 0..FileReads
  BY HttpAssumption
<1> QED
  BY <1>1 DEF Conn, Free, Urls

LEMMA AnsweredPeer ==
    ASSUME NEW q \in Peer, NEW e \in Seq(Nat), NEW b \in BOOLEAN
    PROVE  LET d == [q EXCEPT !.executed = e, !.redirected = b]
           IN  d \in Peer /\ d.at = q.at /\ d.request = q.request
BY DEF Peer

-----------------------------------------------------------------------------
(* A request is processed: a function that is complete leaves the mark for *)
(* closing, one that is not holds a file and is asked for a page.          *)

LEMMA ProcessedConn ==
    ASSUME NEW c \in Conn, c.cgi = "NULL", c.cgiData = 0, c.url = "file" => ~c.destruct_flg
    PROVE  LET d == [httpdProcessRequest(c) EXCEPT !.buffLen = 0]
           IN  /\ d \in Conn /\ Same(c, d) /\ d.len = c.len /\ d.url = c.url
               /\ d.cgiData # 0 <=> d.cgi # "NULL"
               /\ d.destruct_flg => d.cgi = "NULL"
               /\ d.cgi # "NULL" => d.url = "file"
               /\ d.destruct_flg \/ d.cgi # "NULL"
<1> DEFINE h == httpdProcessRequest(c)
<1>1. /\ h \in Conn /\ Same(c, h) /\ h.len = c.len /\ h.url = c.url
      /\ h.cgiData # 0 <=> h.cgi # "NULL"
      /\ h.destruct_flg => h.cgi = "NULL"
      /\ h.cgi # "NULL" => h.url = "file"
      /\ h.destruct_flg \/ h.cgi # "NULL"
  <2>1. CASE Takes(c, "file")
    <3>1. PICK n \in 0..FileReads : n = FileReads /\ n # 0
      BY HttpAssumption
    <3> DEFINE d == [c EXCEPT !.cgi = "cgiEspFsHook", !.cgiData = n]
    <3>2. h = d
      BY <2>1, <3>1 DEF httpdProcessRequest
    <3>3. /\ d \in Conn /\ Same(c, d) /\ d.len = c.len /\ d.url = c.url
          /\ d.cgi = "cgiEspFsHook" /\ d.cgiData = n /\ d.destruct_flg = c.destruct_flg
      BY FileConn
    <3>4. c.url = "file"
      BY <2>1 DEF Takes
    <3> HIDE DEF d, h
    <3> QED
      BY <3>1, <3>2, <3>3, <3>4
  <2>2. CASE ~Takes(c, "file")
    <3>1. h = Done(c)
      BY <2>2 DEF httpdProcessRequest
    <3> HIDE DEF h
    <3> QED
      BY <3>1, DoneConn
  <2> QED
    BY <2>1, <2>2
<1> HIDE DEF h
<1> DEFINE d == [h EXCEPT !.buffLen = 0]
<1>2. /\ d \in Conn /\ Same(h, d) /\ d.len = h.len /\ d.url = h.url
      /\ d.cgi = h.cgi /\ d.cgiData = h.cgiData /\ d.destruct_flg = h.destruct_flg
  BY <1>1, EmptiedConn
<1> HIDE DEF d
<1>3. /\ d \in Conn /\ Same(c, d) /\ d.len = c.len /\ d.url = c.url
      /\ d.cgiData # 0 <=> d.cgi # "NULL"
      /\ d.destruct_flg => d.cgi = "NULL"
      /\ d.cgi # "NULL" => d.url = "file"
      /\ d.destruct_flg \/ d.cgi # "NULL"
  BY <1>1, <1>2 DEF Same
<1> QED
  BY <1>3 DEF d, h

LEMMA Processing ==
    ASSUME IInv, NEW i \in Open, NEW c \in Conn, Process(i, c),
           Same(connData[i], c), c.len # -1, c.cgi = "NULL", c.cgiData = 0,
           connData[i].cgi = "NULL",
           c.url = "file" => ~c.destruct_flg /\ c.len = 0,
           c.len = peer[Asker(i)].request.len, c.url = peer[Asker(i)].request.url
    PROVE  /\ connData' \in [Slots -> Conn] /\ peer' \in [Peers -> Peer]
           /\ PoolInv' /\ ParseInv' /\ FilesReleased' /\ leaked' \in BOOLEAN
           /\ Open' = Open
           /\ connData'[i].destruct_flg \/ connData'[i].cgi # "NULL"
           /\ \A j \in Slots \ {i} : connData'[j] = connData[j]
<1> USE DEF IInv, HttpInv
<1>0. /\ i \in Slots /\ Asker(i) \in Peers /\ connData[i].conn
      /\ c.sockfd = Asker(i) /\ c.conn
  BY DEF Open, PoolInv, Free, Same, Asker
<1>1. peer' \in [Peers -> Peer]
      /\ \A p \in Peers : peer'[p].at = peer[p].at /\ peer'[p].request = peer[p].request
  <2> DEFINE q == peer[Asker(i)]
             e == IF Takes(c, "api") THEN Append(q.executed, c.received) ELSE q.executed
             b == cgiRedirectApClientToHostname(c)
             d == [q EXCEPT !.executed = e, !.redirected = b]
  <2>1. q \in Peer /\ q.executed \in Seq(Nat) /\ c.received \in Nat
    BY <1>0 DEF TypeOK, Peer, Conn
  <2>2. e \in Seq(Nat)
    <3> HIDE DEF q
    <3> QED
      BY <2>1
  <2>3. b \in BOOLEAN
    BY DEF cgiRedirectApClientToHostname
  <2>4. peer' = [peer EXCEPT ![Asker(i)] = d]
    BY <1>0, Zenon DEF Process, TypeOK
  <2> HIDE DEF e, b
  <2>5. d \in Peer /\ d.at = q.at /\ d.request = q.request
    BY <2>1, <2>2, <2>3, AnsweredPeer
  <2> HIDE DEF d
  <2> QED
    BY <1>0, <2>4, <2>5 DEF TypeOK
<1> DEFINE d == [httpdProcessRequest(c) EXCEPT !.buffLen = 0]
<1>2. /\ d \in Conn /\ Same(c, d) /\ d.len = c.len /\ d.url = c.url
      /\ d.cgiData # 0 <=> d.cgi # "NULL"
      /\ d.destruct_flg => d.cgi = "NULL"
      /\ d.cgi # "NULL" => d.url = "file"
      /\ d.destruct_flg \/ d.cgi # "NULL"
  BY ProcessedConn
<1>3. connData' = [connData EXCEPT ![i] = d]
  BY DEF Process
<1> HIDE DEF d
<1>4. d.conn /\ d.sockfd = Asker(i)
  BY <1>0, <1>2 DEF Same
<1>5. /\ connData' \in [Slots -> Conn]
      /\ PoolInv' /\ ParseInv'
      /\ Open' = Open
      /\ \A j \in Slots : connData'[j] = IF j = i THEN d ELSE connData[j]
  BY <1>1, <1>2, <1>3, <1>4, Updating
<1>6. FilesReleased' /\ leaked' \in BOOLEAN
  BY <1>0 DEF FilesReleased, Process, PoolInv
<1> QED
  BY <1>0, <1>1, <1>2, <1>5, <1>6

-----------------------------------------------------------------------------
(* The task: a new connection.                                             *)

LEMMA AcceptStep ==
    ASSUME IInv, NEW p \in Peers, Accept(p)
    PROVE  IInv'
<1> USE DEF IInv, HttpInv
<1> PICK i \in Slots : /\ Least(i, Slots \ Open)
                       /\ connData' = [connData EXCEPT ![i] = Accepted(i, p)]
                       /\ httpd' = [httpd EXCEPT !.at = "watch", !.index = i]
  BY DEF Accept
<1>0. i \in Slots \ Open /\ connData[i] = Free /\ peer[p].at = "calling"
  BY DEF Least, Accept, Callers, PoolInv, Open
<1> DEFINE q == PeerName(i, p)
           d == [Free EXCEPT !.conn = TRUE, !.sockfd = p, !.remote_ip = q]
<1>1. q \in Peers \cup {Nobody}
  <2>1. 0 \in Slots
    BY HttpAssumption DEF Slots
  <2> QED
    BY <2>1 DEF PeerName, Asker, TypeOK, Conn
<1>2. /\ d \in Conn /\ d.conn /\ d.sockfd = p /\ d.len = -1
      /\ d.cgi = "NULL" /\ d.cgiData = 0 /\ ~d.destruct_flg
  <2> HIDE DEF q
  <2> QED
    BY <1>1, AcceptedConn
<1>3. connData' = [connData EXCEPT ![i] = d]
  BY DEF Accepted
<1> HIDE DEF d, q
<1>4. \A j \in Slots : connData'[j] = IF j = i THEN d ELSE connData[j]
  BY <1>3 DEF TypeOK
<1>5. Open' = Open \cup {i}
  BY <1>0, <1>2, <1>4 DEF Open
<1>6. peer' = [peer EXCEPT ![p].at = "connected"]
      /\ \A o \in Peers : peer'[o].request = peer[o].request
                          /\ peer'[o].at = IF o = p THEN "connected" ELSE peer[o].at
  BY DEF Accept, TypeOK, Peer
<1>7. TypeOK'
  <2>1. connData' \in [Slots -> Conn]
    BY <1>2, <1>3 DEF TypeOK
  <2>2. peer' \in [Peers -> Peer]
    BY ZenonT(30), <1>6 DEF TypeOK, Peer
  <2>3. httpd' \in [at : {"watch"}, index : Slots,
                    readset : SUBSET Slots, writeset : SUBSET Slots, rx : Nat]
    BY DEF TypeOK
  <2> QED
    BY <2>1, <2>2, <2>3 DEF TypeOK, Accept
<1>8. PoolInv'
  <2>1. \A j \in Open : Asker(j) # p
    BY <1>0 DEF PoolInv
  <2>2. \A j \in Slots : connData'[j].sockfd = IF j = i THEN p ELSE Asker(j)
    BY <1>2, <1>4 DEF Asker
  <2>3. \A j \in Slots : connData'[j] = Free \/ (connData'[j].conn /\ connData'[j].sockfd \in Peers)
    BY <1>2, <1>4 DEF PoolInv, Asker
  <2>4. \A j, k \in Open' : connData'[j].sockfd = connData'[k].sockfd => j = k
    BY <1>0, <1>5, <2>1, <2>2 DEF PoolInv, Open
  <2>5. \A o \in Peers : peer'[o].at = "connected" <=> \E j \in Open' : connData'[j].sockfd = o
    <3> TAKE o \in Peers
    <3>1. CASE o = p
      BY <1>0, <1>5, <1>6, <2>2, <3>1
    <3>2. CASE o # p
      <4>1. \A j \in Open' : connData'[j].sockfd = o <=> j \in Open /\ Asker(j) = o
        BY <1>0, <1>5, <2>2, <3>2 DEF Open
      <4>2. peer'[o].at = peer[o].at
        BY <1>6, <3>2
      <4> QED
        BY <1>5, <4>1, <4>2 DEF PoolInv
    <3> QED
      BY <3>1, <3>2
  <2>6. \A j \in Slots : /\ connData'[j].cgiData # 0 <=> connData'[j].cgi # "NULL"
                         /\ connData'[j].destruct_flg => connData'[j].cgi = "NULL"
    BY <1>2, <1>4 DEF PoolInv, Held
  <2> QED
    BY <2>3, <2>4, <2>5, <2>6 DEF PoolInv, Asker, Held
<1>9. ParseInv'
  <2>1. ASSUME NEW j \in Open'
        PROVE  /\ connData'[j].len = -1 => connData'[j].cgi = "NULL" /\ ~connData'[j].destruct_flg
               /\ connData'[j].len # -1 =>
                      /\ connData'[j].len = peer'[connData'[j].sockfd].request.len
                      /\ connData'[j].url = peer'[connData'[j].sockfd].request.url
               /\ connData'[j].cgi # "NULL" => connData'[j].url = "file" /\ connData'[j].len = 0
    <3>1. CASE j = i
      BY <1>0, <1>2, <1>4, <3>1
    <3>2. CASE j # i
      <4>1. j \in Open /\ j \in Slots /\ connData'[j] = connData[j] /\ Asker(j) \in Peers
        BY <1>4, <1>5, <3>2 DEF Open, PoolInv, Free
      <4>2. peer'[Asker(j)].request = peer[Asker(j)].request
        BY <1>6, <4>1
      <4> QED
        BY <4>1, <4>2 DEF ParseInv, Asker
    <3> QED
      BY <3>1, <3>2
  <2>2. \A o \in Peers : peer'[o].at # "away" => peer'[o].request \in Requests[o]
    BY <1>0, <1>6 DEF ParseInv
  <2> QED
    BY <2>1, <2>2 DEF ParseInv, Asker
<1>10. LoopInv'
  <2>1. httpd.at = "accept" /\ httpd'.at = "watch" /\ httpd'.index = i
        /\ httpd'.readset = httpd.readset /\ httpd'.writeset = httpd.writeset
    BY DEF Accept, At, TypeOK
  <2>2. \A j \in Open : connData'[j] = connData[j]
    BY <1>0, <1>4 DEF Open
  <2> QED
    BY <1>5, <2>1, <2>2 DEF LoopInv, At
<1> QED
  BY <1>7, <1>8, <1>9, <1>10 DEF Accept, FilesReleased

LEMMA RefuseStep ==
    ASSUME IInv, NEW p \in Peers, Refuse(p)
    PROVE  IInv'
<1> USE DEF IInv, HttpInv
<1>0. peer[p].at = "calling" /\ peer' = [peer EXCEPT ![p] = Away]
      /\ UNCHANGED <<connData, stop_watch, leaked>>
  BY DEF Refuse, Callers
<1>1. \A i \in Open : Asker(i) \in Peers \ {p}
  BY <1>0 DEF PoolInv, Open, Asker, Free
<1>2. \A q \in Peers : peer'[q] = IF q = p THEN Away ELSE peer[q]
  BY <1>0 DEF TypeOK
<1>3. /\ httpd' \in [at : {"serve"}, index : Slots,
                     readset : SUBSET Slots, writeset : SUBSET Slots, rx : Nat]
      /\ httpd'.readset = httpd.readset /\ httpd'.writeset = httpd.writeset
  BY DEF Refuse, TypeOK
<1>4. TypeOK' /\ FilesReleased'
  BY <1>0, <1>3, AwayIsPeer DEF TypeOK, FilesReleased
<1>5. PoolInv'
  <2>1. \A q \in Peers : peer'[q].at = "connected" <=> peer[q].at = "connected"
    BY <1>0, <1>2 DEF Away
  <2> QED
    BY <1>0, <2>1 DEF PoolInv, Open, Asker, Held
<1>6. ParseInv'
  <2>1. \A q \in Peers : peer'[q].at # "away" => peer'[q] = peer[q]
    BY <1>2 DEF Away
  <2>2. \A i \in Open : peer'[Asker(i)] = peer[Asker(i)]
    BY <1>1, <1>2
  <2> QED
    BY <1>0, <2>1, <2>2 DEF ParseInv, Open, Asker
<1>7. LoopInv'
  BY <1>0, <1>3 DEF Refuse, LoopInv, At, Open
<1> QED
  BY <1>4, <1>5, <1>6, <1>7

LEMMA WatchAcceptedStep == ASSUME IInv, WatchAccepted PROVE IInv'
<1> USE DEF IInv, HttpInv, WatchAccepted, AcceptWatch
<1>1. 0 \in Slots
  BY HttpAssumption DEF Slots
<1>2. /\ httpd' \in [at : {"serve"}, index : Slots,
                     readset : SUBSET Slots, writeset : SUBSET Slots, rx : Nat]
      /\ httpd'.readset = httpd.readset /\ httpd'.writeset = httpd.writeset
  BY <1>1 DEF TypeOK
<1>3. TypeOK' /\ FilesReleased'
  BY <1>2 DEF TypeOK, FilesReleased
<1>4. PoolInv' /\ ParseInv'
  BY DEF PoolInv, ParseInv, Open, Asker, Held
<1>5. LoopInv'
  BY <1>2 DEF LoopInv, At, Open
<1> QED
  BY <1>3, <1>4, <1>5

-----------------------------------------------------------------------------
(* The task: a slot that is given back.                                    *)

LEMMA RecvClosedStep == ASSUME IInv, NEW i \in Slots, RecvClosed(i) PROVE IInv'
<1> USE DEF IInv, HttpInv
<1>0. At("serve") /\ i \in Open
  BY DEF RecvClosed, Reading, Turn, LoopInv, At
<1>1. /\ connData' \in [Slots -> Conn] /\ peer' \in [Peers -> Peer]
      /\ PoolInv' /\ ParseInv'
      /\ Open' = Open \ {i}
      /\ \A j \in Slots \ {i} : connData'[j] = connData[j]
  BY <1>0, Closing DEF RecvClosed
<1>2. /\ httpd' \in [at : {"serve"}, index : Slots,
                     readset : SUBSET Slots, writeset : SUBSET Slots, rx : Nat]
      /\ httpd'.readset = httpd.readset \ {i} /\ httpd'.writeset = httpd.writeset \ {i}
  BY <1>0 DEF RecvClosed, Finished, TypeOK, At
<1>3. TypeOK' /\ FilesReleased'
  BY <1>0, <1>1, <1>2 DEF RecvClosed, Stop, Unflushed, TypeOK, FilesReleased, PoolInv
<1>4. LoopInv'
  BY <1>0, <1>1, <1>2 DEF LoopInv, At, Open
<1> QED
  BY <1>1, <1>3, <1>4

LEMMA DestroyStep == ASSUME IInv, NEW i \in Slots, Destroy(i) PROVE IInv'
<1> USE DEF IInv, HttpInv
<1>0. At("serve") /\ i \in Open
  BY DEF Destroy, Writing, Turn, Least, LoopInv, At
<1>1. /\ connData' \in [Slots -> Conn] /\ peer' \in [Peers -> Peer]
      /\ PoolInv' /\ ParseInv'
      /\ Open' = Open \ {i}
      /\ \A j \in Slots \ {i} : connData'[j] = connData[j]
  BY <1>0, Closing DEF Destroy
<1>2. /\ httpd' \in [at : {"serve"}, index : Slots,
                     readset : SUBSET Slots, writeset : SUBSET Slots, rx : Nat]
      /\ httpd'.readset = httpd.readset \ {i} /\ httpd'.writeset = httpd.writeset \ {i}
  BY <1>0 DEF Destroy, Finished, TypeOK, At
<1>3. TypeOK' /\ FilesReleased'
  BY <1>0, <1>1, <1>2 DEF Destroy, Stop, TypeOK, FilesReleased, PoolInv
<1>4. LoopInv'
  BY <1>0, <1>1, <1>2 DEF LoopInv, At, Open
<1> QED
  BY <1>1, <1>3, <1>4

LEMMA SweepStep == ASSUME IInv, Sweep PROVE IInv'
<1> USE DEF IInv, HttpInv
<1>0. TimedOut \in SUBSET Open
  BY DEF TimedOut
<1>1. /\ connData' \in [Slots -> Conn] /\ peer' \in [Peers -> Peer]
      /\ PoolInv' /\ ParseInv'
  BY <1>0, Closing DEF Sweep
<1>2. /\ httpd' \in [at : {"select"}, index : Slots,
                     readset : SUBSET Slots, writeset : SUBSET Slots, rx : Nat]
      /\ httpd'.readset \cup httpd'.writeset = {}
  BY DEF Sweep, Sweeping, TypeOK
<1>3. \A i \in TimedOut : ~Unflushed(i)
  BY DEF TimedOut, Open, Unflushed, PoolInv
<1>4. TypeOK' /\ FilesReleased'
  BY <1>1, <1>2, <1>3 DEF Sweep, TypeOK, FilesReleased
<1>5. LoopInv'
  BY <1>2 DEF LoopInv, At
<1> QED
  BY <1>1, <1>4, <1>5

-----------------------------------------------------------------------------
(* The task: what arrives, and what is sent.                               *)

LEMMA RecvStep == ASSUME IInv, NEW i \in Slots, Recv(i) PROVE IInv'
<1> USE DEF IInv, HttpInv
<1>0. At("serve") /\ i \in Open /\ Asker(i) \in Peers
  BY DEF Recv, Reading, Turn, LoopInv, PoolInv, At, Open, Free
<1>1. /\ httpd' \in [at : {"parse"}, index : Slots,
                     readset : SUBSET Slots, writeset : SUBSET Slots, rx : Nat]
      /\ httpd'.readset = httpd.readset /\ httpd'.writeset = httpd.writeset
      /\ httpd'.index = i
  BY <1>0 DEF Recv, TypeOK, Peer
<1>2. /\ peer' \in [Peers -> Peer]
      /\ \A p \in Peers : peer'[p].at = peer[p].at /\ peer'[p].request = peer[p].request
  BY ZenonT(30), <1>0 DEF Recv, TypeOK, Peer
<1>3. TypeOK' /\ FilesReleased'
  BY <1>1, <1>2 DEF Recv, Stop, TypeOK, FilesReleased
<1>4. PoolInv'
  BY <1>2 DEF Recv, PoolInv, Open, Asker, Held
<1>5. ParseInv'
  <2>1. \A j \in Open : Asker(j) \in Peers
    BY DEF PoolInv, Open, Asker, Free
  <2> QED
    BY SMTT(30), <1>2, <2>1 DEF Recv, ParseInv, Open, Asker
<1>6. LoopInv'
  BY <1>0, <1>1 DEF Recv, LoopInv, At, Open
<1> QED
  BY <1>3, <1>4, <1>5, <1>6

LEMMA RecvEndStep == ASSUME IInv, NEW i \in Slots, RecvEnd(i) PROVE IInv'
<1> USE DEF IInv, HttpInv, RecvEnd, Restart, HasRead
<1>1. 0 \in Slots
  BY HttpAssumption DEF Slots
<1>2. /\ httpd' \in [at : {"serve"}, index : Slots,
                     readset : SUBSET Slots, writeset : SUBSET Slots, rx : Nat]
      /\ httpd'.readset \subseteq httpd.readset /\ httpd'.writeset = httpd.writeset
  BY <1>1 DEF TypeOK
<1>3. TypeOK' /\ FilesReleased'
  BY <1>2 DEF TypeOK, FilesReleased
<1>4. PoolInv' /\ ParseInv'
  BY DEF PoolInv, ParseInv, Open, Asker, Held
<1>5. LoopInv'
  BY <1>2 DEF LoopInv, At, Open, Parsing
<1> QED
  BY <1>3, <1>4, <1>5

(* The loop, while what one open slot holds is parsed. *)
LEMMA ParsingKeepsLoop ==
    ASSUME IInv, NEW i \in Slots, Parsing(i), httpd.rx > 0,
           httpd' = [httpd EXCEPT !.rx = @ - 1], UNCHANGED stop_watch,
           connData' \in [Slots -> Conn], peer' \in [Peers -> Peer], leaked' \in BOOLEAN,
           Open' = Open, \A j \in Slots \ {i} : connData'[j] = connData[j],
           \/ connData'[i].destruct_flg \/ connData'[i].cgi # "NULL"
           \/ ~connData[i].destruct_flg /\ connData[i].cgi = "NULL"
           \/ /\ connData'[i].destruct_flg = connData[i].destruct_flg
              /\ connData'[i].cgi = connData[i].cgi
    PROVE  TypeOK' /\ LoopInv'
<1> USE DEF IInv, HttpInv
<1>1. httpd.rx - 1 \in Nat
  BY DEF TypeOK
<1>2. /\ httpd' \in [at : {"parse"}, index : Slots,
                     readset : SUBSET Slots, writeset : SUBSET Slots, rx : Nat]
      /\ httpd'.readset = httpd.readset /\ httpd'.writeset = httpd.writeset
      /\ httpd'.index = httpd.index
  BY <1>1 DEF TypeOK, Parsing, At
<1>3. TypeOK'
  BY <1>2 DEF TypeOK
<1>4. LoopInv'
  BY <1>2 DEF LoopInv, At, Parsing, Open
<1> QED
  BY <1>3, <1>4

LEMMA RecvHeadStep == ASSUME IInv, NEW i \in Slots, RecvHead(i) PROVE IInv'
<1> USE DEF IInv, HttpInv
<1>0. /\ Parsing(i) /\ i \in Open /\ Asker(i) \in Peers /\ connData[i].conn
      /\ connData[i] \in Conn /\ connData[i].len = -1
      /\ connData[i].cgi = "NULL" /\ connData[i].cgiData = 0 /\ ~connData[i].destruct_flg
  BY DEF RecvHead, Parsing, LoopInv, PoolInv, ParseInv, TypeOK, At, Open, Free, Held
<1>10. PICK old \in Conn : old = connData[i]
  BY <1>0
<1> DEFINE r == peer[Asker(i)].request
           c == [old EXCEPT !.len = r.len, !.url = r.url]
<1>1. r \in Request /\ r.len \in Nat /\ r.url \in Urls /\ r \in Requests[Asker(i)]
  BY <1>0 DEF TypeOK, Peer, Request, PoolInv, ParseInv
<1>2. r.url = "file" => r.len = 0
  BY <1>0, <1>1, HttpAssumption
<1>4. PICK n \in Nat, u \in Urls : n = r.len /\ u = r.url
  BY <1>1
<1> DEFINE d == [old EXCEPT !.len = n, !.url = u]
<1>11. c = d
  BY <1>4
<1>3. /\ IF NoBody(r) THEN Process(i, c)
         ELSE /\ connData' = [connData EXCEPT ![i] = c]
              /\ UNCHANGED <<peer, leaked>>
  BY <1>4, <1>10 DEF RecvHead
<1> HIDE DEF c
<1>5. /\ d \in Conn /\ Same(old, d) /\ d.len = n /\ d.url = u
      /\ d.cgi = old.cgi /\ d.cgiData = old.cgiData /\ d.destruct_flg = old.destruct_flg
  BY DEF Conn, Same
<1> HIDE DEF d
<1>6. c \in Conn /\ Same(connData[i], c) /\ c.len = r.len /\ c.url = r.url
      /\ c.len # -1 /\ c.cgi = "NULL" /\ c.cgiData = 0 /\ ~c.destruct_flg
      /\ c.conn /\ c.sockfd = Asker(i)
  <2>1. c \in Conn /\ Same(connData[i], c) /\ c.len = n /\ c.url = u
    BY <1>5, <1>10, <1>11
  <2>2. c.cgi = "NULL" /\ c.cgiData = 0 /\ ~c.destruct_flg
    BY <1>0, <1>5, <1>10, <1>11
  <2>3. c.conn /\ c.sockfd = Asker(i)
    BY <1>0, <2>1 DEF Same, Asker
  <2>4. n # -1
    OBVIOUS
  <2> QED
    BY <1>4, <2>1, <2>2, <2>3, <2>4
<1>7. /\ connData' \in [Slots -> Conn] /\ peer' \in [Peers -> Peer]
      /\ PoolInv' /\ ParseInv' /\ FilesReleased' /\ leaked' \in BOOLEAN
      /\ Open' = Open
      /\ \A j \in Slots \ {i} : connData'[j] = connData[j]
  <2>1. CASE NoBody(r)
    BY <1>0, <1>2, <1>3, <1>6, <2>1, Processing
  <2>2. CASE ~NoBody(r)
    <3>1. connData' = [connData EXCEPT ![i] = c] /\ UNCHANGED <<peer, leaked>>
      BY <1>3, <2>2
    <3>2. peer' \in [Peers -> Peer]
          /\ \A p \in Peers : peer'[p].at = peer[p].at /\ peer'[p].request = peer[p].request
      BY <3>1 DEF TypeOK
    <3>3. /\ connData' \in [Slots -> Conn]
          /\ PoolInv' /\ ParseInv'
          /\ Open' = Open
          /\ \A j \in Slots : connData'[j] = IF j = i THEN c ELSE connData[j]
      BY <1>0, <1>6, <3>1, <3>2, Updating
    <3> QED
      BY <3>1, <3>2, <3>3 DEF FilesReleased, TypeOK
  <2> QED
    BY <2>1, <2>2
<1>8. TypeOK' /\ LoopInv'
  BY <1>0, <1>7, ParsingKeepsLoop DEF RecvHead
<1> QED
  BY <1>7, <1>8

LEMMA RecvBodyStep == ASSUME IInv, NEW i \in Slots, RecvBody(i) PROVE IInv'
<1> USE DEF IInv, HttpInv
<1>0. /\ Parsing(i) /\ i \in Open /\ Asker(i) \in Peers /\ connData[i].conn
      /\ connData[i] \in Conn /\ connData[i].len > 0 /\ connData[i].len # -1
      /\ connData[i].len # 0
  BY DEF RecvBody, Parsing, LoopInv, PoolInv, TypeOK, At, Open, Free
<1>1. /\ connData[i].cgi = "NULL" /\ connData[i].cgiData = 0
      /\ connData[i].len = peer[Asker(i)].request.len
      /\ connData[i].url = peer[Asker(i)].request.url
  BY <1>0 DEF PoolInv, ParseInv, Held
<1>2. connData[i].url # "file"
  BY <1>0, <1>1, HttpAssumption DEF PoolInv, ParseInv
<1>10. PICK old \in Conn : old = connData[i]
  BY <1>0
<1>4. PICK n \in Nat, m \in Nat : n = old.received + 1 /\ m = old.buffLen + 1
  BY <1>10 DEF Conn
<1> DEFINE c == [old EXCEPT !.received = n, !.buffLen = m]
<1>3. IF ChunkComplete(c) THEN Process(i, c)
      ELSE /\ connData' = [connData EXCEPT ![i] = c]
           /\ UNCHANGED <<peer, leaked>>
  BY <1>4, <1>10 DEF RecvBody
<1>9. /\ c \in Conn /\ Same(old, c) /\ c.len = old.len /\ c.url = old.url
      /\ c.cgi = old.cgi /\ c.cgiData = old.cgiData /\ c.destruct_flg = old.destruct_flg
  BY BodyConn
<1> HIDE DEF c
<1>5. /\ c \in Conn /\ Same(connData[i], c)
      /\ c.len = connData[i].len /\ c.url = connData[i].url
      /\ c.cgi = connData[i].cgi /\ c.cgiData = connData[i].cgiData
      /\ c.destruct_flg = connData[i].destruct_flg
  BY <1>9, <1>10
<1>6. c.conn /\ c.sockfd = Asker(i)
  BY <1>0, <1>5 DEF Same, Asker
<1>7. /\ connData' \in [Slots -> Conn] /\ peer' \in [Peers -> Peer]
      /\ PoolInv' /\ ParseInv' /\ FilesReleased' /\ leaked' \in BOOLEAN
      /\ Open' = Open
      /\ \A j \in Slots \ {i} : connData'[j] = connData[j]
      /\ \/ connData'[i].destruct_flg \/ connData'[i].cgi # "NULL"
         \/ /\ connData'[i].destruct_flg = connData[i].destruct_flg
            /\ connData'[i].cgi = connData[i].cgi
  <2>1. CASE ChunkComplete(c)
    <3>1. c.url = "file" => ~c.destruct_flg /\ c.len = 0
      BY <1>2, <1>5
    <3>2. /\ c.len # -1 /\ c.cgi = "NULL" /\ c.cgiData = 0
          /\ c.len = peer[Asker(i)].request.len /\ c.url = peer[Asker(i)].request.url
      BY <1>0, <1>1, <1>5
    <3>3. Process(i, c)
      BY <1>3, <2>1
    <3> QED
      BY <1>0, <1>1, <1>5, <3>1, <3>2, <3>3, Processing
  <2>2. CASE ~ChunkComplete(c)
    <3>1. connData' = [connData EXCEPT ![i] = c] /\ UNCHANGED <<peer, leaked>>
      BY <1>3, <2>2
    <3>2. peer' \in [Peers -> Peer]
          /\ \A p \in Peers : peer'[p].at = peer[p].at /\ peer'[p].request = peer[p].request
      BY <3>1 DEF TypeOK
    <3>3. /\ connData' \in [Slots -> Conn]
          /\ PoolInv' /\ ParseInv'
          /\ Open' = Open
          /\ \A j \in Slots : connData'[j] = IF j = i THEN c ELSE connData[j]
      BY <1>0, <1>1, <1>5, <1>6, <3>1, <3>2, Updating
    <3> QED
      BY <1>5, <3>1, <3>2, <3>3 DEF FilesReleased, TypeOK
  <2> QED
    BY <2>1, <2>2
<1>8. TypeOK' /\ LoopInv'
  BY <1>0, <1>7, ParsingKeepsLoop DEF RecvBody
<1> QED
  BY <1>7, <1>8

LEMMA ContinueStep == ASSUME IInv, NEW i \in Slots, Continue(i) PROVE IInv'
<1> USE DEF IInv, HttpInv
<1>0. /\ At("serve") /\ i \in Open /\ Asker(i) \in Peers /\ connData[i].conn
      /\ connData[i] \in Conn /\ connData[i].cgi # "NULL" /\ ~connData[i].destruct_flg
      /\ connData[i].cgiData \in 1..FileReads
  BY DEF Continue, Writing, Turn, Least, LoopInv, PoolInv, TypeOK, At, Open, Free, Held, Conn
<1>1. /\ connData[i].url = "file" /\ connData[i].len = 0
      /\ connData[i].len = peer[Asker(i)].request.len
      /\ connData[i].url = peer[Asker(i)].request.url
  BY <1>0 DEF ParseInv
<1>8. PICK old \in Conn : old = connData[i]
  BY <1>0
<1>9. connData' = [connData EXCEPT ![i] = IF old.cgiData = 1 THEN Done(old)
                                         ELSE [old EXCEPT !.cgiData = old.cgiData - 1]]
  <2>1. connData' = [connData EXCEPT ![i] =
                         IF connData[i].cgiData = 1 THEN Done(connData[i])
                         ELSE [connData[i] EXCEPT !.cgiData = connData[i].cgiData - 1]]
    BY DEF Continue, Sent
  <2> QED
    BY <1>8, <2>1
<1>2. PICK c \in Conn :
           /\ connData' = [connData EXCEPT ![i] = c]
           /\ Same(connData[i], c) /\ c.len = connData[i].len /\ c.url = connData[i].url
           /\ c.cgiData # 0 <=> c.cgi # "NULL"
           /\ c.destruct_flg => c.cgi = "NULL"
  <2>1. CASE connData[i].cgiData = 1
    <3>1. connData' = [connData EXCEPT ![i] = Done(old)]
      BY <1>8, <1>9, <2>1
    <3> QED
      BY <1>8, <3>1, DoneConn
  <2>2. CASE connData[i].cgiData # 1
    <3> DEFINE n == old.cgiData - 1
               c == [old EXCEPT !.cgiData = n]
    <3>1. connData' = [connData EXCEPT ![i] = c]
      BY <1>8, <1>9, <2>2
    <3>2. n \in 0..FileReads /\ n # 0
      BY <1>0, <1>8, <2>2, HttpAssumption
    <3> HIDE DEF n
    <3>3. /\ c \in Conn /\ Same(old, c) /\ c.len = old.len /\ c.url = old.url
          /\ c.cgi = old.cgi /\ c.cgiData = n /\ c.destruct_flg = old.destruct_flg
      BY <3>2, PartConn
    <3> HIDE DEF c
    <3> QED
      BY <1>0, <1>8, <3>1, <3>2, <3>3
  <2> QED
    BY <2>1, <2>2
<1>3. peer' \in [Peers -> Peer] /\ peer' = peer
  BY DEF Continue, TypeOK
<1>4. /\ connData' \in [Slots -> Conn]
      /\ PoolInv' /\ ParseInv'
      /\ Open' = Open
      /\ \A j \in Slots : connData'[j] = IF j = i THEN c ELSE connData[j]
  <2>1. c.conn /\ c.sockfd = Asker(i) /\ c.len # -1
    BY <1>0, <1>1, <1>2 DEF Same, Asker
  <2> QED
    BY <1>0, <1>1, <1>2, <1>3, <2>1, Updating
<1>5. /\ httpd' \in [at : {"serve"}, index : Slots,
                     readset : SUBSET Slots, writeset : SUBSET Slots, rx : Nat]
      /\ httpd'.readset = httpd.readset \ {i} /\ httpd'.writeset = httpd.writeset \ {i}
  BY <1>0 DEF Continue, Finished, TypeOK, At
<1>6. TypeOK' /\ FilesReleased'
  BY <1>3, <1>4, <1>5 DEF Continue, Restart, TypeOK, FilesReleased
<1>7. LoopInv'
  BY <1>0, <1>4, <1>5 DEF LoopInv, At, Open
<1> QED
  BY <1>4, <1>6, <1>7

-----------------------------------------------------------------------------
(* No connection is forgotten.                                             *)

(* A slot is given back, and its watch stopped. *)
LEMMA ClosedWatched ==
    ASSUME IInv, Watched, NEW i \in Open, At("serve"), Stop(i),
           connData' = httpdRetireConn({i}), peer' = HungUpOn({i})
    PROVE  Watched'
<1>1. /\ Open' = Open \ {i}
      /\ \A j \in Slots \ {i} : connData'[j] = connData[j]
  BY Closing
<1>2. \A j \in Slots \ {i} : stop_watch'[j] = stop_watch[j]
  BY DEF Stop, IInv, HttpInv, TypeOK
<1> QED
  BY <1>1, <1>2 DEF Watched, At, Open

(* A slot is served, and its watch started anew. *)
LEMMA ServedWatched ==
    ASSUME IInv, Watched, NEW i \in Open, httpd.at = "serve" \/ Parsing(i), Restart(i),
           Open' = Open, \A j \in Slots \ {i} : connData'[j] = connData[j]
    PROVE  Watched'
<1>1. /\ \A j \in Slots \ {i} : stop_watch'[j] = stop_watch[j]
      /\ stop_watch'[i]
  BY DEF Restart, IInv, HttpInv, TypeOK, Open
<1> QED
  BY <1>1 DEF Watched, Parsing, At, Open

LEMMA ParsingWatched ==
    ASSUME IInv, Watched, NEW i \in Slots, RecvHead(i) \/ RecvBody(i), Open' = Open
    PROVE  Watched'
<1>1. /\ httpd.at = "parse" /\ httpd.index = i /\ httpd'.at = "parse" /\ httpd'.index = i
      /\ stop_watch' = stop_watch
  BY DEF RecvHead, RecvBody, Parsing, At, IInv, HttpInv, TypeOK
<1>2. \A j \in Slots \ {i} : connData'[j] = connData[j]
  BY DEF RecvHead, RecvBody, Process, IInv, HttpInv, TypeOK
<1> QED
  BY <1>1, <1>2 DEF Watched, Open

LEMMA OpenWhileParsing ==
    ASSUME IInv, NEW i \in Slots, RecvHead(i) \/ RecvBody(i), IInv'
    PROVE  Open' = Open
<1>1. httpd' = [httpd EXCEPT !.rx = @ - 1] /\ Parsing(i)
  BY DEF RecvHead, RecvBody
<1>2. i \in Open /\ i \in Open'
  BY <1>1 DEF IInv, HttpInv, LoopInv, TypeOK, Parsing, At
<1>3. \A j \in Slots \ {i} : connData'[j] = connData[j]
  BY DEF RecvHead, RecvBody, Process, IInv, HttpInv, TypeOK
<1> QED
  BY <1>2, <1>3 DEF Open

-----------------------------------------------------------------------------
(* Every step.                                                             *)

LEMMA NextInv == ASSUME IInv, [Next]_vars PROVE IInv'
<1>1. CASE \E p \in Peers : Call(p) \/ Send(p) \/ HangUp(p)
  BY <1>1, PeerStep
<1>2. CASE \E i \in Slots : httpserver_conn_watcher(i)
  BY <1>2, WatchStep
<1>3. CASE SelectFails
  BY <1>3, SelectFailsStep
<1>4. CASE \E w \in SUBSET Wanted : SelectReturns(w)
  BY <1>4, SelectStep
<1>5. CASE \E p \in Peers : Accept(p) \/ Refuse(p)
  BY <1>5, AcceptStep, RefuseStep
<1>6. CASE WatchAccepted
  BY <1>6, WatchAcceptedStep
<1>7. CASE Sweep
  BY <1>7, SweepStep
<1>8. CASE \E i \in Slots : Recv(i) \/ RecvClosed(i) \/ RecvEnd(i)
  BY <1>8, RecvStep, RecvClosedStep, RecvEndStep
<1>9. CASE \E i \in Slots : RecvHead(i) \/ RecvBody(i)
  BY <1>9, RecvHeadStep, RecvBodyStep
<1>10. CASE \E i \in Slots : Destroy(i) \/ Continue(i)
  BY <1>10, DestroyStep, ContinueStep
<1>11. CASE UNCHANGED vars
  BY <1>11 DEF vars, IInv, HttpInv, TypeOK, PoolInv, LoopInv, ParseInv, FilesReleased,
               Open, Held, Asker, At
<1> QED
  BY <1>1, <1>2, <1>3, <1>4, <1>5, <1>6, <1>7, <1>8, <1>9, <1>10, <1>11
     DEF Next, httpserver_task

LEMMA NextWatched == ASSUME IInv, Watched, [Next]_vars PROVE Watched'
<1> USE DEF IInv, HttpInv
<1>0. IInv'
  BY NextInv
<1>1. CASE \E p \in Peers : Call(p) \/ Send(p) \/ HangUp(p)
  BY <1>1 DEF Call, Send, HangUp, Watched, Open
<1>2. CASE \E i \in Slots : httpserver_conn_watcher(i)
  <2> PICK i \in Slots : httpserver_conn_watcher(i)
    BY <1>2
  <2>1. \A j \in Slots \ {i} : stop_watch'[j] = stop_watch[j] /\ connData'[j] = connData[j]
    BY DEF httpserver_conn_watcher, TypeOK
  <2>2. i \in Open => connData'[i].timeout
    BY DEF httpserver_conn_watcher, TypeOK, Conn
  <2>3. i \notin Open => ~connData'[i].conn
    BY DEF httpserver_conn_watcher, Open
  <2> QED
    BY <2>1, <2>2, <2>3 DEF httpserver_conn_watcher, Watched, Open
<1>3. CASE SelectFails
  <2>1. Open' = {}
    BY <1>3, Closing DEF SelectFails
  <2> QED
    BY <2>1 DEF Watched
<1>4. CASE \E w \in SUBSET Wanted : SelectReturns(w)
  BY <1>4 DEF SelectReturns, Watched, Open, At, TypeOK
<1>5. CASE \E p \in Peers : Accept(p)
  <2> PICK p \in Peers : Accept(p)
    BY <1>5
  <2> PICK i \in Slots : /\ connData' = [connData EXCEPT ![i] = Accepted(i, p)]
                         /\ httpd' = [httpd EXCEPT !.at = "watch", !.index = i]
    BY DEF Accept
  <2>1. httpd.at = "accept" /\ httpd'.at = "watch" /\ httpd'.index = i
        /\ stop_watch' = stop_watch
    BY DEF Accept, At, TypeOK
  <2>2. \A j \in Slots \ {i} : connData'[j] = connData[j]
    BY DEF TypeOK
  <2> QED
    BY <2>1, <2>2 DEF Watched, Open
<1>6. CASE \E p \in Peers : Refuse(p)
  BY <1>6 DEF Refuse, Watched, Open, At, TypeOK
<1>7. CASE WatchAccepted
  <2>1. /\ httpd.at = "watch" /\ stop_watch'[httpd.index] /\ UNCHANGED connData
        /\ \A j \in Slots : j # httpd.index => stop_watch'[j] = stop_watch[j]
    BY <1>7 DEF WatchAccepted, AcceptWatch, At, TypeOK
  <2> QED
    BY <2>1 DEF Watched, Open
<1>8. CASE Sweep
  <2>1. Open' = Open \ TimedOut /\ \A j \in Slots \ TimedOut : connData'[j] = connData[j]
    BY <1>8, Closing DEF Sweep, TimedOut
  <2> QED
    BY <1>8, <2>1 DEF Sweep, Sweeping, At, TimedOut, Watched, Open
<1>9. CASE \E i \in Slots : Recv(i)
  <2> PICK i \in Slots : Recv(i)
    BY <1>9
  <2>1. /\ httpd.at = "serve" /\ httpd'.at = "parse" /\ httpd'.index = i
        /\ UNCHANGED connData
        /\ \A j \in Slots \ {i} : stop_watch'[j] = stop_watch[j]
    BY DEF Recv, Reading, Turn, At, Stop, TypeOK
  <2> QED
    BY <2>1 DEF Watched, Open
<1>10. CASE \E i \in Slots : RecvClosed(i) \/ Destroy(i)
  <2> PICK i \in Slots : RecvClosed(i) \/ Destroy(i)
    BY <1>10
  <2>1. At("serve") /\ i \in Open
    BY DEF RecvClosed, Destroy, Reading, Writing, Turn, Least, LoopInv, At
  <2> QED
    BY <2>1, ClosedWatched DEF RecvClosed, Destroy
<1>11. CASE \E i \in Slots : RecvEnd(i)
  <2> PICK i \in Slots : RecvEnd(i)
    BY <1>11
  <2>1. /\ Parsing(i) /\ i \in Open /\ Restart(i)
        /\ Open' = Open /\ \A j \in Slots \ {i} : connData'[j] = connData[j]
    BY DEF RecvEnd, Parsing, LoopInv, At, Open
  <2> QED
    BY <2>1, ServedWatched
<1>12. CASE \E i \in Slots : RecvHead(i) \/ RecvBody(i)
  BY <1>0, <1>12, OpenWhileParsing, ParsingWatched
<1>13. CASE \E i \in Slots : Continue(i)
  <2> PICK i \in Slots : Continue(i)
    BY <1>13
  <2>1. httpd.at = "serve" /\ i \in Open /\ Restart(i)
    BY DEF Continue, Writing, Turn, Least, LoopInv, At
  <2>2. \A j \in Slots \ {i} : connData'[j] = connData[j]
    BY DEF Continue, TypeOK
  <2>3. httpd'.at = "serve" /\ peer' = peer
    BY <2>1 DEF Continue, Finished, TypeOK
  <2>4. i \in Open'
    <3>1. peer'[Asker(i)].at = "connected" /\ Asker(i) \in Peers
      BY <2>1, <2>3 DEF PoolInv, Open, Free, Asker
    <3>2. PICK k \in Open' : connData'[k].sockfd = Asker(i)
      BY <1>0, <3>1 DEF PoolInv, Asker
    <3>3. CASE k = i
      BY <3>2, <3>3
    <3>4. CASE k # i
      BY <2>1, <2>2, <3>2, <3>4 DEF PoolInv, Open, Asker
    <3> QED
      BY <3>3, <3>4
  <2>5. Open' = Open
    BY <2>1, <2>2, <2>4 DEF Open
  <2> QED
    BY <2>1, <2>2, <2>5, ServedWatched
<1>14. CASE UNCHANGED vars
  BY <1>14 DEF vars, Watched, Open
<1> QED
  BY <1>1, <1>2, <1>3, <1>4, <1>5, <1>6, <1>7, <1>8, <1>9, <1>10, <1>11, <1>12, <1>13, <1>14
     DEF Next, httpserver_task

LEMMA Invariance == Spec => [](IInv /\ Watched)
<1>1. IInv /\ Watched /\ [Next]_vars => (IInv /\ Watched)'
  BY NextInv, NextWatched
<1> QED
  BY InitInv, <1>1, PTL DEF Spec

-----------------------------------------------------------------------------
(* The pool of httpd.c is kept in order: open slots and connected peers    *)
(* belong together one to one, a slot that is free holds nothing, and the  *)
(* task never works on a slot that was closed.                             *)
THEOREM PoolInOrder == Spec => []HttpInv
<1>1. IInv /\ Watched => HttpInv
  BY DEF IInv
<1> QED
  BY Invariance, <1>1, PTL

(* Whoever is connected is being served, or has a stop watch that runs, or *)
(* is marked to be closed: no connection can keep a slot of the pool       *)
(* without anybody looking after it.                                       *)
THEOREM NoConnectionForgotten == Spec => []Watched
<1>1. IInv /\ Watched => Watched
  OBVIOUS
<1> QED
  BY Invariance, <1>1, PTL

(* However a connection ends, by the peer, the stop watch or the last part *)
(* of a page, the file that was opened for it is closed.                   *)
THEOREM NoFileLost == Spec => []FilesReleased
<1>1. IInv /\ Watched => FilesReleased
  BY DEF IInv
<1> QED
  BY Invariance, <1>1, PTL

-----------------------------------------------------------------------------
(* What processing and sending do to the counts of a slot.                 *)

LEMMA ProcessedCounts ==
    ASSUME NEW c \in Conn
    PROVE  LET d == [httpdProcessRequest(c) EXCEPT !.buffLen = 0]
           IN  d.len = c.len /\ d.url = c.url /\ d.received = c.received
<1>1. CASE Takes(c, "file")
  BY <1>1 DEF httpdProcessRequest, Conn
<1>2. CASE ~Takes(c, "file")
  BY <1>2 DEF httpdProcessRequest, Done, Conn
<1> QED
  BY <1>1, <1>2

LEMMA ProcessedSame ==
    ASSUME NEW c \in Conn
    PROVE  [httpdProcessRequest(c) EXCEPT !.buffLen = 0].sockfd = c.sockfd
<1>1. CASE Takes(c, "file")
  BY <1>1 DEF httpdProcessRequest, Conn
<1>2. CASE ~Takes(c, "file")
  BY <1>2 DEF httpdProcessRequest, Done, Conn
<1> QED
  BY <1>1, <1>2

LEMMA AcceptedCounts ==
    ASSUME NEW p \in Peers, NEW i \in Slots
    PROVE  Accepted(i, p).sockfd = p /\ Accepted(i, p).len = -1
           /\ Accepted(i, p).received = 0 /\ Accepted(i, p).buffLen = 0
BY DEF Accepted, Free

LEMMA DoneCounts ==
    ASSUME NEW c \in Conn
    PROVE  Done(c).len = c.len /\ Done(c).received = c.received /\ Done(c).url = c.url
BY DEF Done, Conn

LEMMA Answering ==
    ASSUME IInv, NEW i \in Open, NEW c \in Conn, Process(i, c), c.sockfd = Asker(i)
    PROVE  LET p == Asker(i)
           IN  /\ connData'[i].len = c.len /\ connData'[i].url = c.url
               /\ connData'[i].received = c.received
               /\ peer'[p].request = peer[p].request
               /\ peer'[p].unsent = peer[p].unsent /\ peer'[p].inbox = peer[p].inbox
               /\ peer'[p].executed = IF Takes(c, "api") THEN Append(peer[p].executed, c.received)
                                      ELSE peer[p].executed
               /\ c.url = "api" /\ ~Takes(c, "api") => peer'[p].redirected
               /\ \A o \in Peers \ {p} : peer'[o] = peer[o]
               /\ \A j \in Slots \ {i} : connData'[j] = connData[j]
<1> USE DEF IInv, HttpInv
<1>0. i \in Slots /\ Asker(i) \in Peers
  BY DEF Open, PoolInv, Free
<1> DEFINE d == [httpdProcessRequest(c) EXCEPT !.buffLen = 0]
<1>1. d.len = c.len /\ d.url = c.url /\ d.received = c.received
  BY ProcessedCounts
<1>2. connData' = [connData EXCEPT ![i] = d]
  BY DEF Process
<1> HIDE DEF d
<1> PICK q \in Peer : q = peer[Asker(i)]
  BY <1>0 DEF TypeOK
<1> DEFINE e == IF Takes(c, "api") THEN Append(q.executed, c.received) ELSE q.executed
           b == cgiRedirectApClientToHostname(c)
           w == [q EXCEPT !.executed = e, !.redirected = b]
<1>3. e \in Seq(Nat) /\ b \in BOOLEAN
  <2>1. q.executed \in Seq(Nat) /\ c.received \in Nat
    BY DEF Peer, Conn
  <2>2. e \in Seq(Nat)
    BY <2>1
  <2> QED
    BY <2>2 DEF cgiRedirectApClientToHostname
<1>4. peer' = [peer EXCEPT ![Asker(i)] = w]
  BY <1>0, Zenon DEF Process, TypeOK
<1>5. c.url = "api" /\ ~Takes(c, "api") => b
  BY DEF Takes
<1>7. e = IF Takes(c, "api") THEN Append(q.executed, c.received) ELSE q.executed
  OBVIOUS
<1> HIDE DEF e, b
<1>6. /\ w.request = q.request /\ w.unsent = q.unsent /\ w.inbox = q.inbox
      /\ w.executed = e /\ w.redirected = b
  BY <1>3 DEF Peer
<1> HIDE DEF w
<1> QED
  BY <1>0, <1>1, <1>2, <1>4, <1>5, <1>6, <1>7 DEF TypeOK

-----------------------------------------------------------------------------
(* Executed once.  What a peer has not sent, what waits to be received and *)
(* what is left in the hands of the parser never exceed what the parser    *)
(* still waits for; so nothing is parsed after the request is complete.    *)

Rx(i) == IF At("parse") /\ httpd.index = i THEN httpd.rx ELSE 0

Fits(c, q, n) ==
    q.unsent + q.inbox + n <= IF c.len = -1 THEN 1 + q.request.len ELSE q.request.len - c.received

Execution(c, q) ==
    /\ c.len = -1 => c.received = 0 /\ c.buffLen = 0 /\ q.executed = <<>>
    /\ c.len # -1 /\ c.len <= MAX_POST /\ c.received < c.len =>
           q.executed = <<>> /\ c.buffLen = c.received /\ ~c.destruct_flg
    /\ c.len # -1 /\ c.len <= MAX_POST /\ c.received = c.len =>
           /\ q.executed \in {<<>>, <<c.len>>}
           /\ c.destruct_flg /\ c.url = "api" => q.executed = <<c.len>> \/ q.redirected

SlotInv(i) == Fits(connData[i], peer[Asker(i)], Rx(i)) /\ Execution(connData[i], peer[Asker(i)])

CallerInv(p) ==
    /\ peer[p].unsent <= 1 + peer[p].request.len /\ peer[p].inbox = 0
    /\ peer[p].executed = <<>>

ExecInv == (\A i \in Open : SlotInv(i)) /\ (\A p \in Callers : CallerInv(p))

LEMMA ExecInvSuffices == ASSUME IInv, ExecInv PROVE ExecutedOnce
<1> USE DEF IInv, HttpInv
<1> SUFFICES ASSUME NEW p \in Peers, peer[p].at = "connected", peer[p].request.len <= MAX_POST
             PROVE  /\ peer[p].executed \in {<<>>, <<peer[p].request.len>>}
                    /\ \A i \in Open :
                          connData[i].destruct_flg /\ connData[i].url = "api" /\ Asker(i) = p =>
                             peer[p].executed = <<peer[p].request.len>> \/ peer[p].redirected
  BY DEF ExecutedOnce
<1>1. PICK i \in Open : Asker(i) = p
  BY DEF PoolInv
<1>2. \A j \in Open : Asker(j) = p => j = i
  BY <1>1 DEF PoolInv
<1> DEFINE c == connData[i]
           q == peer[p]
           n == Rx(i)
<1>3. c \in Conn /\ q \in Peer /\ n \in Nat /\ q.request.len \in Nat
  BY <1>1 DEF TypeOK, Open, Rx, Peer, Request
<1>4. Fits(c, q, n) /\ Execution(c, q)
  BY <1>1 DEF ExecInv, SlotInv
<1>5. /\ c.len = -1 => ~c.destruct_flg
      /\ c.len # -1 => c.len = q.request.len
  BY <1>1 DEF ParseInv
<1> HIDE DEF c, q, n
<1>6. c.len # -1 => c.received <= c.len
  BY <1>3, <1>4, <1>5 DEF Fits, Conn, Peer
<1>7. /\ q.executed \in {<<>>, <<q.request.len>>}
      /\ c.destruct_flg /\ c.url = "api" => q.executed = <<q.request.len>> \/ q.redirected
  <2>1. CASE c.len = -1
    BY <1>4, <1>5, <2>1 DEF Execution
  <2>2. CASE c.len # -1 /\ c.received < c.len
    BY <1>4, <1>5, <2>2 DEF Execution, q
  <2>3. CASE c.len # -1 /\ c.received = c.len
    BY <1>4, <1>5, <2>3 DEF Execution, q
  <2>4. c.len # -1 => c.received \in Nat /\ c.len \in Nat
    BY <1>3 DEF Conn
  <2> QED
    BY <1>6, <2>1, <2>2, <2>3, <2>4
<1> QED
  BY <1>2, <1>7 DEF c, q

(* Slots that keep their connection, and callers that wait on. *)
LEMMA SlotsUntouched ==
    ASSUME IInv, NEW S \in SUBSET Open, ExecInv,
           \A j \in S : /\ connData'[j] = connData[j] /\ peer'[Asker(j)] = peer[Asker(j)]
                        /\ Rx(j)' = Rx(j)
    PROVE  \A j \in S : SlotInv(j)'
BY DEF ExecInv, SlotInv, Asker, Fits, Execution

LEMMA CallersUntouched ==
    ASSUME ExecInv, NEW P \in SUBSET Peers,
           \A p \in P : peer'[p].at = "calling" => peer'[p] = peer[p]
    PROVE  \A p \in P : p \in Callers' => CallerInv(p)'
BY DEF ExecInv, CallerInv, Callers

(* Slots that are given back leave the others alone. *)
LEMMA ClosingExec ==
    ASSUME IInv, ExecInv, NEW S \in SUBSET Open,
           connData' = httpdRetireConn(S), peer' = HungUpOn(S), ~At("parse"), ~At("parse")'
    PROVE  ExecInv'
<1> USE DEF IInv, HttpInv
<1>1. Open' = Open \ S /\ \A j \in Slots \ S : connData'[j] = connData[j]
  BY Closing
<1>2. \A p \in Peers : peer'[p] = IF \E i \in S : Asker(i) = p THEN Away ELSE peer[p]
  BY DEF HungUpOn
<1>3. \A j \in Open \ S : connData'[j] = connData[j] /\ peer'[Asker(j)] = peer[Asker(j)]
  BY <1>1, <1>2 DEF PoolInv, Open, Free
<1>4. \A j \in Open \ S : Rx(j)' = Rx(j)
  BY DEF Rx
<1>5. \A p \in Peers : peer'[p].at = "calling" => peer'[p] = peer[p]
  BY <1>2 DEF Away
<1>6. \A j \in Open' : SlotInv(j)'
  BY <1>1, <1>3, <1>4, SlotsUntouched
<1>7. \A p \in Callers' : CallerInv(p)'
  BY <1>5, CallersUntouched DEF Callers
<1> QED
  BY <1>6, <1>7 DEF ExecInv

(* A step of one open slot and its peer leaves the others alone. *)
LEMMA OneSlotExec ==
    ASSUME IInv, ExecInv, NEW i \in Open, Open' = Open,
           \A j \in Slots \ {i} : connData'[j] = connData[j],
           \A p \in Peers \ {Asker(i)} : peer'[p] = peer[p],
           peer'[Asker(i)].at = peer[Asker(i)].at,
           \A j \in Slots \ {i} : Rx(j)' = Rx(j),
           SlotInv(i)'
    PROVE  ExecInv'
<1> USE DEF IInv, HttpInv
<1>1. \A j \in Open \ {i} : j \in Slots /\ Asker(j) \in Peers \ {Asker(i)}
  BY DEF PoolInv, Open, Free, Asker
<1>5. \A j \in Open \ {i} : connData'[j] = connData[j] /\ peer'[Asker(j)] = peer[Asker(j)]
                            /\ Rx(j)' = Rx(j)
  BY <1>1
<1>2. \A j \in Open \ {i} : SlotInv(j)'
  <2> HIDE DEF IInv
  <2> QED
    BY <1>5, SlotsUntouched
<1>3. \A p \in Peers : peer'[p].at = "calling" => peer'[p] = peer[p]
  BY DEF PoolInv
<1>4. \A p \in Callers' : CallerInv(p)'
  BY <1>3, CallersUntouched DEF Callers
<1> QED
  BY <1>2, <1>4 DEF ExecInv

LEMMA InitExec == Init => ExecInv
BY DEF Init, ExecInv, Open, Callers, Free, Away

LEMMA CallExec == ASSUME IInv, ExecInv, NEW p \in Peers, Call(p) PROVE ExecInv'
<1> USE DEF IInv, HttpInv
<1>1. PICK r \in Requests[p] :
           peer' = [peer EXCEPT ![p] = [Away EXCEPT !.at = "calling", !.request = r,
                                                   !.unsent = 1 + r.len]]
  BY DEF Call
<1>2. /\ connData' = connData /\ httpd' = httpd /\ peer[p].at = "away"
      /\ \A o \in Peers \ {p} : peer'[o] = peer[o]
  BY DEF Call, TypeOK
<1>3. \A j \in Open : Asker(j) \in Peers \ {p}
  BY <1>2 DEF PoolInv, Open, Free, Asker
<1>4. \A j \in Open' : SlotInv(j)'
  BY <1>2, <1>3, SlotsUntouched DEF Open, Rx, At
<1>5. CallerInv(p)'
  <2>1. r \in Request
    BY HttpAssumption
  <2>2. r.len \in Nat
    BY <2>1 DEF Request
  <2>3. peer'[p].unsent = 1 + r.len /\ peer'[p].request = r
        /\ peer'[p].inbox = 0 /\ peer'[p].executed = <<>>
    BY <1>1 DEF TypeOK, Away
  <2> QED
    BY <2>2, <2>3 DEF CallerInv
<1>6. \A o \in Callers' : CallerInv(o)'
  BY <1>2, <1>5, CallersUntouched DEF Callers
<1> QED
  BY <1>4, <1>6 DEF ExecInv

(* A peer that sends or hangs up changes what it has not sent and what     *)
(* waits to be received.                                                   *)
LEMMA SendingExec ==
    ASSUME IInv, ExecInv, NEW p \in Peers, peer[p].at = "connected",
           NEW q \in Peer, peer' = [peer EXCEPT ![p] = q], UNCHANGED <<connData, httpd>>,
           q.at = "connected", q.request = peer[p].request, q.executed = peer[p].executed,
           q.redirected = peer[p].redirected,
           q.unsent + q.inbox <= peer[p].unsent + peer[p].inbox
    PROVE  ExecInv'
<1> USE DEF IInv, HttpInv
<1>1. PICK i \in Open : Asker(i) = p
  BY DEF PoolInv
<1>2. peer'[p] = q /\ \A o \in Peers \ {p} : peer'[o] = peer[o]
  BY DEF TypeOK
<1>3. Open' = Open /\ \A j \in Slots : Rx(j)' = Rx(j) /\ Asker(j)' = Asker(j)
  BY DEF Open, Rx, At, Asker
<1>4. SlotInv(i)'
  <2> DEFINE c == connData[i]
             o == peer[p]
             n == Rx(i)
  <2>1. Fits(c, o, n) /\ Execution(c, o)
    BY <1>1 DEF ExecInv, SlotInv
  <2>2. c \in Conn /\ o \in Peer /\ n \in Nat /\ o.request.len \in Nat
    BY <1>1 DEF TypeOK, Open, Rx, Peer, Request
  <2>6. /\ q.request = o.request /\ q.executed = o.executed /\ q.redirected = o.redirected
        /\ q.unsent + q.inbox <= o.unsent + o.inbox
    OBVIOUS
  <2>3. SlotInv(i)' <=> Fits(c, q, n) /\ Execution(c, q)
    BY <1>1, <1>2, <1>3 DEF SlotInv, Open, Fits, Execution
  <2> HIDE DEF c, o, n
  <2>7. /\ c.received \in Nat /\ o.unsent \in Nat /\ o.inbox \in Nat
        /\ q.unsent \in Nat /\ q.inbox \in Nat
    BY <2>2 DEF Conn, Peer
  <2>4. Fits(c, q, n)
    BY ONLY <2>1, <2>2, <2>6, <2>7 DEF Fits
  <2>5. Execution(c, q)
    BY <2>1, <2>6 DEF Execution
  <2> QED
    BY <2>3, <2>4, <2>5
<1> QED
  BY <1>1, <1>2, <1>3, <1>4, OneSlotExec

LEMMA SendExec == ASSUME IInv, ExecInv, NEW p \in Peers, Send(p) PROVE ExecInv'
<1> USE DEF IInv, HttpInv
<1> PICK q \in Peer : q = peer[p]
  BY DEF TypeOK
<1>1. PICK u \in Nat, n \in Nat : u = q.unsent - 1 /\ n = q.inbox + 1
  <2>1. q.unsent \in Nat /\ q.inbox \in Nat /\ q.unsent > 0
    BY DEF Send, Peer
  <2>2. q.unsent - 1 \in Nat /\ q.inbox + 1 \in Nat
    BY <2>1
  <2> QED
    BY <2>2
<1> DEFINE d == [q EXCEPT !.unsent = u, !.inbox = n]
<1>2. peer' = [peer EXCEPT ![p] = d]
  BY <1>1 DEF Send, TypeOK
<1>3. /\ d \in Peer /\ d.at = q.at /\ d.request = q.request /\ d.executed = q.executed
      /\ d.redirected = q.redirected /\ d.unsent = u /\ d.inbox = n
  BY DEF Peer
<1> HIDE DEF d
<1>4. d.unsent + d.inbox <= q.unsent + q.inbox
  BY SMTT(30), <1>1, <1>3 DEF Peer
<1> QED
  BY <1>2, <1>3, <1>4, SendingExec DEF Send

LEMMA HangUpExec == ASSUME IInv, ExecInv, NEW p \in Peers, HangUp(p) PROVE ExecInv'
<1> USE DEF IInv, HttpInv
<1> PICK q \in Peer : q = peer[p]
  BY DEF TypeOK
<1> DEFINE d == [q EXCEPT !.fin = TRUE, !.unsent = 0]
<1>2. peer' = [peer EXCEPT ![p] = d]
  BY DEF HangUp, TypeOK
<1>3. /\ d \in Peer /\ d.at = q.at /\ d.request = q.request /\ d.executed = q.executed
      /\ d.redirected = q.redirected /\ d.unsent = 0 /\ d.inbox = q.inbox
  BY DEF Peer
<1> HIDE DEF d
<1>4. d.unsent + d.inbox <= q.unsent + q.inbox
  BY <1>3 DEF Peer
<1> QED
  BY <1>2, <1>3, <1>4, SendingExec DEF HangUp

(* The watch changes only the mark of a slot. *)
LEMMA WatchExec ==
    ASSUME IInv, ExecInv, NEW i \in Slots, httpserver_conn_watcher(i)
    PROVE  ExecInv'
<1> USE DEF IInv, HttpInv
<1>1. peer' = peer /\ httpd' = httpd /\ \A j \in Slots \ {i} : connData'[j] = connData[j]
  BY DEF httpserver_conn_watcher, TypeOK
<1>2. CASE i \in Open
  <2>1. connData' = [connData EXCEPT ![i] = [connData[i] EXCEPT !.timeout = TRUE]]
    BY <1>2 DEF httpserver_conn_watcher
  <2>2. /\ connData'[i].conn = connData[i].conn /\ connData'[i].sockfd = connData[i].sockfd
        /\ connData'[i].len = connData[i].len /\ connData'[i].received = connData[i].received
        /\ connData'[i].buffLen = connData[i].buffLen /\ connData'[i].url = connData[i].url
        /\ connData'[i].destruct_flg = connData[i].destruct_flg
    BY <2>1 DEF TypeOK, Conn
  <2>3. Open' = Open
    BY <1>1, <2>2 DEF Open
  <2>4. SlotInv(i)'
    BY <1>1, <1>2, <2>2 DEF ExecInv, SlotInv, Fits, Execution, Rx, At, Asker
  <2> QED
    BY <1>1, <1>2, <2>3, <2>4, OneSlotExec DEF Rx, At
<1>3. CASE i \notin Open
  <2>1. connData' = connData
    BY <1>3 DEF httpserver_conn_watcher
  <2> QED
    BY <1>1, <2>1 DEF ExecInv, SlotInv, CallerInv, Open, Callers, Asker, Rx, At
<1> QED
  BY <1>2, <1>3

(* The task, outside of what it parses. *)
LEMMA IdleStepExec ==
    ASSUME IInv, ExecInv, ~At("parse"), ~At("parse")', UNCHANGED <<connData, peer>>
    PROVE  ExecInv'
BY DEF ExecInv, SlotInv, CallerInv, Open, Callers, Asker, Rx

LEMMA AcceptExec == ASSUME IInv, ExecInv, NEW p \in Peers, Accept(p) PROVE ExecInv'
<1> USE DEF IInv, HttpInv
<1> PICK i \in Slots : /\ Least(i, Slots \ Open)
                       /\ connData' = [connData EXCEPT ![i] = Accepted(i, p)]
                       /\ httpd' = [httpd EXCEPT !.at = "watch", !.index = i]
  BY DEF Accept
<1>0. i \in Slots \ Open /\ p \in Callers /\ peer[p].at = "calling"
      /\ httpd.at = "accept" /\ httpd'.at = "watch"
  BY DEF Least, Accept, Callers, At, TypeOK
<1>1. connData'[i] = Accepted(i, p) /\ \A j \in Slots \ {i} : connData'[j] = connData[j]
  BY DEF TypeOK
<1>2. /\ \A o \in Peers \ {p} : peer'[o] = peer[o]
      /\ peer'[p].at = "connected" /\ peer'[p].request = peer[p].request
      /\ peer'[p].unsent = peer[p].unsent /\ peer'[p].inbox = peer[p].inbox
      /\ peer'[p].executed = peer[p].executed
  BY DEF Accept, TypeOK, Peer
<1>3. \A j \in Open : Asker(j) \in Peers \ {p}
  BY <1>0 DEF PoolInv, Open, Free, Asker
<1>4. Open' \ {i} \subseteq Open
  BY <1>1 DEF Open
<1>5. \A j \in Slots : Rx(j)' = 0 /\ Rx(j) = 0
  BY <1>0 DEF Rx, At
<1>6. \A j \in Open' \ {i} : SlotInv(j)'
  <2>1. \A j \in Open' \ {i} : /\ connData'[j] = connData[j]
                               /\ peer'[Asker(j)] = peer[Asker(j)] /\ Rx(j)' = Rx(j)
    BY <1>1, <1>2, <1>3, <1>4, <1>5 DEF Open
  <2> HIDE DEF IInv
  <2> QED
    BY <1>4, <2>1, SlotsUntouched
<1>7. SlotInv(i)'
  <2> DEFINE c == connData'[i]
             q == peer'[p]
  <2>1. c.sockfd = p /\ c.len = -1 /\ c.received = 0 /\ c.buffLen = 0
    BY <1>1, AcceptedCounts
  <2>2. q.unsent <= 1 + q.request.len /\ q.inbox = 0 /\ q.executed = <<>>
    BY <1>0, <1>2 DEF ExecInv, CallerInv
  <2>3. q.unsent \in Nat /\ q.request.len \in Nat
    BY <1>2 DEF TypeOK, Peer, Request
  <2>4. SlotInv(i)' <=> Fits(c, q, 0) /\ Execution(c, q)
    BY <1>5, <2>1 DEF SlotInv, Asker, Fits, Execution
  <2> HIDE DEF c, q
  <2>5. Fits(c, q, 0) /\ Execution(c, q)
    BY <2>1, <2>2, <2>3 DEF Fits, Execution
  <2> QED
    BY <2>4, <2>5
<1>8. \A o \in Peers : peer'[o].at = "calling" => peer'[o] = peer[o]
  BY <1>2
<1>9. \A o \in Callers' : CallerInv(o)'
  BY <1>8, CallersUntouched DEF Callers
<1> QED
  BY <1>6, <1>7, <1>9 DEF ExecInv

LEMMA RefuseExec == ASSUME IInv, ExecInv, NEW p \in Peers, Refuse(p) PROVE ExecInv'
<1> USE DEF IInv, HttpInv
<1>0. /\ peer[p].at = "calling" /\ connData' = connData
      /\ httpd.at = "accept" /\ httpd'.at = "serve"
      /\ peer'[p] = Away /\ \A o \in Peers \ {p} : peer'[o] = peer[o]
  BY DEF Refuse, Callers, At, TypeOK
<1>1. \A j \in Open : Asker(j) \in Peers \ {p}
  BY <1>0 DEF PoolInv, Open, Free, Asker
<1>2. \A j \in Open : /\ connData'[j] = connData[j] /\ peer'[Asker(j)] = peer[Asker(j)]
                      /\ Rx(j)' = Rx(j)
  BY <1>0, <1>1 DEF Rx, At
<1>3. \A j \in Open' : SlotInv(j)'
  <2>1. Open' = Open
    BY <1>0 DEF Open
  <2> HIDE DEF IInv
  <2> QED
    BY <1>2, <2>1, SlotsUntouched
<1>4. \A o \in Peers : peer'[o].at = "calling" => peer'[o] = peer[o]
  BY <1>0 DEF Away
<1>5. \A o \in Callers' : CallerInv(o)'
  BY <1>4, CallersUntouched DEF Callers
<1> QED
  BY <1>3, <1>5 DEF ExecInv

(* What was received moves into the hands of the parser. *)
LEMMA RecvExec == ASSUME IInv, ExecInv, NEW i \in Slots, Recv(i) PROVE ExecInv'
<1> USE DEF IInv, HttpInv
<1>0. i \in Open /\ Asker(i) \in Peers
  BY DEF Recv, Reading, Turn, LoopInv, PoolInv, At, Open, Free
<1>1. /\ httpd.at = "serve" /\ httpd'.at = "parse" /\ httpd'.index = i
      /\ httpd'.rx = peer[Asker(i)].inbox /\ connData' = connData
  BY DEF Recv, Reading, Turn, At, TypeOK
<1>2. /\ \A o \in Peers \ {Asker(i)} : peer'[o] = peer[o]
      /\ peer'[Asker(i)].at = peer[Asker(i)].at
      /\ peer'[Asker(i)].request = peer[Asker(i)].request
      /\ peer'[Asker(i)].unsent = peer[Asker(i)].unsent /\ peer'[Asker(i)].inbox = 0
      /\ peer'[Asker(i)].executed = peer[Asker(i)].executed
      /\ peer'[Asker(i)].redirected = peer[Asker(i)].redirected
  BY <1>0 DEF Recv, TypeOK, Peer
<1>3. \A j \in Slots \ {i} : Rx(j)' = Rx(j)
  BY <1>1 DEF Rx, At
<1>4. SlotInv(i)'
  <2> DEFINE c == connData[i]
             o == peer[Asker(i)]
             q == peer'[Asker(i)]
  <2>1. Fits(c, o, 0) /\ Execution(c, o)
    BY <1>0, <1>1 DEF ExecInv, SlotInv, Rx, At
  <2>2. c \in Conn /\ o.unsent \in Nat /\ o.inbox \in Nat /\ o.request.len \in Nat
    BY <1>0 DEF TypeOK, Open, Peer, Request
  <2>3. SlotInv(i)' <=> Fits(c, q, o.inbox) /\ Execution(c, q)
    BY <1>1 DEF SlotInv, Asker, Rx, At, Fits, Execution
  <2>6. /\ q.request = o.request /\ q.executed = o.executed /\ q.redirected = o.redirected
        /\ q.unsent = o.unsent /\ q.inbox = 0
    BY <1>2
  <2> HIDE DEF c, o, q
  <2>4. Fits(c, q, o.inbox)
    BY <2>1, <2>2, <2>6 DEF Fits, Conn
  <2>5. Execution(c, q)
    BY <2>1, <2>6 DEF Execution
  <2> QED
    BY <2>3, <2>4, <2>5
<1>5. Open' = Open
  BY <1>1 DEF Open
<1> QED
  BY <1>0, <1>1, <1>2, <1>3, <1>4, <1>5, OneSlotExec

LEMMA RecvEndExec == ASSUME IInv, ExecInv, NEW i \in Slots, RecvEnd(i) PROVE ExecInv'
<1>1. \A j \in Slots : Rx(j)' = Rx(j)
  BY DEF RecvEnd, HasRead, Parsing, Rx, At, IInv, HttpInv, TypeOK
<1> QED
  BY <1>1 DEF RecvEnd, ExecInv, SlotInv, CallerInv, Open, Callers, Asker

(* A page is sent, of a request that has no body. *)
LEMMA ContinueExec == ASSUME IInv, ExecInv, NEW i \in Slots, Continue(i), IInv' PROVE ExecInv'
<1> USE DEF IInv, HttpInv
<1>0. /\ httpd.at = "serve" /\ httpd'.at = "serve" /\ i \in Open /\ Asker(i) \in Peers
      /\ connData[i] \in Conn /\ connData[i].url = "file" /\ connData[i].len = 0
      /\ peer' = peer
  BY DEF Continue, Writing, Turn, Least, LoopInv, PoolInv, ParseInv, TypeOK, At, Open, Free,
         Finished
<1>1. \A j \in Slots \ {i} : connData'[j] = connData[j]
  BY DEF Continue, TypeOK
<1>2. /\ connData'[i].len = 0 /\ connData'[i].url = "file"
      /\ connData'[i].received = connData[i].received
      /\ connData'[i].conn = connData[i].conn /\ connData'[i].sockfd = connData[i].sockfd
  <2>1. CASE connData[i].cgiData = 1
    <3>1. connData'[i] = Done(connData[i])
      BY <1>0, <2>1 DEF Continue, Sent, TypeOK
    <3> QED
      BY <1>0, <3>1, DoneCounts, DoneConn DEF Same
  <2>2. CASE connData[i].cgiData # 1
    <3>1. connData'[i] = [connData[i] EXCEPT !.cgiData = connData[i].cgiData - 1]
      BY <1>0, <2>2 DEF Continue, TypeOK
    <3> QED
      BY <1>0, <3>1 DEF Conn
  <2> QED
    BY <2>1, <2>2
<1>3. Open' = Open
  BY <1>1, <1>2 DEF Open
<1>4. SlotInv(i)'
  <2> DEFINE c == connData[i]
             d == connData'[i]
             q == peer[Asker(i)]
  <2>1. Fits(c, q, 0) /\ Execution(c, q)
    BY <1>0 DEF ExecInv, SlotInv, Rx, At
  <2>2. /\ c.len = 0 /\ c.received \in Nat /\ q.unsent \in Nat /\ q.inbox \in Nat
        /\ q.request.len = 0 /\ MAX_POST \in Nat
    <3>1. q.request.len = 0
      BY <1>0 DEF ParseInv
    <3> QED
      BY <1>0, <3>1, HttpAssumption DEF TypeOK, Peer, Conn
  <2>3. SlotInv(i)' <=> Fits(d, q, 0) /\ Execution(d, q)
    BY <1>0, <1>2 DEF SlotInv, Asker, Rx, At, Fits, Execution
  <2>4. d.len = 0 /\ d.url = "file" /\ d.received = c.received
    BY <1>2
  <2> HIDE DEF c, d, q
  <2>5. c.received = 0
    BY <2>1, <2>2 DEF Fits
  <2>6. Fits(d, q, 0)
    BY <2>1, <2>2, <2>4 DEF Fits
  <2>7. Execution(d, q)
    BY <2>1, <2>2, <2>4, <2>5 DEF Execution
  <2> QED
    BY <2>3, <2>6, <2>7
<1>5. \A j \in Slots \ {i} : Rx(j)' = Rx(j)
  BY <1>0 DEF Rx, At
<1> QED
  BY <1>0, <1>1, <1>3, <1>4, <1>5, OneSlotExec

(* A request is processed when all of it is there, if it fits. *)
LEMMA ProcessExec ==
    ASSUME IInv, IInv', NEW i \in Open, NEW c \in Conn, Process(i, c), c.sockfd = Asker(i),
           c.len # -1,
           c.len <= MAX_POST => c.received = c.len /\ peer[Asker(i)].executed = <<>>,
           Fits(c, peer[Asker(i)], Rx(i)')
    PROVE  /\ SlotInv(i)'
           /\ \A o \in Peers \ {Asker(i)} : peer'[o] = peer[o]
           /\ peer'[Asker(i)].at = peer[Asker(i)].at
           /\ \A j \in Slots \ {i} : connData'[j] = connData[j]
<1> USE DEF IInv, HttpInv
<1>0. i \in Slots /\ Asker(i) \in Peers
  BY DEF Open, PoolInv, Free
<1> DEFINE d == connData'[i]
           q == peer[Asker(i)]
           w == peer'[Asker(i)]
<1>1. /\ d.len = c.len /\ d.url = c.url /\ d.received = c.received
      /\ w.request = q.request /\ w.unsent = q.unsent /\ w.inbox = q.inbox
      /\ w.executed = IF Takes(c, "api") THEN Append(q.executed, c.received) ELSE q.executed
      /\ c.url = "api" /\ ~Takes(c, "api") => w.redirected
      /\ \A o \in Peers \ {Asker(i)} : peer'[o] = peer[o]
      /\ \A j \in Slots \ {i} : connData'[j] = connData[j]
  <2> HIDE DEF IInv
  <2> QED
    BY Answering
<1>2. d.sockfd = c.sockfd
  BY <1>0, ProcessedSame DEF Process, TypeOK
<1>3. peer'[Asker(i)].at = peer[Asker(i)].at
  BY <1>0 DEF Process, TypeOK, Peer
<1>4. SlotInv(i)' <=> Fits(d, w, Rx(i)') /\ Execution(d, w)
  BY <1>2 DEF SlotInv, Asker, Fits, Execution
<1>5. Fits(c, q, Rx(i)')
  OBVIOUS
<1>6. c.len \in Nat /\ c.received \in Nat
  BY DEF Conn
<1>10. c.len <= MAX_POST => c.received = c.len /\ q.executed = <<>>
  OBVIOUS
<1> HIDE DEF d, q, w
<1>7. Fits(d, w, Rx(i)')
  BY <1>1, <1>5 DEF Fits
<1>8. Execution(d, w)
  <2>1. CASE c.len <= MAX_POST
    <3>1. w.executed = IF Takes(c, "api") THEN <<c.len>> ELSE <<>>
      <4>1. \A n \in Nat : Append(<<>>, n) = <<n>>
        OBVIOUS
      <4>2. q.executed = <<>> /\ c.received = c.len
        BY <1>10, <2>1
      <4>3. Append(q.executed, c.received) = <<c.len>>
        BY <1>6, <4>1, <4>2
      <4> QED
        BY <1>1, <4>2, <4>3
    <3>2. d.received = d.len /\ d.len = c.len /\ d.url = c.url
      BY <1>1, <1>10, <2>1
    <3>3. w.executed \in {<<>>, <<c.len>>}
      BY <3>1
    <3>4. c.url = "api" => w.executed = <<c.len>> \/ w.redirected
      BY <1>1, <3>1
    <3> QED
      BY <1>6, <3>2, <3>3, <3>4 DEF Execution
  <2>2. CASE ~(c.len <= MAX_POST)
    BY <1>1, <1>6, <2>2 DEF Execution
  <2> QED
    BY <2>1, <2>2
<1> QED
  BY <1>1, <1>3, <1>4, <1>7, <1>8

LEMMA RecvHeadExec == ASSUME IInv, IInv', ExecInv, NEW i \in Slots, RecvHead(i) PROVE ExecInv'
<1> USE DEF IInv, HttpInv
<1>0. /\ i \in Open /\ Asker(i) \in Peers /\ Open' = Open
      /\ connData[i] \in Conn /\ connData[i].len = -1 /\ ~connData[i].destruct_flg
  <2>1. Open' = Open
    BY OpenWhileParsing
  <2> QED
    BY <2>1 DEF RecvHead, Parsing, LoopInv, PoolInv, ParseInv, TypeOK, At, Open, Free
<1>1. /\ Rx(i) = httpd.rx /\ Rx(i)' = httpd.rx - 1 /\ httpd.rx \in Nat /\ httpd.rx > 0
      /\ \A j \in Slots \ {i} : Rx(j)' = Rx(j)
  BY DEF RecvHead, Parsing, Rx, At, TypeOK
<1>2. PICK old \in Conn : old = connData[i]
  BY <1>0
<1> DEFINE q == peer[Asker(i)]
           r == q.request
           c == [old EXCEPT !.len = r.len, !.url = r.url]
<1>3. q \in Peer /\ r.len \in Nat /\ r.url \in Urls /\ q.unsent \in Nat /\ q.inbox \in Nat
  BY <1>0 DEF TypeOK, Peer, Request
<1>4. IF NoBody(r) THEN Process(i, c)
      ELSE connData' = [connData EXCEPT ![i] = c] /\ UNCHANGED <<peer, leaked>>
  BY <1>2 DEF RecvHead
<1>5. /\ c \in Conn /\ c.sockfd = Asker(i) /\ c.len = r.len /\ c.url = r.url
      /\ c.received = old.received /\ c.buffLen = old.buffLen
      /\ c.destruct_flg = old.destruct_flg
  BY <1>2, <1>3 DEF Conn, Asker
<1>6. Fits(old, q, httpd.rx) /\ Execution(old, q)
  BY <1>0, <1>1, <1>2 DEF ExecInv, SlotInv
<1>11. r = q.request
  OBVIOUS
<1> HIDE DEF q, r, c
<1>7. old.received = 0 /\ old.buffLen = 0 /\ q.executed = <<>>
  BY <1>0, <1>2, <1>6 DEF Execution
<1>8. Fits(c, q, httpd.rx - 1)
  BY SMTT(30), <1>0, <1>1, <1>2, <1>3, <1>5, <1>6, <1>7, <1>11 DEF Fits
<1>12. c.len # -1
  BY <1>3, <1>5
<1>9. /\ SlotInv(i)'
      /\ \A o \in Peers \ {Asker(i)} : peer'[o] = peer[o]
      /\ peer'[Asker(i)].at = peer[Asker(i)].at
      /\ \A j \in Slots \ {i} : connData'[j] = connData[j]
  <2>1. CASE NoBody(r)
    <3>1. c.len = 0 /\ c.received = 0
      BY <1>5, <1>7, <2>1 DEF NoBody
    <3>2. Fits(c, peer[Asker(i)], Rx(i)') /\ peer[Asker(i)].executed = <<>> /\ Process(i, c)
      BY <1>1, <1>4, <1>7, <1>8, <2>1 DEF q
    <3> HIDE DEF IInv
    <3> QED
      BY <1>0, <1>5, <1>12, <3>1, <3>2, ProcessExec
  <2>2. CASE ~NoBody(r)
    <3>1. connData' = [connData EXCEPT ![i] = c] /\ peer' = peer
      BY <1>4, <2>2
    <3>2. connData'[i] = c /\ \A j \in Slots \ {i} : connData'[j] = connData[j]
      BY <3>1 DEF TypeOK
    <3>3. Execution(c, q)
      <4>1. c.len > 0 /\ c.len \in Nat
        BY <1>3, <1>5, <2>2 DEF NoBody
      <4> QED
        BY <1>0, <1>2, <1>5, <1>7, <4>1 DEF Execution
    <3>4. SlotInv(i)' <=> Fits(c, q, httpd.rx - 1) /\ Execution(c, q)
      BY <1>1, <1>5, <3>1, <3>2 DEF SlotInv, Asker, q, Fits, Execution
    <3> QED
      BY <1>8, <3>1, <3>2, <3>3, <3>4
  <2> QED
    BY <2>1, <2>2
<1> HIDE DEF IInv
<1> QED
  BY <1>0, <1>1, <1>9, OneSlotExec

LEMMA RecvBodyExec == ASSUME IInv, IInv', ExecInv, NEW i \in Slots, RecvBody(i) PROVE ExecInv'
<1> USE DEF IInv, HttpInv
<1>0. /\ i \in Open /\ Asker(i) \in Peers /\ Open' = Open
      /\ connData[i] \in Conn /\ connData[i].len > 0 /\ connData[i].len # -1
      /\ connData[i].len = peer[Asker(i)].request.len
  <2>1. Open' = Open
    BY OpenWhileParsing
  <2>2. i \in Open /\ connData[i].len > 0
    BY DEF RecvBody, Parsing, LoopInv, At
  <2>3. connData[i].len # -1
    BY <2>2
  <2> QED
    BY <2>1, <2>2, <2>3 DEF PoolInv, ParseInv, TypeOK, Open, Free
<1>1. /\ Rx(i) = httpd.rx /\ Rx(i)' = httpd.rx - 1 /\ httpd.rx \in Nat /\ httpd.rx > 0
      /\ \A j \in Slots \ {i} : Rx(j)' = Rx(j)
  BY DEF RecvBody, Parsing, Rx, At, TypeOK
<1>2. PICK old \in Conn : old = connData[i]
  BY <1>0
<1> DEFINE q == peer[Asker(i)]
           c == [old EXCEPT !.received = old.received + 1, !.buffLen = old.buffLen + 1]
<1>3. /\ q.request.len \in Nat /\ q.unsent \in Nat /\ q.inbox \in Nat
      /\ old.received \in Nat /\ old.buffLen \in Nat /\ old.len \in Nat
      /\ old.len = q.request.len /\ old.len # -1 /\ old.len > 0
  BY <1>0, <1>2 DEF TypeOK, Peer, Request, Conn
<1>4. IF ChunkComplete(c) THEN Process(i, c)
      ELSE connData' = [connData EXCEPT ![i] = c] /\ UNCHANGED <<peer, leaked>>
  BY <1>2 DEF RecvBody
<1>5. /\ c \in Conn /\ c.sockfd = Asker(i) /\ c.len = old.len /\ c.url = old.url
      /\ c.received = old.received + 1 /\ c.buffLen = old.buffLen + 1
      /\ c.destruct_flg = old.destruct_flg
  <2>1. PICK n \in Nat, m \in Nat : n = old.received + 1 /\ m = old.buffLen + 1
    BY <1>3
  <2>2. c = [old EXCEPT !.received = n, !.buffLen = m]
    BY <2>1
  <2> HIDE DEF c
  <2>3. /\ c \in Conn /\ c.sockfd = old.sockfd /\ c.len = old.len /\ c.url = old.url
        /\ c.received = n /\ c.buffLen = m /\ c.destruct_flg = old.destruct_flg
    BY <2>2 DEF Conn
  <2> QED
    BY <1>2, <2>1, <2>3 DEF Asker
<1>6. Fits(old, q, httpd.rx) /\ Execution(old, q)
  BY <1>0, <1>1, <1>2 DEF ExecInv, SlotInv
<1> HIDE DEF q, c
<1>7. Fits(c, q, httpd.rx - 1) /\ c.received <= c.len
  BY <1>1, <1>3, <1>5, <1>6 DEF Fits
<1>8. c.len <= MAX_POST => /\ q.executed = <<>> /\ c.buffLen = c.received
                           /\ ~c.destruct_flg
  BY <1>3, <1>5, <1>6, <1>7 DEF Execution
<1>9. c.len <= MAX_POST => (ChunkComplete(c) <=> c.received = c.len)
  <2> SUFFICES ASSUME c.len <= MAX_POST PROVE ChunkComplete(c) <=> c.received = c.len
    OBVIOUS
  <2>1. c.received \in Nat /\ c.len \in Nat /\ MAX_POST \in Nat /\ c.buffLen = c.received
    BY <1>3, <1>5, <1>8, HttpAssumption
  <2>2. ~(c.len > MAX_POST)
    BY <2>1
  <2>3. buffSize(c) = c.len
    BY <2>2 DEF buffSize
  <2>4. c.received >= c.len <=> c.received = c.len
    BY <1>7, <2>1
  <2> QED
    BY <2>1, <2>3, <2>4 DEF ChunkComplete
<1>10. /\ SlotInv(i)'
       /\ \A o \in Peers \ {Asker(i)} : peer'[o] = peer[o]
       /\ peer'[Asker(i)].at = peer[Asker(i)].at
       /\ \A j \in Slots \ {i} : connData'[j] = connData[j]
  <2>1. CASE ChunkComplete(c)
    <3>1. c.len <= MAX_POST => c.received = c.len /\ peer[Asker(i)].executed = <<>>
      BY <1>8, <1>9, <2>1 DEF q
    <3>2. Fits(c, peer[Asker(i)], Rx(i)') /\ Process(i, c) /\ c.len # -1
      BY <1>1, <1>3, <1>4, <1>5, <1>7, <2>1 DEF q
    <3> HIDE DEF IInv
    <3> QED
      BY <1>0, <1>5, <3>1, <3>2, ProcessExec
  <2>2. CASE ~ChunkComplete(c)
    <3>1. connData' = [connData EXCEPT ![i] = c] /\ peer' = peer
      BY <1>4, <2>2
    <3>2. connData'[i] = c /\ \A j \in Slots \ {i} : connData'[j] = connData[j]
      BY <3>1 DEF TypeOK
    <3>3. Execution(c, q)
      BY <1>3, <1>5, <1>8, <1>9, <2>2 DEF Execution
    <3>4. SlotInv(i)' <=> Fits(c, q, httpd.rx - 1) /\ Execution(c, q)
      BY <1>1, <1>5, <3>1, <3>2 DEF SlotInv, Asker, q, Fits, Execution
    <3> QED
      BY <1>7, <3>1, <3>2, <3>3, <3>4
  <2> QED
    BY <2>1, <2>2
<1> HIDE DEF IInv
<1> QED
  BY <1>0, <1>1, <1>10, OneSlotExec

LEMMA NextExec == ASSUME IInv, ExecInv, [Next]_vars PROVE ExecInv'
<1>0. IInv'
  BY NextInv
<1>1. CASE \E p \in Peers : Call(p) \/ Send(p) \/ HangUp(p)
  BY <1>1, CallExec, SendExec, HangUpExec
<1>2. CASE \E i \in Slots : httpserver_conn_watcher(i)
  BY <1>2, WatchExec
<1>3. CASE SelectFails
  BY <1>3, ClosingExec DEF SelectFails, At
<1>4. CASE \E w \in SUBSET Wanted : SelectReturns(w)
  <2>1. ~At("parse") /\ ~At("parse")' /\ UNCHANGED <<connData, peer>>
    BY <1>4 DEF SelectReturns, At, IInv, HttpInv, TypeOK
  <2> QED
    BY <2>1, IdleStepExec
<1>5. CASE \E p \in Peers : Accept(p) \/ Refuse(p)
  BY <1>5, AcceptExec, RefuseExec
<1>6. CASE WatchAccepted
  <2>1. ~At("parse") /\ ~At("parse")' /\ UNCHANGED <<connData, peer>>
    BY <1>6 DEF WatchAccepted, At, IInv, HttpInv, TypeOK
  <2> QED
    BY <2>1, IdleStepExec
<1>7. CASE Sweep
  <2>1. ~At("parse") /\ ~At("parse")' /\ TimedOut \in SUBSET Open
    BY <1>7 DEF Sweep, Sweeping, At, TimedOut, IInv, HttpInv, TypeOK
  <2> QED
    BY <1>7, <2>1, ClosingExec DEF Sweep
<1>8. CASE \E i \in Slots : Recv(i) \/ RecvEnd(i)
  BY <1>8, RecvExec, RecvEndExec
<1>9. CASE \E i \in Slots : RecvHead(i) \/ RecvBody(i)
  BY <1>0, <1>9, RecvHeadExec, RecvBodyExec
<1>10. CASE \E i \in Slots : Continue(i)
  BY <1>0, <1>10, ContinueExec
<1>11. CASE \E i \in Slots : RecvClosed(i) \/ Destroy(i)
  <2> PICK i \in Slots : RecvClosed(i) \/ Destroy(i)
    BY <1>11
  <2>1. /\ ~At("parse") /\ ~At("parse")' /\ {i} \in SUBSET Open
        /\ connData' = httpdRetireConn({i}) /\ peer' = HungUpOn({i})
    BY DEF RecvClosed, Destroy, Reading, Writing, Turn, Least, Finished, LoopInv, At,
           IInv, HttpInv, TypeOK
  <2> QED
    BY <2>1, ClosingExec
<1>12. CASE UNCHANGED vars
  BY <1>12 DEF vars, ExecInv, SlotInv, CallerInv, Open, Callers, Asker, Rx, At
<1> QED
  BY <1>1, <1>2, <1>3, <1>4, <1>5, <1>6, <1>7, <1>8, <1>9, <1>10, <1>11, <1>12
     DEF Next, httpserver_task

(* A request for the API that fits in the buffer is executed once and with *)
(* the whole body, in however many segments it arrives, and before its     *)
(* connection is marked for closing.                                       *)
THEOREM ApiExecutedOnce == Spec => []ExecutedOnce
<1>1. IInv /\ Watched /\ ExecInv /\ [Next]_vars => ExecInv'
  BY NextExec
<1>2. IInv /\ Watched /\ ExecInv => ExecutedOnce
  BY ExecInvSuffices
<1> QED
  BY Invariance, InitExec, <1>1, <1>2, PTL DEF Spec

-----------------------------------------------------------------------------
(* The commands: module ConfigApi. *)
LEMMA LeastNat ==
  ASSUME NEW T \in SUBSET Nat, T # {}
  PROVE  \E x \in T : \A y \in T : x <= y
<1>1. PICK x \in T : \A y \in T : ~(<<y, x>> \in OpToRel(<, Nat))
  BY NatLessThanWellFounded, WFMin
<1>2. ASSUME NEW y \in T PROVE x <= y
  <2>1. ~(y < x)
    BY <1>1 DEF OpToRel
  <2> QED
    BY <2>1
<1> QED
  BY <1>2


Flags == {"sntp", "manual", "trend", "protect"}
Texts == {"server", "host", "token", "url"}

Stored(r) ==
    /\ r = [f \in Fields |-> r[f]]
    /\ \A f \in Flags : r[f] \in {0, 1}
    /\ r.threshold \in MIN_CURRENT_THRESHOLD..MAX_CURRENT_THRESHOLD
    /\ r.servers = [i \in 1..MAX_SNTP_SERVER_NUM |-> r.servers[i]]
    /\ \A i \in 1..MAX_SNTP_SERVER_NUM : r.servers[i] # "long"
    /\ \A f \in Texts : r[f] # "long"
    /\ r.port \in 1..MAX_TCP_PORT

Plug(q) ==
    /\ q = [f \in DOMAIN AtRest |-> q[f]]
    /\ q.bin \in {"user1", "user2"}

ApiTypes ==
    /\ Stored(ram) /\ Stored(flash)
    /\ meant = [f \in Fields |-> meant[f]]
    /\ Plug(plug)
    /\ stray \subseteq Fields /\ unsaved \subseteq Fields

(* Whatever a command did not leave behind half done is as it was meant;   *)
(* whatever was set since the last save aside, it is in the flash.         *)
RamIsMeant  == \A f \in Fields \ stray : ram[f] = meant[f]
FlashIsRam  == \A f \in Fields \ unsaved : flash[f] = ram[f]
AnswerIsRam == told.how = "GET" => told.answer = Gets(told.node, ram)

ApiInv == ApiTypes /\ RamIsMeant /\ FlashIsRam /\ AnswerIsRam

-----------------------------------------------------------------------------
LEMMA FieldsAre ==
    Fields = {"sntp", "manual", "trend", "protect", "threshold", "iMax", "vMax", "servers",
              "schedule", "server", "host", "token", "url", "port"}
  BY DEF Fields, Clean

LEMMA CleanStored == Stored(Clean)
<1>1. Clean = [f \in Fields |-> Clean[f]]
  BY DEF Clean, Fields
<1>2. Clean.servers = [i \in 1..MAX_SNTP_SERVER_NUM |-> Clean.servers[i]]
  BY DEF Clean, MAX_SNTP_SERVER_NUM
<1>3. \A i \in 1..MAX_SNTP_SERVER_NUM : Clean.servers[i] # "long"
  BY DEF Clean, MAX_SNTP_SERVER_NUM
<1>4. Clean.threshold \in MIN_CURRENT_THRESHOLD..MAX_CURRENT_THRESHOLD /\ Clean.port \in 1..MAX_TCP_PORT
  BY DEF Clean, MIN_CURRENT_THRESHOLD, MAX_CURRENT_THRESHOLD, MAX_TCP_PORT
<1>5. (\A f \in Flags : Clean[f] \in {0, 1}) /\ \A f \in Texts : Clean[f] # "long"
  BY DEF Clean, Flags, Texts
<1> QED
  BY <1>1, <1>2, <1>3, <1>4, <1>5 DEF Stored

LEMMA NodesAre == Nodes = 1..25
  BY DEF Nodes, espCgiApiNodes

LEMMA ConfigResetIs == ConfigReset = 10
<1>1. \A i \in 1..25 : espCgiApiNodes[i][1] = "config" /\ espCgiApiNodes[i][2] = "reset" <=> i = 10
  BY DEF espCgiApiNodes
<1> QED
  BY <1>1, NodesAre DEF ConfigReset, NodeOf

LEMMA UpgradeResetIs == UpgradeReset = 25
<1>1. \A i \in 1..25 : espCgiApiNodes[i][1] = "upgrade" /\ espCgiApiNodes[i][2] = "reset" <=> i = 25
  BY DEF espCgiApiNodes
<1> QED
  BY <1>1, NodesAre DEF UpgradeReset, NodeOf

LEMMA RebootIs == Reboot = 11
<1>1. \A i \in 1..25 : espCgiApiNodes[i][1] = "config" /\ espCgiApiNodes[i][2] = "reboot" <=> i = 11
  BY DEF espCgiApiNodes
<1> QED
  BY <1>1, NodesAre DEF Reboot, NodeOf

LEMMA Found ==
  ASSUME NEW file \in Files, NEW command \in Commands
  PROVE  \/ Find[<<file, command>>] = NotFound
         \/ /\ Find[<<file, command>>] \in Nodes
            /\ espCgiApiNodes[Find[<<file, command>>]][1] = file
            /\ espCgiApiNodes[Find[<<file, command>>]][2] = command
<1> DEFINE call == <<file, command>>
           found == {i \in Nodes : MatchesNode(espCgiApiNodes[i], call[1], call[2])}
<1>1. Find[call] = IF found = {} THEN NotFound ELSE CHOOSE i \in found : \A j \in found : i <= j
  <2>1. call \in Files \X Commands
    OBVIOUS
  <2> QED
    BY <2>1, Zenon DEF Find
<1>2. CASE found = {}
  BY <1>1, <1>2
<1>3. CASE found # {}
  <2>1. found \in SUBSET (1..25)
    BY NodesAre
  <2>2. \E i \in found : \A j \in found : i <= j
    <3>1. found \in SUBSET Nat
      BY <2>1
    <3> QED
      BY <1>3, <3>1, LeastNat
  <2>3. Find[<<file, command>>] \in found
    BY <1>1, <1>3, <2>2
  <2> QED
    BY <2>3 DEF MatchesNode
<1> QED
  BY <1>2, <1>3

-----------------------------------------------------------------------------
(* What a set function does to parameters that are in order: it changes    *)
(* only the ones its command is for, leaves them in order, saves only what *)
(* it will answer for, and starts an upgrade only with what it has set.    *)
Body(body) == body \in {NotJson, NoSet} \/ WellTyped(body)

Starts(s) ==
    /\ s.ok /\ ~s.saves
    /\ s.then.upgrades = plug.upgrades \cup {UpgradeTask(s.ram, plug.bin)}

MeantBy(s, own) ==
    /\ Stored(s.ram) /\ Plug(s.then)
    /\ s.saves \in BOOLEAN /\ s.ok \in BOOLEAN /\ (s.saves => s.ok)
    /\ \A f \in Fields \ own : s.ram[f] = ram[f]
    /\ s.then.bin = plug.bin
    /\ s.then.upgrades # plug.upgrades => Starts(s) /\ {"server", "port", "host", "token", "url"} \subseteq own

LEMMA StoredExcept ==
  ASSUME NEW r, Stored(r), NEW f \in Fields, NEW v
  PROVE  /\ [r EXCEPT ![f] = v] = [g \in Fields |-> IF g = f THEN v ELSE r[g]]
         /\ \/ f \in Flags /\ v \in {0, 1}
            \/ f = "threshold" /\ v \in MIN_CURRENT_THRESHOLD..MAX_CURRENT_THRESHOLD
            \/ f = "port" /\ v \in 1..MAX_TCP_PORT
            \/ f \in Texts /\ v # "long"
            \/ f \in {"schedule", "iMax", "vMax"}
            => Stored([r EXCEPT ![f] = v])
<1> DEFINE n == [g \in Fields |-> IF g = f THEN v ELSE r[g]]
<1>1. [r EXCEPT ![f] = v] = n
  <2>1. r = [g \in Fields |-> r[g]]
    BY DEF Stored
  <2> QED
    BY <2>1
<1>2. ASSUME \/ f \in Flags /\ v \in {0, 1}
             \/ f = "threshold" /\ v \in MIN_CURRENT_THRESHOLD..MAX_CURRENT_THRESHOLD
             \/ f = "port" /\ v \in 1..MAX_TCP_PORT
             \/ f \in Texts /\ v # "long"
             \/ f \in {"schedule", "iMax", "vMax"}
      PROVE  Stored(n)
  <2>1. n = [g \in Fields |-> n[g]]
    OBVIOUS
  <2>2. \A g \in Fields : n[g] = IF g = f THEN v ELSE r[g]
    OBVIOUS
  <2> HIDE DEF n
  <2>3. /\ \A g \in Flags : n[g] \in {0, 1}
        /\ n.threshold \in MIN_CURRENT_THRESHOLD..MAX_CURRENT_THRESHOLD
        /\ n.servers = r.servers
        /\ \A g \in Texts : n[g] # "long"
        /\ n.port \in 1..MAX_TCP_PORT
    BY <1>2, <2>2, FieldsAre DEF Stored, Flags, Texts
  <2> QED
    BY <2>1, <2>3 DEF Stored
<1> QED
  BY <1>1, <1>2

LEMMA ServersExcept ==
  ASSUME NEW r, Stored(r), NEW i \in 1..MAX_SNTP_SERVER_NUM, NEW v, v # "long"
  PROVE  /\ Stored([r EXCEPT !.servers[i] = v])
         /\ \A f \in Fields \ {"servers"} : [r EXCEPT !.servers[i] = v][f] = r[f]
<1> DEFINE w == [r.servers EXCEPT ![i] = v]
           n == [g \in Fields |-> IF g = "servers" THEN w ELSE r[g]]
<1>1. [r EXCEPT !.servers[i] = v] = n
  <2>1. r = [g \in Fields |-> r[g]] /\ "servers" \in Fields
    BY FieldsAre DEF Stored
  <2> QED
    BY <2>1
<1>2. w = [j \in 1..MAX_SNTP_SERVER_NUM |-> w[j]] /\ \A j \in 1..MAX_SNTP_SERVER_NUM : w[j] # "long"
  BY DEF Stored
<1>3. \A g \in Fields : n[g] = IF g = "servers" THEN w ELSE r[g]
  OBVIOUS
<1>4. n = [g \in Fields |-> n[g]]
  OBVIOUS
<1> HIDE DEF n, w
<1> QED
  BY <1>1, <1>2, <1>3, <1>4, FieldsAre DEF Stored, Flags, Texts

LEMMA ReturnsMeant == ASSUME Stored(ram), Plug(plug), NEW own PROVE MeantBy(Returns(ram), own)
  BY DEF MeantBy, Returns

LEMMA FlagMeant ==
  ASSUME Stored(ram), Plug(plug), NEW body, Body(body), NEW flag \in Flags,
         NEW timer \in {"none", "protecting", "trending"}
  PROVE  MeantBy(FlagSet(body, flag, timer), {flag})
<1>1. CASE ~(Has(body, "enable") /\ body["enable"].type = "number")
  BY <1>1, ReturnsMeant DEF FlagSet
<1>2. CASE Has(body, "enable") /\ body["enable"].type = "number"
  <2> DEFINE bit   == valueint(body["enable"]) % 2
             after == IF timer = "none" THEN plug ELSE [plug EXCEPT ![timer] = bit = 1]
  <2>1. bit \in {0, 1}
    <3>1. valueint(body["enable"]) \in Int
      BY <1>2 DEF Body, Has, WellTyped, valueint, TextNames, JsonNumbers, JsonTexts
    <3> QED
      BY <3>1
  <2>2. flag \in Fields
    BY FieldsAre DEF Flags
  <2>3. /\ Stored([ram EXCEPT ![flag] = bit])
        /\ [ram EXCEPT ![flag] = bit] = [g \in Fields |-> IF g = flag THEN bit ELSE ram[g]]
    BY <2>1, <2>2, StoredExcept
  <2>4. Plug(after) /\ after.upgrades = plug.upgrades /\ after.bin = plug.bin
    BY DEF Plug, AtRest
  <2>5. FlagSet(body, flag, timer) = Saves([ram EXCEPT ![flag] = bit], after)
    BY <1>2 DEF FlagSet
  <2> HIDE DEF bit, after
  <2> QED
    BY <2>2, <2>3, <2>4, <2>5 DEF MeantBy, Saves
<1> QED
  BY <1>1, <1>2

LEMMA ThresholdMeant ==
  ASSUME Stored(ram), Plug(plug), NEW body, Body(body)
  PROVE  MeantBy(current_threshold_set(body), {"threshold"})
<1> DEFINE n == valueint(body["current_threshold"])
<1>1. CASE ~(Has(body, "current_threshold") /\ InRange(n))
  BY <1>1, ReturnsMeant DEF current_threshold_set
<1>2. CASE Has(body, "current_threshold") /\ InRange(n)
  <2>1. n \in Int
    BY <1>2 DEF Body, Has, WellTyped, valueint, TextNames, JsonNumbers, JsonTexts
  <2>2. n \in MIN_CURRENT_THRESHOLD..MAX_CURRENT_THRESHOLD
    BY <1>2, <2>1 DEF InRange, MIN_CURRENT_THRESHOLD, MAX_CURRENT_THRESHOLD
  <2>3. current_threshold_set(body) = Saves([ram EXCEPT !.threshold = n], plug)
    BY <1>2 DEF current_threshold_set
  <2> HIDE DEF n
  <2>4. /\ Stored([ram EXCEPT !.threshold = n])
        /\ [ram EXCEPT !.threshold = n] = [g \in Fields |-> IF g = "threshold" THEN n ELSE ram[g]]
    BY <2>2, FieldsAre, StoredExcept
  <2> QED
    BY <2>3, <2>4 DEF MeantBy, Saves
<1> QED
  BY <1>1, <1>2

LEMMA SntpMeant ==
  ASSUME Stored(ram), Plug(plug), NEW body, Body(body)
  PROVE  MeantBy(sntp_set(body), {"sntp", "servers"})
<1> DEFINE index == valueint(body["index"]) + 1
           url   == body["url"].text
           bit   == valueint(body["enable"])
<1>1. CASE Has(body, "sntp") /\ Has(body, "index") /\ index \in 1..MAX_SNTP_SERVER_NUM
           /\ Has(body, "url") /\ url # "long"
  <2>1. sntp_set(body) = Saves([ram EXCEPT !.servers[index] = url], plug)
    BY <1>1 DEF sntp_set
  <2> HIDE DEF index, url
  <2>2. /\ Stored([ram EXCEPT !.servers[index] = url])
        /\ \A f \in Fields \ {"servers"} : [ram EXCEPT !.servers[index] = url][f] = ram[f]
    BY <1>1, ServersExcept
  <2> QED
    BY <2>1, <2>2 DEF MeantBy, Saves
<1>2. CASE ~Has(body, "sntp") /\ Has(body, "enable") /\ bit \in {0, 1}
  <2>1. sntp_set(body) = Saves([ram EXCEPT !.sntp = bit], plug)
    BY <1>2 DEF sntp_set
  <2> HIDE DEF bit
  <2>2. /\ Stored([ram EXCEPT !.sntp = bit])
        /\ [ram EXCEPT !.sntp = bit] = [g \in Fields |-> IF g = "sntp" THEN bit ELSE ram[g]]
    BY <1>2, FieldsAre, StoredExcept DEF Flags
  <2> QED
    BY <2>1, <2>2 DEF MeantBy, Saves
<1>3. CASE sntp_set(body) = Returns(ram)
  BY <1>3, ReturnsMeant
<1> QED
  <2>1. sntp_set(body) = Returns(ram) \/ Has(body, "sntp") \/ (~Has(body, "sntp") /\ Has(body, "enable"))
    BY DEF sntp_set
  <2>2. CASE Has(body, "sntp")
    BY <1>1, <1>3, <2>2 DEF sntp_set
  <2>3. CASE ~Has(body, "sntp") /\ Has(body, "enable")
    BY <1>2, <1>3, <2>3 DEF sntp_set
  <2> QED
    BY <1>3, <2>1, <2>2, <2>3

LEMMA NumberKept ==
  ASSUME NEW r, Stored(r), NEW field \in {"iMax", "vMax"}, NEW v
  PROVE  /\ Stored(WithNumber(r, field, v))
         /\ \A f \in Fields \ {field} : WithNumber(r, field, v)[f] = r[f]
<1>1. field \in Fields
  BY FieldsAre
<1>2. CASE v.type = "number"
  <2>1. /\ Stored([r EXCEPT ![field] = v.number])
        /\ [r EXCEPT ![field] = v.number] = [g \in Fields |-> IF g = field THEN v.number ELSE r[g]]
    BY <1>1, StoredExcept
  <2> QED
    BY <1>2, <2>1 DEF WithNumber
<1>3. CASE v.type # "number"
  BY <1>3 DEF WithNumber
<1> QED
  BY <1>2, <1>3

LEMMA CalibMeant ==
  ASSUME Stored(ram), Plug(plug), NEW body
  PROVE  MeantBy(cs5463_calib_set(body), {"iMax", "vMax"})
<1> DEFINE i == WithNumber(ram, "iMax", body["I_Max"])
           v == WithNumber(i, "vMax", body["V_Max"])
<1>1. Stored(i) /\ \A f \in Fields \ {"iMax"} : i[f] = ram[f]
  BY NumberKept
<1>2. Stored(v) /\ \A f \in Fields \ {"vMax"} : v[f] = i[f]
  BY <1>1, NumberKept
<1>3. cs5463_calib_set(body) \in {Returns(ram), Returns(i), Saves(v, plug)}
  <2>1. CASE ~Has(body, "I_Max")
    BY <2>1 DEF cs5463_calib_set
  <2>2. CASE Has(body, "I_Max") /\ ~Has(body, "V_Max")
    BY <2>2 DEF cs5463_calib_set
  <2>3. CASE Has(body, "I_Max") /\ Has(body, "V_Max")
    BY <2>3 DEF cs5463_calib_set
  <2> QED
    BY <2>1, <2>2, <2>3
<1> HIDE DEF i, v
<1>4. MeantBy(Returns(i), {"iMax", "vMax"})
  BY <1>1 DEF MeantBy, Returns
<1>5. MeantBy(Saves(v, plug), {"iMax", "vMax"})
  BY <1>1, <1>2 DEF MeantBy, Saves
<1> QED
  BY <1>3, <1>4, <1>5, ReturnsMeant

LEMMA ScheduleMeant ==
  ASSUME Stored(ram), Plug(plug), NEW body
  PROVE  MeantBy(relay_schedule_set(body), {"schedule"})
<1>1. ASSUME NEW text PROVE MeantBy(Saves([ram EXCEPT !.schedule = text], plug), {"schedule"})
  <2>1. /\ Stored([ram EXCEPT !.schedule = text])
        /\ [ram EXCEPT !.schedule = text] = [g \in Fields |-> IF g = "schedule" THEN text ELSE ram[g]]
    BY FieldsAre, StoredExcept
  <2> QED
    BY <2>1 DEF MeantBy, Saves
<1>2. CASE Has(body, "reset")
  BY <1>1, <1>2 DEF relay_schedule_set
<1>3. CASE ~Has(body, "reset") /\ Has(body, "timers")
  BY <1>1, <1>3 DEF relay_schedule_set
<1>4. CASE ~Has(body, "reset") /\ ~Has(body, "timers")
  BY <1>4, ReturnsMeant DEF relay_schedule_set
<1> QED
  BY <1>2, <1>3, <1>4

LEMMA SwitchMeant ==
  ASSUME Stored(ram), Plug(plug), NEW body
  PROVE  MeantBy(switch_status_set(body), {})
<1> DEFINE status == IF valueint(body["status"]) = 1 THEN "CLOSE" ELSE "OPEN"
           after  == [plug EXCEPT !.relay = status, !.event = status]
<1>1. Plug(after) /\ after.upgrades = plug.upgrades /\ after.bin = plug.bin
  BY DEF Plug, AtRest
<1>2. switch_status_set(body) \in {Returns(ram), Does(ram, after)}
  BY DEF switch_status_set
<1> HIDE DEF after
<1>3. MeantBy(Does(ram, after), {})
  BY <1>1 DEF MeantBy, Does
<1> QED
  BY <1>2, <1>3, ReturnsMeant

LEMMA TextsKept ==
  ASSUME Stored(ram), NEW body
  PROVE  /\ Stored(WithTexts(body))
         /\ \A f \in Fields \ Texts : WithTexts(body)[f] = ram[f]
<1> DEFINE text(i, old) == IF \A j \in 1..i : Has(body, Keys[j]) THEN Kept(body[Keys[i]]) ELSE old
           n == [f \in Fields |-> CASE f = "server" -> text(1, ram.server) [] f = "host" -> text(2, ram.host)
                                    [] f = "token" -> text(3, ram.token) [] f = "url" -> text(4, ram.url)
                                    [] OTHER -> ram[f]]
<1>1. WithTexts(body) = n
  <2>1. ram = [f \in Fields |-> ram[f]]
    BY DEF Stored
  <2>2. WithTexts(body) = [ram EXCEPT !.server = text(1, @), !.host = text(2, @), !.token = text(3, @),
                                      !.url = text(4, @)]
    BY DEF WithTexts
  <2> HIDE DEF text
  <2> QED
    BY <2>1, <2>2, FieldsAre
<1>2. \A i \in 1..4 : \A old : old # "long" => text(i, old) # "long"
  <2>1. \A v : Kept(v) # "long"
    BY DEF Kept
  <2> QED
    BY <2>1
<1>3. \A f \in Texts : ram[f] # "long"
  BY DEF Stored
<1> HIDE DEF text
<1>4. \A f \in Texts : n[f] # "long"
  <2>1. n.server # "long" /\ n.host # "long" /\ n.token # "long" /\ n.url # "long"
    BY <1>2, <1>3, FieldsAre DEF Texts
  <2> QED
    BY <2>1 DEF Texts
<1>5. \A f \in Fields \ Texts : n[f] = ram[f]
  BY DEF Texts
<1>6. n = [f \in Fields |-> n[f]]
  OBVIOUS
<1> HIDE DEF n
<1>7. Stored(n)
  BY <1>4, <1>5, <1>6, FieldsAre DEF Stored, Flags, Texts
<1> QED
  BY <1>1, <1>5, <1>7

LEMMA PortKept ==
  ASSUME NEW r, Stored(r), NEW body, Body(body)
  PROVE  /\ Stored(Port(body, r))
         /\ \A f \in Fields \ {"port"} : Port(body, r)[f] = r[f]
<1> DEFINE n == valueint(body["upgrade_port"])
<1>1. CASE Has(body, "upgrade_port") /\ n \in 1..MAX_TCP_PORT
  <2>1. Port(body, r) = [r EXCEPT !.port = n]
    BY <1>1 DEF Port
  <2> HIDE DEF n
  <2>2. /\ Stored([r EXCEPT !.port = n])
        /\ [r EXCEPT !.port = n] = [g \in Fields |-> IF g = "port" THEN n ELSE r[g]]
    BY <1>1, FieldsAre, StoredExcept
  <2> QED
    BY <2>1, <2>2
<1>2. CASE ~(Has(body, "upgrade_port") /\ n \in 1..MAX_TCP_PORT)
  BY <1>2 DEF Port
<1> QED
  BY <1>1, <1>2

LEMMA UpgradeMeant ==
  ASSUME Stored(ram), Plug(plug), NEW body, Body(body)
  PROVE  MeantBy(user_upgrade_start(body), {"server", "host", "token", "url", "port"})
<1> DEFINE r == WithTexts(body)
           q == Port(body, r)
           after == user_esp_platform_upgrade_begin(q)
<1>1. Stored(r) /\ \A f \in Fields \ Texts : r[f] = ram[f]
  BY TextsKept
<1>2. Stored(q) /\ \A f \in Fields \ {"port"} : q[f] = r[f]
  BY <1>1, PortKept
<1>3. /\ Plug(after) /\ after.bin = plug.bin
      /\ after.upgrades = plug.upgrades \cup {UpgradeTask(q, plug.bin)}
  BY DEF user_esp_platform_upgrade_begin, Plug, AtRest
<1>4. user_upgrade_start(body) \in {Does(q, after), Returns(r)}
  BY DEF user_upgrade_start
<1> HIDE DEF r, q, after
<1>5. MeantBy(Returns(r), {"server", "host", "token", "url", "port"})
  BY <1>1 DEF MeantBy, Returns, Texts
<1>6. MeantBy(Does(q, after), {"server", "host", "token", "url", "port"})
  BY <1>1, <1>2, <1>3 DEF MeantBy, Does, Texts, Starts
<1> QED
  BY <1>4, <1>5, <1>6

LEMMA ResetMeant ==
  ASSUME Stored(ram), Plug(plug)
  PROVE  MeantBy(system_status_reset, Fields)
<1> DEFINE after == [plug EXCEPT !.event = "none", !.calib = FALSE]
<1>1. Plug(after) /\ after.upgrades = plug.upgrades /\ after.bin = plug.bin
  BY DEF Plug, AtRest
<1> HIDE DEF after
<1>2. MeantBy(Saves(Clean, after), Fields)
  BY <1>1, CleanStored DEF MeantBy, Saves
<1> QED
  BY <1>2 DEF system_status_reset, after

LEMMA OthersMeant ==
  ASSUME Stored(ram), Plug(plug), NEW body
  PROVE  MeantBy(debug_smart_config(body), {}) /\ MeantBy(user_upgrade_reset(body), {})
  BY DEF MeantBy, debug_smart_config, user_upgrade_reset, Does, Returns

LEMMA SetNodes ==
  ASSUME NEW i \in Nodes, HasSet(i), i # Reboot
  PROVE  i \in (1..10) \cup {24, 25}
<1>1. i \in 1..25 /\ i # 11 /\ "set" \in espCgiApiNodes[i][3] /\ i # NotFound
  BY NodesAre, RebootIs DEF HasSet, NotFound
<1>2. \A j \in 12..23 : "set" \notin espCgiApiNodes[j][3]
  BY DEF espCgiApiNodes
<1>3. i \notin 12..23
  BY <1>1, <1>2
<1> QED
  BY <1>1, <1>3

(* Each command owns what its set function may change.                     *)
LEMMA SetsMeant ==
  ASSUME Stored(ram), Plug(plug), NEW file \in Files, NEW command \in Commands, NEW body, Body(body),
         HasSet(Find[<<file, command>>]), Find[<<file, command>>] # Reboot
  PROVE  MeantBy(Sets(Find[<<file, command>>], body), Owns(file, command))
<1> DEFINE i == Find[<<file, command>>]
<1>1. i \in (1..10) \cup {24, 25} /\ espCgiApiNodes[i][1] = file /\ espCgiApiNodes[i][2] = command
  BY Found, SetNodes DEF HasSet
<1> HIDE DEF i
<1>2. CASE i = 1
  <2>1. file = "config" /\ command = "switch"
    BY <1>1, <1>2 DEF espCgiApiNodes
  <2>2. Sets(i, body) = switch_status_set(body)
    BY <1>1, <1>2, <2>1, ConfigResetIs, UpgradeResetIs DEF Sets
  <2>3. Owns(file, command) = {}
    BY <2>1 DEF Owns
  <2> QED
    BY <2>2, <2>3, SwitchMeant DEF i
<1>3. CASE i = 2
  <2>1. file = "config" /\ command = "manual"
    BY <1>1, <1>3 DEF espCgiApiNodes
  <2>2. Sets(i, body) = manual_enable_set(body)
    BY <1>1, <1>3, <2>1, ConfigResetIs, UpgradeResetIs DEF Sets
  <2>3. Owns(file, command) = {"manual"}
    BY <2>1 DEF Owns
  <2> QED
    BY <2>2, <2>3, FlagMeant DEF Flags, manual_enable_set, i
<1>4. CASE i = 3
  <2>1. file = "config" /\ command = "debug"
    BY <1>1, <1>4 DEF espCgiApiNodes
  <2>2. Sets(i, body) = debug_smart_config(body)
    BY <1>1, <1>4, <2>1, ConfigResetIs, UpgradeResetIs DEF Sets
  <2>3. Owns(file, command) = {}
    BY <2>1 DEF Owns
  <2> QED
    BY <2>2, <2>3, OthersMeant DEF i
<1>5. CASE i = 4
  <2>1. file = "config" /\ command = "schedule"
    BY <1>1, <1>5 DEF espCgiApiNodes
  <2>2. Sets(i, body) = relay_schedule_set(body)
    BY <1>1, <1>5, <2>1, ConfigResetIs, UpgradeResetIs DEF Sets
  <2>3. Owns(file, command) = {"schedule"}
    BY <2>1 DEF Owns
  <2> QED
    BY <2>2, <2>3, ScheduleMeant DEF i
<1>6. CASE i = 5
  <2>1. file = "config" /\ command = "threshold"
    BY <1>1, <1>6 DEF espCgiApiNodes
  <2>2. Sets(i, body) = current_threshold_set(body)
    BY <1>1, <1>6, <2>1, ConfigResetIs, UpgradeResetIs DEF Sets
  <2>3. Owns(file, command) = {"threshold"}
    BY <2>1 DEF Owns
  <2> QED
    BY <2>2, <2>3, ThresholdMeant DEF i
<1>7. CASE i = 6
  <2>1. file = "config" /\ command = "trendenable"
    BY <1>1, <1>7 DEF espCgiApiNodes
  <2>2. Sets(i, body) = trend_enable_set(body)
    BY <1>1, <1>7, <2>1, ConfigResetIs, UpgradeResetIs DEF Sets
  <2>3. Owns(file, command) = {"trend"}
    BY <2>1 DEF Owns
  <2> QED
    BY <2>2, <2>3, FlagMeant DEF Flags, trend_enable_set, i
<1>8. CASE i = 7
  <2>1. file = "config" /\ command = "protectenable"
    BY <1>1, <1>8 DEF espCgiApiNodes
  <2>2. Sets(i, body) = protect_enable_set(body)
    BY <1>1, <1>8, <2>1, ConfigResetIs, UpgradeResetIs DEF Sets
  <2>3. Owns(file, command) = {"protect"}
    BY <2>1 DEF Owns
  <2> QED
    BY <2>2, <2>3, FlagMeant DEF Flags, protect_enable_set, i
<1>9. CASE i = 8
  <2>1. file = "config" /\ command = "sntp"
    BY <1>1, <1>9 DEF espCgiApiNodes
  <2>2. Sets(i, body) = sntp_set(body)
    BY <1>1, <1>9, <2>1, ConfigResetIs, UpgradeResetIs DEF Sets
  <2>3. Owns(file, command) = {"sntp", "servers"}
    BY <2>1 DEF Owns
  <2> QED
    BY <2>2, <2>3, SntpMeant DEF i
<1>10. CASE i = 9
  <2>1. file = "config" /\ command = "calib"
    BY <1>1, <1>10 DEF espCgiApiNodes
  <2>2. Sets(i, body) = cs5463_calib_set(body)
    BY <1>1, <1>10, <2>1, ConfigResetIs, UpgradeResetIs DEF Sets
  <2>3. Owns(file, command) = {"iMax", "vMax"}
    BY <2>1 DEF Owns
  <2> QED
    BY <2>2, <2>3, CalibMeant DEF i
<1>11. CASE i = 10
  <2>1. file = "config" /\ command = "reset"
    BY <1>1, <1>11 DEF espCgiApiNodes
  <2>2. Sets(i, body) = system_status_reset
    BY <1>1, <1>11, <2>1, ConfigResetIs, UpgradeResetIs DEF Sets
  <2>3. Owns(file, command) = Fields
    BY <2>1 DEF Owns
  <2> QED
    BY <2>2, <2>3, ResetMeant DEF i
<1>12. CASE i = 24
  <2>1. file = "upgrade" /\ command = "start"
    BY <1>1, <1>12 DEF espCgiApiNodes
  <2>2. Sets(i, body) = user_upgrade_start(body)
    BY <1>1, <1>12, <2>1, ConfigResetIs, UpgradeResetIs DEF Sets
  <2>3. Owns(file, command) = {"server", "host", "token", "url", "port"}
    BY <2>1 DEF Owns
  <2> QED
    BY <2>2, <2>3, UpgradeMeant DEF i
<1>13. CASE i = 25
  <2>1. file = "upgrade" /\ command = "reset"
    BY <1>1, <1>13 DEF espCgiApiNodes
  <2>2. Sets(i, body) = user_upgrade_reset(body)
    BY <1>1, <1>13, <2>1, ConfigResetIs, UpgradeResetIs DEF Sets
  <2>3. Owns(file, command) = {}
    BY <2>1 DEF Owns
  <2> QED
    BY <2>2, <2>3, OthersMeant DEF i
<1> QED
  BY <1>1, <1>2, <1>3, <1>4, <1>5, <1>6, <1>7, <1>8, <1>9, <1>10, <1>11, <1>12, <1>13 DEF i

-----------------------------------------------------------------------------
LEMMA ApiStart == ApiInit => ApiInv
<1>1. Plug(AtRest)
  BY DEF Plug, AtRest
<1>2. Clean = [f \in Fields |-> Clean[f]]
  BY CleanStored DEF Stored
<1> QED
  BY <1>1, <1>2, CleanStored
  DEF ApiInit, ApiInv, ApiTypes, RamIsMeant, FlashIsRam, AnswerIsRam, NothingTold, Told

(* What a step does to the upgrades that run. *)
UpgradeStep ==
    \/ plug'.upgrades \subseteq plug.upgrades
    \/ /\ plug'.bin = plug.bin
       /\ plug'.upgrades = plug.upgrades \cup {UpgradeTask(meant', plug.bin)}

(* A POST, whether it does what it says, fails or is too late to save.     *)
LEMMA PostKeeps ==
  ASSUME ApiInv, NEW file \in Files, NEW command \in Commands, NEW body, Body(body), NEW busy \in BOOLEAN,
         Post(file, command, body, busy)
  PROVE  ApiInv' /\ UpgradeStep
<1> DEFINE i    == Find[<<file, command>>]
           s    == IF busy /\ i = ConfigReset THEN Returns(ram) ELSE Sets(i, body)
           own  == Owns(file, command)
           done == s.saves /\ ~busy
           ok   == s.ok /\ ~busy
           changed == {f \in Fields : s.ram[f] # ram[f]}
<1>1. MeantBy(s, own)
  BY SetsMeant, ReturnsMeant DEF Post, ApiInv, ApiTypes
<1>2. /\ ram' = s.ram
      /\ flash' = IF done THEN s.ram ELSE flash
      /\ plug' = IF busy THEN plug ELSE s.then
      /\ told'.how = "POST"
      /\ meant' = [f \in Fields |-> IF ok /\ f \in own THEN s.ram[f] ELSE meant[f]]
      /\ stray' = IF ok THEN stray \ own ELSE stray \cup (changed \cap own)
      /\ unsaved' = IF ok /\ s.saves THEN {} ELSE unsaved \cup changed
  BY DEF Post, Saved, Remembers, Told
<1> HIDE DEF s, own
<1>3. ApiTypes'
  <2>1. Stored(ram)' /\ Stored(flash)' /\ Plug(plug)'
    <3>1. Stored(s.ram) /\ Plug(s.then) /\ Stored(flash) /\ Plug(plug)
      BY <1>1 DEF MeantBy, ApiInv, ApiTypes
    <3>2. Stored(ram')
      BY <1>2, <3>1
    <3>3. Stored(flash')
      BY <1>2, <3>1
    <3>4. Plug(plug')
      BY <1>2, <3>1
    <3> QED
      BY <3>2, <3>3, <3>4 DEF Stored, Plug
  <2>2. meant' = [f \in Fields |-> meant'[f]]
    BY <1>2
  <2>3. stray' \subseteq Fields /\ unsaved' \subseteq Fields
    BY <1>2 DEF ApiInv, ApiTypes
  <2> QED
    BY <2>1, <2>2, <2>3 DEF ApiTypes
<1>4. RamIsMeant'
  <2> SUFFICES ASSUME NEW f \in Fields, f \notin stray' PROVE ram'[f] = meant'[f]
    BY DEF RamIsMeant
  <2>1. CASE ok /\ f \in own
    BY <1>2, <2>1
  <2>2. CASE f \notin own
    BY <1>1, <1>2, <2>2 DEF MeantBy, ApiInv, RamIsMeant
  <2>3. CASE ~ok /\ f \in own
    <3>1. s.ram[f] = ram[f] /\ f \notin stray
      BY <1>2, <2>3
    <3> QED
      BY <1>2, <2>3, <3>1 DEF ApiInv, RamIsMeant
  <2> QED
    BY <2>1, <2>2, <2>3
<1>5. FlashIsRam'
  <2> SUFFICES ASSUME NEW f \in Fields, f \notin unsaved' PROVE flash'[f] = ram'[f]
    BY DEF FlashIsRam
  <2>1. CASE done
    BY <1>2, <2>1
  <2>2. CASE ~done
    <3>1. unsaved' = unsaved \cup changed
      BY <1>1, <1>2, <2>2 DEF MeantBy
    <3>2. s.ram[f] = ram[f] /\ f \notin unsaved
      BY <3>1
    <3> QED
      BY <1>2, <2>2, <3>2 DEF ApiInv, FlashIsRam
  <2> QED
    BY <2>1, <2>2
<1>6. AnswerIsRam'
  BY <1>2 DEF AnswerIsRam
<1>7. ASSUME plug'.upgrades # plug.upgrades
      PROVE  plug'.bin = plug.bin /\ plug'.upgrades = plug.upgrades \cup {UpgradeTask(meant', plug.bin)}
  <2>1. ~busy /\ plug' = s.then
    BY <1>2, <1>7
  <2>2. Starts(s) /\ {"server", "port", "host", "token", "url"} \subseteq own
    BY <1>1, <1>7, <2>1 DEF MeantBy
  <2>3. \A f \in {"server", "port", "host", "token", "url"} : meant'[f] = s.ram[f]
    BY <1>2, <2>1, <2>2, FieldsAre DEF Starts
  <2> QED
    BY <1>1, <2>1, <2>2, <2>3 DEF Starts, UpgradeTask, MeantBy
<1> QED
  BY <1>3, <1>4, <1>5, <1>6, <1>7 DEF ApiInv, UpgradeStep

(* A restart: what was not saved is gone, and everything that was is there. *)
LEMMA RestartKeeps ==
  ASSUME ApiInv, NEW bin \in {"user1", "user2"}, systemInit(bin), told' = NothingTold
  PROVE  ApiInv' /\ plug'.upgrades = {}
<1>1. /\ ram' = flash /\ flash' = flash /\ stray' = stray /\ unsaved' = {}
      /\ plug' = [AtRest EXCEPT !.bin = bin, !.protecting = flash.protect = 1, !.trending = flash.trend = 1]
      /\ meant' = [f \in Fields |-> IF f \in unsaved THEN flash[f] ELSE meant[f]]
  BY DEF systemInit
<1>2. Plug(plug') /\ plug'.upgrades = {}
  BY <1>1 DEF Plug, AtRest
<1>3. ApiTypes'
  <2>1. Stored(ram') /\ Stored(flash')
    BY <1>1 DEF ApiInv, ApiTypes
  <2>2. meant' = [f \in Fields |-> meant'[f]] /\ stray' \subseteq Fields /\ unsaved' \subseteq Fields
    BY <1>1 DEF ApiInv, ApiTypes
  <2> QED
    BY <1>2, <2>1, <2>2 DEF ApiTypes, Stored, Plug
<1>4. RamIsMeant'
  BY <1>1 DEF ApiInv, RamIsMeant, FlashIsRam
<1>5. FlashIsRam' /\ AnswerIsRam'
  BY <1>1 DEF FlashIsRam, AnswerIsRam, NothingTold, Told
<1> QED
  BY <1>2, <1>3, <1>4, <1>5 DEF ApiInv

(* What leaves the parameters alone. *)
LEMMA UntouchedKeeps ==
  ASSUME ApiInv, UNCHANGED <<ram, flash, apihist>>, Plug(plug)', AnswerIsRam'
  PROVE  ApiInv'
<1>1. ApiTypes'
  BY DEF ApiInv, ApiTypes, apihist, Stored
<1>2. RamIsMeant' /\ FlashIsRam'
  BY DEF ApiInv, RamIsMeant, FlashIsRam, apihist
<1> QED
  BY <1>1, <1>2 DEF ApiInv

LEMMA CallKeeps == ASSUME ApiInv, told.how # "GET", cgiEspApi PROVE ApiInv' /\ UpgradeStep
<1>1. PICK call \in Calls :
          \/ \E body \in Bodies[call[2]], busy \in BOOLEAN : Post(call[1], call[2], body, busy)
          \/ Get(call[1], call[2])
          \/ NothingDone(call[1], call[2])
          \/ Restarts(call[1], call[2])
  BY DEF cgiEspApi
<1>2. call[1] \in Files /\ call[2] \in Commands /\ call \in Calls
  BY ApiAssumption
<1>3. CASE \E body \in Bodies[call[2]], busy \in BOOLEAN : Post(call[1], call[2], body, busy)
  <2>1. PICK body \in Bodies[call[2]], busy \in BOOLEAN : Post(call[1], call[2], body, busy)
    BY <1>3
  <2>2. Body(body)
    BY ApiAssumption DEF Body
  <2> QED
    BY <1>2, <2>1, <2>2, PostKeeps DEF UpgradeStep
<1>4. CASE Get(call[1], call[2])
  <2>1. AnswerIsRam' /\ UNCHANGED <<ram, flash, plug, apihist>>
    BY <1>4 DEF Get, AnswerIsRam, Told, Gets, switch_status_get, user_plug_get_status, manual_enable_get,
       relay_schedule_get, current_threshold_get, trend_enable_get, protect_enable_get, sntp_get,
       cs5463_calib_get, update_url_get, user_binfo_get, event_history_get
  <2>2. Plug(plug)'
    BY <2>1 DEF ApiInv, ApiTypes, Plug
  <2> QED
    BY <2>1, <2>2, UntouchedKeeps DEF UpgradeStep
<1>5. CASE NothingDone(call[1], call[2])
  <2>1. AnswerIsRam' /\ UNCHANGED <<ram, flash, plug, apihist>>
    BY <1>5 DEF NothingDone, AnswerIsRam, Told
  <2>2. Plug(plug)'
    BY <2>1 DEF ApiInv, ApiTypes, Plug
  <2> QED
    BY <2>1, <2>2, UntouchedKeeps DEF UpgradeStep
<1>6. CASE Restarts(call[1], call[2])
  BY <1>6, RestartKeeps DEF Restarts, UpgradeStep, ApiInv, ApiTypes, Plug
<1> QED
  BY <1>1, <1>3, <1>4, <1>5, <1>6

(* The button, the calibration, the end of an upgrade and a loss of power. *)
LEMMA BetweenKeeps ==
  ASSUME ApiInv, Taken \/ ShortPress \/ CalibBegins \/ CalibEnds \/ UpgradeEnds \/ PowerCycle
  PROVE  ApiInv' /\ UpgradeStep
<1>1. CASE Taken
  <2>1. AnswerIsRam' /\ UNCHANGED <<ram, flash, plug, apihist>>
    BY <1>1 DEF Taken, AnswerIsRam, NothingTold, Told
  <2>2. Plug(plug)'
    BY <2>1 DEF ApiInv, ApiTypes, Plug
  <2> QED
    BY <2>1, <2>2, UntouchedKeeps DEF UpgradeStep
<1>2. CASE ShortPress \/ CalibBegins
  <2>1. AnswerIsRam' /\ UNCHANGED <<ram, flash, apihist>>
    BY <1>2 DEF ShortPress, CalibBegins, AnswerIsRam, NothingTold, Told
  <2>2. Plug(plug') /\ plug'.upgrades = plug.upgrades
    <3>1. CASE ShortPress
      <4>1. \E v : plug' = [plug EXCEPT !.relay = v, !.event = v]
        BY <3>1 DEF ShortPress
      <4> QED
        BY <4>1 DEF ApiInv, ApiTypes, Plug, AtRest
    <3>2. CASE CalibBegins
      BY <3>2 DEF CalibBegins, ApiInv, ApiTypes, Plug, AtRest
    <3> QED
      BY <1>2, <3>1, <3>2
  <2>3. Plug(plug)'
    BY <2>2 DEF Plug
  <2> QED
    BY <2>1, <2>2, <2>3, UntouchedKeeps DEF UpgradeStep
<1>3. CASE CalibEnds
  <2>1. /\ Plug(plug)' /\ plug'.upgrades = plug.upgrades
        /\ AnswerIsRam' /\ UNCHANGED <<ram, meant, stray>>
        /\ flash' = ram /\ unsaved' = {}
    BY <1>3 DEF ApiInv, ApiTypes, Plug, AtRest, CalibEnds, AnswerIsRam, NothingTold, Told
  <2>2. ApiTypes'
    <3>1. Stored(ram') /\ Stored(flash')
      BY <2>1 DEF ApiInv, ApiTypes
    <3> QED
      BY <2>1, <3>1 DEF ApiInv, ApiTypes, Stored
  <2>3. RamIsMeant' /\ FlashIsRam'
    BY <2>1 DEF ApiInv, RamIsMeant, FlashIsRam
  <2> QED
    BY <2>1, <2>2, <2>3 DEF ApiInv, UpgradeStep
<1>4. CASE UpgradeEnds
  <2>1. CASE systemInit(OtherBin(plug.bin))
    BY <1>4, <2>1, RestartKeeps DEF UpgradeEnds, OtherBin, UpgradeStep
  <2>2. ASSUME NEW task \in plug.upgrades, plug' \in {plug, [plug EXCEPT !.upgrades = @ \ {task}]},
               UNCHANGED <<ram, flash, apihist>>
        PROVE  ApiInv' /\ UpgradeStep
    <3>1. Plug(plug)' /\ plug'.upgrades \subseteq plug.upgrades
      BY <2>2 DEF ApiInv, ApiTypes, Plug, AtRest
    <3>2. AnswerIsRam'
      BY <1>4 DEF UpgradeEnds, AnswerIsRam, NothingTold, Told
    <3> QED
      BY <2>2, <3>1, <3>2, UntouchedKeeps DEF UpgradeStep
  <2> QED
    BY <1>4, <2>1, <2>2 DEF UpgradeEnds
<1>5. CASE PowerCycle
  BY <1>5, RestartKeeps DEF PowerCycle, UpgradeStep, ApiInv, ApiTypes, Plug
<1> QED
  BY <1>1, <1>2, <1>3, <1>4, <1>5

LEMMA ApiStep == ASSUME ApiInv, [Api]_apivars PROVE ApiInv' /\ (UNCHANGED apivars \/ UpgradeStep)
<1>1. CASE UNCHANGED apivars
  <2>1. AnswerIsRam' /\ UNCHANGED <<ram, flash, plug, apihist>>
    BY <1>1 DEF apivars, ApiInv, AnswerIsRam, Gets, switch_status_get, user_plug_get_status,
       manual_enable_get, relay_schedule_get, current_threshold_get, trend_enable_get,
       protect_enable_get, sntp_get, cs5463_calib_get, update_url_get, user_binfo_get, event_history_get
  <2>2. Plug(plug)'
    BY <2>1 DEF ApiInv, ApiTypes, Plug
  <2> QED
    BY <1>1, <2>1, <2>2, UntouchedKeeps
<1>2. CASE Api
  BY <1>2, CallKeeps, BetweenKeeps DEF Api
<1> QED
  BY <1>1, <1>2

LEMMA ApiInvariant == ApiSpec => []ApiInv
<1>1. ApiInv /\ [Api]_apivars => ApiInv'
  BY ApiStep
<1> QED
  BY ApiStart, <1>1, PTL DEF ApiSpec

(* After any series of commands, half-failed ones too, with the button,    *)
(* calibrations, upgrades and losses of power in between, what is stored   *)
(* is in range, and what is reported and saved is what was meant           *)
(* (user_cgi.c).                                                           *)
THEOREM CommandsDoAsMeant == ApiSpec => []CommandsMeant
<1>1. ApiInv => StoredInRange
  <2>1. ASSUME NEW r, Stored(r)
        PROVE  /\ r.threshold \in MIN_CURRENT_THRESHOLD..MAX_CURRENT_THRESHOLD
               /\ r.sntp \in {0, 1} /\ r.manual \in {0, 1} /\ r.trend \in {0, 1} /\ r.protect \in {0, 1}
               /\ r.port \in 1..MAX_TCP_PORT
               /\ "long" \notin {r.servers[1], r.servers[2], r.servers[3], r.server, r.host, r.token, r.url}
    BY <2>1 DEF Stored, Flags, Texts, MAX_SNTP_SERVER_NUM
  <2> QED
    BY <2>1 DEF ApiInv, ApiTypes, StoredInRange
<1>2. ApiInv => ReportedIsMeant
  <2> SUFFICES ASSUME ApiInv, told.how = "GET"
               PROVE  Gets(told.node, [f \in Fields |-> IF f \in stray THEN ram[f] ELSE meant[f]])
                          = told.answer
    BY DEF ReportedIsMeant
  <2>1. [f \in Fields |-> IF f \in stray THEN ram[f] ELSE meant[f]] = ram
    BY DEF ApiInv, ApiTypes, Stored, RamIsMeant
  <2> QED
    BY <2>1, Zenon DEF ApiInv, AnswerIsRam
<1>3. ApiInv => SavedIsMeant
  BY DEF ApiInv, SavedIsMeant, RamIsMeant, FlashIsRam
<1> QED
  BY ApiInvariant, <1>1, <1>2, <1>3, PTL DEF CommandsMeant

(* An upgrade is started with what its request said, half-failed requests  *)
(* before it included, for the image that does not run, whatever upgrades  *)
(* run already (user_esp_platform_upgrade_begin, user_upgrade_start).      *)
THEOREM UpgradeIsAsAsked == ApiSpec => UpgradeAsAsked
<1> DEFINE AsAsked(task) ==
        /\ task.server = meant'.server /\ task.port = meant'.port
        /\ task.host = meant'.host /\ task.token = meant'.token
        /\ task.url[1] = meant'.url /\ task.url[2] # plug'.bin
<1>1. ASSUME ApiInv, UpgradeStep, NEW task \in plug'.upgrades \ plug.upgrades
      PROVE  AsAsked(task)
  <2>1. task = UpgradeTask(meant', plug.bin) /\ plug'.bin = plug.bin
    BY <1>1 DEF UpgradeStep
  <2>2. OtherBin(plug.bin) # plug.bin
    BY <1>1 DEF ApiInv, ApiTypes, Plug, OtherBin
  <2> QED
    BY <2>1, <2>2 DEF UpgradeTask
<1>2. ApiInv /\ [Api]_apivars => [\A task \in plug'.upgrades \ plug.upgrades : AsAsked(task)]_apivars
  BY <1>1, ApiStep
<1> QED
  BY ApiInvariant, <1>2, PTL DEF ApiSpec, UpgradeAsAsked
=============================================================================
