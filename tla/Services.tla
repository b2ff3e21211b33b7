------------------------------- MODULE Services -------------------------------
(***************************************************************************)
(* The tasks that answer: httpserver_task (core/httpd.c), captdns_task     *)
(* (util/captdns.c) and user_devicefind_task (user/user_devicefind.c).     *)
(* Each tries every second until it has its socket, then serves; the       *)
(* search for devices can be stopped.  user_init starts the first and the  *)
(* last of them; who starts captdns_task is external.                      *)
(***************************************************************************)
EXTENDS Integers

CONSTANTS
    REFUSALS,    \* bound: how often a call fails, or times out
    STOPS        \* may somebody call user_devicefind_stop (nothing here does)?

VARIABLES
    service,     \* whose task: "http", "dns", "find"; "none" if there is none
    stands,      \* where it stands
    refusals,
    QueueStop    \* of user_devicefind.c: NULL, or what is in the queue of one

servicevars == <<service, stands, refusals, QueueStop>>

ServiceInit(t) ==
    /\ service = t /\ refusals = 0
    /\ stands = IF t = "none" THEN "gone" ELSE "start"
    /\ QueueStop = "NULL"

Goes(from, to) == stands = from /\ stands' = to

(* user_devicefind_start: no queue, no task.                               *)
user_devicefind_start ==
    /\ service = "find" /\ stands = "start"
    /\ \/ QueueStop' = "empty" /\ stands' = "socket"
       \/ QueueStop' = "NULL" /\ stands' = "gone"
    /\ UNCHANGED <<service, refusals>>

(* httpdInit, captdnsInit *)
TaskCreated ==
    /\ service # "find" /\ Goes("start", "socket")
    /\ UNCHANGED <<service, refusals, QueueStop>>

Succeeds == refusals' = 0 /\ UNCHANGED <<service, QueueStop>>

SocketOpened == Goes("socket", "bind") /\ Succeeds
Bound        == Goes("bind", IF service = "http" THEN "listen" ELSE "check") /\ Succeeds
Listens      == Goes("listen", "serving") /\ Succeeds

(* A call fails, and is made again after a second.                         *)
CallFails ==
    /\ stands \in {"socket", "bind", "listen"} /\ refusals < REFUSALS
    /\ refusals' = refusals + 1
    /\ UNCHANGED <<service, stands, QueueStop>>

(* The loop of the two that receive datagrams: the search for devices      *)
(* looks first whether it is to stop; a call waits ten seconds.            *)
Stopped == service = "find" /\ QueueStop = "stop"

Receives == Goes("check", "receive") /\ ~Stopped /\ UNCHANGED <<service, refusals, QueueStop>>

TimesOut ==
    /\ Goes("receive", "check") /\ refusals < REFUSALS
    /\ refusals' = refusals + 1
    /\ UNCHANGED <<service, QueueStop>>

Ends ==
    /\ Goes("check", "gone") /\ Stopped
    /\ QueueStop' = "NULL"
    /\ UNCHANGED <<service, refusals>>

user_devicefind_stop ==
    /\ STOPS /\ QueueStop = "empty"
    /\ QueueStop' = "stop"
    /\ UNCHANGED <<service, stands, refusals>>

(* The datagram that was received is answered, or not.                     *)
Served == Goes("receive", "check") /\ UNCHANGED <<service, refusals, QueueStop>>

TaskRuns ==
    \/ user_devicefind_start \/ TaskCreated \/ SocketOpened \/ Bound \/ Listens \/ CallFails
    \/ Receives \/ TimesOut \/ Ends

Serves == TaskRuns \/ user_devicefind_stop
=============================================================================
