------------------------------ MODULE DeviceFind ------------------------------
(***************************************************************************)
(* Device discovery (user_devicefind.c): the answer to a broadcast "Are    *)
(* You Espressif IOT Smart Device?", with the MAC and the IP address of    *)
(* the interface on which the asker lives.  Addresses are <<net, host>>.   *)
(***************************************************************************)
EXTENDS Integers

CONSTANTS MacOf, IpOf    \* interface -> address: "SOFTAP_IF", "STATION_IF"

STATION_MODE == 1

FindRequest   == [asks |-> TRUE, mac |-> "any"]      \* device_find_request, alone
Asks(mac)     == [asks |-> TRUE, mac |-> mac]        \* followed by a MAC address
SomethingElse == [asks |-> FALSE, mac |-> "any"]

ip_addr_netcmp(a, b) == a[1] = b[1]

Interface(opmode, from) ==
    IF opmode # STATION_MODE /\ ip_addr_netcmp(from, IpOf["SOFTAP_IF"])
    THEN "SOFTAP_IF" ELSE "STATION_IF"

Silence == [to |-> "nobody"]

(* user_devicefind_data_process, which user_devicefind_task calls for      *)
(* every datagram.                                                         *)
user_devicefind_data_process(opmode, from, msg) ==
    LET i == Interface(opmode, from)
    IN  IF msg.asks /\ msg.mac \in {"any", MacOf[i]}
        THEN [to |-> from, mac |-> MacOf[i], ip |-> IpOf[i]]
        ELSE Silence
=============================================================================
