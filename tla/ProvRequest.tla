---------------------------- MODULE ProvRequest ----------------------------
(***************************************************************************)
(* One request to prov-config or prov-scan: which memory it takes, in      *)
(* which order, what is left of it when an allocation fails or when the    *)
(* request is answered, and which numbers request and response carry.      *)
(* components/wifi_provisioning/src/wifi_config.c and wifi_scan.c.         *)
(*                                                                         *)
(* A request is an operation; memory is a set of names, one for each       *)
(* allocation of a request.  What an operation does to the device is in    *)
(* the module that serves the requests (ProvPage).                         *)
(***************************************************************************)
EXTENDS Integers, Sequences

ConfigOps == {"get_status", "set_config", "apply_config"}
ScanOps   == {"scan_start", "scan_status", "scan_result"}

\* The tables of commands; a response has the number after its request's.
Command(op) ==
    CASE op \in {"get_status", "scan_start"}    -> 0
      [] op \in {"set_config", "scan_status"}   -> 2
      [] op \in {"apply_config", "scan_result"} -> 4

ResponseTo(op) == Command(op) + 1

\* What every handler allocates first, and the request itself.
Payload == <<"payload", 0>>
Request == <<"request", 0>>

\* The strings of a station that is connected; each entry of a list.
ConnectedState ==
    << <<"connected", 0>>, <<"ip4_addr", 0>>, <<"bssid", 0>>, <<"ssid", 0>> >>

Entries(n) == [k \in 1 .. 3 * n |->
    << <<"entry", "entry_ssid", "entry_bssid">>[((k - 1) % 3) + 1],
       (k - 1) \div 3 >>]

\* The allocations of the handler of op in their order; n entries are asked for
\* and connected says that the station is.
Allocations(op, n, connected) ==
    <<Payload>> \o
    (CASE op = "get_status" /\ connected -> ConnectedState
       [] op = "scan_result" -> << <<"entries", 0>> >> \o Entries(n)
       [] OTHER -> <<>>)

Before(s, k) == {s[i] : i \in 1 .. k - 1}

\* What the handler leaves when its k-th allocation fails: the handlers of
\* prov-scan everything, cmd_get_status_handler what it does not give back.
HandlerLeaves(op, s, k) ==
    IF op = "get_status"
      THEN IF k < 3 THEN Before(s, k) ELSE {s[2]}
      ELSE Before(s, k)

\* The two cleanup functions go through the response; they know it by its number,
\* which a request that was not carried out has not got yet.
StateFreed(connected) ==
    IF connected
    THEN {<<"ip4_addr", 0>>, <<"bssid", 0>>, <<"ssid", 0>>, <<"connected", 0>>}
    ELSE {}

\* A mutant: the last entry is forgotten.
EntriesFreedButLast(n) ==
    {<<"entries", 0>>} \cup
    ({"entry", "entry_ssid", "entry_bssid"} \X (0 .. n - 2))

EntriesFreed(n) ==
    {<<"entries", 0>>} \cup
    ({"entry", "entry_ssid", "entry_bssid"} \X (0 .. n - 1))

CleanupFrees(op, n, connected) ==
    {Payload} \cup (CASE op = "get_status"  -> StateFreed(connected)
                      [] op = "scan_result" -> EntriesFreed(n)
                      [] OTHER -> {})

\* What is left once wifi_prov_config_data_handler or wifi_prov_scan_handler has
\* returned: the k-th allocation has failed, the response's buffer being the
\* last, or none has (k = 0).
Left(op, n, connected, k) ==
    LET s    == Allocations(op, n, connected)
        all  == Before(s, Len(s) + 1)
        kept == all \ CleanupFrees(op, n, connected)
    IN  CASE k = 0 -> kept
          [] k \in 1 .. Len(s) ->
                HandlerLeaves(op, s, k)
                    \cup (IF op \in ConfigOps THEN {Request} ELSE {})
          [] k = Len(s) + 1 -> IF op \in ConfigOps THEN all ELSE kept

\* The handler is reached: its response has been allocated.
Reached(k) == k # 1
=============================================================================
