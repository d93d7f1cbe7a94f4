------------------------------ MODULE ProvScan ------------------------------
(***************************************************************************)
(* The Wi-Fi scan of a provisioning session: scan_start, the SCAN_DONE     *)
(* handler that goes from channel to channel (update_wifi_scan_results),   *)
(* and the requests that look at the results while or after they come in,  *)
(* in components/wifi_provisioning/src/manager.c and handlers.c.           *)
(*                                                                         *)
(* Requests run in the HTTP server's task, SCAN_DONE in the event loop, a  *)
(* stop in any other.  What each does under prov_ctx_lock is one action;   *)
(* a request that takes the lock several times is several.  A session      *)
(* begins with nothing scanned and ends with its stop.  A scan that the    *)
(* driver refuses to start is in ProvMgr (ScanStartFails).                 *)
(***************************************************************************)
EXTENDS Integers, Sequences

CONSTANTS
    Pages,       \* clients
    Channels,    \* the channels are counted modulo this number: 14
    Groups,      \* values of group_channels that clients ask for
    Rssi,        \* signal strengths
    MaxFound,    \* bound on the access points the driver finds per scan
    MaxResults,  \* MAX_SCAN_RESULTS
    MayFail,     \* "results", "restart": external calls that may fail
    Races        \* environment behaviour this instance admits (see ASSUME)

ASSUME ScanSizes ==
    /\ Channels \in Nat \ {0, 1}
    /\ Groups \subseteq Nat
    /\ Rssi \subseteq Int
    /\ MaxFound \in Nat
    /\ MaxResults \in Nat \ {0}

\* "credentials": a scan runs while the session has credentials, of which
\*   SCAN_DONE is ignored;
\* "stop_during_copy": the session is stopped while a request copies a result.
ASSUME ScanChoices ==
    /\ MayFail \subseteq {"results", "restart"}
    /\ Races \subseteq {"credentials", "stop_during_copy"}

VARIABLES
    state,      \* prov_ctx->prov_state, as far as a scan can tell
    scanning,   \* prov_ctx->scanning
    group,      \* prov_ctx->channels_per_group, 0 for all channels at once
    curr,       \* prov_ctx->curr_channel
    apList,     \* prov_ctx->ap_list: NULL, or one of two allocations
    sorted,     \* prov_ctx->ap_list_sorted: pointers into the lists, or NULL
    radio,      \* the driver is scanning
    http,       \* where the request being served is
    told,       \* what each page was told of the finished scan
    burst,      \* channels scanned since the last pause for beacons
    visited     \* channels scanned since scan_start

vars == <<state, scanning, group, curr, apList, sorted, radio, http, told,
          burst, visited>>

Null    == [ch |-> -1, i |-> 0, of |-> "null", rssi |-> 0]
Idle    == [op |-> "idle"]
Nothing == -1
Slots   == 0 .. MaxResults - 1

NoLists == [c \in 0 .. Channels - 1 |-> "null"]
Empty   == [s \in Slots |-> Null]

Init ==
    /\ state = "STARTED"
    /\ scanning = FALSE
    /\ group = 0
    /\ curr = 0
    /\ apList = NoLists
    /\ sorted = Empty
    /\ radio = FALSE
    /\ http = Idle
    /\ told = [p \in Pages |-> Nothing]
    /\ burst = 0
    /\ visited = {}

-----------------------------------------------------------------------------
\* The insertion of the new list into the sorted one: both loops of
\* update_wifi_scan_results, with their counters rc and is.

InsertStepUnsorted(new, s) ==
    IF s.rc = 0 \/ s.is < 0 THEN s
    ELSE IF s.arr[s.is] # Null /\ s.arr[s.is].rssi < new[s.rc].rssi
    THEN [s EXCEPT !.arr[s.is + s.rc] = new[s.rc], !.rc = @ - 1]
    ELSE [s EXCEPT !.arr[s.is + s.rc] = IF s.arr[s.is] = Null THEN @ ELSE s.arr[s.is],
                   !.is = @ - 1]

InsertStep(new, s) ==
    IF s.rc = 0 \/ s.is < 0 THEN s
    ELSE IF s.arr[s.is] # Null /\ s.arr[s.is].rssi > new[s.rc].rssi
    THEN [s EXCEPT !.arr[s.is + s.rc] = new[s.rc], !.rc = @ - 1]
    ELSE [s EXCEPT !.arr[s.is + s.rc] = IF s.arr[s.is] = Null THEN @ ELSE s.arr[s.is],
                   !.is = @ - 1]

Taken(new) == IF Len(new) < MaxResults THEN Len(new) ELSE MaxResults

\* The last place whose record is kept when rc new ones come in.
LastKeptShort(rc) == MaxResults - rc - 2

LastKept(rc) == MaxResults - rc - 1

\* The first loop, turn by turn: each lowers rc or is until one of them has
\* run out, so MaxResults turns are enough.
Turns(arr, new) ==
    LET turn[n \in 0 .. MaxResults] ==
            IF n = 0
            THEN [arr |-> arr, rc |-> Taken(new), is |-> LastKept(Taken(new))]
            ELSE InsertStep(new, turn[n - 1])
    IN  turn

Insert(arr, new) ==
    LET end == Turns(arr, new)[MaxResults]
    IN  [s \in Slots |-> IF s < end.rc THEN new[s + 1] ELSE end.arr[s]]

-----------------------------------------------------------------------------
\* wifi_prov_mgr_wifi_scan_start.

ClearForgotten == sorted' = sorted

Clear == sorted' = Empty

\* The request returns at once, or polls until the scan is over.
ScanStart(blocking, g) ==
    /\ state # "STOPPING"
    /\ state = "CRED_RECV" => "credentials" \in Races
    /\ http = Idle
    /\ ~scanning
    /\ Clear
    /\ group' = g
    /\ curr' = IF g = 0 THEN 0 ELSE 1
    /\ scanning' = TRUE
    /\ radio' = TRUE
    /\ http' = IF blocking THEN [op |-> "wait"] ELSE Idle
    /\ told' = [p \in Pages |-> Nothing]
    /\ burst' = 1
    /\ visited' = {}
    /\ UNCHANGED <<state, apList>>

ScanWait ==
    /\ http.op = "wait"
    /\ ~scanning
    /\ http' = Idle
    /\ UNCHANGED <<state, scanning, group, curr, apList, sorted, radio, told,
                   burst, visited>>

-----------------------------------------------------------------------------
\* update_wifi_scan_results, in three parts: the results of the channel, then
\* the next channel, or the end of the scan.

\* The list of the channel is freed and, if anything was found, allocated
\* again, somewhere else.
Allocated == IF apList[curr] = "a" THEN "b" ELSE "a"

Allocate(n) ==
    apList' = [apList EXCEPT ![curr] = IF n = 0 THEN "null" ELSE Allocated]

Found(rssi) ==
    [i \in 1 .. Len(rssi) |->
        [ch |-> curr, i |-> i, of |-> Allocated, rssi |-> rssi[i]]]

Descending(rssi) == \A i \in 1 .. Len(rssi) - 1 : rssi[i] >= rssi[i + 1]

\* What the driver (external) may report of one scan: the strongest first.
Reports == UNION {{r \in [1 .. n -> Rssi] : Descending(r)} : n \in 0 .. MaxFound}

NextChannel == (curr + 1) % Channels

\* A group of channels is over: the radio is left alone for 120 ms.
PauseLate == NextChannel % (group + 1) = 0

Pause == NextChannel % group = 0

EndScanForgotten == scanning' = scanning /\ radio' = FALSE /\ burst' = burst

EndScan == scanning' = FALSE /\ radio' = FALSE /\ burst' = burst

\* All channels at once, the last channel, or an error of this one.
LastChannelMissed(ok) == group = 0 \/ ~ok

LastChannel(ok) == group = 0 \/ ~ok \/ NextChannel = 0

AdvanceOrEnd(ok) ==
    /\ curr' = IF group = 0 THEN curr ELSE NextChannel
    /\ IF LastChannel(ok)
         THEN EndScan
         ELSE \/ /\ scanning' = TRUE
                 /\ radio' = TRUE
                 /\ burst' = IF Pause THEN 1 ELSE burst + 1
              \/ "restart" \in MayFail /\ EndScan

ChannelDone(rssi) ==
    /\ Allocate(Len(rssi))
    /\ sorted' = Insert(sorted, Found(rssi))
    /\ AdvanceOrEnd(TRUE)

\* No memory for the list, or the driver does not give its records; nothing is
\* ever read from a list that was allocated for them.
ChannelFails ==
    /\ "results" \in MayFail
    /\ apList' = [apList EXCEPT ![curr] = "null"]
    /\ sorted' = sorted
    /\ AdvanceOrEnd(FALSE)

\* SCAN_DONE; only a session in STARTED listens to it.
ScanDone ==
    /\ radio
    /\ state = "STARTED" /\ scanning
    /\ visited' = visited \cup {curr}
    /\ (\E rssi \in Reports : ChannelDone(rssi)) \/ ChannelFails
    /\ UNCHANGED <<state, group, http, told>>

ScanDoneIgnored ==
    /\ radio
    /\ ~(state = "STARTED" /\ scanning)
    /\ radio' = FALSE
    /\ UNCHANGED <<state, scanning, group, curr, apList, sorted, http, told,
                   burst, visited>>

-----------------------------------------------------------------------------
\* scan_status: whether the scan has finished, then, under the lock again, how
\* many results there are.

\* wifi_prov_mgr_wifi_scan_result_count: up to the first NULL.
Count(arr) ==
    CHOOSE n \in 0 .. MaxResults :
        /\ \A s \in Slots : s < n => arr[s] # Null
        /\ n < MaxResults => arr[n] = Null

\* The count at this moment is kept only to say what would be wrong with it.
StatusFinished(p) ==
    /\ state # "STOPPING"
    /\ http = Idle
    /\ http' = [op |-> "count", page |-> p, finished |-> ~scanning,
               before |-> Count(sorted)]
    /\ UNCHANGED <<state, scanning, group, curr, apList, sorted, radio, told,
                   burst, visited>>

\* The page's view of the answer: nothing to fetch yet, or so many results.
AnswerSwapped(request) == IF ~scanning THEN request.before ELSE Nothing

Answer(request) == IF request.finished THEN Count(sorted) ELSE Nothing

StatusCount ==
    /\ http.op = "count"
    /\ told' = [told EXCEPT ![http.page] = Answer(http)]
    /\ http' = Idle
    /\ UNCHANGED <<state, scanning, group, curr, apList, sorted, radio, burst,
                   visited>>

\* scan_result: wifi_prov_mgr_wifi_scan_result gives a pointer, under the lock,
\* and the record is copied without it.
ResultPointer(s) ==
    /\ state # "STOPPING"
    /\ http = Idle
    /\ sorted[s] # Null
    /\ http' = [op |-> "copy", record |-> sorted[s]]
    /\ UNCHANGED <<state, scanning, group, curr, apList, sorted, radio, told,
                   burst, visited>>

ResultCopy ==
    /\ http.op = "copy"
    /\ http' = Idle
    /\ UNCHANGED <<state, scanning, group, curr, apList, sorted, radio, told,
                   burst, visited>>

-----------------------------------------------------------------------------
\* What else changes a session: credentials come, the attempt they begin is
\* over and reset (FAIL and SUCCESS are CRED_RECV here), the session is stopped
\* and every list freed.

Credentials ==
    /\ state = "STARTED"
    /\ scanning => "credentials" \in Races
    /\ http = Idle
    /\ state' = "CRED_RECV"
    /\ UNCHANGED <<scanning, group, curr, apList, sorted, radio, http, told,
                   burst, visited>>

Reset ==
    /\ state = "CRED_RECV"
    /\ state' = "STARTED"
    /\ UNCHANGED <<scanning, group, curr, apList, sorted, radio, http, told,
                   burst, visited>>

Stop ==
    /\ state # "STOPPING"
    /\ http.op = "copy" => "stop_during_copy" \in Races
    /\ state' = "STOPPING"
    /\ scanning' = FALSE
    /\ apList' = NoLists
    /\ sorted' = Empty
    /\ told' = [p \in Pages |-> Nothing]
    /\ burst' = 0
    /\ visited' = {}
    /\ UNCHANGED <<group, curr, radio, http>>

-----------------------------------------------------------------------------
Next ==
    \/ \E blocking \in BOOLEAN, g \in Groups : ScanStart(blocking, g)
    \/ ScanWait
    \/ ScanDone \/ ScanDoneIgnored
    \/ \E p \in Pages : StatusFinished(p)
    \/ StatusCount
    \/ \E s \in Slots : ResultPointer(s)
    \/ ResultCopy
    \/ Credentials \/ Reset \/ Stop

Spec == Init /\ [][Next]_vars

\* The driver ends every scan of a channel, and the tasks are scheduled.
FairSpec ==
    /\ Spec
    /\ WF_vars(ScanDone) /\ WF_vars(ScanWait)

-----------------------------------------------------------------------------
Alive(p) == p.of = apList[p.ch]

\* The sorted list is sorted, has no gap, and points at records that exist:
\* none of an earlier scan, whose memory was given back (684-761, 924).
SortedList ==
    \A s \in Slots : sorted[s] # Null =>
        /\ Alive(sorted[s])
        /\ s > 0 => sorted[s - 1] # Null /\ sorted[s - 1].rssi >= sorted[s].rssi
        /\ \A t \in Slots : t # s => sorted[t] # sorted[s]

\* What the insertion keeps (743-761): the new records, as far as they fit, and
\* of the old ones those that were in the first places that are left.  A
\* weaker new record does displace a stronger old one when the list is full.
Merged ==
    [][\A rssi \in Reports : radio /\ scanning /\ ChannelDone(rssi) =>
          LET kept == {sorted[s] : s \in 0 .. MaxResults - Taken(rssi) - 1}
              new  == {Found(rssi)[i] : i \in 1 .. Taken(rssi)}
          IN  {sorted'[s] : s \in Slots} \ {Null} = (kept \cup new) \ {Null}]_vars

\* A scan in groups goes through the channels in order, each once, and one that
\* ended by itself has seen all but the last: the next channel's number is taken
\* modulo 14 (773-778), so that channel 14 is never scanned, where the header goes
\* on "until all the 14 channels have been scanned" (wifi_scan.h:94-101) and the
\* application says that it "scans all 14 channels anyway"
\* (webprov_example_main.c:512-515).
ChannelOrder ==
    group # 0 /\ state # "STOPPING" =>
        /\ scanning => visited = 1 .. curr - 1
        /\ ~scanning /\ curr = 0 => visited = 1 .. Channels - 1

\* No more than group_channels channels in a row without a pause in which the
\* access point sends beacons (wifi_scan.h:83-92, manager.c:780-782).
BeaconsSent == group # 0 => burst <= group

\* A page that was told that the scan has finished with n results finds n
\* results until a scan is started or the session stopped: the flag is read
\* before the count, and nothing is added once it is set (handlers.c:165-171).
ToldTrue ==
    \A p \in Pages : told[p] # Nothing => ~scanning /\ told[p] = Count(sorted)

\* The record that a request copies without the lock still exists.
CopyAlive == http.op = "copy" => Alive(http.record)

\* A scan ends (684-796), and with it a blocking request returns.
ScanEnds == scanning ~> ~scanning
=============================================================================
