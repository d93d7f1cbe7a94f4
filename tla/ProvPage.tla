------------------------------ MODULE ProvPage ------------------------------
(***************************************************************************)
(* The provisioning web page (front/web-demo/src/prov/prov.js), in one or  *)
(* several browser windows, and the device as it sees it: the task of the  *)
(* HTTP server, which serves one request at a time, the handlers of        *)
(* prov-session, prov-scan, prov-config and prov-custom, and the session   *)
(* behind them, reduced to what a client can tell (ProvMgr and ProvScan    *)
(* have it in full).                                                       *)
(*                                                                         *)
(* A window's requests are served in the order in which it sends them, the *)
(* windows' in any order.  A window handles a response with the function   *)
(* that its last request named, whichever request is answered.  Paging     *)
(* through the list of networks is left out: a window shows all of it.     *)
(***************************************************************************)
EXTENDS ProvRequest, FiniteSets, SequencesExt, FiniteSetsExt

CONSTANTS
    Pages,       \* browser windows
    Nobody,      \* is not one of them
    UserOps,     \* what users do: "load_again", "rescan", "apply", "back"
    MinFound,    \* bounds on the networks that a scan finds
    MaxFound,
    Batch,       \* MAX_RESULTS_PER_REQUEST
    MaxSent,     \* bound on a window's requests that are under way
    MayFail,     \* "memory" of the device, the "network" between the two
    Races        \* environment behaviour this instance admits (see ASSUME)

ASSUME PageSizes ==
    /\ Nobody \notin Pages
    /\ MinFound \in Nat /\ MaxFound \in Nat /\ MinFound <= MaxFound
    /\ Batch \in Nat \ {0} /\ MaxSent \in Nat \ {0}

\* "together": a window is loaded while another one is about to scan;
\* "over_others": a user scans again while another window waits for the device.
ASSUME PageChoices ==
    /\ UserOps \subseteq {"load_again", "rescan", "apply", "back"}
    /\ MayFail \subseteq {"memory", "network"}
    /\ Races \subseteq {"together", "over_others"}

VARIABLES
    page,      \* what each window's script remembers and shows
    sent,      \* each window's requests that are under way
    server,    \* the window whose scan occupies the server's task, or Nobody
    device,    \* the session
    halted,    \* why the device does not go on, if it does not
    refused    \* windows whose last request the device did not grant

vars == <<page, sent, server, device, halted, refused>>

Pending == [http |-> "pending"]

\* A request from the entry `from' on for n entries, or for none.
Send(op, from, n) ==
    <<[op |-> op, from |-> from, n |-> n, reply |-> Pending, live |-> TRUE]>>

Ask(op) == Send(op, 0, 0)

States == {"UNINITIALIZED", "INITIALIZING", "READY", "SCANNING", "CONFIGURING"}
Shown  == {"none", "scanning", "form", "connecting", "success", "failed",
           "redirect", "unavailable"}
Timers == {"scan_status", "get_status", "homepage"}

\* provState before it reaches READY.
NotReady == {"UNINITIALIZED", "INITIALIZING"}

Unloaded ==
    [provState |-> "UNINITIALIZED", shown |-> "none", callback |-> "none",
     numScanResults |-> 0, scanIndex |-> 0, scanResults |-> <<>>,
     forDisplay |-> 0, table |-> <<>>, timer |-> {}]

Init ==
    /\ page = [p \in Pages |-> Unloaded]
    /\ sent = [p \in Pages |-> <<>>]
    /\ server = Nobody
    /\ device = [prov |-> "STARTED", wifi |-> "CONNECTING", scanning |-> FALSE,
                 radio |-> FALSE, found |-> <<>>, scan |-> 0, staged |-> FALSE,
                 timers |-> {}, listens |-> FALSE]
    /\ halted = "no"
    /\ refused = {}

-----------------------------------------------------------------------------
\* The script's functions: what becomes of a window w, and what it sends.

Then(w, requests) == [w |-> w, requests |-> requests]

Calls(w, callback, request) == Then([w EXCEPT !.callback = callback], request)

requestSec0Session(w) ==
    Calls([w EXCEPT !.provState = "INITIALIZING"], "session", Ask("session"))

getScanStatus(w)   == Calls(w, "scan_status", Ask("scan_status"))
applyConfig(w)     == Calls(w, "apply_config", Ask("apply_config"))
getConfigStatus(w) == Calls(w, "get_status", Ask("get_status"))
getHomepageUrl(w)  == Calls(w, "homepage", Ask("homepage"))

\* Windows whose session was not granted only say so.
startScan(w) ==
    IF w.provState \in NotReady THEN Then(w, <<>>)
    ELSE Calls([w EXCEPT !.provState = "SCANNING", !.shown = "scanning",
                         !.table = <<>>, !.scanResults = <<>>],
               "scan_start", Ask("scan_start"))

\* verifyConfig has accepted what the user typed.
setConfig(w, fits) ==
    IF w.provState \in NotReady THEN Then(w, <<>>)
    ELSE Calls([w EXCEPT !.provState = "CONFIGURING", !.shown = "connecting"],
               "set_config", Send("set_config", 0, IF fits THEN 0 ELSE 1))

updateUIServiceUnavailable(w) ==
    [w EXCEPT !.provState = "UNINITIALIZED", !.shown = "unavailable"]

updateUIForScanningOver(w) == [w EXCEPT !.shown = "form"]

After(w, timer) == Then([w EXCEPT !.timer = @ \cup {timer}], <<>>)

Least(m, n) == IF m < n THEN m ELSE n

\* A row for each network that is counted, and one that is undefined where the
\* list has none.
Undefined == [scan |-> 2, i |-> 0, strong |-> FALSE]

showSelectedResults(w) ==
    [i \in 1 .. w.forDisplay |->
        IF i \in DOMAIN w.scanResults THEN w.scanResults[i] ELSE Undefined]

\* The next results, or, when there are no more, the table.
getScanResults(w) ==
    IF w.scanIndex < w.numScanResults
    THEN LET n == Least(w.numScanResults - w.scanIndex, Batch)
         IN  Calls([w EXCEPT !.scanIndex = @ + n], "scan_result",
                   Send("scan_result", w.scanIndex, n))
    ELSE Then([w EXCEPT !.provState = "READY", !.table = showSelectedResults(w)],
              <<>>)

\* Mutant: the index is not reset.
FetchFromIndex(w, count) ==
    getScanResults([w EXCEPT !.numScanResults = count, !.forDisplay = count,
                             !.shown = "form"])

\* handleScanStatus.
Fetch(w, count) ==
    getScanResults([w EXCEPT !.numScanResults = count, !.forDisplay = count,
                             !.scanIndex = 0, !.shown = "form"])

handleScanStatus(w, finished, count) ==
    IF finished
      THEN IF count > 0 THEN Fetch(w, count) ELSE startScan(w)
      ELSE After(w, "scan_status")

\* Which entries are kept of the first k, one after another.
Kept(entries) ==
    LET kept[k \in 0 .. Len(entries)] ==
            IF k = 0 THEN <<>>
            ELSE IF entries[k].strong THEN Append(kept[k - 1], entries[k])
            ELSE kept[k - 1]
    IN  kept

Strong(entries) == Kept(entries)[Len(entries)]

\* A mutant: networks that are left out are counted for display.
TakeResultsCounted(w, entries) ==
    [w EXCEPT !.scanResults = @ \o Strong(entries)]

\* Those that are too weak are left out.
TakeResults(w, entries) ==
    [w EXCEPT !.scanResults = @ \o Strong(entries),
              !.forDisplay = @ - (Len(entries) - Len(Strong(entries)))]

\* The handlers of responses.  Each looks at the number of the message that it
\* has decoded: those of the requests' responses, and 0 for what is no message.
Number(op) == IF op \in ConfigOps \cup ScanOps THEN ResponseTo(op) ELSE 0

Json == {"reset", "shutdown", "homepage"}

\* The response is a message, or text, as the handler wants it.
Decodes(callback, op) == callback \in Json <=> op \in Json

\* A mutant: the number is not looked at.
IsAnyResponse(callback, reply) == Decodes(callback, reply.op)

IsResponse(callback, reply) ==
    Decodes(callback, reply.op) /\ Number(reply.op) = Number(callback)

\* Mutants: the session is ended whatever its state; nobody asks a second time.
handleAnyStatus(w, reply) ==
    Calls([w EXCEPT !.shown = "success"], "shutdown", Ask("shutdown"))

handleStatusOnce(w, reply) ==
    CASE ~reply.ok \/ reply.wifi = "CONNECTING" -> Then(w, <<>>)
      [] reply.ok /\ reply.wifi = "CONNECTED" ->
            Calls([w EXCEPT !.shown = "success"], "shutdown", Ask("shutdown"))
      [] OTHER -> Calls([w EXCEPT !.shown = "failed"], "reset", Ask("reset"))

handleGetConfigStatus(w, reply) ==
    CASE ~reply.ok \/ reply.wifi = "CONNECTING" -> After(w, "get_status")
      [] reply.ok /\ reply.wifi = "CONNECTED" ->
            Calls([w EXCEPT !.shown = "success"], "shutdown", Ask("shutdown"))
      [] OTHER ->
            Calls([w EXCEPT !.shown = "failed"], "reset", Ask("reset"))

\* The status of a scan reads like a response to set_config, which says that it
\* is refused if the scan is finished.
Success(w, reply) ==
    IF w.callback = "set_config" /\ reply.op = "scan_status" THEN ~reply.finished
    ELSE reply.ok

\* Except for the status, a response that is not a success is let pass.
Accept(w, reply) ==
    IF w.callback = "get_status" THEN handleGetConfigStatus(w, reply)
    ELSE IF ~Success(w, reply) \/ w.callback = "reset" THEN Then(w, <<>>)
    ELSE
    CASE w.callback = "session" -> getScanStatus([w EXCEPT !.provState = "READY"])
      [] w.callback = "scan_start" -> getScanStatus(w)
      [] w.callback = "scan_status" -> handleScanStatus(w, reply.finished, reply.count)
      [] w.callback = "scan_result" -> getScanResults(TakeResults(w, reply.entries))
      [] w.callback = "set_config" -> applyConfig(w)
      [] w.callback = "apply_config" -> After(w, "get_status")
      [] w.callback = "shutdown" -> After(w, "homepage")
      [] w.callback = "homepage" -> Then([w EXCEPT !.shown = "redirect"], <<>>)

\* handleProtocommResponse: text that is no JSON is an exception.
handleProtocommResponse(w, reply) ==
    CASE reply.http = 405 -> Then(updateUIServiceUnavailable(w), <<>>)
      [] reply.http = 500 -> Then(updateUIForScanningOver(w), <<>>)
      [] reply.http = 200 /\ IsResponse(w.callback, reply) -> Accept(w, reply)
      [] reply.http = 200 /\ ~IsResponse(w.callback, reply) ->
            Then(IF w.callback \in Json THEN updateUIForScanningOver(w) ELSE w, <<>>)
      [] OTHER -> Then(w, <<>>)

-----------------------------------------------------------------------------
\* The windows' steps.

\* Window p goes on as its script says; pending are the requests it has left.
GoOn(p, result, pending) ==
    /\ page' = [page EXCEPT ![p] = result.w]
    /\ sent' = [sent EXCEPT ![p] = pending \o result.requests]

DeviceUnchanged == UNCHANGED <<server, device, halted>>

Busy(q) == page[q].shown \in {"scanning", "connecting"} \/ sent[q] # <<>>

Waiting(p) == {i \in DOMAIN sent[p] : sent[p][i].reply = Pending}

\* The requests without an answer; they are the last ones.
Unanswered(p) ==
    IF Waiting(p) = {} THEN <<>>
    ELSE SubSeq(sent[p], Min(Waiting(p)), Len(sent[p]))

Forget(requests) == [i \in DOMAIN requests |-> [requests[i] EXCEPT !.live = FALSE]]

MaySend(p) == Len(sent[p]) < MaxSent

\* window.onload, which a user may repeat; what was asked before is still served.
Load(p) ==
    /\ page[p].shown # "none" => "load_again" \in UserOps
    /\ "together" \in Races \/ \A q \in Pages \ {p} : page[q].shown # "scanning"
    /\ MaySend(p)
    /\ GoOn(p, requestSec0Session([Unloaded EXCEPT !.shown = "scanning"]),
            Forget(Unanswered(p)))
    /\ refused' = refused \ {p}
    /\ DeviceUnchanged

\* The buttons rescan, apply and go-back, where they can be seen.
Quiet(p) == "over_others" \in Races \/ \A q \in Pages \ {p} : ~Busy(q)

Rescan(p) ==
    /\ "rescan" \in UserOps
    /\ page[p].shown = "form"
    /\ MaySend(p) /\ Quiet(p)
    /\ GoOn(p, startScan(page[p]), sent[p])
    /\ refused' = refused \ {p}
    /\ DeviceUnchanged

\* startOver
GoBack(p) ==
    /\ "back" \in UserOps
    /\ page[p].shown = "failed"
    /\ MaySend(p) /\ Quiet(p)
    /\ GoOn(p, startScan(page[p]), sent[p])
    /\ refused' = refused \ {p}
    /\ DeviceUnchanged

\* The page counts characters where the device counts bytes.
ApplyButton(p, fits) ==
    /\ "apply" \in UserOps
    /\ page[p].shown = "form"
    /\ MaySend(p)
    /\ GoOn(p, setConfig(page[p], fits), sent[p])
    /\ refused' = refused \ {p}
    /\ DeviceUnchanged

\* The oldest of a window's requests is answered; one whose connection is closed
\* has no handler.
HandleResponse(p) ==
    /\ sent[p] # <<>>
    /\ Head(sent[p]).reply # Pending
    /\ LET reply == Head(sent[p]).reply
       IN  /\ GoOn(p, handleProtocommResponse(page[p], reply), Tail(sent[p]))
           /\ refused' = IF reply.http = 200 /\ reply.ok THEN refused
                         ELSE refused \cup {p}
    /\ DeviceUnchanged

TimerFires(p, timer) ==
    /\ timer \in page[p].timer
    /\ LET w == [page[p] EXCEPT !.timer = @ \ {timer}]
       IN  GoOn(p, CASE timer = "scan_status" -> getScanStatus(w)
                     [] timer = "get_status"  -> getConfigStatus(w)
                     [] timer = "homepage"    -> getHomepageUrl(w), sent[p])
    /\ UNCHANGED refused
    /\ DeviceUnchanged

\* handleRequestTimeout; the device may have got the request all the same.
RequestTimeout(p) ==
    /\ "network" \in MayFail
    /\ \E i \in DOMAIN sent[p] :
        /\ sent[p][i].live /\ sent[p][i].reply = Pending
        /\ GoOn(p, Then(updateUIServiceUnavailable(page[p]), <<>>),
                [sent[p] EXCEPT ![i].live = FALSE])
    /\ UNCHANGED refused
    /\ DeviceUnchanged

-----------------------------------------------------------------------------
\* The HTTP server's task.

\* Window p's next request is served; nobody is told if it is forgotten.
Serving(p) == halted = "no" /\ server = Nobody /\ Waiting(p) # {}
Served(p)  == sent[p][Min(Waiting(p))]

Answer(p, reply) ==
    /\ sent' = [sent EXCEPT ![p] =
            IF Served(p).live
              THEN [@ EXCEPT ![Min(Waiting(p))].reply = reply]
              ELSE RemoveAt(@, Min(Waiting(p)))]
    /\ UNCHANGED <<page, refused>>

\* left is the memory that the request has left behind; what follows it is told
\* by the answers to scan_status, scan_result and get_status.
Reply(http, op, ok) ==
    [http |-> http, op |-> op, ok |-> ok, left |-> {}, finished |-> FALSE,
     count |-> 0, entries |-> <<>>, wifi |-> "CONNECTING"]
Grant(op)           == Reply(200, op, TRUE)
Unheard             == 0

\* Which allocation of a request fails, if one does; the server then gives an
\* error or closes the connection (external).
StationConnected == device.wifi = "CONNECTED"

Failing(op, n) ==
    IF "memory" \in MayFail THEN 0 .. Len(Allocations(op, n, StationConnected)) + 1
    ELSE {0}

Respond(p, op, n, k, reply) ==
    LET left == Left(op, n, StationConnected, k)
    IN  IF k = 0 THEN Answer(p, [reply EXCEPT !.left = left])
        ELSE \E http \in {500, Unheard} :
                Answer(p, [Reply(http, op, FALSE) EXCEPT !.left = left])

\* No endpoint is left: stop_prov, prov_webpage_mgr_stop.
ServeNothing(p) ==
    /\ Serving(p)
    /\ device.prov = "GONE"
    /\ Answer(p, Reply(405, Served(p).op, FALSE))
    /\ UNCHANGED <<server, device, halted>>

Requested(p, ops) == Serving(p) /\ device.prov # "GONE" /\ Served(p).op \in ops

ServeSession(p) ==
    /\ Requested(p, {"session"})
    /\ Answer(p, Grant("session"))
    /\ UNCHANGED <<server, device, halted>>

\* custom_prov_extensions_handler; a timer that runs is not started again.
TimerOf == [reset |-> "reset", shutdown |-> "stage1"]

ServeCustom(p) ==
    /\ Requested(p, Json)
    /\ LET op == Served(p).op
           ok == op \in DOMAIN TimerOf => TimerOf[op] \notin device.timers
       IN  /\ Answer(p, Reply(200, op, ok))
           /\ device' = IF op \in DOMAIN TimerOf
                        THEN [device EXCEPT !.timers = @ \cup {TimerOf[op]}]
                        ELSE device
    /\ UNCHANGED <<server, halted>>

\* cmd_scan_start_handler, scan_start and wifi_prov_mgr_wifi_scan_start, as the
\* page asks for it: to be told when the scan is over.  A station that is
\* connecting may not scan, for the manager's attempt or for one of the
\* application's, and then the manager's lock is not given back.
BeginScan ==
    [device EXCEPT !.scanning = TRUE, !.radio = TRUE, !.found = <<>>,
                   !.scan = 1 - @]

ServeScanStart(p) ==
    /\ Requested(p, {"scan_start"})
    /\ \/ /\ 1 \in Failing("scan_start", 0)
          /\ Respond(p, "scan_start", 0, 1, Grant("scan_start"))
          /\ UNCHANGED <<server, device, halted>>
       \/ /\ \E refuses \in {b \in BOOLEAN : b => device.prov = "CRED_RECV" \/ device.listens} :
                /\ halted' = IF refuses THEN "lock" ELSE halted
                /\ device' = IF refuses THEN device ELSE BeginScan
          /\ server' = p
          /\ UNCHANGED <<page, sent, refused>>

\* The scan is over for the manager, and the request returns.
ScanReturns(p) ==
    /\ halted = "no"
    /\ server = p /\ ~device.scanning
    /\ server' = Nobody
    /\ \E k \in Failing("scan_start", 0) \ {1} :
            Respond(p, "scan_start", 0, k, Grant("scan_start"))
    /\ UNCHANGED <<device, halted>>

\* cmd_scan_status_handler and scan_status.
ServeScanStatus(p) ==
    /\ Requested(p, {"scan_status"})
    /\ \E k \in Failing("scan_status", 0) :
            Respond(p, "scan_status", 0, k,
                    [Grant("scan_status") EXCEPT !.finished = ~device.scanning,
                                                 !.count = Len(device.found)])
    /\ UNCHANGED <<server, device, halted>>

\* cmd_scan_result_handler: where the list ends, the rest of the entries is left
\* NULL, and the packing of the response reads them (external).
ServeScanResult(p) ==
    /\ Requested(p, {"scan_result"})
    /\ LET r     == Served(p)
           there == Least(r.n, Cardinality({i \in 1 .. Len(device.found) : i > r.from}))
           full  == Len(Allocations("scan_result", there, StationConnected))
       IN  \E k \in Failing("scan_result", there) :
              IF there < r.n /\ k \notin 1 .. full
                THEN halted' = "fault" /\ UNCHANGED <<page, sent, refused>>
                ELSE /\ Respond(p, "scan_result", there, k,
                                [Grant("scan_result") EXCEPT !.entries =
                                     SubSeq(device.found, r.from + 1, r.from + r.n)])
                     /\ halted' = halted
    /\ UNCHANGED <<server, device>>

\* cmd_set_config_handler and set_config_handler: credentials that are too long
\* change nothing; else what was staged is freed, and calloc may fail.
ServeSetConfig(p) ==
    /\ Requested(p, {"set_config"})
    /\ \E k \in Failing("set_config", 0),
          staged \in {TRUE} \cup {"memory" \notin MayFail} :
            /\ Respond(p, "set_config", 0, k,
                       Reply(200, "set_config", Served(p).n = 0 /\ staged))
            /\ device' = IF Reached(k) /\ Served(p).n = 0
                         THEN [device EXCEPT !.staged = staged] ELSE device
    /\ UNCHANGED <<server, halted>>

\* cmd_apply_config_handler, apply_config_handler, wifi_prov_mgr_configure_sta:
\* what was staged is gone, taken or not.
MayApply == device.staged /\ device.prov = "STARTED"

Applied ==
    IF MayApply
    THEN [device EXCEPT !.staged = FALSE, !.prov = "CRED_RECV", !.wifi = "CONNECTING"]
    ELSE [device EXCEPT !.staged = FALSE]

ServeApplyConfig(p) ==
    /\ Requested(p, {"apply_config"})
    /\ \E k \in Failing("apply_config", 0) :
            /\ Respond(p, "apply_config", 0, k, Reply(200, "apply_config", MayApply))
            /\ device' = IF Reached(k) THEN Applied ELSE device
    /\ UNCHANGED <<server, halted>>

\* cmd_get_status_handler and get_status_handler.
ServeGetStatus(p) ==
    /\ Requested(p, {"get_status"})
    /\ \E k \in Failing("get_status", 0) :
            Respond(p, "get_status", 0, k,
                    [Grant("get_status") EXCEPT !.wifi = device.wifi])
    /\ UNCHANGED <<server, device, halted>>

Serve(p) ==
    \/ ServeNothing(p) \/ ServeSession(p) \/ ServeCustom(p)
    \/ ServeScanStart(p) \/ ScanReturns(p) \/ ServeScanStatus(p)
    \/ ServeScanResult(p)
    \/ ServeSetConfig(p) \/ ServeApplyConfig(p) \/ ServeGetStatus(p)

-----------------------------------------------------------------------------
\* What the device does by itself.

WindowsUnchanged == UNCHANGED <<page, sent, server, halted, refused>>

\* What a scan finds: n networks, the k strongest of which are strong enough.
Networks(n, k) ==
    [i \in 1 .. n |-> [scan |-> device.scan, i |-> i, strong |-> i <= k]]

\* SCAN_DONE of the last channel, to which only a session in STARTED listens.
ScanDone ==
    /\ halted = "no"
    /\ device.radio
    /\ \E n \in MinFound .. MaxFound, k \in 0 .. MaxFound :
        /\ k <= n
        /\ device' = IF device.prov = "STARTED" /\ device.scanning
                     THEN [device EXCEPT !.radio = FALSE, !.scanning = FALSE,
                                         !.found = Networks(n, k)]
                     ELSE [device EXCEPT !.radio = FALSE]
    /\ WindowsUnchanged

\* The states in which an attempt to connect may be under way whose events the
\* manager looks at: after a verdict it is the application that connects again,
\* once it listens to Wi-Fi events, from the first success on.
Attempting ==
    {"CRED_RECV", "SUCCESS"} \cup (IF device.listens THEN {"FAIL"} ELSE {})

\* The events of the station, in wifi_prov_mgr_event_handler_internal: GOT_IP, and
\* DISCONNECTED for a reason that is a verdict and for one that is not, after which
\* the manager connects again by itself.
Verdict(prov, wifi, listens) ==
    /\ halted = "no"
    /\ device.prov \in Attempting
    /\ device' = [device EXCEPT !.prov = prov, !.wifi = wifi, !.listens = listens]
    /\ WindowsUnchanged

GotIp    == Verdict("SUCCESS", "CONNECTED", TRUE)
Rejected == Verdict("FAIL", "DISCONNECTED", device.listens)
Retried  == Verdict(device.prov, "CONNECTING", device.listens)

\* The timers of prov_webpage_mgr: reset_wifi_prov_service and the two stages of
\* the shutdown, of which the second ends the session.
Expired(timer) == [device EXCEPT !.timers = @ \ {timer}]

ResetExpires ==
    /\ "reset" \in device.timers
    /\ device' = IF device.prov \in {"FAIL", "SUCCESS"}
                 THEN [Expired("reset") EXCEPT !.prov = "STARTED"] ELSE Expired("reset")

Stage1Expires ==
    /\ "stage1" \in device.timers
    /\ device' = [Expired("stage1") EXCEPT !.timers = @ \cup {"stage2"}]

Stage2Expires ==
    /\ "stage2" \in device.timers
    /\ device' = [device EXCEPT !.prov = "GONE", !.timers = {}, !.scanning = FALSE,
                                !.found = <<>>, !.staged = FALSE]

TimerExpires ==
    /\ halted = "no"
    /\ ResetExpires \/ Stage1Expires \/ Stage2Expires
    /\ WindowsUnchanged

-----------------------------------------------------------------------------
Next ==
    \/ \E p \in Pages :
        \/ Load(p) \/ Rescan(p) \/ GoBack(p)
        \/ \E fits \in BOOLEAN : ApplyButton(p, fits)
        \/ HandleResponse(p) \/ RequestTimeout(p)
        \/ \E timer \in Timers : TimerFires(p, timer)
        \/ Serve(p)
    \/ ScanDone \/ GotIp \/ Rejected \/ Retried \/ TimerExpires

Spec == Init /\ [][Next]_vars

\* The server and the browsers go on, and scans end.  That an attempt to connect
\* ends is not assumed: one that the access point turns away, because it is full
\* say, is repeated as long as it does (manager.c:882-886).
FairSpec ==
    /\ Spec
    /\ \A p \in Pages :
        /\ SF_vars(Serve(p)) /\ WF_vars(HandleResponse(p))
        /\ WF_vars(\E timer \in Timers : TimerFires(p, timer))
    /\ WF_vars(ScanDone)

-----------------------------------------------------------------------------
\* Types, and the states and timers each window can have.
TypeOK ==
    /\ \A p \in Pages :
        /\ page[p].provState \in States
        /\ page[p].shown \in Shown
        /\ page[p].timer \subseteq Timers
        /\ page[p].forDisplay \in 0 .. MaxFound
        /\ page[p].scanIndex \in 0 .. page[p].numScanResults
        /\ Len(page[p].scanResults) <= MaxFound
        /\ Len(sent[p]) <= MaxSent + 1
    /\ server \in Pages \cup {Nobody}
    /\ device.prov \in {"STARTED", "CRED_RECV", "SUCCESS", "FAIL", "GONE"}
    /\ halted \in {"no", "fault", "lock"}
    /\ refused \subseteq Pages

\* A window that has fetched the list shows all of it as the device has it, but
\* for the networks that are too weak (prov.js:269-326).
ShownAll ==
    [][\A p \in Pages :
          /\ page[p].provState = "SCANNING" /\ page'[p].provState = "READY"
          /\ device.prov # "GONE"
          => page'[p].table = Strong(device.found)]_vars

\* A response is handled by the function of its own request, though a window has
\* only one callback and the two endpoints number their messages alike; but for a
\* scan's status that arrives when credentials are sent (prov.js:486-517).
RightHandler ==
    \A p \in Pages :
        sent[p] # <<>> /\ Head(sent[p]).reply # Pending /\ Head(sent[p]).reply.http = 200
            /\ IsResponse(page[p].callback, Head(sent[p]).reply)
        => \/ page[p].callback = Head(sent[p]).op
           \/ page[p].callback = "set_config" /\ Head(sent[p]).op = "scan_status"

\* The session that the page ends is one in which the device has connected: not
\* one that waits for credentials or tries them (prov.js:413-438).
EndEarned ==
    [][device.prov # "GONE" /\ device'.prov = "GONE"
          => device.prov \in {"SUCCESS", "FAIL"}]_vars

\* A request that is granted leaves no memory behind (wifi_config.c:232-281,
\* wifi_scan.c:198-231).
AnswerFrees ==
    \A p \in Pages : \A i \in DOMAIN sent[p] :
        LET reply == sent[p][i].reply
        IN  reply # Pending /\ reply.ok => reply.left = {}

\* The server's task waits for a scan whose end the session has not listened to,
\* or goes on no longer.
Stuck == halted # "no" \/ (device.scanning /\ ~device.radio)

\* If the access point gives its verdict in the end, whoever waits for a connection
\* is told what has become of it, unless the device has refused what it was asked or
\* is stuck (prov.js:328-438).  Where attempts are repeated without end, the windows
\* ask without end.
Decided == <>[][~Retried]_vars /\ WF_vars(GotIp \/ Rejected)

VerdictShown ==
    Decided =>
        \A p \in Pages :
            page[p].shown = "connecting"
                ~> page[p].shown # "connecting" \/ p \in refused \/ Stuck
=============================================================================
