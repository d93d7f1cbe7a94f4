---------------------------- MODULE ExampleMain ----------------------------
(***************************************************************************)
(* The example application, main/webprov_example_main.c: at start-up it    *)
(* connects with the credentials that flash holds or offers provisioning,  *)
(* falls back to provisioning when the network stays away for 30 s, and    *)
(* clears the credentials on request.                                      *)
(*                                                                         *)
(* Its state is written by app_main and by handlers in the event loop's    *)
(* task, without a lock.  The session of the provisioning manager (see     *)
(* WebProv) is reduced to its state, the network to a link that answers    *)
(* attempts to connect.  Power may fail at any time; what flash holds is   *)
(* all that survives.                                                      *)
(***************************************************************************)
EXTENDS Naturals, Sequences

CONSTANTS
    Creds,      \* credentials
    Good,       \* those which the network accepts
    NoCred,     \* is none of them
    MaxBoots,   \* bound on restarts
    MaxEvents,  \* bound on events that wait when the network adds one
    MayFail,    \* "start": prov_webpage_mgr_start
    Races       \* behaviour this instance admits (see ASSUME)

ASSUME ExampleCreds ==
    /\ Good \subseteq Creds /\ NoCred \notin Creds
    /\ MaxBoots \in Nat /\ MaxEvents \in Nat \ {0}

\* "late_main": app_main has yet to note that it connects when the event loop
\*   has the address;
\* "no_ip": the network does not always give an address;
\* "slow_loop": the event loop has yet to handle the end of one connection when the
\*   next attempt to connect ends.
ASSUME ExampleChoices ==
    /\ MayFail \subseteq {"start"}
    /\ Races \subseteq {"late_main", "no_ip", "slow_loop"}

VARIABLES
    main,      \* where app_main is
    state,     \* _state
    began,     \* _network_connect_begin_timestamp: none, or less or more than
               \* 30 s ago
    wifi,      \* event_handler is registered for WIFI_EVENT
    connected, \* WIFI_CONNECTED_EVENT
    events,    \* the event loop's queue
    prov,      \* the provisioning session
    connect,   \* its wifi_connect_timer
    shut,      \* the timers of its shutdown
    storage,   \* where esp_wifi_set_config puts the station's credentials
    ram,       \* the credentials in use
    flash,     \* those in flash
    link,      \* the station's connection
    wipe,      \* the timer and steps of clear_wifi_settings_and_restart
    boots,     \* restarts so far
    lost       \* (observer) how long the network has been away

app     == <<main, state, began, wifi, connected>>
session == <<prov, connect, shut>>
sta     == <<storage, ram, flash, link>>
vars    == <<app, events, session, sta, wipe, boots, lost>>

Sessions == {"none", "STARTED", "CRED_RECV", "SUCCESS", "FAIL", "ending", "ended"}
Age      == {"none", "fresh", "passed"}

Init ==
    /\ main = "check" /\ state = "INIT" /\ began = "none"
    /\ wifi = FALSE /\ connected = FALSE
    /\ events = <<>>
    /\ prov = "none" /\ connect = "idle" /\ shut = "idle"
    /\ storage = "flash" /\ ram = NoCred /\ flash \in Creds \cup {NoCred}
    /\ link = "down"
    /\ wipe = "idle"
    /\ boots = 0
    /\ lost = "fresh"

\* Types, and what main and the session can be.
TypeOK ==
    /\ main \in {"check", "webprov", "sta", "provisioning", "connecting", "wait",
                 "done", "initialised", "start_failed"}
    /\ state \in {"INIT", "PROVISIONING", "CONNECTING", "CONNECTED"}
    /\ began \in Age /\ (began = "none" <=> state # "CONNECTING")
    /\ wifi \in BOOLEAN /\ connected \in BOOLEAN
    /\ events \in Seq({"sta_start", "got_ip", "disconnected", "prov_end"})
    /\ prov \in Sessions
    /\ connect \in {"idle", "armed"}
    /\ shut \in {"idle", "stage1", "stage2", "due"}
    /\ storage \in {"flash", "ram"}
    /\ {ram, flash} \subseteq Creds \cup {NoCred}
    /\ link \in {"down", "trying", "no_address", "up"}
    /\ wipe \in {"idle", "armed", "stopped", "storage", "erased"}
    /\ boots \in 0 .. MaxBoots
    /\ lost \in Age

Aborted == main \in {"initialised", "start_failed"}
Alive   == ~Aborted

Post(event) == events' = Append(events, event)

-----------------------------------------------------------------------------
\* What a change of state makes of it and of the timestamp.

\* Mutants: the time is taken again when the state is the same; it is kept when
\* the state is another.
change_state_always(s) == <<s, IF s = "CONNECTING" THEN "fresh" ELSE "none">>

change_state_kept(s) ==
    <<s, IF s = "CONNECTING" /\ began = "none" THEN "fresh" ELSE began>>

change_state(s) ==
    IF state = s THEN <<state, began>>
    ELSE <<s, IF s = "CONNECTING" THEN "fresh" ELSE "none">>

Change(s) == state' = change_state(s)[1] /\ began' = change_state(s)[2]

\* esp_wifi_connect (external): without a name of a network it is refused.
Connect(l, cred) ==
    IF l = "down" /\ cred # NoCred /\ wipe \in {"idle", "armed"} THEN "trying" ELSE l

\* prov_webpage_mgr_start, which ends in an abort unless it succeeds; then the
\* station has forgotten its credentials, for the time being, and is disconnected.
Refused == prov # "none"

StartAborts(why) ==
    /\ main' = why
    /\ UNCHANGED <<state, began, session, sta>>

StartSucceeds ==
    /\ ~Refused
    /\ prov' = "STARTED"
    /\ storage' = "ram" /\ ram' = NoCred /\ link' = "down"
    /\ UNCHANGED <<connect, shut, flash>>

StartFails ==
    \/ Refused /\ StartAborts("initialised")
    \/ ~Refused /\ "start" \in MayFail /\ StartAborts("start_failed")

-----------------------------------------------------------------------------
\* app_main, from wifi_is_provisioned on; what comes before starts no event.
CheckProvisioned ==
    /\ main = "check"
    /\ main' = IF flash = NoCred THEN "webprov" ELSE "sta"
    /\ wifi' = (flash # NoCred)
    /\ UNCHANGED <<state, began, connected, events, session, sta, wipe, boots, lost>>

\* start_webprov, and, as a step of its own, its change of state.
MainStartsWebprov ==
    /\ main = "webprov"
    /\ \/ StartSucceeds /\ main' = "provisioning" /\ UNCHANGED <<state, began>>
       \/ StartFails
    /\ UNCHANGED <<wifi, connected, events, wipe, boots, lost>>

\* wifi_init_sta, likewise.
MainStartsSta ==
    /\ main = "sta"
    /\ main' = "connecting"
    /\ ram' = flash
    /\ Post("sta_start")
    /\ UNCHANGED <<state, began, wifi, connected, session, storage, flash, link,
                   wipe, boots, lost>>

MainChangesState ==
    /\ \/ main = "provisioning" /\ Change("PROVISIONING")
       \/ main = "connecting" /\ Change("CONNECTING")
    /\ main' = "wait"
    /\ UNCHANGED <<wifi, connected, events, session, sta, wipe, boots, lost>>

MainGoesOn ==
    /\ main = "wait" /\ connected
    /\ main' = "done"
    /\ UNCHANGED <<state, began, wifi, connected, events, session, sta, wipe, boots,
                   lost>>

app_main ==
    \/ CheckProvisioned \/ MainStartsWebprov \/ MainStartsSta
    \/ MainChangesState \/ MainGoesOn

-----------------------------------------------------------------------------
\* The event loop's task; each of the program's handlers sees the event.

Dispatch(event) ==
    /\ Alive
    /\ events # <<>> /\ Head(events) = event
    /\ events' = Tail(events)

\* On a disconnection the manager's handler gives up, for a reason that says so,
\* or tries again; it sees no start of the station.
Verdicts ==
    IF prov \in {"CRED_RECV", "SUCCESS", "FAIL"} THEN {prov, "FAIL"} ELSE {prov}

\* handle_connecting_state, after a change of state that is none if the station
\* was connecting already.
TimedOut == change_state("CONNECTING")[2] = "passed"

Retry ==
    /\ ~TimedOut
    /\ Change("CONNECTING")
    /\ link' = Connect(link, ram)
    /\ prov' \in Verdicts
    /\ UNCHANGED <<main, wifi, connect, shut, storage, ram, flash>>

\* start_webprov's last step is to change the state again.
FallBack ==
    /\ TimedOut
    /\ wifi' = FALSE
    /\ \/ StartSucceeds /\ Change("PROVISIONING") /\ UNCHANGED main
       \/ StartFails

HandlesConnecting ==
    /\ wifi
    /\ Dispatch("sta_start") \/ Dispatch("disconnected")
    /\ Retry \/ FallBack
    /\ UNCHANGED <<connected, wipe, boots, lost>>

\* While the application does not listen, the manager does.
ProvisioningDisconnected ==
    /\ ~wifi
    /\ Dispatch("disconnected")
    /\ prov' \in Verdicts
    /\ link' = IF prov' \in {"CRED_RECV", "SUCCESS"} THEN Connect(link, ram) ELSE link
    /\ UNCHANGED <<app, connect, shut, storage, ram, flash, wipe, boots, lost>>

\* wifi_prov_event_handler registers the handler for WIFI_EVENT.  A mutant does not.
ListensNot == wifi' = wifi

Listens == wifi' = TRUE

\* The address: event_handler first, then the manager's handler, which tells
\* wifi_prov_event_handler.
GotIp ==
    /\ Dispatch("got_ip")
    /\ main = "connecting" => "late_main" \in Races
    /\ Change("CONNECTED")
    /\ connected' = TRUE
    /\ IF prov \in {"CRED_RECV", "SUCCESS", "FAIL"} THEN prov' = "SUCCESS" /\ Listens
       ELSE UNCHANGED <<prov, wifi>>
    /\ UNCHANGED <<main, connect, shut, sta, wipe, boots, lost>>

\* The END of the session, with which the manager is gone.
ProvEnd ==
    /\ Dispatch("prov_end")
    /\ prov' = "none"
    /\ UNCHANGED <<app, connect, shut, sta, wipe, boots, lost>>

event_loop == HandlesConnecting \/ ProvisioningDisconnected \/ GotIp \/ ProvEnd

-----------------------------------------------------------------------------
\* The session: what the page (see ProvPage) asks for, the timers, the stop task.

SessionOnly == UNCHANGED <<app, wipe, boots, lost>>

\* The timer task runs one callback at a time, so that none of these comes between
\* the steps of clear_wifi_settings_and_restart.
TimerTask == Alive /\ wipe \in {"idle", "armed"}

\* wifi_prov_mgr_configure_sta: the credentials are in flash before the timer is
\* started, which fails while it runs.
ApplyConfig(cred) ==
    /\ Alive
    /\ prov = "STARTED"
    /\ storage' = "flash" /\ flash' = cred /\ ram' = cred
    /\ connect' = "armed"
    /\ prov' = IF connect = "idle" THEN "CRED_RECV" ELSE prov
    /\ UNCHANGED <<shut, events, link>>
    /\ SessionOnly

\* wifi_connect_timer_cb.
ConnectTimer ==
    /\ TimerTask
    /\ connect = "armed" /\ connect' = "idle"
    /\ link' = Connect(link, ram)
    /\ UNCHANGED <<prov, shut, events, storage, ram, flash>>
    /\ SessionOnly

\* wifi_prov_mgr_reset_to_ready_state.
ResetToReady ==
    /\ TimerTask
    /\ prov \in {"FAIL", "SUCCESS"}
    /\ prov' = "STARTED"
    /\ storage' = "ram" /\ flash' = NoCred /\ ram' = NoCred
    /\ UNCHANGED <<connect, shut, events, link>>
    /\ SessionOnly

\* The page ends a session in which the station has had an address; while a
\* shutdown is under way the command changes nothing.
Shutdown ==
    /\ Alive
    /\ wifi /\ prov \notin {"none", "ending", "ended"}
    /\ shut = "idle" /\ shut' = "stage1"
    /\ UNCHANGED <<prov, connect, events, sta>>
    /\ SessionOnly

Stage1 ==
    /\ TimerTask
    /\ shut = "stage1" /\ shut' = "stage2"
    /\ UNCHANGED <<prov, connect, events, sta>>
    /\ SessionOnly

\* HANDOFF_DELAY_S later: prov_webpage_mgr_stop, which starts the stop task and
\* deletes the timers.
Stage2 ==
    /\ TimerTask
    /\ shut \in {"stage2", "due"} /\ shut' = "idle"
    /\ prov' = "ending"
    /\ connect' = "idle"
    /\ UNCHANGED <<events, sta>>
    /\ SessionOnly

prov_stop_task ==
    /\ Alive
    /\ prov = "ending" /\ prov' = "ended"
    /\ Post("prov_end")
    /\ UNCHANGED <<connect, shut, sta>>
    /\ SessionOnly

-----------------------------------------------------------------------------
\* rest_web_api_handler's one command that changes anything, from a browser that
\* reaches the device through its network or its access point.
ClearCommand ==
    /\ Alive
    /\ link = "up" \/ prov # "none"
    /\ wipe = "idle" /\ boots < MaxBoots
    /\ wipe' = "armed"
    /\ UNCHANGED <<app, events, session, sta, boots, lost>>

\* clear_wifi_settings_and_restart, in the timer's task: the station is stopped, the
\* storage is chosen, the credentials there are cleared, the device restarts.
WipeStops ==
    /\ Alive
    /\ wipe = "armed"
    /\ wipe' = "stopped"
    /\ link' = "down"
    /\ IF link = "up" THEN Post("disconnected") ELSE UNCHANGED events
    /\ UNCHANGED <<app, session, storage, ram, flash, boots, lost>>

WipeStorage ==
    /\ Alive
    /\ wipe = "stopped"
    /\ wipe' = "storage"
    /\ storage' = "flash"
    /\ UNCHANGED <<app, events, session, ram, flash, link, boots, lost>>

\* A session that is started, or credentials that are applied, after WipeStorage have
\* chosen the storage anew.
WipeErases ==
    /\ Alive
    /\ wipe = "storage"
    /\ wipe' = "erased"
    /\ ram' = NoCred
    /\ flash' = IF storage = "flash" THEN NoCred ELSE flash
    /\ UNCHANGED <<app, events, session, storage, link, boots, lost>>

Restart ==
    /\ boots < MaxBoots /\ boots' = boots + 1
    /\ main' = "check" /\ state' = "INIT" /\ began' = "none"
    /\ wifi' = FALSE /\ connected' = FALSE
    /\ events' = <<>>
    /\ prov' = "none" /\ connect' = "idle" /\ shut' = "idle"
    /\ storage' = "flash" /\ ram' = NoCred /\ UNCHANGED flash
    /\ link' = "down"
    /\ wipe' = "idle"
    /\ lost' = "fresh"

WipeRestarts == Alive /\ wipe = "erased" /\ Restart

\* An abort restarts the device as well, and so does a failure of its power.
AbortRestarts == Aborted /\ Restart
PowerFails    == Alive /\ Restart

-----------------------------------------------------------------------------
\* The network and time (external).

News == {"sta_start", "disconnected"}

FromNetwork ==
    /\ Len(events) < MaxEvents
    /\ "slow_loop" \in Races \/ \A i \in DOMAIN events : events[i] \notin News
    /\ UNCHANGED <<app, session, storage, ram, flash, wipe, boots>>

Associates ==
    /\ Alive
    /\ link = "trying" /\ ram \in Good
    /\ link' = "no_address"
    /\ UNCHANGED <<events, lost>>
    /\ FromNetwork

GetsAddress ==
    /\ Alive
    /\ link = "no_address"
    /\ link' = "up"
    /\ Post("got_ip")
    /\ lost' = "none"
    /\ FromNetwork

\* An attempt fails, or a connection is lost.
Drops(from) ==
    /\ Alive
    /\ link \in from
    /\ link' = "down"
    /\ Post("disconnected")
    /\ lost' = IF link = "up" THEN "fresh" ELSE lost
    /\ FromNetwork

\* An attempt comes to an end, and a station that is not given an address is sent
\* away, unless this network just leaves it waiting.
Attempt ==
    \/ Associates \/ Drops({"trying"})
    \/ "no_ip" \notin Races /\ (GetsAddress \/ Drops({"no_address"}))

\* 30 s pass: the timers of 0.1, 1 and 3 s and the tasks are faster; the 30 s of
\* HANDOFF_DELAY_S may end before or after, but not long after.
HalfMinute ==
    /\ Alive
    /\ wipe = "idle" /\ main \in {"wait", "done"} /\ events = <<>>
    /\ prov # "ending" /\ connect = "idle" /\ shut \in {"idle", "stage2"}
    /\ began = "fresh" \/ lost = "fresh"
    /\ began' = IF began = "fresh" THEN "passed" ELSE began
    /\ lost' = IF lost = "fresh" THEN "passed" ELSE lost
    /\ shut' = IF shut = "stage2" THEN "due" ELSE shut
    /\ UNCHANGED <<main, state, wifi, connected, events, prov, connect, sta, wipe,
                   boots>>

-----------------------------------------------------------------------------
page     == (\E cred \in Creds : ApplyConfig(cred)) \/ Shutdown
timers   == ConnectTimer \/ Stage1 \/ Stage2
clearing == WipeStops \/ WipeStorage \/ WipeErases \/ WipeRestarts

Next ==
    \/ app_main \/ event_loop
    \/ page \/ ResetToReady \/ timers \/ prov_stop_task
    \/ ClearCommand \/ clearing
    \/ AbortRestarts \/ PowerFails
    \/ Associates \/ GetsAddress \/ Drops({"trying", "no_address", "up"})
    \/ HalfMinute

Spec == Init /\ [][Next]_vars

\* Tasks run, attempts end and time passes.
FairSpec ==
    /\ Spec
    /\ WF_vars(app_main) /\ WF_vars(event_loop)
    /\ WF_vars(Attempt) /\ SF_vars(HalfMinute)
    /\ WF_vars(ConnectTimer) /\ WF_vars(Stage1) /\ WF_vars(Stage2)
    /\ WF_vars(prov_stop_task) /\ WF_vars(clearing)

-----------------------------------------------------------------------------
\* A device that takes itself to be connected is, or hears that it is no more:
\* its handler is there before the news (webprov_example_main.c:118-168).
LossHeard ==
    Alive /\ state = "CONNECTED" =>
        \/ link = "up"
        \/ wifi /\ \E i \in DOMAIN events : events[i] = "disconnected"

\* The device falls back to provisioning, and forgets the network, only when it
\* has had none for 30 s: the time is that of the last loss
\* (webprov_example_main.c:62-69, 103-155).
FallbackEarned ==
    [][wifi /\ ~wifi' /\ boots' = boots => lost = "passed"]_vars

\* What the assertion around the start of provisioning takes for granted: no session
\* is left then, which the manager would refuse (webprov_example_main.c:467).
StartedOnce == main # "initialised"

\* A device that tries a network which is not there, or credentials that were stored
\* before they had been accepted and are wrong, with no session left, comes to offer
\* provisioning or connects (webprov_example_main.c:62-69, manager.c:1149-1172).  One
\* that tries none, after a reset in a session which then ended, hears of no attempt.
Tries ==
    ram # NoCred /\ (link # "down" \/ \E i \in DOMAIN events : events[i] \in News)

Reachable ==
    (state = "CONNECTING" /\ prov = "none" /\ Tries)
        ~> (state # "CONNECTING" \/ prov # "none" \/ Aborted)
=============================================================================
