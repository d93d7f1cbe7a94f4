------------------------------- MODULE ProvMgr -------------------------------
(***************************************************************************)
(* The provisioning manager, components/wifi_provisioning/src/manager.c:   *)
(* a singleton context behind one mutex (prov_ctx_lock), used by           *)
(*   - application tasks, which call the life-cycle functions,             *)
(*   - the HTTP server task, which runs the prov-config and prov-scan      *)
(*     request handlers,                                                   *)
(*   - the timer task, which runs the auto-stop and Wi-Fi connect timers,  *)
(*   - the default event loop, which delivers Wi-Fi and IP events, and     *)
(*   - the tasks that the manager itself spawns to stop a session.         *)
(*                                                                         *)
(* A region of the code between ACQUIRE_LOCK and RELEASE_LOCK in which     *)
(* nothing blocks is one action, enabled while the lock is free.  A region *)
(* that blocks inside, or runs without the lock, is several: the thread's  *)
(* program counter says where it is.  A loop that polls under the lock is  *)
(* an action enabled once the loop would end.                              *)
(***************************************************************************)
EXTENDS Naturals, Sequences, FiniteSets

CONSTANTS
    Callers,    \* application tasks that call the manager's API
    StopTasks,  \* slots for the tasks that xTaskCreate(prov_stop_task) makes
    Creds,      \* Wi-Fi configurations a client may send or flash may hold
    Modes,      \* what start_provisioning may be called with
    Api,        \* the calls the threads of this instance make
    MayFail,    \* the external calls that may fail in this instance
    Races,      \* environment behaviour this instance admits (see ASSUME)
    MaxQueue    \* bound on events waiting in the default event loop

Http      == "http"         \* the HTTP server's task
TimerTask == "esp_timer"    \* the task that runs timer callbacks
EventLoop == "event_loop"   \* the task of the default event loop
Nobody    == "nobody"
NoCred    == "empty"        \* an all-zero wifi_config_t

System  == {Http, TimerTask, EventLoop}
Threads == Callers \cup StopTasks \cup System

ASSUME ThreadsAssumption ==
    /\ Callers \cap (StopTasks \cup System \cup {Nobody}) = {}
    /\ StopTasks \cap (System \cup {Nobody}) = {}

ASSUME DataAssumption ==
    /\ NoCred \notin Creds
    /\ Modes \subseteq {"sec0", "sec1", "sec1_pop"}
    /\ MaxQueue \in Nat

\* "wifi": esp_wifi_* in start_provisioning; "pop", "timer": malloc and
\* esp_timer_create there; "service": anything in start_service; "init":
\* an allocation of init after its first; "config": esp_wifi_* in
\* configure_sta and reset; "scan": esp_wifi_scan_start.
ASSUME FailAssumption ==
    MayFail \subseteq {"wifi", "pop", "timer", "service", "init", "config", "scan"}

\* "early_request": a client request is served while start_provisioning has
\*   not returned yet (the endpoints are up before the state says so);
\* "event_during_stop": the event loop is running the manager's handler, or
\*   the application's callback under it, when a stop begins;
\* "late_scan": a scan is requested in the delay between a stop and the
\*   removal of the endpoints;
\* "reset_when_down": reset_to_ready_state is called after a deinit.
ASSUME RacesAssumption ==
    Races \subseteq {"early_request", "event_during_stop", "late_scan",
                     "reset_when_down"}

States == {"IDLE", "STARTING", "STARTED", "CRED_RECV", "FAIL", "SUCCESS",
           "STOPPING"}

\* WIFI_PROV_STATE_STARTING < s < WIFI_PROV_STATE_STOPPING
Active == {"STARTED", "CRED_RECV", "FAIL", "SUCCESS"}

Timer == {"null", "idle", "armed", "dangling"}

\* What the driver posts: STA_START, GOT_IP, SCAN_DONE, and STA_DISCONNECTED
\* with a reason the handler reports (REJECTED) or one it retries (DROPPED).
Events == {"STA_START", "GOT_IP", "SCAN_DONE", "REJECTED", "DROPPED"}

VARIABLES
    lock,           \* holder of prov_ctx_lock
    loopLock,       \* holder of the event loop's own mutex
    pc,             \* where each thread is
    ctx,            \* prov_ctx: NULL without the lock's ever having been
                    \* created, NULL after a deinit, allocated, or freed
                    \* but not NULL
    st,             \* prov_ctx->prov_state
    caps,           \* what was configured in IDLE: no_auto_stop and additions
    mode,           \* security and pop of the last start
    pop,            \* prov_ctx->pop.data
    wifi,           \* prov_ctx->wifi_state
    scanning,       \* prov_ctx->scanning
    pcomm,          \* prov_ctx->pc, the protocomm instance
    endpoints,      \* the prov-config and prov-scan endpoints can be reached
    staged,         \* wifi_cfg kept by set_config for apply_config
    handlers,       \* the manager is registered for Wi-Fi and IP events
    connectTimer,   \* prov_ctx->wifi_connect_timer
    autostopTimer,  \* prov_ctx->autostop_timer
    storage,        \* where esp_wifi_set_config writes: RAM, or FLASH as well
    ram, flash,     \* station configuration in use, and the one in NVS
    saved,          \* wifi_cfg_old of the running start_provisioning
    link,           \* the station: down, leaving, joining or up
    ops,            \* driver operations whose event is still to come
    queue,          \* events posted to the default loop
    event,          \* the event being handled, or "none"
    fault           \* the first use of memory that is not there

locks   == <<lock, loopLock>>
data    == <<caps, mode, pop>>
station == <<wifi, scanning>>
service == <<pcomm, endpoints, staged>>
timers  == <<connectTimer, autostopTimer>>
config  == <<storage, ram, flash, saved>>
driver  == <<link, ops, queue, event>>
session == <<data, station, service, handlers, timers>>
env     == <<config, driver>>
world   == <<ctx, st, session, env, fault>>
vars    == <<locks, pc, world>>

Labels == {"idle", "service", "register", "undo", "failed", "started",
           "stop", "deinit", "unreg_stop", "unreg_deinit", "cleanup",
           "cleaned", "end", "deinit_end", "deinit_event", "cb_init",
           "cb_start", "cb_cred", "relock", "wait", "scan_wait", "done",
           "handle", "connect"}

\* Types, and the places each thread can be in.
TypeOK ==
    /\ lock \in Threads \cup {Nobody}
    /\ loopLock \in Threads \cup {Nobody}
    /\ pc \in [Threads -> Labels]
    /\ ctx \in {"none", "null", "live", "freed"}
    /\ st \in States
    /\ caps \subseteq {"no_auto_stop", "app_info", "endpoint"}
    /\ mode \in {"sec0", "sec1", "sec1_pop"}
    /\ pop \in {"null", "set", "dangling"}
    /\ wifi \in {"CONNECTING", "CONNECTED", "DISCONNECTED"}
    /\ scanning \in BOOLEAN
    /\ pcomm \in {"null", "live", "dangling"}
    /\ endpoints \in BOOLEAN
    /\ staged \in Creds \cup {NoCred}
    /\ handlers \in BOOLEAN
    /\ connectTimer \in Timer
    /\ autostopTimer \in Timer
    /\ storage \in {"RAM", "FLASH"}
    /\ {ram, flash, saved} \subseteq Creds \cup {NoCred}
    /\ link \in {"down", "leaving", "joining", "up"}
    /\ ops \subseteq {"start", "scan"}
    /\ queue \in Seq(Events)
    /\ event \in Events \cup {"none"}
    /\ fault \in {"none", "null_ctx", "freed_ctx", "freed_timer", "freed_pop",
                  "freed_pcomm"}

Init ==
    /\ lock = Nobody
    /\ loopLock = Nobody
    /\ pc = [t \in Threads |-> "idle"]
    /\ ctx = "none"
    /\ st = "IDLE"
    /\ caps = {}
    /\ mode = "sec1_pop"
    /\ pop = "null"
    /\ wifi = "CONNECTING"
    /\ scanning = FALSE
    /\ pcomm = "null"
    /\ endpoints = FALSE
    /\ staged = NoCred
    /\ handlers = FALSE
    /\ connectTimer = "null"
    /\ autostopTimer = "null"
    /\ storage = "FLASH"
    /\ flash \in Creds \cup {NoCred}
    /\ ram = flash
    /\ saved = NoCred
    /\ link = "down"
    /\ ops = {}
    /\ queue = <<>>
    /\ event = "none"
    /\ fault = "none"

-----------------------------------------------------------------------------
Goto(t, label) == pc' = [pc EXCEPT ![t] = label]

\* A step in which only the thread's own place changes.
Move(t, label) == Goto(t, label) /\ UNCHANGED <<locks, world>>

\* Thread t takes the lock at label and gives it back within this step.
Locked(t, label) == pc[t] = label /\ lock = Nobody /\ ctx # "freed"

\* Caller t begins the API call op, which takes the lock and completes.
Call(t, op) == t \in Callers /\ op \in Api /\ Locked(t, "idle")

\* The HTTP task serves a request for op that a client sent to an endpoint.
Request(op) ==
    /\ op \in Api /\ endpoints
    /\ st = "STARTING" => "early_request" \in Races
    /\ pc[Http] = "idle"

Fails(op) == op \in MayFail

\* The first fault is kept; the program does not survive it.
Fault(bad, kind) == fault' = IF bad THEN kind ELSE fault

\* esp_wifi_set_storage, then esp_wifi_set_config (external): flash follows
\* only in the FLASH mode.
WriteConfig(mem, c) ==
    /\ storage' = mem
    /\ ram' = c
    /\ flash' = IF mem = "FLASH" THEN c ELSE flash

\* esp_wifi_connect(): a new attempt, unless the station is associated.
Connect == link' = IF link = "up" THEN "up" ELSE "joining"

-----------------------------------------------------------------------------
\* wifi_prov_mgr_init, which creates the lock the first time: until then every other
\* call returns at once.  calloc gives a zeroed context.
InitManager(t) ==
    /\ Call(t, "init")
    /\ ctx \in {"none", "null"}
    /\ ctx' = "live"
    /\ st' = "IDLE"
    /\ caps' = {}
    /\ pop' = "null"
    /\ wifi' = "CONNECTING"
    /\ scanning' = FALSE
    /\ pcomm' = "null"
    /\ connectTimer' = "null"
    /\ autostopTimer' = "null"
    /\ Goto(t, "cb_init")
    /\ UNCHANGED <<locks, mode, endpoints, staged, handlers, env, fault>>

\* A later allocation of init fails: the context is freed, the pointer kept.
InitFails(t) ==
    /\ Call(t, "init")
    /\ Fails("init")
    /\ ctx \in {"none", "null"}
    /\ ctx' = "freed"
    /\ UNCHANGED <<locks, pc, st, session, env, fault>>

\* Any call that takes the lock then follows the freed pointer.
TouchFreed(t) ==
    /\ ctx = "freed" /\ lock = Nobody
    /\ t \in Callers /\ pc[t] = "idle"
    /\ fault' = "freed_ctx"
    /\ UNCHANGED <<locks, pc, ctx, st, session, env>>

\* disable_auto_stop, set_app_info and endpoint_create, allowed in IDLE only.
Configure(t, what) ==
    /\ Call(t, what)
    /\ ctx = "live" /\ st = "IDLE"
    /\ caps' = caps \cup {what}
    /\ UNCHANGED <<locks, pc, ctx, st, mode, pop, station, service, handlers,
                   timers, env, fault>>

InSession == ctx = "live" /\ st \in Active

\* endpoint_register and endpoint_unregister use the protocomm instance.
UseEndpoint(t) ==
    /\ Call(t, "endpoint_register")
    /\ InSession
    /\ Fault(pcomm # "live", "freed_pcomm")
    /\ UNCHANGED <<locks, pc, ctx, st, session, env>>

-----------------------------------------------------------------------------
\* start_provisioning, up to the point where it gives the lock back to run
\* wifi_prov_mgr_start_service.

MayStart(t) == Call(t, "start") /\ ctx = "live" /\ st = "IDLE"

\* esp_wifi_start and esp_wifi_disconnect: events may follow.
Disconnect ==
    /\ link' = IF link = "down" THEN "down" ELSE "leaving"
    /\ ops' \in {ops, ops \cup {"start"}}

BlankStationInFlash == WriteConfig("FLASH", NoCred) /\ saved' = ram /\ Disconnect

\* The old configuration is kept in wifi_cfg_old, and an empty one is set in
\* RAM.
BlankStation == WriteConfig("RAM", NoCred) /\ saved' = ram /\ Disconnect

CreateTimers ==
    /\ connectTimer' = "idle"
    /\ autostopTimer' = IF "no_auto_stop" \in caps THEN autostopTimer ELSE "idle"

StartProvisioning(t, m) ==
    /\ MayStart(t)
    /\ st' = "STARTING"
    /\ BlankStation
    /\ mode' = m
    /\ pop' = IF m = "sec1_pop" THEN "set" ELSE pop
    /\ CreateTimers
    /\ Goto(t, "service")
    /\ UNCHANGED <<locks, ctx, caps, station, service, handlers, queue, event,
                   fault>>

\* One of the first esp_wifi_* calls fails: return with the state as it is.
StartWifiFails(t) ==
    /\ MayStart(t)
    /\ Fails("wifi")
    /\ st' = "STARTING"
    /\ UNCHANGED <<storage, ram, flash>> \/ WriteConfig("RAM", NoCred)
    /\ ops' \in {ops, ops \cup {"start"}}
    /\ UNCHANGED <<locks, pc, ctx, session, saved, link, queue, event, fault>>

\* The err: label restores what wifi_cfg_old holds, in RAM and in flash.
RestoreConfig(old) == WriteConfig("FLASH", old)

\* What free() or esp_timer_delete() leaves of a pointer that is kept.
Delete(ptr) == IF ptr = "null" THEN "null" ELSE "dangling"

\* No memory for the proof of possession, or no timer (for the second timer
\* the first one is deleted again).
StartPrepareFails(t, m, what) ==
    /\ MayStart(t)
    /\ Fails(what)
    /\ what = "pop" => m = "sec1_pop"
    /\ RestoreConfig(ram)
    /\ Disconnect
    /\ IF what = "pop"
         THEN /\ pop' = "null"
              /\ UNCHANGED <<mode, connectTimer, fault>>
         ELSE /\ mode' = m
              /\ pop' = IF m = "sec1_pop" THEN "dangling" ELSE Delete(pop)
              /\ Fault(m # "sec1_pop" /\ pop = "dangling", "freed_pop")
              /\ \/ connectTimer' = connectTimer
                 \/ "no_auto_stop" \notin caps /\ connectTimer' = "dangling"
    /\ UNCHANGED <<locks, pc, ctx, st, caps, station, service, handlers, saved,
                   autostopTimer, queue, event>>

\* wifi_prov_mgr_start_service, without the lock: the transport goes up and
\* both endpoints with it, then the event handlers are registered.
StartService(t) ==
    /\ pc[t] = "service"
    /\ pcomm' = "live"
    /\ endpoints' = TRUE
    /\ staged' = NoCred
    /\ Fault(mode # "sec0" /\ pop = "dangling", "freed_pop")
    /\ Goto(t, "register")
    /\ UNCHANGED <<locks, ctx, st, data, station, handlers, timers, env>>

\* Registering and removing handlers takes the event loop's mutex.
RegisterForgotten == loopLock = Nobody /\ handlers' = handlers
UnregisterForgotten == loopLock = Nobody /\ handlers' = handlers

Register == loopLock = Nobody /\ handlers' = TRUE
Unregister == loopLock = Nobody /\ handlers' = FALSE

StartRegister(t) ==
    /\ pc[t] = "register"
    /\ Register
    /\ Goto(t, "started")
    /\ UNCHANGED <<locks, ctx, st, data, station, service, timers, env, fault>>

\* There is no protocomm instance, or it is deleted and the pointer kept.
StartServiceFails(t) ==
    /\ pc[t] \in {"service", "register"}
    /\ Fails("service")
    /\ pcomm' \in IF pc[t] = "service" THEN {"null", "dangling"} ELSE {"dangling"}
    /\ endpoints' = FALSE
    /\ Goto(t, "undo")
    /\ UNCHANGED <<locks, ctx, st, data, station, staged, handlers, timers,
                   env, fault>>

DeleteTimers ==
    /\ autostopTimer' = Delete(autostopTimer)
    /\ connectTimer' = Delete(connectTimer)

\* A deleted timer or a freed proof of possession is deleted or freed again.
DeletedTwice ==
    IF "dangling" \in {autostopTimer, connectTimer}
    THEN fault' = "freed_timer"
    ELSE Fault(pop = "dangling", "freed_pop")

\* Still without the lock: delete both timers and the proof of possession.
StartUndo(t) ==
    /\ pc[t] = "undo"
    /\ DeleteTimers
    /\ pop' = Delete(pop)
    /\ DeletedTwice
    /\ Goto(t, "failed")
    /\ UNCHANGED <<locks, ctx, st, caps, mode, station, service, handlers,
                   env>>

StartFailed(t) ==
    /\ Locked(t, "failed")
    /\ st' = "IDLE"
    /\ RestoreConfig(saved)
    /\ saved' = NoCred
    /\ Goto(t, "idle")
    /\ UNCHANGED <<locks, ctx, session, driver, fault>>

Started(t) ==
    /\ Locked(t, "started")
    /\ st' = "STARTED"
    /\ saved' = NoCred
    /\ Goto(t, "cb_start")
    /\ UNCHANGED <<locks, ctx, session, storage, ram, flash, driver, fault>>

-----------------------------------------------------------------------------
\* execute_event_cb runs the application's callback without the lock, takes
\* the lock again, and its caller then gives it back and returns.

Callback(t) ==
    /\ pc[t] \in {"cb_init", "cb_start", "cb_cred"}
    /\ Goto(t, "relock")
    /\ UNCHANGED <<locks, ctx, st, session, env, fault>>

\* The event loop's mutex goes with its thread's return.
LeaveLoop(t) == loopLock' = IF t = EventLoop THEN Nobody ELSE loopLock

Relock(t) ==
    /\ pc[t] = "relock" /\ lock = Nobody
    /\ LeaveLoop(t)
    /\ Goto(t, "idle")
    /\ UNCHANGED <<lock, world>>

-----------------------------------------------------------------------------
\* stop_provisioning, done and deinit; wifi_prov_mgr_stop_service.

CallStop(t) ==
    /\ t \in Callers /\ pc[t] = "idle"
    /\ \E op \in Api \cap {"stop", "deinit", "done", "wait"} : Goto(t, op)
    /\ UNCHANGED <<locks, world>>

\* wifi_prov_mgr_done: stop unless auto-stop was disabled.
Done(t) ==
    /\ Locked(t, "done")
    /\ Move(t, IF ctx = "live" /\ "no_auto_stop" \notin caps THEN "stop" ELSE "idle")

\* wifi_prov_mgr_wait polls until there is no session.
Wait(t) ==
    /\ Locked(t, "wait")
    /\ ctx = "live" => st = "IDLE"
    /\ Move(t, "idle")

SettledNotStopping(blocking) == ctx = "live" => st # "STARTING"

SettledNotStarting(blocking) == ctx = "live" /\ blocking => st # "STOPPING"

\* A blocking stop waits while a start or a stop is under way, any other one
\* while a start is.
Settled(blocking) ==
    ctx = "live" => st # "STARTING" /\ (blocking => st # "STOPPING")

\* There is no session to stop; one that is stopping already is no concern of
\* a stop that does not wait.
NotRunning(blocking) ==
    ctx = "live" => st = "IDLE" \/ (~blocking /\ st = "STOPPING")

StopNotRunning(t) ==
    /\ Locked(t, "stop")
    /\ Settled(FALSE) /\ NotRunning(FALSE)
    /\ Move(t, "idle")

StopTimersForgotten == UNCHANGED timers

StopTimers == autostopTimer' = "null" /\ connectTimer' = "null"

\* The part of stop_service up to the removal of the event handlers, which
\* blocks on the event loop's mutex: the lock stays taken.
BeginStop(t, blocking) ==
    /\ Settled(blocking) /\ ~NotRunning(blocking)
    /\ loopLock = EventLoop => "event_during_stop" \in Races
    /\ lock' = t
    /\ StopTimers
    /\ pop' = "null"
    /\ DeletedTwice
    /\ st' = "STOPPING"
    /\ scanning' = FALSE
    /\ UNCHANGED <<loopLock, ctx, caps, mode, wifi, service, handlers, env>>

StopBegin(t) == Locked(t, "stop") /\ BeginStop(t, FALSE) /\ Goto(t, "unreg_stop")

DeinitBegin(t) == Locked(t, "deinit") /\ BeginStop(t, TRUE) /\ Goto(t, "unreg_deinit")

ReleaseForgotten == lock' = lock

Release == lock' = Nobody

\* esp_event_handler_unregister, then the stop task is created.
StopUnregister(t, k) ==
    /\ pc[t] = "unreg_stop"
    /\ pc[k] = "idle"
    /\ Unregister
    /\ Release
    /\ pc' = [pc EXCEPT ![t] = "idle", ![k] = "cleanup"]
    /\ UNCHANGED <<loopLock, ctx, st, data, station, service, timers, env,
                   fault>>

DeinitUnregister(t) ==
    /\ pc[t] = "unreg_deinit"
    /\ Unregister
    /\ Release
    /\ Goto(t, "cleanup")
    /\ UNCHANGED <<loopLock, ctx, st, data, station, service, timers, env,
                   fault>>

\* prov_stop_task after its delay, without the lock.
CleanUp(t) ==
    /\ pc[t] = "cleanup"
    /\ Fault(pcomm # "live", "freed_pcomm")
    /\ pcomm' = "null"
    /\ endpoints' = FALSE
    /\ staged' = NoCred
    /\ Goto(t, "cleaned")
    /\ UNCHANGED <<locks, ctx, st, data, station, handlers, timers, env>>

EndSessionForgotten == st' = st

EndSession == st' = "IDLE"

StopTaskIdle(k) ==
    /\ k \in StopTasks
    /\ Locked(k, "cleaned")
    /\ EndSession
    /\ Goto(k, "end")
    /\ UNCHANGED <<locks, ctx, session, env, fault>>

\* WIFI_PROV_END, from the stop task or from deinit.
EmitEnd(t) ==
    /\ pc[t] \in {"end", "deinit_end"}
    /\ Goto(t, IF pc[t] = "end" THEN "idle" ELSE "deinit_event")
    /\ UNCHANGED <<locks, ctx, st, session, env, fault>>

\* deinit after a stop of its own, with no session, and with no context.
DeinitStopped(t) ==
    /\ t \in Callers
    /\ Locked(t, "cleaned")
    /\ EndSession
    /\ ctx' = "null"
    /\ Goto(t, "deinit_end")
    /\ UNCHANGED <<locks, session, env, fault>>

DeinitIdle(t) ==
    /\ Locked(t, "deinit")
    /\ Settled(TRUE) /\ NotRunning(TRUE)
    /\ ctx' = IF ctx = "live" THEN "null" ELSE ctx
    /\ Goto(t, IF ctx = "live" THEN "deinit_event" ELSE "idle")
    /\ UNCHANGED <<locks, st, session, env, fault>>

EmitDeinit(t) ==
    /\ pc[t] = "deinit_event"
    /\ Goto(t, "idle")
    /\ UNCHANGED <<locks, ctx, st, session, env, fault>>

-----------------------------------------------------------------------------
\* reset_to_ready_state looks whether there is a lock, but not whether there is a
\* context.

ResetNull(t) ==
    /\ Call(t, "reset")
    /\ ctx = "null" /\ "reset_when_down" \in Races
    /\ fault' = "null_ctx"
    /\ UNCHANGED <<locks, pc, ctx, st, session, env>>

Finished == ctx = "live" /\ st \in {"FAIL", "SUCCESS"}

\* Empties the configuration in flash, then in RAM.
Reset(t) ==
    /\ Call(t, "reset")
    /\ Finished
    /\ ram' = NoCred
    /\ flash' = NoCred
    /\ \/ storage' = "RAM" /\ st' = "STARTED"
       \/ Fails("config") /\ storage' = "FLASH" /\ st' = st
    /\ UNCHANGED <<locks, pc, ctx, session, saved, driver, fault>>

-----------------------------------------------------------------------------
\* prov-config requests: set_config keeps the credentials, apply_config hands
\* them to wifi_prov_mgr_configure_sta and forgets them either way.

SetConfig(c) ==
    /\ Request("apply")
    /\ staged' = c
    /\ UNCHANGED <<locks, pc, ctx, st, data, station, pcomm, endpoints,
                   handlers, timers, env, fault>>

Apply == Request("apply") /\ lock = Nobody /\ ctx = "live" /\ staged # NoCred

\* Credentials already received, or the driver refuses the mode or storage.
ApplyRefused ==
    /\ Apply
    /\ staged' = NoCred
    /\ IF st \notin {"IDLE", "STARTING", "STARTED"}
         THEN storage' = storage
         ELSE Fails("config") /\ storage' \in {storage, "FLASH"}
    /\ UNCHANGED <<locks, pc, ctx, st, data, station, pcomm, endpoints,
                   handlers, timers, ram, flash, saved, driver, fault>>

\* The connect timer cannot be started: what was written stays.
ApplyTimerFails ==
    /\ Apply
    /\ st \in {"IDLE", "STARTING", "STARTED"}
    /\ connectTimer # "idle"
    /\ WriteConfig("FLASH", staged)
    /\ staged' = NoCred
    /\ Fault(connectTimer = "dangling", "freed_timer")
    /\ UNCHANGED <<locks, pc, ctx, st, data, station, pcomm, endpoints,
                   handlers, timers, saved, driver>>


ArmConnect == connectTimer' = "armed"

ApplyConfig ==
    /\ Apply
    /\ st \in {"IDLE", "STARTING", "STARTED"}
    /\ connectTimer = "idle"
    /\ WriteConfig("FLASH", staged)
    /\ staged' = NoCred
    /\ ArmConnect
    /\ wifi' = "CONNECTING"
    /\ st' = "CRED_RECV"
    /\ Goto(Http, "cb_cred")
    /\ UNCHANGED <<locks, ctx, data, scanning, pcomm, endpoints, handlers,
                   autostopTimer, saved, driver, fault>>

\* get_status_handler: seeing the station connected it calls done.
GetStatus ==
    /\ Request("status") /\ lock = Nobody
    /\ ctx = "live" /\ wifi = "CONNECTED"
    /\ Move(Http, "done")

-----------------------------------------------------------------------------
\* prov-scan requests; the channel groups of a scan are left to ProvScan.

ScanRequest(op) ==
    /\ Request(op)
    /\ st = "STOPPING" => "late_scan" \in Races
    /\ lock = Nobody
    /\ ctx = "live" /\ ~scanning

ScanStart(blocking) ==
    /\ ScanRequest(IF blocking THEN "scan_blocking" ELSE "scan")
    /\ scanning' = TRUE
    /\ ops' = ops \cup {"scan"}
    /\ Goto(Http, IF blocking THEN "scan_wait" ELSE "idle")
    /\ UNCHANGED <<locks, ctx, st, data, wifi, service, handlers, timers,
                   config, link, queue, event, fault>>

\* esp_wifi_scan_start fails: the function returns with the lock taken.
ScanStartFails ==
    /\ \E op \in {"scan", "scan_blocking"} : ScanRequest(op)
    /\ Fails("scan")
    /\ lock' = Http
    /\ UNCHANGED <<loopLock, pc, world>>

\* A blocking scan polls until the manager is not scanning any more.
ScanWait ==
    /\ Locked(Http, "scan_wait")
    /\ ~(ctx = "live" /\ scanning)
    /\ Move(Http, "idle")

-----------------------------------------------------------------------------
\* Timers: a timer fires once and its callback runs in the timer task.

AutostopFires ==
    /\ pc[TimerTask] = "idle"
    /\ autostopTimer = "armed"
    /\ autostopTimer' = "idle"
    /\ Goto(TimerTask, "stop")
    /\ UNCHANGED <<locks, ctx, st, data, station, service, handlers,
                   connectTimer, env, fault>>

ConnectFires ==
    /\ pc[TimerTask] = "idle"
    /\ connectTimer = "armed"
    /\ connectTimer' = "idle"
    /\ Goto(TimerTask, "connect")
    /\ UNCHANGED <<locks, ctx, st, data, station, service, handlers,
                   autostopTimer, env, fault>>

\* wifi_connect_timer_cb, which takes no lock.
ConnectCallback ==
    /\ pc[TimerTask] = "connect"
    /\ Connect
    /\ Goto(TimerTask, "idle")
    /\ UNCHANGED <<locks, ctx, st, session, config, ops, queue, event, fault>>

-----------------------------------------------------------------------------
\* The Wi-Fi driver (external) posts events to the default event loop.

Post(e) == Len(queue) < MaxQueue /\ queue' = Append(queue, e)

DriverLink(e, from, to) ==
    /\ link = from
    /\ link' = to
    /\ Post(e)
    /\ UNCHANGED <<locks, pc, ctx, st, session, config, ops, event, fault>>

DriverGotIp    == ram # NoCred /\ DriverLink("GOT_IP", "joining", "up")
DriverRejected == DriverLink("REJECTED", "joining", "down")
DriverDropped ==
    \E from \in {"joining", "up", "leaving"} : DriverLink("DROPPED", from, "down")

DriverDone(op, e) ==
    /\ op \in ops
    /\ ops' = ops \ {op}
    /\ Post(e)
    /\ UNCHANGED <<locks, pc, ctx, st, session, config, link, event, fault>>

DriverOther == DriverDone("start", "STA_START") \/ DriverDone("scan", "SCAN_DONE")

\* The event loop (external) holds its mutex while it runs handlers, and
\* registering or removing a handler takes the same mutex.
Dispatch ==
    /\ pc[EventLoop] = "idle"
    /\ queue # <<>>
    /\ loopLock = Nobody
    /\ lock = Nobody \/ "event_during_stop" \in Races
    /\ queue' = Tail(queue)
    /\ IF handlers
         THEN /\ event' = Head(queue)
              /\ loopLock' = EventLoop
              /\ Goto(EventLoop, "handle")
         ELSE UNCHANGED <<event, loopLock, pc>>
    /\ UNCHANGED <<lock, ctx, st, session, config, link, ops, fault>>

-----------------------------------------------------------------------------
\* wifi_prov_mgr_event_handler_internal.

\* Only a session with credentials (or one that is stopping) listens.
Listening == ctx = "live" /\ st \notin {"IDLE", "STARTING", "STARTED"}

EventHandled ==
    /\ event' = "none"
    /\ LeaveLoop(EventLoop)
    /\ Goto(EventLoop, "idle")

\* The application is told through execute_event_cb first.
EventReported == event' = "none" /\ Goto(EventLoop, "cb_cred")

\* Nothing to do: the event is ignored.
HandleNothing ==
    /\ Locked(EventLoop, "handle")
    /\ \/ event = "SCAN_DONE" /\ ~(ctx = "live" /\ st = "STARTED" /\ scanning)
       \/ event # "SCAN_DONE" /\ ~Listening
    /\ EventHandled
    /\ UNCHANGED <<lock, ctx, st, session, config, link, ops, queue, fault>>

ScanOverForgotten == scanning' = scanning

\* update_wifi_scan_results with all channels in one group.
ScanOver == scanning' = FALSE

HandleScanDone ==
    /\ Locked(EventLoop, "handle")
    /\ event = "SCAN_DONE"
    /\ ctx = "live" /\ st = "STARTED" /\ scanning
    /\ ScanOver
    /\ EventHandled
    /\ UNCHANGED <<lock, ctx, st, data, wifi, service, handlers, timers,
                   config, link, ops, queue, fault>>

\* STA_START, and a disconnection whose reason is retried at once.
HandleConnecting ==
    /\ Locked(EventLoop, "handle")
    /\ event \in {"STA_START", "DROPPED"}
    /\ Listening
    /\ wifi' = "CONNECTING"
    /\ IF event = "DROPPED" THEN Connect ELSE link' = link
    /\ EventHandled
    /\ UNCHANGED <<lock, ctx, st, data, scanning, service, handlers, timers,
                   config, ops, queue, fault>>

SucceedSwapped == wifi' = "SUCCESS" /\ st' = "CONNECTED"

Succeed == wifi' = "CONNECTED" /\ st' = "SUCCESS"

HandleGotIp ==
    /\ Locked(EventLoop, "handle")
    /\ event = "GOT_IP"
    /\ Listening
    /\ Succeed
    /\ IF "no_auto_stop" \in caps
         THEN UNCHANGED <<autostopTimer, fault>>
         ELSE /\ Fault(autostopTimer = "dangling", "freed_timer")
              /\ autostopTimer' = IF autostopTimer = "idle" THEN "armed" ELSE autostopTimer
    /\ EventReported
    /\ UNCHANGED <<locks, ctx, data, scanning, service, handlers,
                   connectTimer, config, link, ops, queue>>

HandleRejected ==
    /\ Locked(EventLoop, "handle")
    /\ event = "REJECTED"
    /\ Listening
    /\ wifi' = "DISCONNECTED"
    /\ st' = "FAIL"
    /\ EventReported
    /\ UNCHANGED <<locks, ctx, data, scanning, service, handlers, timers,
                   config, link, ops, queue, fault>>

-----------------------------------------------------------------------------
HandleEvent ==
    \/ HandleNothing \/ HandleScanDone \/ HandleConnecting
    \/ HandleGotIp \/ HandleRejected

\* Calls an application task chooses to make.
CallerCalls(t) ==
    \/ InitManager(t) \/ InitFails(t) \/ TouchFreed(t)
    \/ \E what \in {"no_auto_stop", "app_info", "endpoint"} : Configure(t, what)
    \/ UseEndpoint(t)
    \/ \E m \in Modes :
          \/ StartProvisioning(t, m)
          \/ \E what \in {"pop", "timer"} : StartPrepareFails(t, m, what)
    \/ StartWifiFails(t)
    \/ CallStop(t)
    \/ ResetNull(t) \/ Reset(t)

\* What a thread does to finish the call it is in.
StartStep(t) ==
    \/ StartService(t) \/ StartRegister(t) \/ StartServiceFails(t)
    \/ StartUndo(t) \/ StartFailed(t) \/ Started(t)

StopStep(t) ==
    \/ Done(t) \/ Wait(t) \/ StopNotRunning(t) \/ StopBegin(t) \/ DeinitBegin(t)
    \/ \E k \in StopTasks : StopUnregister(t, k)
    \/ DeinitUnregister(t)
    \/ CleanUp(t) \/ StopTaskIdle(t) \/ EmitEnd(t)
    \/ DeinitStopped(t) \/ DeinitIdle(t) \/ EmitDeinit(t)

ThreadStep(t) == StartStep(t) \/ Callback(t) \/ Relock(t) \/ StopStep(t)

RequestStep ==
    \/ \E c \in Creds : SetConfig(c)
    \/ ApplyRefused \/ ApplyTimerFails \/ ApplyConfig
    \/ GetStatus
    \/ \E blocking \in BOOLEAN : ScanStart(blocking)
    \/ ScanStartFails

TimerStep == AutostopFires \/ ConnectFires \/ ConnectCallback

DriverStep == DriverGotIp \/ DriverRejected \/ DriverDropped \/ DriverOther

Next ==
    /\ fault = "none"
    /\ \/ \E t \in Callers : CallerCalls(t)
       \/ \E t \in Threads : ThreadStep(t)
       \/ RequestStep \/ ScanWait
       \/ TimerStep
       \/ DriverStep
       \/ Dispatch \/ HandleEvent

Spec == Init /\ [][Next]_vars

\* Steps that begin with taking the lock.
TakeLock(t) == Relock(t) \/ Done(t) \/ StopNotRunning(t) \/ StopBegin(t)

\* Every task is scheduled: what it has begun it goes on with, and a task that
\* waits for the mutex gets it in the end though others take it in between.
\* (The manager stops scanning once per scan, so the poll of a blocking scan
\* cannot miss it.)  An application task owes no call, a client no request, an
\* access point no answer to its station.
Fairness ==
    /\ \A t \in Threads : WF_vars(fault = "none" /\ ThreadStep(t))
    /\ \A t \in Callers \cup System : SF_vars(fault = "none" /\ TakeLock(t))
    /\ SF_vars(fault = "none" /\ ScanWait)
    /\ WF_vars(fault = "none" /\ TimerStep)
    /\ WF_vars(fault = "none" /\ DriverOther)
    /\ SF_vars(fault = "none" /\ (Dispatch \/ HandleEvent))

FairSpec == Spec /\ Fairness

-----------------------------------------------------------------------------
\* Where a thread runs manager code on the context without holding the lock.
InStart(t) == pc[t] \in {"service", "register", "undo", "failed", "started"}
InStop(t)  == pc[t] \in {"unreg_stop", "unreg_deinit", "cleanup", "cleaned"}

\* start_provisioning marks the state STARTING "so that [a] parallel call ...
\* from another thread doesn't interfere" (manager.c:1413): the context is in
\* STARTING exactly while one thread, and only one, is inside the start.
StartExclusive ==
    /\ \A t, u \in Threads : InStart(t) /\ InStart(u) => t = u
    /\ \A t \in Threads : InStart(t) => ctx = "live" /\ st = "STARTING"
    /\ ctx = "live" /\ st = "STARTING" => \E t \in Threads : InStart(t)

\* The same for STOPPING and the tear-down, whether a stop task or a deinit
\* runs it: never two at once, never on a context another thread has freed or
\* revived, and no STOPPING that nobody will end.
StopExclusive ==
    /\ \A t, u \in Threads : InStop(t) /\ InStop(u) => t = u
    /\ \A t \in Threads : InStop(t) => ctx = "live" /\ st = "STOPPING"
    /\ ctx = "live" /\ st = "STOPPING" => \E t \in Threads : InStop(t)

\* No step follows a pointer to memory that is gone: the context, a timer,
\* the proof of possession, the protocomm instance (manager.c throughout).
NoFault == fault = "none"

\* The lock is held across steps by one kind of thread only, a stop that
\* waits for the event loop; every other path of manager.c releases it.
LockReleased ==
    lock # Nobody => lock \in Threads /\ pc[lock] \in {"unreg_stop", "unreg_deinit"}

\* While the state says a session is running, everything a request or an
\* event handler relies on is there (manager.c:433-470, 806-900, 1176).
ServiceWhole ==
    ctx = "live" /\ st \in Active =>
        /\ pcomm = "live" /\ endpoints /\ handlers
        /\ connectTimer \in {"idle", "armed"}
        /\ "no_auto_stop" \notin caps => autostopTimer \in {"idle", "armed"}

\* Without a session nothing of one is left: no endpoint or handler that can
\* still be called, no live timer, no scan, and no protocomm instance.
NothingLeft ==
    (ctx = "live" => st = "IDLE") =>
        /\ pcomm # "live" /\ ~endpoints /\ ~handlers /\ ~scanning
        /\ {connectTimer, autostopTimer} \cap {"idle", "armed"} = {}

\* An event that the loop has handed to the manager finds the session it was
\* dispatched for: the handler cannot overwrite STOPPING or IDLE (806-900).
EventInSession ==
    pc[EventLoop] = "handle" /\ lock = Nobody =>
        ctx = "live" /\ st \notin {"IDLE", "STOPPING"}

\* "without erasing the copy on NVS" (manager.c:1434): flash changes only when
\* credentials are applied or the application resets a finished session.
FlashKept ==
    [][flash' # flash =>
          \/ st \in {"IDLE", "STARTING", "STARTED"} /\ staged # NoCred /\ flash' = staged
          \/ st \in {"FAIL", "SUCCESS"} /\ flash' = NoCred]_vars


\* A session that is being stopped does stop (472-527, 613-619).
StopEnds == (ctx = "live" /\ st = "STOPPING") ~> (ctx # "live" \/ st = "IDLE")

\* A call of stop_provisioning does not keep its caller (manager.h:315).
StopReturns == \A t \in Callers : pc[t] = "stop" ~> pc[t] = "idle"

\* A blocking scan returns once the scan is over (wifi_scan.h:78).  A session that
\* has credentials does not hear of the end of one (manager.c:823-828): the instance
\* that checks this has none.
ScanReturns == pc[Http] = "scan_wait" ~> pc[Http] = "idle"

-----------------------------------------------------------------------------
\* The session as its users see it: see ProvSession.
Phase ==
    IF ctx # "live"
    THEN "down"
    ELSE CASE st = "IDLE"     -> "idle"
           [] st = "STARTING" -> "starting"
           [] st = "STOPPING" -> "stopping"
           [] OTHER           -> "active"

Owner ==
    IF \E t \in Threads : InStart(t) \/ InStop(t)
    THEN CHOOSE t \in Threads : InStart(t) \/ InStop(t)
    ELSE Nobody

Session == INSTANCE ProvSession WITH phase <- Phase, owner <- Owner

\* The manager implements ProvSession: a start or a stop that one thread has
\* begun is ended by that thread, or by the task it hands a stop to, and by no
\* call, request, timer or event of another (manager.c:198-632, 1297-1557).
SessionKept == Session!Spec
=============================================================================
