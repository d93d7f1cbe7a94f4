------------------------------- MODULE WebProv -------------------------------
(***************************************************************************)
(* The provisioning web page manager,                                      *)
(* components/prov_webpage_mgr/prov_webpage_mgr.c, over the session that   *)
(* ProvMgr provides (ProvSession) and the captive portal (CaptivePortal).  *)
(*                                                                         *)
(* It keeps three timers, a pointer to the HTTP server and a registration  *)
(* with the event loop, all without a lock: _webprov_ctx_lock is created   *)
(* and never taken.  Every call it makes into another component is a step  *)
(* of its thread: an application task or the event loop (start), the HTTP  *)
(* server's task (commands of the page), the timer task (the delayed       *)
(* reset, and the two stages of a shutdown), the manager's stop task, and  *)
(* the event loop (the END of the session).                                *)
(***************************************************************************)
EXTENDS FiniteSets

CONSTANTS
    Callers,     \* application tasks that start and stop the manager
    MayFail,     \* the calls that may fail in this instance
    Races        \* timing this instance admits (see ASSUME)

TimerTask == "esp_timer"
EventLoop == "event_loop"
StopTask  == "prov_stop_task"
Nobody    == "nobody"
Threads   == Callers \cup {TimerTask, EventLoop, StopTask}

ASSUME CallersAssumption ==
    Callers \cap {TimerTask, EventLoop, StopTask, Nobody} = {}

\* "register": esp_event_handler_register; "start": start_provisioning;
\* "endpoint": endpoint_register; "portal": captive_portal_start; "dns_task":
\* xTaskCreate in capt_dns_start; "timers": esp_timer_create.
ASSUME FailAssumption ==
    MayFail \subseteq {"register", "start", "endpoint", "portal", "dns_task",
                       "timers"}

\* "two_stops": an application task stops the manager while a timer of it runs
\*   its callback, or a timer fires while it is being stopped;
\* "slow_stop": a stop has yet to clean up when the manager's stop task, after
\*   its delay of 200 ms, has ended the session.
ASSUME RacesAssumption == Races \subseteq {"two_stops", "slow_stop"}

VARIABLES
    pc,          \* where each thread is
    phase,       \* the manager's session (see ProvSession)
    owner,       \* the thread that starts or stops it
    isStarted, dns, getHandler,   \* the captive portal
    uris,        \* URI handlers of the manager's endpoints in the HTTP server
    custom,      \* the prov-custom endpoint
    handlers,    \* the registration for WIFI_PROV_EVENT
    ends,        \* a WIFI_PROV_END is waiting in the event loop
    timers,      \* the three timers: "null", "idle" or "armed"
    up,          \* (observer) a start has succeeded and no stop has begun
    failed,      \* (observer) the calls that have failed
    fault        \* (observer) the first step the program does not survive

session == <<phase, owner>>
portal  == <<isStarted, dns, getHandler>>
web     == <<uris, custom>>
obs     == <<up, failed, fault>>
vars    == <<pc, session, portal, web, handlers, ends, timers, obs>>

Session == INSTANCE ProvSession
Portal  == INSTANCE CaptivePortal

TimerNames == {"reset", "stage1", "stage2"}
NoTimers   == [n \in TimerNames |-> "null"]

Starting == {"register", "provision", "service", "endpoint", "portal",
             "no_portal", "timers", "undo", "undoing"}
Stopping == {"stop", "wait_dns", "unregister", "halt", "halting", "uris",
             "delete"}

Labels(t) ==
    {"idle"} \cup
    CASE t \in Callers   -> Starting \cup Stopping
      [] t = EventLoop   -> Starting \cup {"deinit", "leave"}
      [] t = TimerTask   -> Stopping \cup {"reset", "handoff", "handoff_dns", "arm"}
      [] t = StopTask    -> {"cleanup", "emit"}

\* Types, and the places each thread can be in.
TypeOK ==
    /\ DOMAIN pc = Threads
    /\ \A t \in Threads : pc[t] \in Labels(t)
    /\ phase \in Session!Phases
    /\ owner \in Threads \cup {Nobody}
    /\ Portal!PortalTypeOK
    /\ {uris, custom, handlers, ends, up} \subseteq BOOLEAN
    /\ timers \in [TimerNames -> {"null", "idle", "armed"}]
    /\ failed \subseteq MayFail
    /\ fault \in {"none", "uri_exists", "null_ctx", "portal_gone"}

Init ==
    /\ pc = [t \in Threads |-> "idle"]
    /\ Session!Init
    /\ Portal!PortalInit
    /\ uris = FALSE
    /\ custom = FALSE
    /\ handlers = FALSE
    /\ ends = FALSE
    /\ timers = NoTimers
    /\ up = FALSE
    /\ failed = {}
    /\ fault = "none"

-----------------------------------------------------------------------------
Step(t, from, to) == pc[t] = from /\ pc' = [pc EXCEPT ![t] = to]

Fails(call) == call \in MayFail /\ failed' = failed \cup {call}

Fault(bad, kind) == fault' = IF bad /\ fault = "none" THEN kind ELSE fault

\* prov_webpage_mgr_start, by an application task or, when the network is
\* lost, by the application's handler in the event loop.

\* wifi_prov_mgr_init refuses while there is a context; what is configured
\* next (server handle, auto-stop, the endpoint's name) cannot fail in IDLE.
StartInit(t) ==
    /\ t \in Callers \cup {EventLoop}
    /\ Step(t, "idle", "register")
    /\ Session!Create
    /\ UNCHANGED <<portal, web, handlers, ends, timers, obs>>

\* The event loop holds its mutex while its own handler runs.
StartRegister(t) ==
    /\ pc[EventLoop] \notin {"deinit", "leave"}
    /\ Step(t, "register", "provision")
    /\ handlers' = TRUE
    /\ UNCHANGED <<session, portal, web, ends, timers, obs>>

\* The manager stays initialised, and every later start is refused.
StartRegisterFails(t) ==
    /\ Fails("register")
    /\ Step(t, "register", "idle")
    /\ UNCHANGED <<session, portal, web, handlers, ends, timers, up, fault>>

StartProvisioning(t) ==
    /\ Step(t, "provision", "service")
    /\ Session!BeginStart(t)
    /\ UNCHANGED <<portal, web, handlers, ends, timers, obs>>

\* The endpoints' URIs are registered with the application's server; a URI that
\* is there already aborts the program.
StartService(t) ==
    /\ Step(t, "service", "endpoint")
    /\ Session!EndStart
    /\ uris' = TRUE
    /\ Fault(uris, "uri_exists")
    /\ UNCHANGED <<portal, custom, handlers, ends, timers, up, failed>>

StartServiceFails(t) ==
    /\ Fails("start")
    /\ Step(t, "service", "idle")
    /\ Session!CancelStart
    /\ uris' \in BOOLEAN
    /\ Fault(uris, "uri_exists")
    /\ UNCHANGED <<portal, custom, handlers, ends, timers, up>>

StartEndpoint(t) ==
    /\ phase = "active"
    /\ Step(t, "endpoint", "portal")
    /\ custom' = TRUE
    /\ Fault(custom, "uri_exists")
    /\ UNCHANGED <<session, portal, uris, handlers, ends, timers, up, failed>>

StartEndpointFails(t) ==
    /\ Fails("endpoint")
    /\ Step(t, "endpoint", "undo")
    /\ UNCHANGED <<session, portal, web, handlers, ends, timers, up, fault>>

\* Whether there is a portal is up to the configuration.
StartPortal(t) ==
    /\ Step(t, "portal", "timers")
    /\ Portal!StartPortal("up") \/ UNCHANGED portal
    /\ UNCHANGED <<session, web, handlers, ends, timers, obs>>

StartPortalNoTask(t) ==
    /\ Fails("dns_task")
    /\ Step(t, "portal", "timers")
    /\ Portal!StartPortal("no_task")
    /\ UNCHANGED <<session, web, handlers, ends, timers, up, fault>>

StartPortalFails(t) ==
    /\ Fails("portal")
    /\ Step(t, "portal", "undo")
    /\ Portal!StartPortalFails
    /\ UNCHANGED <<session, web, handlers, ends, timers, up, fault>>

\* The portal fails when its DNS responder is there, with its task or without,
\* and the start waits until the task has ended.
AbortPortal(t) ==
    /\ "portal" \in MayFail
    /\ Step(t, "portal", "no_portal")
    /\ \E task \in {"up", "no_task"}, gone \in BOOLEAN :
          /\ task = "no_task" => "dns_task" \in MayFail
          /\ failed' = failed \cup {"portal"}
                              \cup (IF task = "no_task" THEN {"dns_task"} ELSE {})
          /\ Portal!AbortPortal(task, gone)
    /\ UNCHANGED <<session, web, handlers, ends, timers, up, fault>>

GiveUpPortal(t) ==
    /\ Step(t, "no_portal", "undo")
    /\ Portal!GiveUpPortal
    /\ UNCHANGED <<session, web, handlers, ends, timers, obs>>

CreateTimersPartly ==
    timers' = [n \in TimerNames |-> IF n = "stage2" THEN timers[n] ELSE "idle"]

CreateTimers == timers' = [n \in TimerNames |-> "idle"]

StartTimers(t) ==
    /\ Step(t, "timers", "idle")
    /\ CreateTimers
    /\ up' = TRUE
    /\ UNCHANGED <<session, portal, web, handlers, ends, failed, fault>>

\* The first timers may have been created when one cannot be.
StartTimersFail(t) ==
    /\ Fails("timers")
    /\ Step(t, "timers", "undo")
    /\ \E made \in {{}, {"reset"}, {"reset", "stage1"}} :
          timers' = [n \in TimerNames |-> IF n \in made THEN "idle" ELSE timers[n]]
    /\ UNCHANGED <<session, portal, web, handlers, ends, up, fault>>

\* The error path stops provisioning and nothing else.
StartUndo(t) ==
    /\ Step(t, "undo", "undoing")
    /\ Session!BeginStop(t)
    /\ UNCHANGED <<portal, web, handlers, ends, timers, obs>>

Start(t) ==
    \/ StartInit(t) \/ StartRegister(t) \/ StartRegisterFails(t)
    \/ StartProvisioning(t)
    \/ StartService(t) \/ StartServiceFails(t)
    \/ StartEndpoint(t) \/ StartEndpointFails(t)
    \/ StartPortal(t) \/ StartPortalNoTask(t) \/ StartPortalFails(t)
    \/ AbortPortal(t) \/ GiveUpPortal(t)
    \/ StartTimers(t) \/ StartTimersFail(t)
    \/ StartUndo(t)

-----------------------------------------------------------------------------
\* Commands of the page, through the prov-custom endpoint: "reset prov" and
\* "shutdown prov".  A timer that runs already, or is not there yet, makes the
\* answer "command failed".
PageCommand(timer) ==
    /\ custom /\ phase \in {"active", "stopping"}
    /\ timers[timer] = "idle"
    /\ timers' = [timers EXCEPT ![timer] = "armed"]
    /\ UNCHANGED <<pc, session, portal, web, handlers, ends, obs>>

-----------------------------------------------------------------------------
\* Timers and their callbacks, all in the timer task.

StoppingNow == \E t \in Callers : pc[t] \in Stopping

Fire(timer, label) ==
    /\ StoppingNow => "two_stops" \in Races
    /\ timers[timer] = "armed"
    /\ timers' = [timers EXCEPT ![timer] = "idle"]
    /\ Step(TimerTask, "idle", label)
    /\ up' = (up /\ timer # "stage2")
    /\ UNCHANGED <<session, portal, web, handlers, ends, failed, fault>>

ResetFires  == Fire("reset", "reset")
Stage1Fires == Fire("stage1", "handoff")
Stage2Fires == Fire("stage2", "stop")

\* reset_to_ready_state does not look whether there is a context.
ResetCallback ==
    /\ Step(TimerTask, "reset", "idle")
    /\ Fault(phase = "down", "null_ctx")
    /\ UNCHANGED <<session, portal, web, handlers, ends, timers, up, failed>>

\* The first stage has ended the captive portal and arms the second, which
\* stops everything.
ArmStage2Forgotten == timers' = timers

ArmStage2 ==
    timers' = [timers EXCEPT !.stage2 = IF @ = "idle" THEN "armed" ELSE @]

Stage1Arms ==
    /\ Step(TimerTask, "arm", "idle")
    /\ ArmStage2
    /\ UNCHANGED <<session, portal, web, handlers, ends, obs>>

-----------------------------------------------------------------------------
\* prov_webpage_mgr_stop, by an application task once a start has succeeded, or
\* by the second stage.

CallStop(t) ==
    /\ t \in Callers
    /\ up
    /\ pc[TimerTask] # "idle" => "two_stops" \in Races
    /\ Step(t, "idle", "stop")
    /\ up' = FALSE
    /\ UNCHANGED <<session, portal, web, handlers, ends, timers, failed, fault>>

\* captive_portal_stop, of a stop or of the first stage: wait is where the
\* thread waits for the DNS task, next where it goes on.
ClosePortal(t, at, wait, next) ==
    \/ Step(t, at, wait) /\ Portal!AskDns /\ fault' = fault
    \/ Step(t, at, next) /\ Portal!StopPortalIdle /\ fault' = fault
    \/ /\ Step(t, wait, next)
       /\ Portal!StopPortal
       /\ Fault(dns = "none", "portal_gone")

StopClosesPortalNot(t) ==
    /\ Step(t, "stop", "unregister")
    /\ UNCHANGED <<portal, fault>>

StopClosesPortal(t) == ClosePortal(t, "stop", "wait_dns", "unregister")

StopPortal(t) ==
    /\ \/ StopClosesPortal(t)
       \/ t = TimerTask /\ ClosePortal(t, "handoff", "handoff_dns", "arm")
    /\ UNCHANGED <<session, web, handlers, ends, timers, up, failed>>

\* endpoint_unregister does nothing outside of an active session.
StopUnregister(t) ==
    /\ Step(t, "unregister", "halt")
    /\ custom' = (custom /\ phase # "active")
    /\ UNCHANGED <<session, portal, uris, handlers, ends, timers, obs>>

\* stop_provisioning waits while a start is under way, and only begins the stop
\* of an active session.
StopHalt(t) ==
    /\ \/ Step(t, "halt", "halting") /\ Session!BeginStop(t)
       \/ /\ phase \in {"down", "idle", "stopping"}
          /\ Step(t, "halt", "uris")
          /\ UNCHANGED session
    /\ UNCHANGED <<portal, web, handlers, ends, timers, obs>>

\* The manager's stop task takes over from a stop or from a start being undone.
StopHandOver(t) ==
    /\ pc[t] \in {"halting", "undoing"}
    /\ pc[StopTask] = "idle"
    /\ pc' = [pc EXCEPT ![t] = IF pc[t] = "halting" THEN "uris" ELSE "idle",
                        ![StopTask] = "cleanup"]
    /\ Session!HandOver(StopTask)
    /\ UNCHANGED <<portal, web, handlers, ends, timers, obs>>

\* The URIs of the manager's endpoints, which it leaves behind.
StopUris(t) ==
    /\ Step(t, "uris", "delete")
    /\ uris' = FALSE
    /\ UNCHANGED <<session, portal, custom, handlers, ends, timers, obs>>

DeleteTimersForgotten == timers' = [timers EXCEPT !.reset = "null"]

DeleteTimers == timers' = NoTimers

StopTimers(t) ==
    /\ Step(t, "delete", "idle")
    /\ DeleteTimers
    /\ UNCHANGED <<session, portal, web, handlers, ends, obs>>

Stop(t) ==
    \/ CallStop(t) \/ StopPortal(t) \/ StopUnregister(t) \/ StopHalt(t)
    \/ StopHandOver(t) \/ StopUris(t) \/ StopTimers(t)

-----------------------------------------------------------------------------
\* The manager's stop task, and the end of the session in the event loop.

LeaveStoppingForgotten == UNCHANGED session

LeaveStopping == Session!EndStop

StopTaskCleansUp ==
    /\ (\E t \in Threads : pc[t] \in {"uris", "delete"}) => "slow_stop" \in Races
    /\ Step(StopTask, "cleanup", "emit")
    /\ LeaveStopping
    /\ UNCHANGED <<portal, web, handlers, ends, timers, obs>>

EmitEndForgotten == ends' = ends

EmitEnd == ends' = TRUE

StopTaskEmits ==
    /\ Step(StopTask, "emit", "idle")
    /\ EmitEnd
    /\ UNCHANGED <<session, portal, web, handlers, timers, obs>>

HandleEnd ==
    /\ ends
    /\ Step(EventLoop, "idle", IF handlers THEN "deinit" ELSE "idle")
    /\ ends' = FALSE
    /\ UNCHANGED <<session, portal, web, handlers, timers, obs>>

\* wifi_prov_mgr_deinit waits until no start or stop is under way.
Deinit ==
    /\ Step(EventLoop, "deinit", "leave")
    /\ \/ phase = "idle" /\ Session!Destroy
       \/ phase = "down" /\ UNCHANGED session
    /\ UNCHANGED <<portal, web, handlers, ends, timers, obs>>

LeaveEvents == handlers' = FALSE

Leave ==
    /\ Step(EventLoop, "leave", "idle")
    /\ LeaveEvents
    /\ UNCHANGED <<session, portal, web, ends, timers, obs>>

DnsTask ==
    /\ Portal!DnsTaskEnds
    /\ UNCHANGED <<pc, session, web, handlers, ends, timers, obs>>

-----------------------------------------------------------------------------
Next ==
    /\ fault = "none"
    /\ \/ \E t \in Threads : Start(t) \/ Stop(t)
       \/ \E timer \in {"reset", "stage1"} : PageCommand(timer)
       \/ ResetFires \/ ResetCallback
       \/ Stage1Fires \/ Stage1Arms \/ Stage2Fires
       \/ StopTaskCleansUp \/ StopTaskEmits
       \/ HandleEnd \/ Deinit \/ Leave
       \/ DnsTask

Spec == Init /\ [][Next]_vars

\* A thread goes on until its call returns, but nobody has to start or stop.
Goes(t) == pc[t] # "idle" /\ (Start(t) \/ Stop(t))

FairSpec ==
    /\ Spec
    /\ \A t \in Threads : WF_vars(Goes(t))
    /\ WF_vars(ResetCallback) /\ WF_vars(Stage1Arms)
    /\ SF_vars(ResetFires) /\ SF_vars(Stage1Fires) /\ SF_vars(Stage2Fires)
    /\ WF_vars(StopTaskCleansUp) /\ WF_vars(StopTaskEmits)
    /\ SF_vars(HandleEnd) /\ WF_vars(Deinit) /\ WF_vars(Leave)
    /\ WF_vars(DnsTask)

-----------------------------------------------------------------------------
Idle == \A t \in Threads : pc[t] = "idle"

\* From the return of a successful start to the beginning of the stop that ends
\* it, all that the start has set up is there: no leftover of an earlier
\* session (its END, its stop task, its timers' callbacks) takes any of it away.
Whole ==
    up => /\ phase = "active" /\ owner = Nobody
          /\ uris /\ custom /\ handlers /\ ~ends
          /\ \A n \in TimerNames : timers[n] # "null"

\* A start has been undone: its error path leaves behind what it has set up in
\* other components.
Undone == failed \cap {"endpoint", "portal", "timers"} # {}

\* Once the manager is down and nobody is at work, nothing of the session is
\* left: the application's handler for "/*" is back in the server, no endpoint
\* answers, no timer can fire, no event is waited for.
NothingLeft ==
    phase = "down" /\ Idle /\ ~ends /\ ~Undone =>
        /\ ~isStarted /\ dns = "none" /\ getHandler = "app"
        /\ ~uris /\ ~custom /\ ~handlers
        /\ timers = NoTimers

\* No sequence of starts, stops, page commands and timers meets what the
\* program does not survive: a URI that is registered already
\* (prov_webpage_mgr_stop says ESP-IDF aborts then), a reset without a context,
\* a portal that is stopped under another stop.
NoFault == ~Undone => fault = "none"

\* A start never meets URIs that are registered already, whatever has failed
\* before: "Therefore, we need to manually unregister wifi_prov_mgr's handlers
\* after stopping the service" (prov_webpage_mgr.c:362-366).
Restartable == fault # "uri_exists"

\* The portal is closed, and the application's handler back, before the
\* provisioning service begins to stop: the page can leave the portal for the
\* home page while the soft AP is up (HANDOFF_DELAY_S).
PortalFirst ==
    [][phase = "active" /\ phase' = "stopping" /\ ~Undone =>
          ~isStarted /\ getHandler = "app"]_vars

\* The event handler that de-initialises the manager finds its session stopped:
\* it never waits in the event loop for a stop to end.
EndMeetsIdle == pc[EventLoop] = "deinit" => phase = "idle"

\* "shutdown prov", once accepted, ends in a manager that is down, by its two
\* timers or by a stop that comes before them; but the portal of a DNS task that
\* could not be created never closes.
ShutdownEnds ==
    timers.stage1 = "armed" ~> phase = "down" \/ "dns_task" \in failed \/ Undone

\* "Will cause WIFI_PROV_END and WIFI_PROV_DEINIT to be emitted": a stop, whose
\* own work ends when the stop task is created, brings the manager down.
StopDeinits ==
    \A t \in Callers \cup {TimerTask} :
        pc[t] = "stop" ~> phase = "down" \/ "dns_task" \in failed
=============================================================================
