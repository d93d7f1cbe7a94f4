---------------------------- MODULE WebProvProofs ----------------------------
(***************************************************************************)
(* What WebProv keeps for every set of callers and every choice of the     *)
(* calls that may fail.  The types need no assumption; everything else     *)
(* assumes that a stop is alone (no "two_stops") and has cleaned up before *)
(* the stop task ends the session (no "slow_stop").                        *)
(*                                                                         *)
(* The invariant has three parts: Held says which thread holds the session *)
(* and in what phase, whatever fails; Parts says which of the portal, the  *)
(* timers, the endpoint and the URIs is there, until a start is undone;    *)
(* Undoing says what a start that is being undone can still meet.          *)
(***************************************************************************)
EXTENDS WebProv, TLAPS

-----------------------------------------------------------------------------
\* The session: which thread holds it, and what is then known of its phase.

Holding(t) == pc[t] \in Starting \cup Stopping
Unheld     == \A t \in Threads : ~Holding(t)

\* The END that will come is heard, and none is on its way.
Listening == handlers /\ pc[EventLoop] \notin {"deinit", "leave"}
NoEnd     == ~ends /\ pc[EventLoop] # "deinit"

OneHolds == \A t, u \in Threads : Holding(t) /\ Holding(u) => t = u

InActive ==
    {"endpoint", "portal", "no_portal", "timers", "undo", "stop", "wait_dns",
     "unregister", "halt"}

HeldPhase ==
    \A t \in Threads : Holding(t) =>
        /\ ~up /\ NoEnd
        /\ pc[t] # "register" => Listening
        /\ pc[t] \in {"uris", "delete"} => pc[StopTask] = "cleanup"
        /\ pc[t] \notin {"uris", "delete"} => pc[StopTask] = "idle"
        /\ pc[t] \in {"register", "provision"} => phase = "idle" /\ owner = Nobody
        /\ pc[t] = "service" => phase = "starting" /\ owner = t
        /\ pc[t] \in InActive => phase = "active" /\ owner = Nobody
        /\ pc[t] \in {"undoing", "halting"} => phase = "stopping" /\ owner = t

UpPhase ==
    up => /\ phase = "active" /\ owner = Nobody
          /\ pc[StopTask] = "idle" /\ ~ends /\ Listening /\ Unheld

EndPhase ==
    /\ pc[StopTask] = "cleanup" =>
          /\ phase = "stopping" /\ owner = StopTask
          /\ ~ends /\ Listening
          /\ \A t \in Threads : Holding(t) => pc[t] \in {"uris", "delete"}
    /\ pc[StopTask] = "emit" =>
          phase = "idle" /\ owner = Nobody /\ ~ends /\ Listening /\ Unheld
    /\ ends =>
          /\ phase = "idle" /\ owner = Nobody
          /\ pc[StopTask] = "idle" /\ Listening /\ Unheld
    /\ pc[EventLoop] = "deinit" =>
          phase = "idle" /\ owner = Nobody /\ pc[StopTask] = "idle" /\ Unheld
    /\ pc[EventLoop] = "leave" =>
          /\ pc[StopTask] = "idle"
          /\ \A t \in Threads : Holding(t) => pc[t] = "register"

DownPhase ==
    phase = "down" =>
        /\ owner = Nobody /\ pc[StopTask] = "idle" /\ NoEnd /\ Unheld
        /\ handlers => pc[EventLoop] = "leave"

Stage2Held ==
    timers["stage2"] # "null" => up \/ \E t \in Threads : pc[t] \in Stopping

Held == OneHolds /\ HeldPhase /\ UpPhase /\ EndPhase /\ DownPhase /\ Stage2Held

-----------------------------------------------------------------------------
\* The captive portal is there while the session is up, from its start on and
\* until its stop has closed it.
Closed == ~isStarted /\ dns = "none" /\ getHandler = "app"

PortalParts ==
    /\ \/ Closed
       \/ up
       \/ \E t \in Threads : pc[t] \in {"timers", "stop", "wait_dns"}
    /\ IF isStarted THEN dns # "none" ELSE Closed
    /\ \A t \in Threads : pc[t] \in {"wait_dns", "handoff_dns"} => isStarted

\* Timers, and callbacks of theirs, belong to a session that is up or being
\* stopped.
TimerParts ==
    /\ pc[TimerTask] \in {"reset", "handoff", "handoff_dns", "arm"} => up
    /\ timers # NoTimers => up \/ \E t \in Threads : pc[t] \in Stopping
    /\ up => \A n \in TimerNames : timers[n] # "null"

\* The prov-custom endpoint, from its registration to its removal.
CustomParts ==
    /\ custom => \/ up
                 \/ \E t \in Threads :
                       pc[t] \in {"portal", "timers", "stop", "wait_dns", "unregister"}
    /\ up => custom
    /\ \A t \in Threads : pc[t] \in {"portal", "timers"} => custom

\* The URIs in the HTTP server outlast the session, but not the stop.
UriParts ==
    /\ up => uris
    /\ \A t \in Threads :
          /\ pc[t] \in {"endpoint", "portal", "timers"} => uris
          /\ pc[t] \in {"register", "provision", "service", "delete"} => ~uris
    /\ (pc[StopTask] = "cleanup" /\ Unheld) => ~uris
    /\ (pc[StopTask] = "emit" \/ ends \/ pc[EventLoop] = "deinit" \/ phase = "down")
          => ~uris

\* The error path of a start leaves its parts behind: nothing is said after it.
Parts == ~Undone => PortalParts /\ TimerParts /\ CustomParts /\ UriParts /\ fault = "none"

\* After a start that is undone nothing is up and nobody stops; the URIs it has
\* left are there, and no later start gets past them.
Undoing ==
    /\ \A t \in Threads : pc[t] \in {"no_portal", "undo", "undoing"} => Undone
    /\ Undone =>
        /\ ~up /\ \A t \in Threads : pc[t] \notin Stopping
        /\ fault = "none" =>
              uris /\ \A t \in Threads : pc[t] \notin {"endpoint", "portal", "timers"}

-----------------------------------------------------------------------------
\* Who is who, and where each can be.
LEMMA Places ==
    ASSUME TypeOK
    PROVE  /\ DOMAIN pc = Threads
           /\ {TimerTask, EventLoop, StopTask} \subseteq Threads
           /\ TimerTask # EventLoop /\ TimerTask # StopTask /\ EventLoop # StopTask
           /\ Nobody \notin Threads
           /\ \A t \in Callers : t \notin {TimerTask, EventLoop, StopTask} /\ t \in Threads
           /\ \A t \in Threads : pc[t] \in Starting => t \in Callers \cup {EventLoop}
           /\ \A t \in Threads : pc[t] \in Stopping => t \in Callers \cup {TimerTask}
           /\ pc[StopTask] \in {"idle", "cleanup", "emit"}
           /\ pc[TimerTask] \notin Starting \cup {"deinit", "leave", "cleanup", "emit"}
           /\ pc[EventLoop] \notin Stopping \cup
                 {"reset", "handoff", "handoff_dns", "arm", "cleanup", "emit"}
           /\ \A t \in Callers :
                 pc[t] \notin {"deinit", "leave", "reset", "handoff", "handoff_dns", "arm",
                               "cleanup", "emit"}
<1> USE CallersAssumption DEF Threads, TimerTask, EventLoop, StopTask, Nobody, Labels,
        Starting, Stopping
<1>1. /\ DOMAIN pc = Threads /\ {TimerTask, EventLoop, StopTask} \subseteq Threads
      /\ TimerTask # EventLoop /\ TimerTask # StopTask /\ EventLoop # StopTask
      /\ Nobody \notin Threads
      /\ \A t \in Callers : t \notin {TimerTask, EventLoop, StopTask} /\ t \in Threads
  BY DEF TypeOK
<1>2. pc[StopTask] \in {"idle", "cleanup", "emit"}
  <2>1. pc[StopTask] \in Labels(StopTask)
    BY DEF TypeOK
  <2> QED
    BY <2>1
<1>3. pc[TimerTask] \notin Starting \cup {"deinit", "leave", "cleanup", "emit"}
  <2>1. pc[TimerTask] \in Labels(TimerTask)
    BY DEF TypeOK
  <2> QED
    BY <2>1
<1>4. pc[EventLoop] \notin Stopping \cup
         {"reset", "handoff", "handoff_dns", "arm", "cleanup", "emit"}
  <2>1. pc[EventLoop] \in Labels(EventLoop)
    BY DEF TypeOK
  <2> QED
    BY <2>1
<1>5. \A t \in Callers :
         pc[t] \notin {"deinit", "leave", "reset", "handoff", "handoff_dns", "arm",
                       "cleanup", "emit"}
  <2> TAKE t \in Callers
  <2>1. pc[t] \in Labels(t)
    BY DEF TypeOK
  <2> QED
    BY <2>1
<1>6. /\ \A t \in Threads : pc[t] \in Starting => t \in Callers \cup {EventLoop}
      /\ \A t \in Threads : pc[t] \in Stopping => t \in Callers \cup {TimerTask}
  BY <1>2, <1>3, <1>4
<1> QED
  BY <1>1, <1>2, <1>3, <1>4, <1>5, <1>6

LEMMA LabelSets ==
    /\ \A t \in Callers \cup {EventLoop} : Starting \cup {"idle"} \subseteq Labels(t)
    /\ \A t \in Callers \cup {TimerTask} : Stopping \cup {"idle"} \subseteq Labels(t)
    /\ {"idle", "deinit", "leave"} \subseteq Labels(EventLoop)
    /\ {"idle", "reset", "handoff", "handoff_dns", "arm"} \subseteq Labels(TimerTask)
    /\ {"idle", "cleanup", "emit"} \subseteq Labels(StopTask)
BY CallersAssumption DEF Labels, TimerTask, EventLoop, StopTask

\* A step of a thread, and what it makes of the places.
LEMMA Stepped ==
    ASSUME TypeOK, NEW t \in Threads, NEW from, NEW to, Step(t, from, to)
    PROVE  /\ pc[t] = from /\ pc'[t] = to
           /\ DOMAIN pc' = Threads
           /\ \A u \in Threads : u # t => pc'[u] = pc[u]
BY DEF TypeOK, Step

LEMMA StepTyped ==
    ASSUME TypeOK, NEW t \in Threads, NEW from, NEW to \in Labels(t), Step(t, from, to)
    PROVE  DOMAIN pc' = Threads /\ \A u \in Threads : pc'[u] \in Labels(u)
BY Stepped DEF TypeOK

-----------------------------------------------------------------------------
\* Types, whatever fails and races.
PcTyped == DOMAIN pc = Threads /\ \A t \in Threads : pc[t] \in Labels(t)

FlagsTyped ==
    /\ uris \in BOOLEAN /\ custom \in BOOLEAN /\ handlers \in BOOLEAN
    /\ ends \in BOOLEAN /\ up \in BOOLEAN /\ isStarted \in BOOLEAN

RestTyped ==
    /\ phase \in Session!Phases /\ owner \in Threads \cup {Nobody}
    /\ dns \in {"none", "up", "asked", "ended", "no_task"}
    /\ getHandler \in {"app", "portal", "none"}
    /\ timers \in [TimerNames -> {"null", "idle", "armed"}]
    /\ failed \subseteq MayFail
    /\ fault \in {"none", "uri_exists", "null_ctx", "portal_gone"}

LEMMA InParts == TypeOK <=> PcTyped /\ FlagsTyped /\ RestTyped
BY DEF TypeOK, PcTyped, FlagsTyped, RestTyped, Portal!PortalTypeOK

LEMMA StartFlags ==
    ASSUME TypeOK, NEW t \in Threads, Start(t)
    PROVE  FlagsTyped'
<1> USE InParts DEF session, portal, web, obs, Fails, Fault, FlagsTyped
<1>1. CASE StartInit(t)
  BY <1>1, Zenon DEF StartInit, Session!Create
<1>2. CASE StartRegister(t)
  BY <1>2, Zenon DEF StartRegister
<1>3. CASE StartRegisterFails(t)
  BY <1>3, Zenon DEF StartRegisterFails
<1>4. CASE StartProvisioning(t)
  BY <1>4, Zenon DEF StartProvisioning, Session!BeginStart, Session!Enter
<1>5. CASE StartService(t)
  BY <1>5, Zenon DEF StartService, Session!EndStart, Session!Enter
<1>6. CASE StartServiceFails(t)
  BY <1>6, Zenon DEF StartServiceFails, Session!CancelStart, Session!Enter
<1>7. CASE StartEndpoint(t)
  BY <1>7, Zenon DEF StartEndpoint
<1>8. CASE StartEndpointFails(t)
  BY <1>8, Zenon DEF StartEndpointFails
<1>9. CASE StartPortal(t)
  BY <1>9, Zenon DEF StartPortal, Portal!StartPortal
<1>10. CASE StartPortalNoTask(t)
  BY <1>10, Zenon DEF StartPortalNoTask, Portal!StartPortal
<1>11. CASE StartPortalFails(t)
  BY <1>11, Zenon DEF StartPortalFails, Portal!StartPortalFails, Portal!portalVars
<1>12. CASE AbortPortal(t)
  BY <1>12, Zenon DEF AbortPortal, Portal!AbortPortal
<1>13. CASE GiveUpPortal(t)
  BY <1>13, Zenon DEF GiveUpPortal, Portal!GiveUpPortal
<1>14. CASE StartTimers(t)
  BY <1>14, Zenon DEF StartTimers, CreateTimers
<1>15. CASE StartTimersFail(t)
  BY <1>15, Zenon DEF StartTimersFail
<1>16. CASE StartUndo(t)
  BY <1>16, Zenon DEF StartUndo, Session!BeginStop, Session!Enter
<1> QED
  BY <1>1, <1>2, <1>3, <1>4, <1>5, <1>6, <1>7, <1>8, <1>9, <1>10, <1>11, <1>12, <1>13,
     <1>14, <1>15, <1>16 DEF Start

LEMMA StopFlags ==
    ASSUME TypeOK, NEW t \in Threads, Stop(t)
    PROVE  FlagsTyped'
<1> USE InParts DEF session, portal, web, obs, Fails, Fault, FlagsTyped
<1>1. CASE CallStop(t)
  BY <1>1, Zenon DEF CallStop
<1>2. CASE StopPortal(t)
  BY <1>2, Zenon DEF StopPortal, StopClosesPortal, ClosePortal, Portal!AskDns,
     Portal!StopPortalIdle, Portal!portalVars, Portal!StopPortal, Portal!Restore
<1>3. CASE StopUnregister(t)
  BY <1>3, Zenon DEF StopUnregister
<1>4. CASE StopHalt(t)
  BY <1>4, Zenon DEF StopHalt, Session!BeginStop, Session!Enter
<1>5. CASE StopHandOver(t)
  BY <1>5, Zenon DEF StopHandOver, Session!HandOver, Session!Enter
<1>6. CASE StopUris(t)
  BY <1>6, Zenon DEF StopUris
<1>7. CASE StopTimers(t)
  BY <1>7, Zenon DEF StopTimers, DeleteTimers, NoTimers
<1> QED
  BY <1>1, <1>2, <1>3, <1>4, <1>5, <1>6, <1>7 DEF Stop

LEMMA OtherFlags ==
    ASSUME TypeOK,
           \/ \E timer \in {"reset", "stage1"} : PageCommand(timer)
           \/ ResetFires \/ ResetCallback
             \/ Stage1Fires \/ Stage1Arms \/ Stage2Fires \/ StopTaskCleansUp \/ StopTaskEmits
             \/ HandleEnd \/ Deinit \/ Leave \/ DnsTask \/ UNCHANGED vars
    PROVE  FlagsTyped'
<1> USE InParts DEF session, portal, web, obs, Fails, Fault, FlagsTyped
<1>1. CASE \E timer \in {"reset", "stage1"} : PageCommand(timer)
  BY <1>1, Zenon DEF PageCommand
<1>2. CASE ResetFires
  BY <1>2, Zenon DEF ResetFires, Fire
<1>3. CASE ResetCallback
  BY <1>3, Zenon DEF ResetCallback
<1>4. CASE Stage1Fires
  BY <1>4, Zenon DEF Stage1Fires, Fire
<1>5. CASE Stage1Arms
  BY <1>5, Zenon DEF Stage1Arms, ArmStage2
<1>6. CASE Stage2Fires
  BY <1>6, Zenon DEF Stage2Fires, Fire
<1>7. CASE StopTaskCleansUp
  BY <1>7, Zenon DEF StopTaskCleansUp, LeaveStopping, Session!EndStop, Session!Enter
<1>8. CASE StopTaskEmits
  BY <1>8, Zenon DEF StopTaskEmits, EmitEnd
<1>9. CASE HandleEnd
  BY <1>9, Zenon DEF HandleEnd
<1>10. CASE Deinit
  BY <1>10, Zenon DEF Deinit, Session!Destroy
<1>11. CASE Leave
  BY <1>11, Zenon DEF Leave, LeaveEvents
<1>12. CASE DnsTask
  BY <1>12, Zenon DEF DnsTask, Portal!DnsTaskEnds
<1>13. CASE UNCHANGED vars
  BY <1>13, Zenon DEF vars, obs
<1> QED
  BY <1>1, <1>2, <1>3, <1>4, <1>5, <1>6, <1>7, <1>8, <1>9, <1>10, <1>11, <1>12, <1>13
     DEF vars

LEMMA StartRest ==
    ASSUME TypeOK, NEW t \in Threads, Start(t)
    PROVE  RestTyped'
<1> USE InParts DEF session, portal, web, obs, Fails, Fault, RestTyped, Session!Phases
<1>1. CASE StartInit(t)
  BY <1>1, Places DEF StartInit, Session!Create
<1>2. CASE StartRegister(t)
  BY <1>2, Places DEF StartRegister
<1>3. CASE StartRegisterFails(t)
  BY <1>3, Places DEF StartRegisterFails
<1>4. CASE StartProvisioning(t)
  BY <1>4, Places DEF StartProvisioning, Session!BeginStart, Session!Enter
<1>5. CASE StartService(t)
  BY <1>5, Places DEF StartService, Session!EndStart, Session!Enter
<1>6. CASE StartServiceFails(t)
  BY <1>6, Places DEF StartServiceFails, Session!CancelStart, Session!Enter
<1>7. CASE StartEndpoint(t)
  BY <1>7, Places DEF StartEndpoint
<1>8. CASE StartEndpointFails(t)
  BY <1>8, Places DEF StartEndpointFails
<1>9. CASE StartPortal(t)
  BY <1>9, Places DEF StartPortal, Portal!StartPortal
<1>10. CASE StartPortalNoTask(t)
  BY <1>10, Places DEF StartPortalNoTask, Portal!StartPortal
<1>11. CASE StartPortalFails(t)
  BY <1>11, Places DEF StartPortalFails, Portal!StartPortalFails, Portal!portalVars
<1>12. CASE AbortPortal(t)
  BY <1>12, Places DEF AbortPortal, Portal!AbortPortal
<1>13. CASE GiveUpPortal(t)
  BY <1>13, Places DEF GiveUpPortal, Portal!GiveUpPortal
<1>14. CASE StartTimers(t)
  BY <1>14, Places DEF StartTimers, CreateTimers
<1>15. CASE StartTimersFail(t)
  BY <1>15, Places DEF StartTimersFail
<1>16. CASE StartUndo(t)
  BY <1>16, Places DEF StartUndo, Session!BeginStop, Session!Enter
<1> QED
  BY <1>1, <1>2, <1>3, <1>4, <1>5, <1>6, <1>7, <1>8, <1>9, <1>10, <1>11, <1>12, <1>13,
     <1>14, <1>15, <1>16 DEF Start

LEMMA StopRest ==
    ASSUME TypeOK, NEW t \in Threads, Stop(t)
    PROVE  RestTyped'
<1> USE InParts DEF session, portal, web, obs, Fails, Fault, RestTyped, Session!Phases
<1>1. CASE CallStop(t)
  BY <1>1, Places DEF CallStop
<1>2. CASE StopPortal(t)
  BY <1>2, Places DEF StopPortal, StopClosesPortal, ClosePortal, Portal!AskDns,
     Portal!StopPortalIdle, Portal!portalVars, Portal!StopPortal, Portal!Restore
<1>3. CASE StopUnregister(t)
  BY <1>3, Places DEF StopUnregister
<1>4. CASE StopHalt(t)
  BY <1>4, Places DEF StopHalt, Session!BeginStop, Session!Enter
<1>5. CASE StopHandOver(t)
  BY <1>5, Places DEF StopHandOver, Session!HandOver, Session!Enter
<1>6. CASE StopUris(t)
  BY <1>6, Places DEF StopUris
<1>7. CASE StopTimers(t)
  BY <1>7, Places DEF StopTimers, DeleteTimers, NoTimers
<1> QED
  BY <1>1, <1>2, <1>3, <1>4, <1>5, <1>6, <1>7 DEF Stop

LEMMA OtherRest ==
    ASSUME TypeOK,
           \/ \E timer \in {"reset", "stage1"} : PageCommand(timer)
           \/ ResetFires \/ ResetCallback
             \/ Stage1Fires \/ Stage1Arms \/ Stage2Fires \/ StopTaskCleansUp \/ StopTaskEmits
             \/ HandleEnd \/ Deinit \/ Leave \/ DnsTask \/ UNCHANGED vars
    PROVE  RestTyped'
<1> USE InParts DEF session, portal, web, obs, Fails, Fault, RestTyped, Session!Phases
<1>1. CASE \E timer \in {"reset", "stage1"} : PageCommand(timer)
  BY <1>1, Places DEF PageCommand
<1>2. CASE ResetFires
  BY <1>2, Places DEF ResetFires, Fire
<1>3. CASE ResetCallback
  BY <1>3, Places DEF ResetCallback
<1>4. CASE Stage1Fires
  BY <1>4, Places DEF Stage1Fires, Fire
<1>5. CASE Stage1Arms
  BY <1>5, Places DEF Stage1Arms, ArmStage2
<1>6. CASE Stage2Fires
  BY <1>6, Places DEF Stage2Fires, Fire
<1>7. CASE StopTaskCleansUp
  BY <1>7, Places DEF StopTaskCleansUp, LeaveStopping, Session!EndStop, Session!Enter
<1>8. CASE StopTaskEmits
  BY <1>8, Places DEF StopTaskEmits, EmitEnd
<1>9. CASE HandleEnd
  BY <1>9, Places DEF HandleEnd
<1>10. CASE Deinit
  BY <1>10, Places DEF Deinit, Session!Destroy
<1>11. CASE Leave
  BY <1>11, Places DEF Leave, LeaveEvents
<1>12. CASE DnsTask
  BY <1>12, Places DEF DnsTask, Portal!DnsTaskEnds
<1>13. CASE UNCHANGED vars
  BY <1>13, Places DEF vars, obs
<1> QED
  BY <1>1, <1>2, <1>3, <1>4, <1>5, <1>6, <1>7, <1>8, <1>9, <1>10, <1>11, <1>12, <1>13
     DEF vars

LEMMA StartPlaces ==
    ASSUME TypeOK, NEW t \in Threads, Start(t)
    PROVE  /\ t \in Callers \cup {EventLoop}
           /\ \E to \in Starting \cup {"idle"} : pc' = [pc EXCEPT ![t] = to]
<1>1. CASE StartInit(t)
  BY <1>1 DEF StartInit, Step, Starting
<1>2. CASE ~StartInit(t)
  <2>1. pc[t] \in Starting /\ \E to \in Starting \cup {"idle"} : pc' = [pc EXCEPT ![t] = to]
    BY <1>2 DEF Start, Step, Starting, StartInit, StartRegister, StartRegisterFails,
       StartProvisioning, StartService, StartServiceFails, StartEndpoint,
       StartEndpointFails, StartPortal, StartPortalNoTask, StartPortalFails, AbortPortal,
       GiveUpPortal, StartTimers,
       StartTimersFail, StartUndo
  <2> QED
    BY <2>1, Places
<1> QED
  BY <1>1, <1>2

\* A stop, or a start that is undone, also puts the stop task to work.
LEMMA StopPlaces ==
    ASSUME TypeOK, NEW t \in Threads, Stop(t)
    PROVE  \/ /\ t \in Callers \cup {TimerTask}
              /\ \E to \in Stopping \cup {"idle"} : pc' = [pc EXCEPT ![t] = to]
           \/ /\ t = TimerTask
              /\ \E to \in {"handoff_dns", "arm"} : pc' = [pc EXCEPT ![t] = to]
           \/ /\ pc[t] \in {"halting", "undoing"} /\ pc[StopTask] = "idle"
              /\ \E to \in {"uris", "idle"} :
                    /\ to = IF pc[t] = "halting" THEN "uris" ELSE "idle"
                    /\ pc' = [pc EXCEPT ![t] = to, ![StopTask] = "cleanup"]
<1>1. CASE CallStop(t)
  BY <1>1 DEF CallStop, Step, Stopping
<1>2. CASE StopClosesPortal(t)
  BY <1>2, Places DEF StopClosesPortal, ClosePortal, Step, Stopping
<1>3. CASE t = TimerTask /\ ClosePortal(t, "handoff", "handoff_dns", "arm")
  BY <1>3 DEF ClosePortal, Step
<1>4. CASE StopHandOver(t)
  BY <1>4 DEF StopHandOver
<1>5. CASE StopUnregister(t) \/ StopHalt(t) \/ StopUris(t) \/ StopTimers(t)
  BY <1>5, Places DEF StopUnregister, StopHalt, StopUris, StopTimers, Step, Stopping
<1> QED
  BY <1>1, <1>2, <1>3, <1>4, <1>5 DEF Stop, StopPortal

LEMMA OtherPlaces ==
    ASSUME TypeOK,
           \/ \E timer \in {"reset", "stage1"} : PageCommand(timer)
           \/ ResetFires \/ ResetCallback
             \/ Stage1Fires \/ Stage1Arms \/ Stage2Fires \/ StopTaskCleansUp \/ StopTaskEmits
             \/ HandleEnd \/ Deinit \/ Leave \/ DnsTask \/ UNCHANGED vars
    PROVE  \/ pc' = pc
           \/ \E to \in {"idle", "reset", "handoff", "stop"} :
                 pc' = [pc EXCEPT ![TimerTask] = to]
           \/ \E to \in {"idle", "emit"} : pc' = [pc EXCEPT ![StopTask] = to]
           \/ \E to \in {"idle", "deinit", "leave"} : pc' = [pc EXCEPT ![EventLoop] = to]
BY DEF PageCommand, ResetFires, ResetCallback, Stage1Fires, Stage1Arms, Stage2Fires, Fire,
       StopTaskCleansUp, StopTaskEmits, HandleEnd, Deinit, Leave, DnsTask, vars, Step

LEMMA TypeStep ==
    ASSUME TypeOK, [Next]_vars
    PROVE  TypeOK'
<1> USE DEF PcTyped
<1>0. PcTyped' /\ FlagsTyped' /\ RestTyped' => TypeOK'
  BY DEF TypeOK, FlagsTyped, RestTyped, Portal!PortalTypeOK
<1>1. ASSUME NEW t \in Threads, Start(t) PROVE TypeOK'
  <2>1. PcTyped'
    BY <1>1, StartPlaces, LabelSets, InParts
  <2> QED
    BY <1>0, <1>1, <2>1, StartFlags, StartRest
<1>2. ASSUME NEW t \in Threads, Stop(t) PROVE TypeOK'
  <2>1. PcTyped'
    BY <1>2, StopPlaces, LabelSets, InParts, Places DEF Starting, Stopping
  <2> QED
    BY <1>0, <1>2, <2>1, StopFlags, StopRest
<1>3. ASSUME (\E timer \in {"reset", "stage1"} : PageCommand(timer)) \/ ResetFires \/ ResetCallback
             \/ Stage1Fires \/ Stage1Arms \/ Stage2Fires \/ StopTaskCleansUp \/ StopTaskEmits
             \/ HandleEnd \/ Deinit \/ Leave \/ DnsTask \/ UNCHANGED vars
      PROVE  TypeOK'
  <2>1. PcTyped'
    BY <1>3, OtherPlaces, LabelSets, InParts, Places DEF Stopping
  <2> QED
    BY <1>0, <1>3, <2>1, OtherFlags, OtherRest
<1> QED
  BY <1>1, <1>2, <1>3 DEF Next

\* Every variable keeps its type, whatever fails and races.
THEOREM TypeCorrect == Spec => []TypeOK
<1>1. Init => TypeOK
  <2> SUFFICES ASSUME Init PROVE TypeOK
    OBVIOUS
  <2>1. PcTyped
    BY LabelSets DEF Init, PcTyped, Threads
  <2>2. FlagsTyped
    BY Zenon DEF Init, FlagsTyped, Portal!PortalInit
  <2>3. RestTyped
    BY DEF Init, RestTyped, Session!Init, Session!Phases, Portal!PortalInit, TimerNames,
       NoTimers
  <2> QED
    BY <2>1, <2>2, <2>3, InParts
<1>2. TypeOK /\ [Next]_vars => TypeOK'
  BY TypeStep
<1> QED
  BY <1>1, <1>2, PTL DEF Spec

-----------------------------------------------------------------------------
\* One thread at a time holds the session, and the END of a session meets none.
Orderly == Races \cap {"two_stops", "slow_stop"} = {}

\* No timer fires while somebody stops.
LEMMA FiresAlone ==
    ASSUME TypeOK, Orderly, NEW timer, NEW label, Fire(timer, label)
    PROVE  \A t \in Threads : pc[t] \notin Stopping
<1>1. \A t \in Callers : pc[t] \notin Stopping
  BY DEF Orderly, Fire, StoppingNow
<1>2. pc[TimerTask] \notin Stopping
  BY DEF Fire, Step, Stopping
<1> QED
  BY <1>1, <1>2, Places

LEMMA StartHeld ==
    ASSUME TypeOK, NEW t \in Threads, Start(t), Orderly, Held
    PROVE  Held'
<1> USE Places DEF Step, session, portal, web, obs, Fails, Fault, Held, OneHolds,
   HeldPhase, UpPhase, EndPhase, DownPhase, Stage2Held, Holding, Unheld, Listening, NoEnd,
   InActive, Starting, Stopping
<1>1. CASE StartInit(t)
  <2>1. /\ DOMAIN pc' = Threads
        /\ \A u \in Threads : u # t => pc'[u] = pc[u]
    BY <1>1 DEF StartInit, Session!Create
  <2> QED
    BY <1>1, <2>1 DEF StartInit, Session!Create
<1>2. CASE StartRegister(t)
  <2>1. /\ DOMAIN pc' = Threads
        /\ \A u \in Threads : u # t => pc'[u] = pc[u]
    BY <1>2 DEF StartRegister
  <2> QED
    BY <1>2, <2>1 DEF StartRegister
<1>3. CASE StartRegisterFails(t)
  <2>1. /\ DOMAIN pc' = Threads
        /\ \A u \in Threads : u # t => pc'[u] = pc[u]
    BY <1>3 DEF StartRegisterFails
  <2> QED
    BY <1>3, <2>1 DEF StartRegisterFails
<1>4. CASE StartProvisioning(t)
  <2>1. /\ DOMAIN pc' = Threads
        /\ \A u \in Threads : u # t => pc'[u] = pc[u]
    BY <1>4 DEF StartProvisioning, Session!BeginStart, Session!Enter
  <2> QED
    BY <1>4, <2>1 DEF StartProvisioning, Session!BeginStart, Session!Enter
<1>5. CASE StartService(t)
  <2>1. /\ DOMAIN pc' = Threads
        /\ \A u \in Threads : u # t => pc'[u] = pc[u]
    BY <1>5 DEF StartService, Session!EndStart, Session!Enter
  <2> QED
    BY <1>5, <2>1 DEF StartService, Session!EndStart, Session!Enter
<1>6. CASE StartServiceFails(t)
  <2>1. /\ DOMAIN pc' = Threads
        /\ \A u \in Threads : u # t => pc'[u] = pc[u]
    BY <1>6 DEF StartServiceFails, Session!CancelStart, Session!Enter
  <2> QED
    BY <1>6, <2>1 DEF StartServiceFails, Session!CancelStart, Session!Enter
<1>7. CASE StartEndpoint(t)
  <2>1. /\ DOMAIN pc' = Threads
        /\ \A u \in Threads : u # t => pc'[u] = pc[u]
    BY <1>7 DEF StartEndpoint
  <2> QED
    BY <1>7, <2>1 DEF StartEndpoint
<1>8. CASE StartEndpointFails(t)
  <2>1. /\ DOMAIN pc' = Threads
        /\ \A u \in Threads : u # t => pc'[u] = pc[u]
    BY <1>8 DEF StartEndpointFails
  <2> QED
    BY <1>8, <2>1 DEF StartEndpointFails
<1>9. CASE StartPortal(t)
  <2>1. /\ DOMAIN pc' = Threads
        /\ \A u \in Threads : u # t => pc'[u] = pc[u]
    BY <1>9 DEF StartPortal, Portal!StartPortal
  <2> QED
    BY <1>9, <2>1 DEF StartPortal, Portal!StartPortal
<1>10. CASE StartPortalNoTask(t)
  <2>1. /\ DOMAIN pc' = Threads
        /\ \A u \in Threads : u # t => pc'[u] = pc[u]
    BY <1>10 DEF StartPortalNoTask, Portal!StartPortal
  <2> QED
    BY <1>10, <2>1 DEF StartPortalNoTask, Portal!StartPortal
<1>11. CASE StartPortalFails(t)
  <2>1. /\ DOMAIN pc' = Threads
        /\ \A u \in Threads : u # t => pc'[u] = pc[u]
    BY <1>11 DEF StartPortalFails, Portal!StartPortalFails, Portal!portalVars
  <2> QED
    BY <1>11, <2>1 DEF StartPortalFails, Portal!StartPortalFails, Portal!portalVars
<1>12. CASE AbortPortal(t)
  <2>1. /\ DOMAIN pc' = Threads
        /\ \A u \in Threads : u # t => pc'[u] = pc[u]
    BY <1>12 DEF AbortPortal, Portal!AbortPortal
  <2> QED
    BY <1>12, <2>1 DEF AbortPortal, Portal!AbortPortal
<1>13. CASE GiveUpPortal(t)
  <2>1. /\ DOMAIN pc' = Threads
        /\ \A u \in Threads : u # t => pc'[u] = pc[u]
    BY <1>13 DEF GiveUpPortal, Portal!GiveUpPortal
  <2> QED
    BY <1>13, <2>1 DEF GiveUpPortal, Portal!GiveUpPortal
<1>14. CASE StartTimers(t)
  <2>1. /\ DOMAIN pc' = Threads
        /\ \A u \in Threads : u # t => pc'[u] = pc[u]
    BY <1>14 DEF StartTimers, CreateTimers
  <2> QED
    BY <1>14, <2>1 DEF StartTimers, CreateTimers
<1>15. CASE StartTimersFail(t)
  <2>1. /\ DOMAIN pc' = Threads
        /\ \A u \in Threads : u # t => pc'[u] = pc[u]
    BY <1>15 DEF StartTimersFail
  <2> QED
    BY <1>15, <2>1 DEF StartTimersFail, TimerNames
<1>16. CASE StartUndo(t)
  <2>1. /\ DOMAIN pc' = Threads
        /\ \A u \in Threads : u # t => pc'[u] = pc[u]
    BY <1>16 DEF StartUndo, Session!BeginStop, Session!Enter
  <2> QED
    BY <1>16, <2>1 DEF StartUndo, Session!BeginStop, Session!Enter
<1> QED
  BY <1>1, <1>2, <1>3, <1>4, <1>5, <1>6, <1>7, <1>8, <1>9, <1>10, <1>11, <1>12, <1>13,
     <1>14, <1>15, <1>16 DEF Start

LEMMA StopHeld ==
    ASSUME TypeOK, NEW t \in Threads, Stop(t), Orderly, Held
    PROVE  Held'
<1> USE Places DEF Step, session, portal, web, obs, Fails, Fault, Held, OneHolds,
   HeldPhase, UpPhase, EndPhase, DownPhase, Stage2Held, Holding, Unheld, Listening, NoEnd,
   InActive, Starting, Stopping
<1>1. CASE CallStop(t)
  <2>1. /\ DOMAIN pc' = Threads
        /\ \A u \in Threads : u # t => pc'[u] = pc[u]
    BY <1>1 DEF CallStop
  <2> QED
    BY <1>1, <2>1 DEF CallStop
<1>2. CASE StopPortal(t)
  <2>1. /\ DOMAIN pc' = Threads
        /\ \A u \in Threads : u # t => pc'[u] = pc[u]
    BY <1>2 DEF StopPortal, StopClosesPortal, ClosePortal, Portal!AskDns,
       Portal!StopPortalIdle, Portal!portalVars, Portal!StopPortal, Portal!Restore
  <2> QED
    BY <1>2, <2>1 DEF StopPortal, StopClosesPortal, ClosePortal, Portal!AskDns,
       Portal!StopPortalIdle, Portal!portalVars, Portal!StopPortal, Portal!Restore
<1>3. CASE StopUnregister(t)
  <2>1. /\ DOMAIN pc' = Threads
        /\ \A u \in Threads : u # t => pc'[u] = pc[u]
    BY <1>3 DEF StopUnregister
  <2> QED
    BY <1>3, <2>1 DEF StopUnregister
<1>4. CASE StopHalt(t)
  <2>1. /\ DOMAIN pc' = Threads
        /\ \A u \in Threads : u # t => pc'[u] = pc[u]
    BY <1>4 DEF StopHalt, Session!BeginStop, Session!Enter
  <2> QED
    BY <1>4, <2>1 DEF StopHalt, Session!BeginStop, Session!Enter
<1>5. CASE StopHandOver(t)
  <2>1. /\ DOMAIN pc' = Threads
        /\ \A u \in Threads : u # t /\ u # StopTask => pc'[u] = pc[u]
    BY <1>5 DEF StopHandOver, Session!HandOver, Session!Enter
  <2> QED
    BY <1>5, <2>1 DEF StopHandOver, Session!HandOver, Session!Enter
<1>6. CASE StopUris(t)
  <2>1. /\ DOMAIN pc' = Threads
        /\ \A u \in Threads : u # t => pc'[u] = pc[u]
    BY <1>6 DEF StopUris
  <2> QED
    BY <1>6, <2>1 DEF StopUris
<1>7. CASE StopTimers(t)
  <2>1. /\ DOMAIN pc' = Threads
        /\ \A u \in Threads : u # t => pc'[u] = pc[u]
    BY <1>7 DEF StopTimers, DeleteTimers, NoTimers
  <2> QED
    BY <1>7, <2>1 DEF StopTimers, DeleteTimers, NoTimers, TimerNames
<1> QED
  BY <1>1, <1>2, <1>3, <1>4, <1>5, <1>6, <1>7 DEF Stop

LEMMA OtherHeld ==
    ASSUME TypeOK,
           \/ \E timer \in {"reset", "stage1"} : PageCommand(timer)
           \/ ResetFires \/ ResetCallback
             \/ Stage1Fires \/ Stage1Arms \/ Stage2Fires \/ StopTaskCleansUp \/ StopTaskEmits
             \/ HandleEnd \/ Deinit \/ Leave \/ DnsTask \/ UNCHANGED vars,
           Orderly, Held
    PROVE  Held'
<1> USE Places DEF Step, session, portal, web, obs, Fails, Fault, Held, OneHolds,
   HeldPhase, UpPhase, EndPhase, DownPhase, Stage2Held, Holding, Unheld, Listening, NoEnd,
   InActive, Starting, Stopping
<1>1. CASE \E timer \in {"reset", "stage1"} : PageCommand(timer)
  <2>1. /\ DOMAIN pc' = Threads
        /\ \A u \in Threads : u # TimerTask => pc'[u] = pc[u]
    BY <1>1 DEF PageCommand
  <2> QED
    BY <1>1, <2>1 DEF PageCommand
<1>2. CASE ResetFires
  <2>1. /\ DOMAIN pc' = Threads
        /\ \A u \in Threads : u # TimerTask => pc'[u] = pc[u]
    BY <1>2 DEF ResetFires, Fire
  <2>2. \A u \in Threads : pc[u] \notin Stopping
    BY <1>2, FiresAlone DEF ResetFires
  <2>3. timers \in [TimerNames -> {"null", "idle", "armed"}]
    BY InParts DEF RestTyped
  <2>4. timers["stage2"] # "null" => up
    BY <2>2 DEF Held, Stage2Held
  <2>5. up' <=> up
    BY <1>2 DEF ResetFires, Fire
  <2>6. timers'["stage2"] = timers["stage2"]
    BY <1>2, <2>3 DEF ResetFires, Fire, TimerNames
  <2>7. pc[TimerTask] = "idle" /\ pc'[TimerTask] = "reset"
    BY <1>2 DEF ResetFires, Fire
  <2> QED
    BY <1>2, <2>1, <2>2, <2>4, <2>5, <2>6, <2>7 DEF ResetFires, Fire
<1>3. CASE ResetCallback
  <2>1. /\ DOMAIN pc' = Threads
        /\ \A u \in Threads : u # TimerTask => pc'[u] = pc[u]
    BY <1>3 DEF ResetCallback
  <2> QED
    BY <1>3, <2>1 DEF ResetCallback
<1>4. CASE Stage1Fires
  <2>1. /\ DOMAIN pc' = Threads
        /\ \A u \in Threads : u # TimerTask => pc'[u] = pc[u]
    BY <1>4 DEF Stage1Fires, Fire
  <2>2. \A u \in Threads : pc[u] \notin Stopping
    BY <1>4, FiresAlone DEF Stage1Fires
  <2>3. timers \in [TimerNames -> {"null", "idle", "armed"}]
    BY InParts DEF RestTyped
  <2>4. timers["stage2"] # "null" => up
    BY <2>2 DEF Held, Stage2Held
  <2>5. up' <=> up
    BY <1>4 DEF Stage1Fires, Fire
  <2>6. timers'["stage2"] = timers["stage2"]
    BY <1>4, <2>3 DEF Stage1Fires, Fire, TimerNames
  <2>7. pc[TimerTask] = "idle" /\ pc'[TimerTask] = "handoff"
    BY <1>4 DEF Stage1Fires, Fire
  <2> QED
    BY <1>4, <2>1, <2>2, <2>4, <2>5, <2>6, <2>7 DEF Stage1Fires, Fire
<1>5. CASE Stage1Arms
  <2>1. /\ DOMAIN pc' = Threads
        /\ \A u \in Threads : u # TimerTask => pc'[u] = pc[u]
    BY <1>5 DEF Stage1Arms, ArmStage2
  <2> QED
    BY <1>5, <2>1 DEF Stage1Arms, ArmStage2
<1>6. CASE Stage2Fires
  <2>1. /\ DOMAIN pc' = Threads
        /\ \A u \in Threads : u # TimerTask => pc'[u] = pc[u]
    BY <1>6 DEF Stage2Fires, Fire
  <2>2. \A u \in Threads : pc[u] \notin Stopping
    BY <1>6, FiresAlone DEF Stage2Fires
  <2>3. timers \in [TimerNames -> {"null", "idle", "armed"}]
    BY InParts DEF RestTyped
  <2>4. up
    BY <1>6, <2>2 DEF Held, Stage2Held, Stage2Fires, Fire
  <2>5. ~up'
    BY <1>6 DEF Stage2Fires, Fire
  <2>7. pc[TimerTask] = "idle" /\ pc'[TimerTask] = "stop"
    BY <1>6 DEF Stage2Fires, Fire
  <2> QED
    BY <1>6, <2>1, <2>2, <2>4, <2>5, <2>7 DEF Stage2Fires, Fire
<1>7. CASE StopTaskCleansUp
  <2>1. /\ DOMAIN pc' = Threads
        /\ \A u \in Threads : u # StopTask => pc'[u] = pc[u]
    BY <1>7 DEF StopTaskCleansUp, LeaveStopping, Session!EndStop, Session!Enter
  <2> QED
    BY <1>7, <2>1 DEF StopTaskCleansUp, LeaveStopping, Session!EndStop, Session!Enter,
       Orderly, StoppingNow
<1>8. CASE StopTaskEmits
  <2>1. /\ DOMAIN pc' = Threads
        /\ \A u \in Threads : u # StopTask => pc'[u] = pc[u]
    BY <1>8 DEF StopTaskEmits, EmitEnd
  <2> QED
    BY <1>8, <2>1 DEF StopTaskEmits, EmitEnd
<1>9. CASE HandleEnd
  <2>1. /\ DOMAIN pc' = Threads
        /\ \A u \in Threads : u # EventLoop => pc'[u] = pc[u]
    BY <1>9 DEF HandleEnd
  <2> QED
    BY <1>9, <2>1 DEF HandleEnd
<1>10. CASE Deinit
  <2>1. /\ DOMAIN pc' = Threads
        /\ \A u \in Threads : u # EventLoop => pc'[u] = pc[u]
    BY <1>10 DEF Deinit, Session!Destroy
  <2> QED
    BY <1>10, <2>1 DEF Deinit, Session!Destroy
<1>11. CASE Leave
  <2>1. /\ DOMAIN pc' = Threads
        /\ \A u \in Threads : u # EventLoop => pc'[u] = pc[u]
    BY <1>11 DEF Leave, LeaveEvents
  <2> QED
    BY <1>11, <2>1 DEF Leave, LeaveEvents
<1>12. CASE DnsTask
  <2>1. /\ DOMAIN pc' = Threads
        /\ \A u \in Threads : u # TimerTask => pc'[u] = pc[u]
    BY <1>12 DEF DnsTask, Portal!DnsTaskEnds
  <2> QED
    BY <1>12, <2>1 DEF DnsTask, Portal!DnsTaskEnds
<1>13. CASE UNCHANGED vars
  <2>1. /\ DOMAIN pc' = Threads
        /\ \A u \in Threads : u # TimerTask => pc'[u] = pc[u]
    BY <1>13 DEF vars, obs
  <2> QED
    BY <1>13, <2>1 DEF vars, obs
<1> QED
  BY <1>1, <1>2, <1>3, <1>4, <1>5, <1>6, <1>7, <1>8, <1>9, <1>10, <1>11, <1>12, <1>13
     DEF vars

LEMMA HeldStep ==
    ASSUME TypeOK, Orderly, Held, [Next]_vars
    PROVE  Held'
BY StartHeld, StopHeld, OtherHeld DEF Next

LEMMA HeldInit ==
    ASSUME Init
    PROVE  Held
BY DEF Init, Session!Init, NoTimers, TimerNames, Threads, Held, OneHolds, HeldPhase,
   UpPhase, EndPhase, DownPhase, Stage2Held, Holding, Unheld, Listening, NoEnd, InActive,
   Starting, Stopping

\* The event handler that de-initialises the manager finds its session stopped
\* (wifi_prov_event_handler), whatever fails.
THEOREM EndFindsIdle ==
    ASSUME Orderly
    PROVE  Spec => []EndMeetsIdle
<1>1. Init => Held
  BY HeldInit
<1>2. TypeOK /\ Held /\ [Next]_vars => Held'
  BY HeldStep
<1>3. Held => EndMeetsIdle
  BY DEF Held, EndPhase, EndMeetsIdle
<1> QED
  BY <1>1, <1>2, <1>3, TypeCorrect, PTL DEF Spec

LEMMA StartParts ==
    ASSUME TypeOK, NEW t \in Threads, Start(t),
           Orderly, Held, Held', Parts, Undoing, fault = "none"
    PROVE  Parts' /\ Undoing'
<1> USE Places DEF Step, session, portal, web, obs, Fails, Fault, Orderly, Held,
   OneHolds, HeldPhase, UpPhase, EndPhase, DownPhase, Holding, Unheld, NoEnd, InActive,
   Starting, Stopping
<1>1. CASE StartInit(t)
  <2> USE <1>1 DEF StartInit, Session!Create
  <2>1. /\ DOMAIN pc' = Threads
        /\ \A u \in Threads : u # t => pc'[u] = pc[u]
    OBVIOUS
  <2>2. timers \in [TimerNames -> {"null", "idle", "armed"}]
    BY InParts DEF RestTyped
  <2>3. (Undone => Undone') /\ (~Undone' => PortalParts /\ TimerParts /\ CustomParts /\ UriParts)
    BY DEF Undone, Parts
  <2>4. ASSUME ~Undone'
        PROVE  PortalParts' /\ TimerParts' /\ CustomParts' /\ UriParts' /\ fault' = "none"
    BY <2>1, <2>2, <2>3, <2>4 DEF PortalParts, TimerParts, CustomParts, UriParts, Closed,
       TimerNames, NoTimers
  <2>9. Undoing'
    BY <2>1, <2>3 DEF Undoing, Undone, UriParts, Parts
  <2> QED
    BY <2>4, <2>9 DEF Parts
<1>2. CASE StartRegister(t)
  <2> USE <1>2 DEF StartRegister
  <2>1. /\ DOMAIN pc' = Threads
        /\ \A u \in Threads : u # t => pc'[u] = pc[u]
    OBVIOUS
  <2>2. timers \in [TimerNames -> {"null", "idle", "armed"}]
    BY InParts DEF RestTyped
  <2>3. (Undone => Undone') /\ (~Undone' => PortalParts /\ TimerParts /\ CustomParts /\ UriParts)
    BY DEF Undone, Parts
  <2>4. ASSUME ~Undone'
        PROVE  PortalParts' /\ TimerParts' /\ CustomParts' /\ UriParts' /\ fault' = "none"
    BY <2>1, <2>2, <2>3, <2>4 DEF PortalParts, TimerParts, CustomParts, UriParts, Closed,
       TimerNames, NoTimers
  <2>9. Undoing'
    BY <2>1, <2>3 DEF Undoing, Undone, UriParts, Parts
  <2> QED
    BY <2>4, <2>9 DEF Parts
<1>3. CASE StartRegisterFails(t)
  <2> USE <1>3 DEF StartRegisterFails
  <2>1. /\ DOMAIN pc' = Threads
        /\ \A u \in Threads : u # t => pc'[u] = pc[u]
    OBVIOUS
  <2>2. timers \in [TimerNames -> {"null", "idle", "armed"}]
    BY InParts DEF RestTyped
  <2>3. (Undone => Undone') /\ (~Undone' => PortalParts /\ TimerParts /\ CustomParts /\ UriParts)
    BY DEF Undone, Parts
  <2>4. ASSUME ~Undone'
        PROVE  PortalParts' /\ TimerParts' /\ CustomParts' /\ UriParts' /\ fault' = "none"
    BY <2>1, <2>2, <2>3, <2>4 DEF PortalParts, TimerParts, CustomParts, UriParts, Closed,
       TimerNames, NoTimers
  <2>9. Undoing'
    BY <2>1, <2>3 DEF Undoing, Undone, UriParts, Parts
  <2> QED
    BY <2>4, <2>9 DEF Parts
<1>4. CASE StartProvisioning(t)
  <2> USE <1>4 DEF StartProvisioning, Session!BeginStart, Session!Enter
  <2>1. /\ DOMAIN pc' = Threads
        /\ \A u \in Threads : u # t => pc'[u] = pc[u]
    OBVIOUS
  <2>2. timers \in [TimerNames -> {"null", "idle", "armed"}]
    BY InParts DEF RestTyped
  <2>3. (Undone => Undone') /\ (~Undone' => PortalParts /\ TimerParts /\ CustomParts /\ UriParts)
    BY DEF Undone, Parts
  <2>4. ASSUME ~Undone'
        PROVE  PortalParts' /\ TimerParts' /\ CustomParts' /\ UriParts' /\ fault' = "none"
    BY <2>1, <2>2, <2>3, <2>4 DEF PortalParts, TimerParts, CustomParts, UriParts, Closed,
       TimerNames, NoTimers
  <2>9. Undoing'
    BY <2>1, <2>3 DEF Undoing, Undone, UriParts, Parts
  <2> QED
    BY <2>4, <2>9 DEF Parts
<1>5. CASE StartService(t)
  <2> USE <1>5 DEF StartService, Session!EndStart, Session!Enter
  <2>1. /\ DOMAIN pc' = Threads
        /\ \A u \in Threads : u # t => pc'[u] = pc[u]
    OBVIOUS
  <2>2. timers \in [TimerNames -> {"null", "idle", "armed"}]
    BY InParts DEF RestTyped
  <2>3. (Undone => Undone') /\ (~Undone' => PortalParts /\ TimerParts /\ CustomParts /\ UriParts)
    BY DEF Undone, Parts
  <2>4. ASSUME ~Undone'
        PROVE  PortalParts' /\ TimerParts' /\ CustomParts' /\ UriParts' /\ fault' = "none"
    BY <2>1, <2>2, <2>3, <2>4 DEF PortalParts, TimerParts, CustomParts, UriParts, Closed,
       TimerNames, NoTimers
  <2>9. Undoing'
    BY <2>1, <2>3 DEF Undoing, Undone, UriParts, Parts
  <2> QED
    BY <2>4, <2>9 DEF Parts
<1>6. CASE StartServiceFails(t)
  <2> USE <1>6 DEF StartServiceFails, Session!CancelStart, Session!Enter
  <2>1. /\ DOMAIN pc' = Threads
        /\ \A u \in Threads : u # t => pc'[u] = pc[u]
    OBVIOUS
  <2>2. timers \in [TimerNames -> {"null", "idle", "armed"}]
    BY InParts DEF RestTyped
  <2>3. (Undone => Undone') /\ (~Undone' => PortalParts /\ TimerParts /\ CustomParts /\ UriParts)
    BY DEF Undone, Parts
  <2>4. ASSUME ~Undone'
        PROVE  PortalParts' /\ TimerParts' /\ CustomParts' /\ UriParts' /\ fault' = "none"
    BY <2>1, <2>2, <2>3, <2>4 DEF PortalParts, TimerParts, CustomParts, UriParts, Closed,
       TimerNames, NoTimers
  <2>9. Undoing'
    BY <2>1, <2>3 DEF Undoing, Undone, UriParts, Parts
  <2> QED
    BY <2>4, <2>9 DEF Parts
<1>7. CASE StartEndpoint(t)
  <2> USE <1>7 DEF StartEndpoint
  <2>1. /\ DOMAIN pc' = Threads
        /\ \A u \in Threads : u # t => pc'[u] = pc[u]
    OBVIOUS
  <2>2. timers \in [TimerNames -> {"null", "idle", "armed"}]
    BY InParts DEF RestTyped
  <2>3. (Undone => Undone') /\ (~Undone' => PortalParts /\ TimerParts /\ CustomParts /\ UriParts)
    BY DEF Undone, Parts
  <2>4. ASSUME ~Undone'
        PROVE  PortalParts' /\ TimerParts' /\ CustomParts' /\ UriParts' /\ fault' = "none"
    BY <2>1, <2>2, <2>3, <2>4 DEF PortalParts, TimerParts, CustomParts, UriParts, Closed,
       TimerNames, NoTimers
  <2>9. Undoing'
    BY <2>1, <2>3 DEF Undoing, Undone, UriParts, Parts
  <2> QED
    BY <2>4, <2>9 DEF Parts
<1>8. CASE StartEndpointFails(t)
  <2> USE <1>8 DEF StartEndpointFails
  <2>1. /\ DOMAIN pc' = Threads
        /\ \A u \in Threads : u # t => pc'[u] = pc[u]
    OBVIOUS
  <2>2. timers \in [TimerNames -> {"null", "idle", "armed"}]
    BY InParts DEF RestTyped
  <2>3. (Undone => Undone') /\ (~Undone' => PortalParts /\ TimerParts /\ CustomParts /\ UriParts)
    BY DEF Undone, Parts
  <2>10. Undone'
    BY DEF Undone
  <2>4. ASSUME ~Undone'
        PROVE  PortalParts' /\ TimerParts' /\ CustomParts' /\ UriParts' /\ fault' = "none"
    BY <2>1, <2>2, <2>3, <2>4, <2>10 DEF PortalParts, TimerParts, CustomParts, UriParts,
       Closed,
       TimerNames, NoTimers
  <2>9. Undoing'
    BY <2>1, <2>3, <2>10 DEF Undoing, Undone, UriParts, Parts
  <2> QED
    BY <2>4, <2>9 DEF Parts
<1>9. CASE StartPortal(t)
  <2> USE <1>9 DEF StartPortal, Portal!StartPortal
  <2>1. /\ DOMAIN pc' = Threads
        /\ \A u \in Threads : u # t => pc'[u] = pc[u]
    OBVIOUS
  <2>2. timers \in [TimerNames -> {"null", "idle", "armed"}]
    BY InParts DEF RestTyped
  <2>3. (Undone => Undone') /\ (~Undone' => PortalParts /\ TimerParts /\ CustomParts /\ UriParts)
    BY DEF Undone, Parts
  <2>4. ASSUME ~Undone'
        PROVE  PortalParts' /\ TimerParts' /\ CustomParts' /\ UriParts' /\ fault' = "none"
    BY <2>1, <2>2, <2>3, <2>4 DEF PortalParts, TimerParts, CustomParts, UriParts, Closed,
       TimerNames, NoTimers
  <2>9. Undoing'
    BY <2>1, <2>3 DEF Undoing, Undone, UriParts, Parts
  <2> QED
    BY <2>4, <2>9 DEF Parts
<1>10. CASE StartPortalNoTask(t)
  <2> USE <1>10 DEF StartPortalNoTask, Portal!StartPortal
  <2>1. /\ DOMAIN pc' = Threads
        /\ \A u \in Threads : u # t => pc'[u] = pc[u]
    OBVIOUS
  <2>2. timers \in [TimerNames -> {"null", "idle", "armed"}]
    BY InParts DEF RestTyped
  <2>3. (Undone => Undone') /\ (~Undone' => PortalParts /\ TimerParts /\ CustomParts /\ UriParts)
    BY DEF Undone, Parts
  <2>4. ASSUME ~Undone'
        PROVE  PortalParts' /\ TimerParts' /\ CustomParts' /\ UriParts' /\ fault' = "none"
    BY <2>1, <2>2, <2>3, <2>4 DEF PortalParts, TimerParts, CustomParts, UriParts, Closed,
       TimerNames, NoTimers
  <2>9. Undoing'
    BY <2>1, <2>3 DEF Undoing, Undone, UriParts, Parts
  <2> QED
    BY <2>4, <2>9 DEF Parts
<1>11. CASE StartPortalFails(t)
  <2> USE <1>11 DEF StartPortalFails, Portal!StartPortalFails, Portal!portalVars
  <2>1. /\ DOMAIN pc' = Threads
        /\ \A u \in Threads : u # t => pc'[u] = pc[u]
    OBVIOUS
  <2>2. timers \in [TimerNames -> {"null", "idle", "armed"}]
    BY InParts DEF RestTyped
  <2>3. (Undone => Undone') /\ (~Undone' => PortalParts /\ TimerParts /\ CustomParts /\ UriParts)
    BY DEF Undone, Parts
  <2>10. Undone'
    BY DEF Undone
  <2>4. ASSUME ~Undone'
        PROVE  PortalParts' /\ TimerParts' /\ CustomParts' /\ UriParts' /\ fault' = "none"
    BY <2>1, <2>2, <2>3, <2>4, <2>10 DEF PortalParts, TimerParts, CustomParts, UriParts,
       Closed,
       TimerNames, NoTimers
  <2>9. Undoing'
    BY <2>1, <2>3, <2>10 DEF Undoing, Undone, UriParts, Parts
  <2> QED
    BY <2>4, <2>9 DEF Parts
<1>12. CASE AbortPortal(t)
  <2> USE <1>12 DEF AbortPortal, Portal!AbortPortal
  <2>1. /\ DOMAIN pc' = Threads
        /\ \A u \in Threads : u # t => pc'[u] = pc[u]
    OBVIOUS
  <2>2. timers \in [TimerNames -> {"null", "idle", "armed"}]
    BY InParts DEF RestTyped
  <2>3. (Undone => Undone') /\ (~Undone' => PortalParts /\ TimerParts /\ CustomParts /\ UriParts)
    BY DEF Undone, Parts
  <2>10. Undone'
    BY DEF Undone
  <2>4. ASSUME ~Undone'
        PROVE  PortalParts' /\ TimerParts' /\ CustomParts' /\ UriParts' /\ fault' = "none"
    BY <2>1, <2>2, <2>3, <2>4, <2>10 DEF PortalParts, TimerParts, CustomParts, UriParts,
       Closed,
       TimerNames, NoTimers
  <2>9. Undoing'
    BY <2>1, <2>3, <2>10 DEF Undoing, Undone, UriParts, Parts
  <2> QED
    BY <2>4, <2>9 DEF Parts
<1>13. CASE GiveUpPortal(t)
  <2> USE <1>13 DEF GiveUpPortal, Portal!GiveUpPortal
  <2>1. /\ DOMAIN pc' = Threads
        /\ \A u \in Threads : u # t => pc'[u] = pc[u]
    OBVIOUS
  <2>2. timers \in [TimerNames -> {"null", "idle", "armed"}]
    BY InParts DEF RestTyped
  <2>3. (Undone => Undone') /\ (~Undone' => PortalParts /\ TimerParts /\ CustomParts /\ UriParts)
    BY DEF Undone, Parts
  <2>4. ASSUME ~Undone'
        PROVE  PortalParts' /\ TimerParts' /\ CustomParts' /\ UriParts' /\ fault' = "none"
    BY <2>1, <2>2, <2>3, <2>4 DEF PortalParts, TimerParts, CustomParts, UriParts, Closed,
       TimerNames, NoTimers
  <2>9. Undoing'
    BY <2>1, <2>3 DEF Undoing, Undone, UriParts, Parts
  <2> QED
    BY <2>4, <2>9 DEF Parts
<1>14. CASE StartTimers(t)
  <2> USE <1>14 DEF StartTimers, CreateTimers
  <2>1. /\ DOMAIN pc' = Threads
        /\ \A u \in Threads : u # t => pc'[u] = pc[u]
    OBVIOUS
  <2>2. timers \in [TimerNames -> {"null", "idle", "armed"}]
    BY InParts DEF RestTyped
  <2>3. (Undone => Undone') /\ (~Undone' => PortalParts /\ TimerParts /\ CustomParts /\ UriParts)
    BY DEF Undone, Parts
  <2>4. ASSUME ~Undone'
        PROVE  PortalParts' /\ TimerParts' /\ CustomParts' /\ UriParts' /\ fault' = "none"
    BY <2>1, <2>2, <2>3, <2>4 DEF PortalParts, TimerParts, CustomParts, UriParts, Closed,
       TimerNames, NoTimers
  <2>9. Undoing'
    BY <2>1, <2>3 DEF Undoing, Undone, UriParts, Parts
  <2> QED
    BY <2>4, <2>9 DEF Parts
<1>15. CASE StartTimersFail(t)
  <2> USE <1>15 DEF StartTimersFail
  <2>1. /\ DOMAIN pc' = Threads
        /\ \A u \in Threads : u # t => pc'[u] = pc[u]
    OBVIOUS
  <2>2. timers \in [TimerNames -> {"null", "idle", "armed"}]
    BY InParts DEF RestTyped
  <2>3. (Undone => Undone') /\ (~Undone' => PortalParts /\ TimerParts /\ CustomParts /\ UriParts)
    BY DEF Undone, Parts
  <2>10. Undone'
    BY DEF Undone
  <2>4. ASSUME ~Undone'
        PROVE  PortalParts' /\ TimerParts' /\ CustomParts' /\ UriParts' /\ fault' = "none"
    BY <2>1, <2>2, <2>3, <2>4, <2>10 DEF PortalParts, TimerParts, CustomParts, UriParts,
       Closed,
       TimerNames, NoTimers
  <2>9. Undoing'
    BY <2>1, <2>3, <2>10 DEF Undoing, Undone, UriParts, Parts
  <2> QED
    BY <2>4, <2>9 DEF Parts
<1>16. CASE StartUndo(t)
  <2> USE <1>16 DEF StartUndo, Session!BeginStop, Session!Enter
  <2>1. /\ DOMAIN pc' = Threads
        /\ \A u \in Threads : u # t => pc'[u] = pc[u]
    OBVIOUS
  <2>2. timers \in [TimerNames -> {"null", "idle", "armed"}]
    BY InParts DEF RestTyped
  <2>3. (Undone => Undone') /\ (~Undone' => PortalParts /\ TimerParts /\ CustomParts /\ UriParts)
    BY DEF Undone, Parts
  <2>4. ASSUME ~Undone'
        PROVE  PortalParts' /\ TimerParts' /\ CustomParts' /\ UriParts' /\ fault' = "none"
    BY <2>1, <2>2, <2>3, <2>4 DEF PortalParts, TimerParts, CustomParts, UriParts, Closed,
       TimerNames, NoTimers
  <2>9. Undoing'
    BY <2>1, <2>3 DEF Undoing, Undone, UriParts, Parts
  <2> QED
    BY <2>4, <2>9 DEF Parts
<1> QED
  BY <1>1, <1>2, <1>3, <1>4, <1>5, <1>6, <1>7, <1>8, <1>9, <1>10, <1>11, <1>12, <1>13,
     <1>14, <1>15, <1>16 DEF Start

LEMMA StopParts ==
    ASSUME TypeOK, NEW t \in Threads, Stop(t),
           Orderly, Held, Held', Parts, Undoing, fault = "none"
    PROVE  Parts' /\ Undoing'
<1> USE Places DEF Step, session, portal, web, obs, Fails, Fault, Orderly, Held,
   OneHolds, HeldPhase, UpPhase, EndPhase, DownPhase, Holding, Unheld, NoEnd, InActive,
   Starting, Stopping
<1>1. CASE CallStop(t)
  <2> USE <1>1 DEF CallStop
  <2>1. /\ DOMAIN pc' = Threads
        /\ \A u \in Threads : u # t => pc'[u] = pc[u]
    OBVIOUS
  <2>2. timers \in [TimerNames -> {"null", "idle", "armed"}]
    BY InParts DEF RestTyped
  <2>3. (Undone => Undone') /\ (~Undone' => PortalParts /\ TimerParts /\ CustomParts /\ UriParts)
    BY DEF Undone, Parts
  <2>4. ASSUME ~Undone'
        PROVE  PortalParts' /\ TimerParts' /\ CustomParts' /\ UriParts' /\ fault' = "none"
    BY <2>1, <2>2, <2>3, <2>4 DEF PortalParts, TimerParts, CustomParts, UriParts, Closed,
       TimerNames, NoTimers
  <2>9. Undoing'
    BY <2>1, <2>3 DEF Undoing, Undone, UriParts, Parts
  <2> QED
    BY <2>4, <2>9 DEF Parts
<1>2. CASE StopPortal(t)
<2> USE <1>2 DEF StopPortal, StopClosesPortal, ClosePortal, Portal!AskDns,
   Portal!StopPortalIdle, Portal!portalVars, Portal!StopPortal, Portal!Restore
  <2>1. /\ DOMAIN pc' = Threads
        /\ \A u \in Threads : u # t => pc'[u] = pc[u]
    OBVIOUS
  <2>2. timers \in [TimerNames -> {"null", "idle", "armed"}]
    BY InParts DEF RestTyped
  <2>3. (Undone => Undone') /\ (~Undone' => PortalParts /\ TimerParts /\ CustomParts /\ UriParts)
    BY DEF Undone, Parts
  <2>4. ASSUME ~Undone' PROVE PortalParts'
    <3>1. \A u \in Threads : u # t => pc[u] \notin {"wait_dns", "handoff_dns"}
      <4>1. \/ pc[t] \in {"stop", "wait_dns"}
            \/ t = TimerTask /\ pc[TimerTask] \in {"handoff", "handoff_dns"} /\ up
        BY <2>3, <2>4 DEF TimerParts
      <4>2. \A u \in Threads : pc[u] = "handoff_dns" => u = TimerTask /\ up
        BY <2>3, <2>4 DEF TimerParts, Threads
      <4>3. \A u \in Threads : pc[u] \in {"stop", "wait_dns"} => Holding(u) /\ ~up
        BY DEF Held, HeldPhase, Holding, Stopping
      <4> QED
        BY <4>1, <4>2, <4>3 DEF Held, OneHolds
    <3>2. CASE pc[t] \in {"stop", "handoff"} /\ isStarted
      <4>1. isStarted /\ isStarted' /\ dns # "none"
        BY <2>3, <2>4, <3>2 DEF PortalParts
      <4>2. dns' # "none"
        BY <3>2, <4>1
      <4>3. pc[t] = "stop" => pc'[t] = "wait_dns"
        BY <2>1, <3>2
      <4>4. pc[t] = "handoff" => up'
        BY <2>3, <2>4 DEF TimerParts
      <4> QED
        BY <2>1, <3>1, <3>2, <4>1, <4>2, <4>3, <4>4 DEF PortalParts
    <3>3. CASE pc[t] \in {"stop", "handoff"} /\ ~isStarted
      <4>1. Closed' /\ pc'[t] \notin {"wait_dns", "handoff_dns"}
        BY <2>1, <2>3, <2>4, <3>3 DEF PortalParts, Closed
      <4> QED
        BY <2>1, <3>1, <4>1 DEF PortalParts, Closed
    <3>4. CASE pc[t] \in {"wait_dns", "handoff_dns"}
      <4>1. Closed' /\ pc'[t] \notin {"wait_dns", "handoff_dns"}
        BY <2>1, <3>4 DEF Closed
      <4> QED
        BY <2>1, <3>1, <4>1 DEF PortalParts, Closed
    <3> QED
      BY <3>2, <3>3, <3>4
  <2>5. ASSUME ~Undone' PROVE TimerParts'
    BY <2>1, <2>2, <2>3, <2>5 DEF TimerParts, TimerNames, NoTimers
  <2>6. ASSUME ~Undone' PROVE CustomParts'
    BY <2>1, <2>3, <2>6 DEF CustomParts, TimerParts
  <2>7. ASSUME ~Undone' PROVE UriParts'
    BY <2>1, <2>3, <2>7 DEF UriParts
  <2>8. ASSUME ~Undone' PROVE fault' = "none"
    BY <2>1, <2>3, <2>8 DEF PortalParts, TimerParts, CustomParts, UriParts
  <2>9. Undoing'
    BY <2>1, <2>3 DEF Undoing, Undone, UriParts, Parts
  <2> QED
    BY <2>4, <2>5, <2>6, <2>7, <2>8, <2>9 DEF Parts
<1>3. CASE StopUnregister(t)
  <2> USE <1>3 DEF StopUnregister
  <2>1. /\ DOMAIN pc' = Threads
        /\ \A u \in Threads : u # t => pc'[u] = pc[u]
    OBVIOUS
  <2>2. timers \in [TimerNames -> {"null", "idle", "armed"}]
    BY InParts DEF RestTyped
  <2>3. (Undone => Undone') /\ (~Undone' => PortalParts /\ TimerParts /\ CustomParts /\ UriParts)
    BY DEF Undone, Parts
  <2>10. ~custom'
    BY DEF Held, HeldPhase, Holding, InActive, Stopping
  <2>4. ASSUME ~Undone'
        PROVE  PortalParts' /\ TimerParts' /\ CustomParts' /\ UriParts' /\ fault' = "none"
    BY <2>1, <2>2, <2>3, <2>4, <2>10 DEF PortalParts, TimerParts, CustomParts, UriParts,
       Closed,
       TimerNames, NoTimers
  <2>9. Undoing'
    BY <2>1, <2>3, <2>10 DEF Undoing, Undone, UriParts, Parts
  <2> QED
    BY <2>4, <2>9 DEF Parts
<1>4. CASE StopHalt(t)
  <2> USE <1>4 DEF StopHalt, Session!BeginStop, Session!Enter
  <2>1. /\ DOMAIN pc' = Threads
        /\ \A u \in Threads : u # t => pc'[u] = pc[u]
    OBVIOUS
  <2>2. timers \in [TimerNames -> {"null", "idle", "armed"}]
    BY InParts DEF RestTyped
  <2>3. (Undone => Undone') /\ (~Undone' => PortalParts /\ TimerParts /\ CustomParts /\ UriParts)
    BY DEF Undone, Parts
  <2>4. ASSUME ~Undone'
        PROVE  PortalParts' /\ TimerParts' /\ CustomParts' /\ UriParts' /\ fault' = "none"
    BY <2>1, <2>2, <2>3, <2>4 DEF PortalParts, TimerParts, CustomParts, UriParts, Closed,
       TimerNames, NoTimers
  <2>9. Undoing'
    BY <2>1, <2>3 DEF Undoing, Undone, UriParts, Parts
  <2> QED
    BY <2>4, <2>9 DEF Parts
<1>5. CASE StopHandOver(t)
  <2> USE <1>5 DEF StopHandOver, Session!HandOver, Session!Enter
  <2>1. /\ DOMAIN pc' = Threads
        /\ \A u \in Threads : u # t /\ u # StopTask => pc'[u] = pc[u]
    OBVIOUS
  <2>2. timers \in [TimerNames -> {"null", "idle", "armed"}]
    BY InParts DEF RestTyped
  <2>3. (Undone => Undone') /\ (~Undone' => PortalParts /\ TimerParts /\ CustomParts /\ UriParts)
    BY DEF Undone, Parts
  <2>10. pc[t] = "undoing" => Undone
    BY DEF Undoing
  <2>11. pc[t] = "halting" => ~Unheld'
    BY <2>1 DEF Unheld, Holding, Stopping
  <2>4. ASSUME ~Undone'
        PROVE  PortalParts' /\ TimerParts' /\ CustomParts' /\ UriParts' /\ fault' = "none"
    BY <2>1, <2>2, <2>3, <2>4, <2>10, <2>11 DEF PortalParts, TimerParts, CustomParts,
       UriParts, Closed,
       TimerNames, NoTimers
  <2>9. Undoing'
    BY <2>1, <2>3, <2>10, <2>11 DEF Undoing, Undone, UriParts, Parts
  <2> QED
    BY <2>4, <2>9 DEF Parts
<1>6. CASE StopUris(t)
  <2> USE <1>6 DEF StopUris
  <2>1. /\ DOMAIN pc' = Threads
        /\ \A u \in Threads : u # t => pc'[u] = pc[u]
    OBVIOUS
  <2>2. timers \in [TimerNames -> {"null", "idle", "armed"}]
    BY InParts DEF RestTyped
  <2>3. (Undone => Undone') /\ (~Undone' => PortalParts /\ TimerParts /\ CustomParts /\ UriParts)
    BY DEF Undone, Parts
  <2>4. ASSUME ~Undone'
        PROVE  PortalParts' /\ TimerParts' /\ CustomParts' /\ UriParts' /\ fault' = "none"
    BY <2>1, <2>2, <2>3, <2>4 DEF PortalParts, TimerParts, CustomParts, UriParts, Closed,
       TimerNames, NoTimers
  <2>9. Undoing'
    BY <2>1, <2>3 DEF Undoing, Undone, UriParts, Parts
  <2> QED
    BY <2>4, <2>9 DEF Parts
<1>7. CASE StopTimers(t)
  <2> USE <1>7 DEF StopTimers, DeleteTimers, NoTimers
  <2>1. /\ DOMAIN pc' = Threads
        /\ \A u \in Threads : u # t => pc'[u] = pc[u]
    OBVIOUS
  <2>2. timers \in [TimerNames -> {"null", "idle", "armed"}]
    BY InParts DEF RestTyped
  <2>3. (Undone => Undone') /\ (~Undone' => PortalParts /\ TimerParts /\ CustomParts /\ UriParts)
    BY DEF Undone, Parts
  <2>4. ASSUME ~Undone'
        PROVE  PortalParts' /\ TimerParts' /\ CustomParts' /\ UriParts' /\ fault' = "none"
    BY <2>1, <2>2, <2>3, <2>4 DEF PortalParts, TimerParts, CustomParts, UriParts, Closed,
       TimerNames, NoTimers
  <2>9. Undoing'
    BY <2>1, <2>3 DEF Undoing, Undone, UriParts, Parts
  <2> QED
    BY <2>4, <2>9 DEF Parts
<1> QED
  BY <1>1, <1>2, <1>3, <1>4, <1>5, <1>6, <1>7 DEF Stop

LEMMA OtherParts ==
    ASSUME TypeOK,
           \/ \E timer \in {"reset", "stage1"} : PageCommand(timer)
           \/ ResetFires \/ ResetCallback
             \/ Stage1Fires \/ Stage1Arms \/ Stage2Fires \/ StopTaskCleansUp \/ StopTaskEmits
             \/ HandleEnd \/ Deinit \/ Leave \/ DnsTask \/ UNCHANGED vars,
           Orderly, Held, Held', Parts, Undoing, fault = "none"
    PROVE  Parts' /\ Undoing'
<1> USE Places DEF Step, session, portal, web, obs, Fails, Fault, Orderly, Held,
   OneHolds, HeldPhase, UpPhase, EndPhase, DownPhase, Holding, Unheld, NoEnd, InActive,
   Starting, Stopping
<1>1. CASE \E timer \in {"reset", "stage1"} : PageCommand(timer)
  <2> USE <1>1 DEF PageCommand
  <2>1. /\ DOMAIN pc' = Threads
        /\ \A u \in Threads : u # TimerTask => pc'[u] = pc[u]
    OBVIOUS
  <2>2. timers \in [TimerNames -> {"null", "idle", "armed"}]
    BY InParts DEF RestTyped
  <2>3. (Undone => Undone') /\ (~Undone' => PortalParts /\ TimerParts /\ CustomParts /\ UriParts)
    BY DEF Undone, Parts
  <2>4. ASSUME ~Undone'
        PROVE  PortalParts' /\ TimerParts' /\ CustomParts' /\ UriParts' /\ fault' = "none"
    BY <2>1, <2>2, <2>3, <2>4 DEF PortalParts, TimerParts, CustomParts, UriParts, Closed,
       TimerNames, NoTimers
  <2>9. Undoing'
    BY <2>1, <2>3 DEF Undoing, Undone, UriParts, Parts
  <2> QED
    BY <2>4, <2>9 DEF Parts
<1>2. CASE ResetFires
  <2> USE <1>2 DEF ResetFires, Fire
  <2>1. /\ DOMAIN pc' = Threads
        /\ \A u \in Threads : u # TimerTask => pc'[u] = pc[u]
    OBVIOUS
  <2>2. timers \in [TimerNames -> {"null", "idle", "armed"}]
    BY InParts DEF RestTyped
  <2>3. (Undone => Undone') /\ (~Undone' => PortalParts /\ TimerParts /\ CustomParts /\ UriParts)
    BY DEF Undone, Parts
  <2>10. \A u \in Threads : pc[u] \notin Stopping
    BY FiresAlone
  <2>11. timers # NoTimers /\ (up' <=> up)
    BY <2>2 DEF NoTimers, TimerNames
  <2>12. ~Undone => up
    BY <2>3, <2>10, <2>11 DEF TimerParts, Undone
  <2>4. ASSUME ~Undone'
        PROVE  PortalParts' /\ TimerParts' /\ CustomParts' /\ UriParts' /\ fault' = "none"
    BY <2>1, <2>2, <2>3, <2>4, <2>10, <2>11, <2>12 DEF PortalParts, TimerParts,
       CustomParts, UriParts, Closed,
       TimerNames, NoTimers
  <2>9. Undoing'
    BY <2>1, <2>3, <2>10, <2>11, <2>12 DEF Undoing, Undone, UriParts, Parts
  <2> QED
    BY <2>4, <2>9 DEF Parts
<1>3. CASE ResetCallback
  <2> USE <1>3 DEF ResetCallback
  <2>1. /\ DOMAIN pc' = Threads
        /\ \A u \in Threads : u # TimerTask => pc'[u] = pc[u]
    OBVIOUS
  <2>2. timers \in [TimerNames -> {"null", "idle", "armed"}]
    BY InParts DEF RestTyped
  <2>3. (Undone => Undone') /\ (~Undone' => PortalParts /\ TimerParts /\ CustomParts /\ UriParts)
    BY DEF Undone, Parts
  <2>4. ASSUME ~Undone'
        PROVE  PortalParts' /\ TimerParts' /\ CustomParts' /\ UriParts' /\ fault' = "none"
    BY <2>1, <2>2, <2>3, <2>4 DEF PortalParts, TimerParts, CustomParts, UriParts, Closed,
       TimerNames, NoTimers
  <2>9. Undoing'
    BY <2>1, <2>3 DEF Undoing, Undone, UriParts, Parts
  <2> QED
    BY <2>4, <2>9 DEF Parts
<1>4. CASE Stage1Fires
  <2> USE <1>4 DEF Stage1Fires, Fire
  <2>1. /\ DOMAIN pc' = Threads
        /\ \A u \in Threads : u # TimerTask => pc'[u] = pc[u]
    OBVIOUS
  <2>2. timers \in [TimerNames -> {"null", "idle", "armed"}]
    BY InParts DEF RestTyped
  <2>3. (Undone => Undone') /\ (~Undone' => PortalParts /\ TimerParts /\ CustomParts /\ UriParts)
    BY DEF Undone, Parts
  <2>10. \A u \in Threads : pc[u] \notin Stopping
    BY FiresAlone
  <2>11. timers # NoTimers /\ (up' <=> up)
    BY <2>2 DEF NoTimers, TimerNames
  <2>12. ~Undone => up
    BY <2>3, <2>10, <2>11 DEF TimerParts, Undone
  <2>4. ASSUME ~Undone'
        PROVE  PortalParts' /\ TimerParts' /\ CustomParts' /\ UriParts' /\ fault' = "none"
    BY <2>1, <2>2, <2>3, <2>4, <2>10, <2>11, <2>12 DEF PortalParts, TimerParts,
       CustomParts, UriParts, Closed,
       TimerNames, NoTimers
  <2>9. Undoing'
    BY <2>1, <2>3, <2>10, <2>11, <2>12 DEF Undoing, Undone, UriParts, Parts
  <2> QED
    BY <2>4, <2>9 DEF Parts
<1>5. CASE Stage1Arms
  <2> USE <1>5 DEF Stage1Arms, ArmStage2
  <2>1. /\ DOMAIN pc' = Threads
        /\ \A u \in Threads : u # TimerTask => pc'[u] = pc[u]
    OBVIOUS
  <2>2. timers \in [TimerNames -> {"null", "idle", "armed"}]
    BY InParts DEF RestTyped
  <2>3. (Undone => Undone') /\ (~Undone' => PortalParts /\ TimerParts /\ CustomParts /\ UriParts)
    BY DEF Undone, Parts
  <2>4. ASSUME ~Undone'
        PROVE  PortalParts' /\ TimerParts' /\ CustomParts' /\ UriParts' /\ fault' = "none"
    BY <2>1, <2>2, <2>3, <2>4 DEF PortalParts, TimerParts, CustomParts, UriParts, Closed,
       TimerNames, NoTimers
  <2>9. Undoing'
    BY <2>1, <2>3 DEF Undoing, Undone, UriParts, Parts
  <2> QED
    BY <2>4, <2>9 DEF Parts
<1>6. CASE Stage2Fires
  <2> USE <1>6 DEF Stage2Fires, Fire
  <2>1. /\ DOMAIN pc' = Threads
        /\ \A u \in Threads : u # TimerTask => pc'[u] = pc[u]
    OBVIOUS
  <2>2. timers \in [TimerNames -> {"null", "idle", "armed"}]
    BY InParts DEF RestTyped
  <2>3. (Undone => Undone') /\ (~Undone' => PortalParts /\ TimerParts /\ CustomParts /\ UriParts)
    BY DEF Undone, Parts
  <2>10. \A u \in Threads : pc[u] \notin Stopping
    BY FiresAlone
  <2>11. up
    BY <2>2, <2>10 DEF Held, Stage2Held
  <2>12. ~Undone
    BY <2>11 DEF Undoing
  <2>4. ASSUME ~Undone'
        PROVE  PortalParts' /\ TimerParts' /\ CustomParts' /\ UriParts' /\ fault' = "none"
    BY <2>1, <2>2, <2>3, <2>4, <2>10, <2>11, <2>12 DEF PortalParts, TimerParts,
       CustomParts, UriParts, Closed,
       TimerNames, NoTimers
  <2>9. Undoing'
    BY <2>1, <2>3, <2>10, <2>11, <2>12 DEF Undoing, Undone, UriParts, Parts
  <2> QED
    BY <2>4, <2>9 DEF Parts
<1>7. CASE StopTaskCleansUp
  <2> USE <1>7 DEF StopTaskCleansUp, LeaveStopping, Session!EndStop, Session!Enter
  <2>1. /\ DOMAIN pc' = Threads
        /\ \A u \in Threads : u # StopTask => pc'[u] = pc[u]
    OBVIOUS
  <2>2. timers \in [TimerNames -> {"null", "idle", "armed"}]
    BY InParts DEF RestTyped
  <2>3. (Undone => Undone') /\ (~Undone' => PortalParts /\ TimerParts /\ CustomParts /\ UriParts)
    BY DEF Undone, Parts
  <2>4. ASSUME ~Undone'
        PROVE  PortalParts' /\ TimerParts' /\ CustomParts' /\ UriParts' /\ fault' = "none"
    BY <2>1, <2>2, <2>3, <2>4 DEF PortalParts, TimerParts, CustomParts, UriParts, Closed,
       TimerNames, NoTimers
  <2>9. Undoing'
    BY <2>1, <2>3 DEF Undoing, Undone, UriParts, Parts
  <2> QED
    BY <2>4, <2>9 DEF Parts
<1>8. CASE StopTaskEmits
  <2> USE <1>8 DEF StopTaskEmits, EmitEnd
  <2>1. /\ DOMAIN pc' = Threads
        /\ \A u \in Threads : u # StopTask => pc'[u] = pc[u]
    OBVIOUS
  <2>2. timers \in [TimerNames -> {"null", "idle", "armed"}]
    BY InParts DEF RestTyped
  <2>3. (Undone => Undone') /\ (~Undone' => PortalParts /\ TimerParts /\ CustomParts /\ UriParts)
    BY DEF Undone, Parts
  <2>4. ASSUME ~Undone'
        PROVE  PortalParts' /\ TimerParts' /\ CustomParts' /\ UriParts' /\ fault' = "none"
    BY <2>1, <2>2, <2>3, <2>4 DEF PortalParts, TimerParts, CustomParts, UriParts, Closed,
       TimerNames, NoTimers
  <2>9. Undoing'
    BY <2>1, <2>3 DEF Undoing, Undone, UriParts, Parts
  <2> QED
    BY <2>4, <2>9 DEF Parts
<1>9. CASE HandleEnd
  <2> USE <1>9 DEF HandleEnd
  <2>1. /\ DOMAIN pc' = Threads
        /\ \A u \in Threads : u # EventLoop => pc'[u] = pc[u]
    OBVIOUS
  <2>2. timers \in [TimerNames -> {"null", "idle", "armed"}]
    BY InParts DEF RestTyped
  <2>3. (Undone => Undone') /\ (~Undone' => PortalParts /\ TimerParts /\ CustomParts /\ UriParts)
    BY DEF Undone, Parts
  <2>4. ASSUME ~Undone'
        PROVE  PortalParts' /\ TimerParts' /\ CustomParts' /\ UriParts' /\ fault' = "none"
    BY <2>1, <2>2, <2>3, <2>4 DEF PortalParts, TimerParts, CustomParts, UriParts, Closed,
       TimerNames, NoTimers
  <2>9. Undoing'
    BY <2>1, <2>3 DEF Undoing, Undone, UriParts, Parts
  <2> QED
    BY <2>4, <2>9 DEF Parts
<1>10. CASE Deinit
  <2> USE <1>10 DEF Deinit, Session!Destroy
  <2>1. /\ DOMAIN pc' = Threads
        /\ \A u \in Threads : u # EventLoop => pc'[u] = pc[u]
    OBVIOUS
  <2>2. timers \in [TimerNames -> {"null", "idle", "armed"}]
    BY InParts DEF RestTyped
  <2>3. (Undone => Undone') /\ (~Undone' => PortalParts /\ TimerParts /\ CustomParts /\ UriParts)
    BY DEF Undone, Parts
  <2>4. ASSUME ~Undone'
        PROVE  PortalParts' /\ TimerParts' /\ CustomParts' /\ UriParts' /\ fault' = "none"
    BY <2>1, <2>2, <2>3, <2>4 DEF PortalParts, TimerParts, CustomParts, UriParts, Closed,
       TimerNames, NoTimers
  <2>9. Undoing'
    BY <2>1, <2>3 DEF Undoing, Undone, UriParts, Parts
  <2> QED
    BY <2>4, <2>9 DEF Parts
<1>11. CASE Leave
  <2> USE <1>11 DEF Leave, LeaveEvents
  <2>1. /\ DOMAIN pc' = Threads
        /\ \A u \in Threads : u # EventLoop => pc'[u] = pc[u]
    OBVIOUS
  <2>2. timers \in [TimerNames -> {"null", "idle", "armed"}]
    BY InParts DEF RestTyped
  <2>3. (Undone => Undone') /\ (~Undone' => PortalParts /\ TimerParts /\ CustomParts /\ UriParts)
    BY DEF Undone, Parts
  <2>4. ASSUME ~Undone'
        PROVE  PortalParts' /\ TimerParts' /\ CustomParts' /\ UriParts' /\ fault' = "none"
    BY <2>1, <2>2, <2>3, <2>4 DEF PortalParts, TimerParts, CustomParts, UriParts, Closed,
       TimerNames, NoTimers
  <2>9. Undoing'
    BY <2>1, <2>3 DEF Undoing, Undone, UriParts, Parts
  <2> QED
    BY <2>4, <2>9 DEF Parts
<1>12. CASE DnsTask
  <2> USE <1>12 DEF DnsTask, Portal!DnsTaskEnds
  <2>1. /\ DOMAIN pc' = Threads
        /\ \A u \in Threads : u # TimerTask => pc'[u] = pc[u]
    OBVIOUS
  <2>2. timers \in [TimerNames -> {"null", "idle", "armed"}]
    BY InParts DEF RestTyped
  <2>3. (Undone => Undone') /\ (~Undone' => PortalParts /\ TimerParts /\ CustomParts /\ UriParts)
    BY DEF Undone, Parts
  <2>4. ASSUME ~Undone'
        PROVE  PortalParts' /\ TimerParts' /\ CustomParts' /\ UriParts' /\ fault' = "none"
    BY <2>1, <2>2, <2>3, <2>4 DEF PortalParts, TimerParts, CustomParts, UriParts, Closed,
       TimerNames, NoTimers
  <2>9. Undoing'
    BY <2>1, <2>3 DEF Undoing, Undone, UriParts, Parts
  <2> QED
    BY <2>4, <2>9 DEF Parts
<1>13. CASE UNCHANGED vars
  <2> USE <1>13 DEF vars, obs
  <2>1. /\ DOMAIN pc' = Threads
        /\ \A u \in Threads : u # TimerTask => pc'[u] = pc[u]
    OBVIOUS
  <2>2. timers \in [TimerNames -> {"null", "idle", "armed"}]
    BY InParts DEF RestTyped
  <2>3. (Undone => Undone') /\ (~Undone' => PortalParts /\ TimerParts /\ CustomParts /\ UriParts)
    BY DEF Undone, Parts
  <2>4. ASSUME ~Undone'
        PROVE  PortalParts' /\ TimerParts' /\ CustomParts' /\ UriParts' /\ fault' = "none"
    BY <2>1, <2>2, <2>3, <2>4 DEF PortalParts, TimerParts, CustomParts, UriParts, Closed,
       TimerNames, NoTimers
  <2>9. Undoing'
    BY <2>1, <2>3 DEF Undoing, Undone, UriParts, Parts
  <2> QED
    BY <2>4, <2>9 DEF Parts
<1> QED
  BY <1>1, <1>2, <1>3, <1>4, <1>5, <1>6, <1>7, <1>8, <1>9, <1>10, <1>11, <1>12, <1>13
     DEF vars

\* What is inductive while the two races are excluded.
Inv == TypeOK /\ Held /\ Parts /\ Undoing

LEMMA InvInit ==
    ASSUME Init
    PROVE  Held /\ Parts /\ Undoing
<1>1. Undone = FALSE /\ Closed /\ timers = NoTimers
  BY DEF Init, Undone, Closed, Portal!PortalInit
<1>2. Parts
  BY <1>1 DEF Init, Parts, PortalParts, TimerParts, CustomParts, UriParts, Session!Init,
     Portal!PortalInit, Threads
<1>3. Undoing
  BY <1>1 DEF Init, Undoing
<1> QED
  BY <1>2, <1>3, HeldInit

LEMMA InvStep ==
    ASSUME Inv, Orderly, [Next]_vars
    PROVE  Inv'
<1>1. TypeOK' /\ Held'
  BY TypeStep, HeldStep DEF Inv
<1>2. CASE UNCHANGED vars
  <2>1. (Parts' <=> Parts) /\ (Undoing' <=> Undoing)
    BY <1>2 DEF vars, session, portal, web, obs, Parts, PortalParts, TimerParts,
       CustomParts,
       UriParts, Undoing, Undone, Closed, Unheld, Holding
  <2> QED
    BY <1>1, <2>1 DEF Inv
<1>3. CASE Next
  <2>1. Parts' /\ Undoing'
    BY <1>1, <1>3, StartParts, StopParts, OtherParts DEF Inv, Next
  <2> QED
    BY <1>1, <2>1 DEF Inv
<1> QED
  BY <1>2, <1>3

\* The invariant, with its types, holds in every state.
THEOREM InvAlways ==
    ASSUME Orderly
    PROVE  Spec => []Inv
<1>1. Init => Held /\ Parts /\ Undoing
  BY InvInit
<1>2. Inv /\ [Next]_vars => Inv'
  BY InvStep
<1>3. TypeOK /\ Held /\ Parts /\ Undoing <=> Inv
  BY DEF Inv
<1> QED
  BY <1>1, <1>2, <1>3, TypeCorrect, PTL DEF Spec

\* A manager that has started has all its parts until its stop begins
\* (prov_webpage_mgr_start, wifi_prov_event_handler), whatever fails.
THEOREM StartedIsWhole ==
    ASSUME Orderly
    PROVE  Spec => []Whole
<1>1. Inv => Whole
  BY DEF Inv, Held, UpPhase, Listening, Parts, TimerParts, CustomParts, UriParts,
     Undoing, Whole
<1> QED
  BY <1>1, InvAlways, PTL

\* With no session and nobody at work nothing of a session is left
\* (prov_webpage_mgr_stop), but for what the error path of a start leaves.
THEOREM NothingIsLeft ==
    ASSUME Orderly
    PROVE  Spec => []NothingLeft
<1>1. Inv => NothingLeft
  <2> SUFFICES ASSUME Inv, phase = "down", Idle, ~ends, ~Undone
               PROVE  /\ Closed /\ ~uris /\ ~custom /\ ~handlers
                      /\ timers = NoTimers
    BY DEF NothingLeft, Closed
  <2>1. \A t \in Threads : pc[t] = "idle"
    BY DEF Idle
  <2>2. ~up /\ ~handlers
    BY <2>1 DEF Inv, Held, UpPhase, DownPhase, Threads
  <2> QED
    BY <2>1, <2>2 DEF Inv, Parts, PortalParts, TimerParts, CustomParts, UriParts, Stopping
<1> QED
  BY <1>1, InvAlways, PTL

\* No sequence of starts, stops, commands and timers meets a URI that is there
\* already, a missing context or a portal that is gone (prov_webpage_mgr.c), until
\* the error path of a start has been taken.
THEOREM NothingFaults ==
    ASSUME Orderly
    PROVE  Spec => []NoFault
<1>1. Inv => NoFault
  BY DEF Inv, Parts, NoFault
<1> QED
  BY <1>1, InvAlways, PTL

\* The portal is closed before the service begins to stop (prov_webpage_mgr_stop).
THEOREM PortalGoesFirst ==
    ASSUME Orderly
    PROVE  Spec => PortalFirst
<1>1. Inv /\ [Next]_vars
        => [phase = "active" /\ phase' = "stopping" /\ ~Undone =>
               ~isStarted /\ getHandler = "app"]_vars
  <2> SUFFICES ASSUME Inv, Next, phase = "active", phase' = "stopping", ~Undone
               PROVE  Closed
    BY DEF Closed
  <2>1. PICK t \in Threads : StopHalt(t) \/ StartUndo(t)
    <3>1. ASSUME NEW t \in Threads, Start(t), ~StartUndo(t) PROVE FALSE
      BY <3>1 DEF Start, StartInit, StartRegister, StartRegisterFails,
         StartProvisioning, StartService, StartServiceFails, StartEndpoint,
         StartEndpointFails, StartPortal, StartPortalNoTask, StartPortalFails, AbortPortal,
         GiveUpPortal, StartTimers,
         StartTimersFail, Session!Create,
         Session!BeginStart, Session!EndStart, Session!CancelStart, Session!Enter, session
    <3>2. ASSUME NEW t \in Threads, Stop(t), ~StopHalt(t) PROVE FALSE
      BY <3>2 DEF Stop, CallStop, StopPortal, StopUnregister, StopHalt, StopHandOver,
         StopUris, StopTimers, Session!HandOver, Session!Enter, session
    <3>3. ~((\E timer \in {"reset", "stage1"} : PageCommand(timer)) \/ ResetFires \/ ResetCallback
             \/ Stage1Fires \/ Stage1Arms \/ Stage2Fires \/ StopTaskCleansUp \/ StopTaskEmits
             \/ HandleEnd \/ Deinit \/ Leave \/ DnsTask)
      BY DEF PageCommand, ResetFires, ResetCallback, Stage1Fires, Stage1Arms, Stage2Fires,
         Fire, StopTaskCleansUp, StopTaskEmits, HandleEnd, Deinit, Leave, DnsTask,
         LeaveStopping, Session!EndStop, Session!Enter, Session!Destroy, session
    <3> QED
      BY <3>1, <3>2, <3>3 DEF Next
  <2>2. pc[t] = "halt"
    BY <2>1 DEF Inv, Undoing, StopHalt, StartUndo, Step
  <2>3. ~up /\ \A u \in Threads : pc[u] \notin {"timers", "stop", "wait_dns"}
    BY <2>2 DEF Inv, Held, OneHolds, HeldPhase, Holding, Starting, Stopping
  <2> QED
    BY <2>3 DEF Inv, Parts, PortalParts
<1> QED
  BY <1>1, InvAlways, PTL DEF Spec, PortalFirst
=============================================================================
